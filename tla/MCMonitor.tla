----------------------------- MODULE MCMonitor -----------------------------
(***************************************************************************)
(* Small instances of SchedulerMonitor: CPUs and tasks are model values,   *)
(* interchangeable among themselves.                                       *)
(***************************************************************************)
EXTENDS SchedulerMonitor, TLC

MCSymmetry == Permutations(CPUs) \cup Permutations(Tasks)
=============================================================================
