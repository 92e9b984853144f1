---------------------------- MODULE AtomicTuning ----------------------------
(***************************************************************************)
(* What applying an action promises: the kernel configuration changes by a *)
(* whole approved batch at a time, or not at all.  A part of an approved   *)
(* batch is left behind only by a kill or, one field at a time, by a       *)
(* restoring write that fails while a batch is undone.                     *)
(***************************************************************************)
EXTENDS PolicyABI

CONSTANTS
  Batches,       \* the rendered batches the validator may approve
  InitConfig     \* the configuration found at start

VARIABLES
  config,        \* the configuration in force between calls
  kills,         \* how often the process was killed
  failures,      \* how many writes failed
  undoing        \* whether a batch is being undone and that may fail

Init == config = InitConfig /\ kills = 0

Killed == kills' = kills + 1

Survived == UNCHANGED kills

Change(b, S) == config' = Overlay(config, [f \in S |-> b[f]])

Commit(b) == Survived /\ UNCHANGED failures /\ config' = Overlay(config, b)

Tear(b) == Killed /\ \E S \in SUBSET DOMAIN b : Change(b, S)

NotUndone(b) ==
  /\ undoing /\ failures' = failures + 1
  /\ Survived
  /\ \E f \in DOMAIN b : Change(b, {f})

Next ==
  \/ \E b \in Batches : Commit(b) \/ Tear(b) \/ NotUndone(b)
  \/ Killed /\ UNCHANGED config

Spec == Init /\ [][Next]_<<config, kills>>
=============================================================================
