---------------------------- MODULE MCActuator ----------------------------
(***************************************************************************)
(* A small instance of Actuator: actions on both sides of every bound of   *)
(* the validator, single-field and cross-subsystem batches, and a kernel   *)
(* whose starting value of one field is itself out of bounds.              *)
(***************************************************************************)
EXTENDS Actuator, TLC

MCNames == {"cubic", "bbr", "unknown", "a;b"}

Spelled(n, u, p) == [name |-> n, upper |-> u, padded |-> p]

MCInitKernel ==
  [target_latency_us |-> 6000000, wakeup_granularity_us |-> 1000000,
   migration_cost_ns |-> 500000, swappiness |-> 150, dirty_ratio |-> 20,
   dirty_background_ratio |-> 10, queue_limit |-> 1000,
   congestion_control |-> Spelled("cubic", FALSE, FALSE)]

MCRegistered == {Spelled("cubic", FALSE, FALSE), Spelled("bbr", FALSE, FALSE)}

MCKIRs ==
  {[util |-> 50, pressure |-> p, rx |-> None] : p \in {None, 80, 81}}

Sched(l, g) == [target_latency_us |-> l, wakeup_granularity_us |-> g]

Accepted ==
  {Sched(1000, 1000),
   "migration_cost_ns" :> 0,
   [dirty_ratio |-> 10, dirty_background_ratio |-> 10],
   [target_latency_us |-> 24000, swappiness |-> 100, queue_limit |-> 5000],
   [queue_limit |-> 1, congestion_control |-> Spelled("bbr", FALSE, TRUE)],
   [queue_limit |-> 5000, congestion_control |-> Spelled("cubic", TRUE, FALSE)]}

Refused ==
  {Sched(999, 100), Sched(24001, 100), Sched(2000, 2001), Sched(2000, 99),
   "migration_cost_ns" :> -1, "migration_cost_ns" :> 500001,
   "swappiness" :> 101, "swappiness" :> -1,
   [dirty_ratio |-> 10, dirty_background_ratio |-> 11],
   "dirty_ratio" :> 101, "dirty_background_ratio" :> -1,
   "queue_limit" :> 0, "queue_limit" :> 5001,
   [swappiness |-> 50, congestion_control |-> Spelled("unknown", FALSE, FALSE)],
   "congestion_control" :> Spelled("a;b", FALSE, FALSE)}

MCActions == Accepted \cup Refused \cup {NoCommands}
=============================================================================
