------------------------------ MODULE MCOnline ------------------------------
(***************************************************************************)
(* Small instances of OnlineLoop: the two workloads of online_demo.py and, *)
(* of the first, a clock that stood still and, of the second, a counter    *)
(* that was reset; these earn what their healthy counterparts do, so that  *)
(* the window has two levels.                                              *)
(***************************************************************************)
EXTENDS OnlineLoop, TLC

MCNames == {"cubic"}

MCInitKernel ==
  [target_latency_us |-> 6000000, wakeup_granularity_us |-> 1000000,
   migration_cost_ns |-> 500000, swappiness |-> 60, dirty_ratio |-> 20,
   dirty_background_ratio |-> 10, queue_limit |-> 1000,
   congestion_control |-> [name |-> "cubic", upper |-> FALSE, padded |-> FALSE]]

Reading(u) == [util |-> u, pressure |-> None, rx |-> None]

MCKIRs == {Reading(15), Reading(92)}

Transition(dt, switches, latency, u) ==
  [kir |-> Reading(u),
   sample |-> [dt |-> dt, switches |-> switches, latency |-> latency, util |-> u]]

MCTransitions ==
  {Transition(1000, 4000, 15, 15), Transition(0, 250, 15, 15),
   Transition(100, 0, 140, 92), Transition(100, -5000, 140, 92)}

MCRewards == {StepReward(t.sample) : t \in MCTransitions}

MCLearnedRaw == {500, 7000}

MCForeign == {[target_latency_us |-> 999999]}

MCActions ==
  UNION {Proposals(kind, KIRs) : kind \in TrainedKinds \cup {"heuristic"}}
=============================================================================
