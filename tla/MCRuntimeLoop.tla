--------------------------- MODULE MCRuntimeLoop ---------------------------
(***************************************************************************)
(* Small instances of RuntimeLoop: readings on both sides of every         *)
(* threshold, a learned policy whose raw output lies below, inside and     *)
(* above its band, and foreign policies that propose too much, or a name   *)
(* that the validator accepts and the kernel refuses.                      *)
(***************************************************************************)
EXTENDS RuntimeLoop, TLC

MCNames == {"cubic", "bbr", "unknown"}

Spelled(n, u, p) == [name |-> n, upper |-> u, padded |-> p]

MCInitKernel ==
  [target_latency_us |-> 6000000, wakeup_granularity_us |-> 1000000,
   migration_cost_ns |-> 500000, swappiness |-> 60, dirty_ratio |-> 20,
   dirty_background_ratio |-> 10, queue_limit |-> 1000,
   congestion_control |-> Spelled("cubic", FALSE, FALSE)]

MCRegistered == {Spelled("cubic", FALSE, FALSE), Spelled("bbr", FALSE, FALSE)}

Reading(u, p, r) == [util |-> u, pressure |-> p, rx |-> r]

MCKIRs ==
  {Reading(50, None, None), Reading(81, 80, 1001), Reading(70, 81, 1001)}

DeadbandKIRs == {Reading(u, None, None) : u \in {69, 70, 80, 81}}

MCLearnedRaw == {500, 30000}

ShortLatency == {2000}

MCForeign ==
  {[target_latency_us |-> 999999],
   [queue_limit |-> 5000, congestion_control |-> Spelled("bbr", TRUE, TRUE)]}

NoActions == {}

MCActions ==
  UNION {Proposals(kind, KIRs) : kind \in StartKinds \cup SwapKinds}
=============================================================================
