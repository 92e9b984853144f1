----------------------------- MODULE Validator -----------------------------
(***************************************************************************)
(* The deterministic validator (learned_kernel/validator/core.py): the     *)
(* verdict on a proposed action given the observation it was made from,    *)
(* and what the bounds mean for a kernel configuration.                    *)
(***************************************************************************)
EXTENDS PolicyABI

MIN_TARGET_LATENCY_US == 1000
MAX_TARGET_LATENCY_US == 24000
MIN_WAKEUP_GRANULARITY_US == 100
MAX_MIGRATION_COST_NS == 500000
MAX_QUEUE_LIMIT == 5000
MIN_SWAPPINESS == 0
MAX_SWAPPINESS == 100
CRITICAL_PRESSURE == 80

ALLOWED_CONGESTION_CONTROL ==
  {[name |-> n, upper |-> FALSE, padded |-> FALSE] :
     n \in {"cubic", "bbr", "reno", "westwood"}}

Sets(a, f) == f \in DOMAIN a

\* Mutant of SchedulerOK: a bound is not checked.
Mutant_NoLowerBound(a) ==
  /\ Sets(a, "target_latency_us") => a["target_latency_us"] <= MAX_TARGET_LATENCY_US
  /\ Sets(a, "wakeup_granularity_us") =>
       a["wakeup_granularity_us"] >= MIN_WAKEUP_GRANULARITY_US
  /\ Sets(a, "migration_cost_ns") =>
       a["migration_cost_ns"] \in 0 .. MAX_MIGRATION_COST_NS

SchedulerOK(a) ==
  /\ Sets(a, "target_latency_us") =>
       a["target_latency_us"] \in MIN_TARGET_LATENCY_US .. MAX_TARGET_LATENCY_US
  /\ Sets(a, "wakeup_granularity_us") =>
       /\ a["wakeup_granularity_us"] >= MIN_WAKEUP_GRANULARITY_US
       /\ Sets(a, "target_latency_us") =>
            a["wakeup_granularity_us"] <= a["target_latency_us"]
  /\ Sets(a, "migration_cost_ns") =>
       a["migration_cost_ns"] \in 0 .. MAX_MIGRATION_COST_NS

VMOK(a) ==
  /\ Sets(a, "swappiness") => a["swappiness"] \in MIN_SWAPPINESS .. MAX_SWAPPINESS
  /\ Sets(a, "dirty_ratio") => a["dirty_ratio"] \in 0 .. 100
  /\ Sets(a, "dirty_background_ratio") =>
       /\ a["dirty_background_ratio"] \in 0 .. 100
       /\ Sets(a, "dirty_ratio") =>
            a["dirty_background_ratio"] <= a["dirty_ratio"]

NetworkOK(a) ==
  /\ Sets(a, "congestion_control") =>
       Lower(Strip(a["congestion_control"])) \in ALLOWED_CONGESTION_CONTROL
  /\ Sets(a, "queue_limit") => a["queue_limit"] \in 1 .. MAX_QUEUE_LIMIT

(* Missing memory telemetry does not count as healthy memory.              *)
MemoryHealthy(k) == k.pressure # None /\ k.pressure <= CRITICAL_PRESSURE

JointOK(k, a) ==
  (Sets(a, "queue_limit") /\ a["queue_limit"] >= MAX_QUEUE_LIMIT)
    => MemoryHealthy(k)

ValidateAction(k, a) == SchedulerOK(a) /\ VMOK(a) /\ NetworkOK(a) /\ JointOK(k, a)

-----------------------------------------------------------------------------
(***************************************************************************)
(* What the bounds promise about the kernel (values in the kernel's own    *)
(* units).  SafeSetting is the per-field tier, JointSafe the two relations *)
(* between fields that the validator checks inside one action.             *)
(***************************************************************************)
SafeSetting(f, x) ==
  /\ f = "target_latency_us" =>
       x \in 1000 * MIN_TARGET_LATENCY_US .. 1000 * MAX_TARGET_LATENCY_US
  /\ f = "wakeup_granularity_us" => x >= 1000 * MIN_WAKEUP_GRANULARITY_US
  /\ f = "migration_cost_ns" => x \in 0 .. MAX_MIGRATION_COST_NS
  /\ f = "swappiness" => x \in MIN_SWAPPINESS .. MAX_SWAPPINESS
  /\ f \in {"dirty_ratio", "dirty_background_ratio"} => x \in 0 .. 100
  /\ f = "queue_limit" => x \in 1 .. MAX_QUEUE_LIMIT
  /\ f = "congestion_control" => x \in ALLOWED_CONGESTION_CONTROL

JointSafe(s) ==
  /\ s["wakeup_granularity_us"] <= s["target_latency_us"]
  /\ s["dirty_background_ratio"] <= s["dirty_ratio"]
=============================================================================
