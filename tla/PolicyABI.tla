----------------------------- MODULE PolicyABI -----------------------------
(***************************************************************************)
(* The data the control loop passes around (learned_kernel/policy/         *)
(* schemas.py and the sysctl tables of learned_kernel/runtime/loop.py).    *)
(*                                                                         *)
(* A PolicyAction is the partial function from tunable fields to the       *)
(* values it sets: a field whose Optional is None, or whose whole section  *)
(* is None, is outside its domain (validator, actuator and simulator test  *)
(* nothing else).  An observation (KIR) is a record of the readings a      *)
(* decision depends on: mean utilisation and memory pressure in hundredths,*)
(* receive backlog in packets; None is missing telemetry.                  *)
(***************************************************************************)
EXTENDS Integers

CONSTANTS
  None,        \* Python's None
  Names        \* case-folded names a congestion_control string may spell

SchedulerFields ==
  {"target_latency_us", "wakeup_granularity_us", "migration_cost_ns"}

VMFields == {"swappiness", "dirty_ratio", "dirty_background_ratio"}

NetFields == {"queue_limit", "congestion_control"}

Fields == SchedulerFields \cup VMFields \cup NetFields

NumericFields == Fields \ {"congestion_control"}

(***************************************************************************)
(* A congestion_control string is a free-form str: the name it spells, and *)
(* whether it has upper-case letters or surrounding blanks.                *)
(***************************************************************************)
Spellings == [name : Names, upper : BOOLEAN, padded : BOOLEAN]

Strip(c) == [c EXCEPT !.padded = FALSE]

Lower(c) == [c EXCEPT !.upper = FALSE]

(* Actions are type-correct and nothing more: bounds are the validator's.  *)
IsAction(a) ==
  /\ DOMAIN a \subseteq Fields
  /\ \A f \in DOMAIN a \cap NumericFields : a[f] \in Int
  /\ "congestion_control" \in DOMAIN a => a["congestion_control"] \in Spellings

IsKIR(k) ==
  /\ k.util \in 0..100
  /\ k.pressure = None \/ k.pressure \in 0..100
  /\ k.rx = None \/ k.rx \in Nat

(***************************************************************************)
(* The kernel's side of a field: the order plan() emits the commands in,   *)
(* and the value it writes for a proposed one (microseconds become         *)
(* nanoseconds, a congestion-control name is stripped).                    *)
(***************************************************************************)
Rank ==
  [target_latency_us |-> 1, wakeup_granularity_us |-> 2,
   migration_cost_ns |-> 3, swappiness |-> 4, dirty_ratio |-> 5,
   dirty_background_ratio |-> 6, queue_limit |-> 7, congestion_control |-> 8]

\* Mutant of Scale: the latency is written as it was proposed.
Mutant_LatencyUnscaled(f) == IF f = "wakeup_granularity_us" THEN 1000 ELSE 1

Scale(f) ==
  IF f \in {"target_latency_us", "wakeup_granularity_us"} THEN 1000 ELSE 1

Rendered(f, v) ==
  IF f = "congestion_control" THEN Strip(v) ELSE v * Scale(f)

Rendering(a) == [f \in DOMAIN a |-> Rendered(f, a[f])]

First(f, S) == f \in S /\ \A g \in S : Rank[f] <= Rank[g]

Last(f, S) == f \in S /\ \A g \in S : Rank[g] <= Rank[f]

(* The update of a configuration by a partial assignment of its fields.    *)
Overlay(s, b) == [f \in Fields |-> IF f \in DOMAIN b THEN b[f] ELSE s[f]]
=============================================================================
