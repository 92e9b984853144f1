------------------------------ MODULE Policies ------------------------------
(***************************************************************************)
(* The policies behind the Policy ABI (learned_kernel/policy/core.py,      *)
(* policy/joint_policy.py, trainer/rl_trainer.py): what decide() may       *)
(* return for an observation, and the state it leaves behind.              *)
(*                                                                         *)
(* A policy object is a record: its kind and, for the heuristic, _tight    *)
(* and _last_emitted (the action itself stands for its parameter pair).    *)
(* "foreign" is any other object with a decide(): user code that may       *)
(* propose anything, or raise.                                             *)
(***************************************************************************)
EXTENDS PolicyABI

CONSTANTS
  LearnedRaw,      \* values w . f + bias may have, before clipping
  ForeignActions   \* actions a foreign policy may propose

ASSUME LearnedRawAssumption == LearnedRaw \subseteq Int

ASSUME ForeignActionsAssumption == \A a \in ForeignActions : IsAction(a)

Kinds == {"baseline", "heuristic", "joint", "learned", "foreign"}

SchedulerAction(lat, gran) ==
  [target_latency_us |-> lat, wakeup_granularity_us |-> gran]

ENTER_TIGHT == 80
EXIT_TIGHT == 70
TIGHT_PARAMS == SchedulerAction(2000, 500)
LOOSE_PARAMS == SchedulerAction(12000, 3000)

\* Mutant of Fresh: a new policy takes the relaxed parameters to be in force.
Mutant_AssumedLoose(kind) == [kind |-> kind, tight |-> FALSE, last |-> LOOSE_PARAMS]

Fresh(kind) == [kind |-> kind, tight |-> FALSE, last |-> None]

(* A decision: the action or None, and the policy object afterwards.       *)
Decision(a, p) == [action |-> a, policy |-> p]

-----------------------------------------------------------------------------
\* Mutants of TightMode: no deadband; tight mode is not kept.
Mutant_NoDeadband(p, k) == k.util > 75

Mutant_NotKept(p, k) == ~p.tight /\ k.util > ENTER_TIGHT

(* HeuristicLatencyPolicy: a deadband, and no repetition of a decision.    *)
TightMode(p, k) ==
  \/ ~p.tight /\ k.util > ENTER_TIGHT
  \/ p.tight /\ ~(k.util < EXIT_TIGHT)

HeuristicDecision(p, k) ==
  LET tight == TightMode(p, k)
      params == IF tight THEN TIGHT_PARAMS ELSE LOOSE_PARAMS
  IN  Decision(IF params = p.last THEN None ELSE params,
               [p EXCEPT !.tight = tight, !.last = params])

(* JointHeuristicPolicy: memory pressure overrides a receive backlog.      *)
Backlogged(k) == k.rx # None /\ k.rx > 1000

MemoryCritical(k) == k.pressure # None /\ k.pressure > 80

JointParams(k) ==
  CASE MemoryCritical(k) -> <<12000, 100, 1000>>
    [] Backlogged(k) /\ ~MemoryCritical(k) -> <<2000, 10, 4000>>
    [] OTHER -> <<6000, 60, 1000>>

JointAction(k) ==
  [target_latency_us |-> JointParams(k)[1], swappiness |-> JointParams(k)[2],
   queue_limit |-> JointParams(k)[3]]

\* Mutant of Clip: the band of the trainer's bias is taken for the validator's.
Mutant_NotClippedBelow(raw) ==
  IF raw < 500 THEN 500 ELSE IF raw > 24000 THEN 24000 ELSE raw

(* LearnedLinearPolicy: the linear term is data; clipping is what it does. *)
Clip(raw) ==
  IF raw < 1000 THEN 1000 ELSE IF raw > 24000 THEN 24000 ELSE raw

LearnedAction(raw) == [f \in {"target_latency_us"} |-> Clip(raw)]

(* What decide() may return, by kind.                                      *)
Decisions(p, k) ==
  CASE p.kind = "baseline" -> {Decision(None, p)}
    [] p.kind = "heuristic" -> {HeuristicDecision(p, k)}
    [] p.kind = "joint" -> {Decision(JointAction(k), p)}
    [] p.kind = "learned" -> {Decision(LearnedAction(raw), p) : raw \in LearnedRaw}
    [] p.kind = "foreign" -> {Decision(a, p) : a \in ForeignActions \cup {None}}

MayRaise(p) == p.kind = "foreign"

(* The actions a kind of policy proposes for observations among ks.        *)
Proposals(kind, ks) ==
  CASE kind = "baseline" -> {}
    [] kind = "heuristic" -> {TIGHT_PARAMS, LOOSE_PARAMS}
    [] kind = "joint" -> {JointAction(k) : k \in ks}
    [] kind = "learned" -> {LearnedAction(raw) : raw \in LearnedRaw}
    [] kind = "foreign" -> ForeignActions

PolicyObjects ==
  [kind : Kinds, tight : BOOLEAN, last : {None, TIGHT_PARAMS, LOOSE_PARAMS}]
=============================================================================
