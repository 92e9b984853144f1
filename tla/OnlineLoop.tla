----------------------------- MODULE OnlineLoop -----------------------------
(***************************************************************************)
(* The driver of online_demo.py: a cycle observes, adds the reward of the  *)
(* transition to the drift manager's window, adapts and swaps the policy   *)
(* on an alarm, decides, judges, actuates and records the decision in the  *)
(* audit log.  It does not call step(): it judges an action itself, and    *)
(* then calls the actuator without passing the verdict on.                 *)
(*                                                                         *)
(* The log is its content's meaning: what its entries say was actuated     *)
(* (ProvenanceLog is about the file).  A process ends when it is killed,   *)
(* when the script is through, or when training or logging raises, for     *)
(* which it has no handler; another may be started.                        *)
(***************************************************************************)
EXTENDS Actuator, Policies, DriftManager, Reward

CONSTANTS
  Transitions,   \* what may be observed: a KIR, and the sample it completes
  TrainedKinds,  \* kinds of policy the manager's trainer may return
  LoggingFails   \* whether record_decision() may raise

ASSUME TransitionsAssumption ==
  /\ \A t \in Transitions :
       t.kir \in KIRs /\ IsSample(t.sample) /\ StepReward(t.sample) \in Rewards
  /\ LoggingFails \in BOOLEAN

\* The trainer is injected; the demo's returns learned policies.  The actuator
\* is only ever given what one of the policies proposes.  Alarms are never
\* consumed by check_drift().
ASSUME OnlineAssumption ==
  /\ FALSE \in Consumes
  /\ TrainedKinds \subseteq Kinds /\ TrainedKinds # {}
  /\ \A kind \in TrainedKinds \cup {"heuristic"} : Proposals(kind, KIRs) \subseteq Actions

VARIABLES
  pc,       \* where the cycle is; "down" between two processes
  policy,   \* runtime.policy
  kir,      \* curr_state, or None before the first cycle
  entry,    \* action, is_valid and whether val_error is set
  told,     \* the configuration the log accounts for
  missed,   \* the fields whose last change it may lack
  stale     \* rewards in the window earned under an earlier policy

cycleVars == <<pc, policy, kir, entry, told, missed, stale>>

onlineVars == <<cycleVars, actuatorVars, driftVars>>

Entry(action, valid, error) == [action |-> action, valid |-> valid, error |-> error]

NoEntry == Entry(None, FALSE, FALSE)

OnlineInit ==
  /\ ActuatorInit
  /\ DriftInit
  /\ pc = "observe"
  /\ policy = Fresh("heuristic")
  /\ kir = None
  /\ entry = NoEntry
  /\ told = InitKernel
  /\ missed = {}
  /\ stale = 0

-----------------------------------------------------------------------------
(* The first observation of a process has nothing to be compared with.     *)
ObserveFirst(t) ==
  /\ pc = "observe" /\ kir = None
  /\ kir' = t.kir
  /\ pc' = "decide"
  /\ UNCHANGED <<policy, entry, told, missed, stale, actuatorVars, driftVars>>

Observe(t) ==
  /\ pc = "observe" /\ kir # None
  /\ kir' = t.kir
  /\ AddStep(StepReward(t.sample))
  /\ stale' = IF stale > 0 /\ Len(ring) = Required THEN stale - 1 ELSE stale
  /\ pc' = "check"
  /\ UNCHANGED <<policy, entry, told, missed, actuatorVars>>

(* check_drift(): an alarm is not consumed here.                           *)
Check ==
  /\ pc = "check"
  /\ CheckDrift(FALSE)
  /\ pc' = IF phase' = "adapt" THEN "adapt" ELSE "decide"
  /\ UNCHANGED <<policy, kir, entry, told, missed, stale, actuatorVars>>

(* The new policy comes from the trainer, in the same cycle.               *)
Adapt ==
  /\ pc = "adapt"
  /\ TriggerAdaptation
  /\ \E kind \in TrainedKinds : policy' = Fresh(kind)
  /\ stale' = Len(ring')
  /\ pc' = "decide"
  /\ UNCHANGED <<kir, entry, told, missed, actuatorVars>>

Decide(d) ==
  /\ pc = "decide"
  /\ policy' = d.policy
  /\ entry' = Entry(d.action, FALSE, FALSE)
  /\ pc' = IF d.action = None THEN "record" ELSE "judge"
  /\ UNCHANGED <<kir, told, missed, stale, actuatorVars, driftVars>>

\* Mutant of Judge: the rejection is only logged.
Mutant_AppliedAnyway ==
  /\ pc = "judge"
  /\ LET valid == ValidateAction(kir, entry.action)
     IN  /\ entry' = Entry(entry.action, valid, ~valid)
         /\ Apply(entry.action, DefaultApproved) /\ pc' = "act"
  /\ UNCHANGED <<policy, kir, told, missed, stale, driftVars>>

(* The driver's own check; apply() gets its default for the verdict.       *)
Judge ==
  /\ pc = "judge"
  /\ LET valid == ValidateAction(kir, entry.action)
     IN  /\ entry' = Entry(entry.action, valid, ~valid)
         /\ \/ valid /\ Apply(entry.action, DefaultApproved) /\ pc' = "act"
            \/ ~valid /\ pc' = "record" /\ UNCHANGED actuatorVars
  /\ UNCHANGED <<policy, kir, told, missed, stale, driftVars>>

Acting == pc = "act" /\ ActuatorStep /\ UNCHANGED <<cycleVars, driftVars>>

\* Mutant of Settle: what apply() raises is not noted.
Mutant_ErrorNotNoted ==
  /\ pc = "act" /\ apc = "idle"
  /\ pc' = "record"
  /\ UNCHANGED <<policy, kir, entry, told, missed, stale, actuatorVars, driftVars>>

(* apply() has returned or raised; is_valid stays as it is.                *)
Settle ==
  /\ pc = "act" /\ apc = "idle"
  /\ entry' = [entry EXCEPT !.error = returned.raised]
  /\ pc' = "record"
  /\ UNCHANGED <<policy, kir, told, missed, stale, actuatorVars, driftVars>>

(* The fields that an entry, read back, says were set.                     *)
Claimed == IF entry.valid /\ ~entry.error THEN DOMAIN entry.action ELSE {}

(* record_decision(), and the end of the cycle.                            *)
Record ==
  /\ pc = "record"
  /\ told' = [f \in Fields |-> IF f \in Claimed /\ execute_real
                               THEN Rendered(f, entry.action[f]) ELSE told[f]]
  /\ missed' = IF execute_real THEN missed \ Claimed ELSE missed
  /\ entry' = NoEntry
  /\ pc' = "observe"
  /\ UNCHANGED <<policy, kir, stale, actuatorVars, driftVars>>

CycleOn ==
  \/ Check
  \/ Adapt
  \/ pc = "decide" /\ \E d \in Decisions(policy, kir) : Decide(d)
  \/ Judge
  \/ Acting
  \/ Settle
  \/ Record

-----------------------------------------------------------------------------
(* The fields that this cycle may have changed without a record.           *)
Unrecorded ==
  IF pc \in {"act", "record"} /\ entry.valid /\ execute_real
  THEN DOMAIN entry.action ELSE {}

(* The process ends: its manager, policy and history go with it.           *)
Ends ==
  /\ ProcessEnds
  /\ pc' = "down"
  /\ entry' = NoEntry
  /\ missed' = missed \cup Unrecorded
  /\ stale' = 0
  /\ UNCHANGED <<policy, kir, told>>

Killed == pc # "down" /\ Crash /\ Ends

(* The script is through with its cycles.                                  *)
Exit == pc = "observe" /\ Ends /\ UNCHANGED actuatorVars

TrainingRaises == pc = "adapt" /\ Ends /\ UNCHANGED actuatorVars

(* Here decide() is called without a handler.                              *)
DecideRaises ==
  pc = "decide" /\ MayRaise(policy) /\ Ends /\ UNCHANGED actuatorVars

RecordRaises == pc = "record" /\ LoggingFails /\ Ends /\ UNCHANGED actuatorVars

Start ==
  /\ pc = "down"
  /\ Construct
  /\ pc' = "observe"
  /\ policy' = Fresh("heuristic")
  /\ kir' = None
  /\ UNCHANGED <<entry, told, missed, stale, driftVars>>

OnlineNext ==
  \/ \E t \in Transitions : ObserveFirst(t) \/ Observe(t)
  \/ CycleOn
  \/ Killed
  \/ Exit
  \/ TrainingRaises
  \/ DecideRaises
  \/ RecordRaises
  \/ Start

OnlineSpec == OnlineInit /\ [][OnlineNext]_onlineVars

(* A cycle once begun is straight-line code; it does not wait.             *)
FairOnlineSpec == OnlineSpec /\ WF_onlineVars(CycleOn)

-----------------------------------------------------------------------------
(***************************************************************************)
(* Where a restoring write cannot fail, a sysctl that differs from what    *)
(* the log accounts for was changed in a cycle that ended, by a kill or an *)
(* exception, between its actuation and its record.                        *)
(***************************************************************************)
AuditExplainsKernel ==
  pc \notin {"act", "record"} /\ ~RollbackMayFail =>
    \A f \in Fields \ missed : kernel[f] = told[f]

(***************************************************************************)
(* "Reset so the adaptation's effect is measurable": what the drift        *)
(* manager compares was all earned under the policy now in force, and that *)
(* is a trained one as soon as an alarm was raised.                        *)
(***************************************************************************)
WindowIsCurrentPolicys ==
  /\ stale = 0
  /\ pc \in {"check", "decide"} /\ ring = <<>> /\ quiet = 0 => policy.kind \in TrainedKinds

(***************************************************************************)
(* No transition, of a standing clock or a reset counter, puts a reward    *)
(* into the window that no healthy transition can earn.                    *)
(***************************************************************************)
RewardsBounded == \A i \in DOMAIN ring : IsReward(ring[i])

(* Without a verdict passed on, the driver still drives the actuator as    *)
(* callers that hold one do: each of its steps is one of ActuatorSpec's.   *)
DrivesActuator == ActuatorSpec

(* Every cycle comes to its end: the alarm answered, the decision recorded *)
(* or the process ended.                                                   *)
CyclesComplete == pc \notin {"observe", "down"} ~> pc \in {"observe", "down"}
=============================================================================
