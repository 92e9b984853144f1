---------------------------- MODULE RuntimeLoop ----------------------------
(***************************************************************************)
(* LearnedKernelRuntime (learned_kernel/runtime/loop.py): step() observes, *)
(* decides, validates, actuates and tells a simulation monitor what was    *)
(* actuated.  A driver calls step() again and again and may replace        *)
(* runtime.policy between two calls, as online_demo.py does.  The process  *)
(* may be killed at any point and started again: policy, runtime and       *)
(* simulated kernel are then new, the sysctls are what they were left at.  *)
(***************************************************************************)
EXTENDS Actuator, Policies

CONSTANTS
  StartKinds,    \* kinds of policy a process may start with
  SwapKinds,     \* kinds of policy that may be swapped in
  ObserveFaults  \* whether an observation may fail

ASSUME KindsAssumption ==
  /\ StartKinds \subseteq Kinds /\ StartKinds # {}
  /\ SwapKinds \subseteq Kinds
  /\ ObserveFaults \in BOOLEAN

\* The actuator is only ever given what some policy proposes.
ASSUME ProposalsAssumption ==
  \A kind \in StartKinds \cup SwapKinds : Proposals(kind, KIRs) \subseteq Actions

VARIABLES
  pc,       \* where step() is; "ready" between two calls
  policy,   \* runtime.policy
  kir,      \* the observation of this (or the last) step
  result,   \* the StepResult, filled in as the step goes on
  pending   \* SimulationMonitor._pending_action

loopVars == <<pc, policy, kir, result, pending>>

runtimeVars == <<loopVars, actuatorVars>>

StepResult(action, approved, error) ==
  [action |-> action, approved |-> approved, error |-> error,
   applied |-> NoCommands]

NoResult == StepResult(None, FALSE, "none")

RuntimeInit ==
  /\ ActuatorInit
  /\ pc = "ready"
  /\ policy \in {Fresh(kind) : kind \in StartKinds}
  /\ kir = None
  /\ result = NoResult
  /\ pending = None

-----------------------------------------------------------------------------
(* [1] poll() and get_kir_state(): the environment chooses the readings.   *)
Observe(k) ==
  /\ pc = "ready"
  /\ pc' = "observed"
  /\ kir' = k
  /\ result' = NoResult
  /\ UNCHANGED <<policy, pending, actuatorVars>>

(* A failed observation is raised to the driver, which has no handler.     *)
ObserveFails ==
  /\ pc = "ready" /\ ObserveFaults
  /\ pc' = "raised"
  /\ result' = NoResult
  /\ UNCHANGED <<policy, kir, pending, actuatorVars>>

(* [2] The policy decides; no action ends the step, as does an exception.  *)
Decide(d) ==
  /\ pc = "observed"
  /\ policy' = d.policy
  /\ \/ /\ d.action = None
        /\ pc' = "ready"
        /\ result' = StepResult(None, TRUE, "none")
     \/ /\ d.action # None
        /\ pc' = "decided"
        /\ result' = StepResult(d.action, FALSE, "none")
  /\ UNCHANGED <<kir, pending, actuatorVars>>

DecideRaises ==
  /\ pc = "observed" /\ MayRaise(policy)
  /\ pc' = "ready"
  /\ result' = StepResult(None, FALSE, "policy")
  /\ UNCHANGED <<policy, kir, pending, actuatorVars>>

\* Mutant of Validate: a rejection is logged, and forgotten.
Mutant_RejectionForgotten ==
  /\ pc = "decided"
  /\ pc' = "judged"
  /\ result' = StepResult(result.action, TRUE,
                          IF ValidateAction(kir, result.action) THEN "none" ELSE "rejected")
  /\ UNCHANGED <<policy, kir, pending, actuatorVars>>

(* [3] The verdict on the action for the observation it was made from.     *)
Validate ==
  /\ pc = "decided"
  /\ pc' = "judged"
  /\ LET approved == ValidateAction(kir, result.action)
     IN  result' = StepResult(result.action, approved,
                              IF approved THEN "none" ELSE "rejected")
  /\ UNCHANGED <<policy, kir, pending, actuatorVars>>

\* Mutant of Actuate: the verdict is left at its default.
Mutant_VerdictNotPassed ==
  /\ pc = "judged"
  /\ Apply(result.action, DefaultApproved)
  /\ pc' = "acting"
  /\ UNCHANGED <<policy, kir, result, pending>>

(* [4] The actuator is called whatever the verdict, and given it.          *)
Actuate ==
  /\ pc = "judged"
  /\ Apply(result.action, result.approved)
  /\ pc' = "acting"
  /\ UNCHANGED <<policy, kir, result, pending>>

Actuating == pc = "acting" /\ ActuatorStep /\ UNCHANGED loopVars

\* Mutant of Return: the step does not wait for the batch.
Mutant_NotAwaited ==
  /\ pc = "acting"
  /\ pc' = "ready"
  /\ result' = [result EXCEPT !.applied = returned.cmds]
  /\ pending' = IF result.approved THEN result.action ELSE None
  /\ UNCHANGED <<policy, kir, actuatorVars>>

(* apply() has returned or raised: submit_action(), and the result.        *)
Return ==
  /\ pc = "acting" /\ apc = "idle"
  /\ pc' = "ready"
  /\ result' = IF returned.raised
               THEN [result EXCEPT !.error = "actuation"]
               ELSE [result EXCEPT !.applied = returned.cmds]
  /\ pending' = IF result.approved THEN result.action ELSE None
  /\ UNCHANGED <<policy, kir, actuatorVars>>

StepOn ==
  \/ pc = "observed" /\ \E d \in Decisions(policy, kir) : Decide(d)
  \/ DecideRaises
  \/ Validate
  \/ Actuate
  \/ Actuating
  \/ Return

-----------------------------------------------------------------------------
\* Mutant of SwapPolicy: the new policy takes over what the old remembered.
Mutant_MemoryKept(kind) ==
  /\ pc = "ready"
  /\ policy' = [Fresh(kind) EXCEPT !.last = policy.last]
  /\ UNCHANGED <<pc, kir, result, pending, actuatorVars>>

(* The driver replaces the policy between two steps; a heuristic that is   *)
(* reset() is what a fresh one is.                                         *)
SwapPolicy(kind) ==
  /\ pc = "ready"
  /\ policy' = Fresh(kind)
  /\ UNCHANGED <<pc, kir, result, pending, actuatorVars>>

(* The process is killed.                                                  *)
Kill ==
  /\ pc \notin {"raised", "down"}
  /\ Crash
  /\ pc' = "down"
  /\ UNCHANGED <<policy, kir, result, pending>>

\* Mutant of Restart: the new process puts the sysctls back to their defaults.
Mutant_DefaultsRestored(kind) ==
  /\ pc \in {"raised", "down"} /\ apc = "idle"
  /\ execute_real' \in Modes
  /\ returned' = Returned(NoCommands)
  /\ kernel' = InitKernel
  /\ UNCHANGED <<apc, batch, todo, saved, found, faults, crashes>>
  /\ pc' = "ready"
  /\ policy' = Fresh(kind)
  /\ kir' = None
  /\ result' = NoResult
  /\ pending' = None

(* A new process: a new runtime with its actuator, policy and monitor.     *)
Restart(kind) ==
  /\ pc \in {"raised", "down"}
  /\ Construct
  /\ pc' = "ready"
  /\ policy' = Fresh(kind)
  /\ kir' = None
  /\ result' = NoResult
  /\ pending' = None

RuntimeNext ==
  \/ \E k \in KIRs : Observe(k)
  \/ ObserveFails
  \/ StepOn
  \/ \E kind \in SwapKinds : SwapPolicy(kind)
  \/ Kill
  \/ \E kind \in StartKinds : Restart(kind)

RuntimeSpec == RuntimeInit /\ [][RuntimeNext]_runtimeVars

(***************************************************************************)
(* The driver calls step() for as long as the process lives, and step() is *)
(* straight-line code that does not wait.  Nothing restarts a process: a   *)
(* property about restarts assumes them.                                   *)
(***************************************************************************)
FairRuntimeSpec ==
  /\ RuntimeSpec
  /\ WF_runtimeVars(\E k \in KIRs : Observe(k))
  /\ WF_runtimeVars(StepOn)

-----------------------------------------------------------------------------
(***************************************************************************)
(* The locals of step() agree with one another: what the actuator is given *)
(* is a proposal and the verdict on it for this step's observation, and    *)
(* apply() runs only inside a step.                                        *)
(***************************************************************************)
StepConsistent ==
  /\ pc \in {"ready", "observed", "decided", "judged", "acting", "raised", "down"}
  /\ policy \in PolicyObjects /\ policy.kind \in StartKinds \cup SwapKinds
  /\ pc \in {"observed", "decided", "judged", "acting"} => kir \in KIRs
  /\ pc \in {"decided", "judged", "acting"} => result.action \in Actions
  /\ pc \in {"judged", "acting"} =>
       result.approved = ValidateAction(kir, result.action)
  /\ pc # "acting" => apc = "idle"
  /\ apc # "idle" => result.approved

(* The loop drives the actuator as callers holding a verdict do: each step *)
(* of it is a step of the actuator's specification, or none.               *)
DrivesActuator == ActuatorSpec

(***************************************************************************)
(* "Nothing reaches the actuator without passing through" the validator:   *)
(* a sysctl changes, forwards or back, only on behalf of an action that is *)
(* acceptable for the observation of that same step.  (Not: that the value *)
(* is; a rollback restores whatever was there.)                            *)
(***************************************************************************)
WritesAreJudged ==
  [][kernel' # kernel => ValidateAction(kir, result.action)]_runtimeVars

(***************************************************************************)
(* The policies that come with the program stay within the validator's     *)
(* bounds, for every reading and whatever they remember: an action is      *)
(* rejected only if a policy of the user's proposed it.  (Clipping of the  *)
(* learned policy, parameters of the others: bounds kept in three files.)  *)
(***************************************************************************)
BuiltInsAreAccepted ==
  pc \in {"judged", "acting"} /\ ~result.approved => policy.kind = "foreign"

InForce(a) == \A f \in DOMAIN a : kernel[f] = Rendered(f, a[f])

(***************************************************************************)
(* A StepResult that reports an approved action and no error means that    *)
(* every field of the action is in force in the kernel, and was reported.  *)
(***************************************************************************)
ApprovedIsInForce ==
  pc = "ready" /\ result.approved /\ result.action # None /\ result.error = "none" =>
    /\ result.applied = Rendering(result.action)
    /\ execute_real => InForce(result.action)

(* An action whose every write succeeds where no fault is injected.        *)
KernelTakes(a) ==
  /\ ~Malformed(a)
  /\ \A f \in DOMAIN a : Accepts(f, Rendered(f, a[f]))

(***************************************************************************)
(* As long as no write has failed, what the simulation monitor believes    *)
(* was actuated is in force, if the kernel takes it at all: after steps    *)
(* that propose nothing, after actions that were rejected or rolled back,  *)
(* and after restarts too.                                                 *)
(***************************************************************************)
BeliefMatchesKernel ==
  pc = "ready" /\ execute_real /\ pending # None /\ faults = 0 /\ KernelTakes(pending)
    => InForce(pending)

(***************************************************************************)
(* The heuristic never proposes again what it remembers having emitted.    *)
(* As long as no write has failed, that is in force: no other policy, no   *)
(* kill and no restart has put anything else into the kernel since.        *)
(***************************************************************************)
MemoryMatchesKernel ==
  pc = "ready" /\ execute_real /\ policy.last # None /\ faults = 0
      /\ KernelTakes(policy.last)
    => InForce(policy.last)

(* Between two batches no granularity exceeds its latency, no background   *)
(* watermark its ratio, whichever policies took part in setting them.      *)
JointSafeAtRest == apc = "idle" => JointSafe(kernel)

-----------------------------------------------------------------------------
(* Properties of a run of one heuristic policy on an execute_real runtime. *)

Always(P(_)) == <>[](kir # None /\ P(kir))

KeepsStepping == []<>(pc = "ready")

Loaded(k) == k.util > ENTER_TIGHT

InDeadband(k) == k.util \in EXIT_TIGHT .. ENTER_TIGHT

(* "Tight mode engages above ENTER_TIGHT": if the load stays, the kernel   *)
(* comes to run with the tight parameters, after crashes too.              *)
EngagesTight ==
  Always(Loaded) /\ KeepsStepping => <>[]InForce(TIGHT_PARAMS)

(* The same, of behaviours in which no write fails.                        *)
NoWriteFails == [](faults = 0)

EngagesTightUnharmed == NoWriteFails => EngagesTight

(* Hysteresis: readings that stay within the deadband end all actuation.   *)
NoFlapping ==
  Always(InDeadband) => <>[](pc \notin {"decided", "judged", "acting"})

(* A kill between two writes may leave a granularity above its latency;    *)
(* where no write fails, the fresh policy of the next process repairs that. *)
JointRecovers == NoWriteFails /\ KeepsStepping => []<>JointSafe(kernel)
=============================================================================
