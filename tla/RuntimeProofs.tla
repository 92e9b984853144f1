---------------------------- MODULE RuntimeProofs ----------------------------
(***************************************************************************)
(* The control loop drives the actuator as its specification allows, so    *)
(* what is proved of the actuator holds in the loop, for every set of      *)
(* policies and observations; and every write it causes is on behalf of an *)
(* action that is acceptable for the observation of the same step.         *)
(***************************************************************************)
EXTENDS RuntimeLoop, ActuatorProofs

LEMMA ConsistentInit == RuntimeInit => StepConsistent
BY FreshIsPolicy, KindsAssumption DEF RuntimeInit, ActuatorInit, StepConsistent

LEMMA DecideConsistent ==
  ASSUME StepConsistent, NEW d \in Decisions(policy, kir), Decide(d)
  PROVE  StepConsistent'
<1>1. pc = "observed" /\ kir \in KIRs /\ policy \in PolicyObjects
      /\ policy.kind \in StartKinds \cup SwapKinds /\ apc = "idle"
  BY DEF Decide, StepConsistent
<1>2. /\ d.action = None \/ d.action \in Proposals(policy.kind, KIRs)
      /\ d.policy \in PolicyObjects /\ d.policy.kind = policy.kind
  BY <1>1, DecisionsAreProposals
<1>3. d.action # None => d.action \in Actions
  BY <1>1, <1>2, ProposalsAssumption
<1>4. UNCHANGED <<kir, apc>> /\ policy' = d.policy
  BY DEF Decide, actuatorVars
<1>5. CASE pc' = "ready"
  BY <1>1, <1>2, <1>4, <1>5 DEF StepConsistent
<1>6. CASE pc' = "decided" /\ d.action # None /\ result' = StepResult(d.action, FALSE, "none")
  <2>1. result'.action \in Actions
    BY <1>3, <1>6 DEF StepResult
  <2> QED BY <1>1, <1>2, <1>4, <1>6, <2>1 DEF StepConsistent
<1> QED BY <1>5, <1>6 DEF Decide

(* Starting apply() with the verdict: it writes only for an approved one.  *)
LEMMA ActuateConsistent ==
  ASSUME StepConsistent, Actuate
  PROVE  StepConsistent'
<1>1. pc' = "acting" /\ UNCHANGED <<policy, kir, result>> /\ pc = "judged"
      /\ Apply(result.action, result.approved)
  BY DEF Actuate
<1>2. apc' # "idle" => result.approved
  BY <1>1 DEF Apply, ApplyWithoutWriting, ApplyForReal, Finish
<1> QED BY <1>1, <1>2 DEF StepConsistent

LEMMA ConsistentStep ==
  ASSUME StepConsistent, [RuntimeNext]_runtimeVars
  PROVE  StepConsistent'
<1>1. ASSUME NEW k \in KIRs, Observe(k)
      PROVE  StepConsistent'
  BY <1>1 DEF Observe, actuatorVars, StepConsistent
<1>2. CASE ObserveFails
  BY <1>2 DEF ObserveFails, actuatorVars, StepConsistent
<1>3. ASSUME NEW d \in Decisions(policy, kir), Decide(d)
      PROVE  StepConsistent'
  BY <1>3, DecideConsistent
<1>4. CASE DecideRaises
  BY <1>4 DEF DecideRaises, actuatorVars, StepConsistent
<1>5. CASE Validate
  <2>1. /\ pc' = "judged" /\ UNCHANGED <<policy, kir, apc>> /\ pc = "decided"
    BY <1>5 DEF Validate, actuatorVars
  <2>2. /\ result'.action = result.action
        /\ result'.approved = ValidateAction(kir, result.action)
    BY <1>5 DEF Validate, StepResult
  <2> QED BY <2>1, <2>2 DEF StepConsistent
<1>6. CASE Actuate
  BY <1>6, ActuateConsistent
<1>7. CASE Actuating
  <2>1. apc # "idle" /\ pc = "acting" /\ UNCHANGED <<pc, policy, kir, result>>
    BY <1>7
    DEF Actuating, loopVars, ActuatorStep, WriteNext, WriteFails, RestoreNext,
        RestoreFails
  <2> QED BY <2>1 DEF StepConsistent
<1>8. CASE Return
  BY <1>8 DEF Return, actuatorVars, StepConsistent
<1>9. ASSUME NEW kind \in SwapKinds, SwapPolicy(kind)
      PROVE  StepConsistent'
  BY <1>9, FreshIsPolicy, KindsAssumption DEF SwapPolicy, actuatorVars, StepConsistent
<1>10. CASE Kill
  BY <1>10 DEF Kill, Crash, Finish, StepConsistent
<1>11. ASSUME NEW kind \in StartKinds, Restart(kind)
       PROVE  StepConsistent'
  BY <1>11, FreshIsPolicy, KindsAssumption DEF Restart, Construct, StepConsistent
<1>12. CASE UNCHANGED runtimeVars
  BY <1>12 DEF runtimeVars, loopVars, actuatorVars, StepConsistent
<1> QED
  BY <1>1, <1>2, <1>3, <1>4, <1>5, <1>6, <1>7, <1>8, <1>9, <1>10, <1>11, <1>12
  DEF RuntimeNext, StepOn

(***************************************************************************)
(* The locals of step() are consistent: what the actuator is given is a    *)
(* proposal and the verdict on it, and it writes only for an approval.     *)
(***************************************************************************)
THEOREM StepStaysConsistent == RuntimeSpec => []StepConsistent
BY ConsistentInit, ConsistentStep, PTL DEF RuntimeSpec

(* What a built-in policy has proposed in this step is acceptable.         *)
Acceptable ==
  pc \in {"decided", "judged", "acting"} /\ policy.kind # "foreign"
    => ValidateAction(kir, result.action)

LEMMA AcceptableStep ==
  ASSUME StepConsistent, Acceptable, [RuntimeNext]_runtimeVars
  PROVE  Acceptable'
<1>1. ASSUME NEW d \in Decisions(policy, kir), Decide(d)
      PROVE  Acceptable'
  <2>1. /\ policy \in PolicyObjects /\ kir \in KIRs
        /\ UNCHANGED kir /\ policy' = d.policy
        /\ pc' = "ready" \/ (d.action # None /\ result'.action = d.action)
    BY <1>1 DEF Decide, StepConsistent, StepResult
  <2>2. /\ d.action = None \/ d.action \in Proposals(policy.kind, KIRs)
        /\ d.policy.kind = policy.kind /\ policy.kind \in Kinds
    BY <2>1, DecisionsAreProposals DEF PolicyObjects
  <2> QED BY <2>1, <2>2, BuiltInsAcceptable DEF Acceptable
<1>2. CASE Validate
  BY <1>2 DEF Validate, StepResult, Acceptable
<1>3. CASE Actuate \/ Actuating \/ UNCHANGED runtimeVars
  BY <1>3 DEF Actuate, Actuating, loopVars, runtimeVars, Acceptable
<1>4. ASSUME pc' \notin {"decided", "judged", "acting"}
      PROVE  Acceptable'
  BY <1>4 DEF Acceptable
<1> QED
  BY <1>1, <1>2, <1>3, <1>4
  DEF RuntimeNext, StepOn, Observe, ObserveFails, DecideRaises, Return, SwapPolicy,
      Kill, Restart

(***************************************************************************)
(* Only an action of a foreign policy is ever rejected: bounds of the      *)
(* built-in policies and of the validator agree, for every observation and *)
(* every value the learned policy may compute.                             *)
(***************************************************************************)
THEOREM BuiltInsStayAccepted == RuntimeSpec => []BuiltInsAreAccepted
<1>1. RuntimeInit => Acceptable
  BY DEF RuntimeInit, Acceptable
<1>2. StepConsistent /\ Acceptable => BuiltInsAreAccepted
  BY DEF StepConsistent, Acceptable, BuiltInsAreAccepted
<1>3. StepConsistent /\ Acceptable /\ [RuntimeNext]_runtimeVars
        => (StepConsistent /\ Acceptable)'
  BY ConsistentStep, AcceptableStep
<1> QED BY ConsistentInit, <1>1, <1>2, <1>3, PTL DEF RuntimeSpec

(* Seen from the actuator, every step of the loop is one of its own.       *)
LEMMA DrivingStep ==
  ASSUME StepConsistent, [RuntimeNext]_runtimeVars
  PROVE  [ActuatorNext]_actuatorVars
<1>1. CASE Actuate
  <2>1. /\ Apply(result.action, ValidateAction(kir, result.action))
        /\ result.action \in Actions /\ kir \in KIRs
    BY <1>1 DEF Actuate, StepConsistent
  <2> QED BY <2>1 DEF ActuatorNext, ValidatedCall
<1>2. CASE Actuating
  BY <1>2 DEF Actuating, ActuatorNext
<1>3. CASE Kill
  BY <1>3 DEF Kill, ActuatorNext
<1>4. ASSUME NEW kind \in StartKinds, Restart(kind)
      PROVE  [ActuatorNext]_actuatorVars
  BY <1>4 DEF Restart, ActuatorNext
<1>5. CASE UNCHANGED runtimeVars
  BY <1>5 DEF runtimeVars
<1> QED
  BY <1>1, <1>2, <1>3, <1>4, <1>5
  DEF RuntimeNext, StepOn, Observe, ObserveFails, Decide, DecideRaises, Validate,
      Return, SwapPolicy

(***************************************************************************)
(* The loop implements a caller of the actuator that always passes on the  *)
(* verdict it got.                                                         *)
(***************************************************************************)
THEOREM LoopDrivesActuator == RuntimeSpec => DrivesActuator
<1>1. RuntimeInit => ActuatorInit
  BY DEF RuntimeInit
<1> QED
  BY <1>1, ConsistentInit, ConsistentStep, DrivingStep, PTL
  DEF RuntimeSpec, DrivesActuator, ActuatorSpec

(* Hence whatever the policies propose, the kernel stays within bounds.    *)
THEOREM LoopKeepsKernelInBounds == RuntimeSpec => []KernelInBounds
BY LoopDrivesActuator, KernelStaysInBounds, PTL DEF DrivesActuator

(***************************************************************************)
(* By composition of the two refinements, the loop implements AtomicTuning *)
(* too: whatever step() is doing when a write fails, the configuration     *)
(* that a rollback leads back to changes by whole approved batches.        *)
(***************************************************************************)
THEOREM LoopAppliesAtomically == RuntimeSpec => AppliesAtomically
BY LoopDrivesActuator, AppliesBatchesAtomically, PTL DEF DrivesActuator

(* Policies that set both fields of a pair or neither keep the kernel      *)
(* jointly safe, in whichever order they are swapped in.                   *)
THEOREM LoopStaysJointSafe == RuntimeSpec => []JointSafeWhenPaired
BY LoopDrivesActuator, PairedStaysJointSafe, PTL DEF DrivesActuator

(***************************************************************************)
(* A sysctl changes only on behalf of an action the validator accepts for  *)
(* the observation of the very step it is written in.                      *)
(***************************************************************************)
THEOREM LoopJudgesWrites == RuntimeSpec => WritesAreJudged
<1>1. ASSUME StepConsistent, [RuntimeNext]_runtimeVars, kernel' # kernel
      PROVE  ValidateAction(kir, result.action)
  <2>1. Actuating
    BY <1>1
    DEF RuntimeNext, StepOn, Observe, ObserveFails, Decide, DecideRaises, Validate,
        Actuate, Apply, ApplyWithoutWriting, ApplyForReal, Return, SwapPolicy,
        Kill, Crash, Restart, Construct, runtimeVars, actuatorVars
  <2>2. apc # "idle" /\ pc = "acting"
    BY <2>1
    DEF Actuating, ActuatorStep, WriteNext, WriteFails, RestoreNext, RestoreFails
  <2> QED BY <1>1, <2>2 DEF StepConsistent
<1>2. StepConsistent /\ [RuntimeNext]_runtimeVars
        => [kernel' # kernel => ValidateAction(kir, result.action)]_runtimeVars
  BY <1>1
<1> QED
  BY ConsistentInit, ConsistentStep, <1>2, PTL DEF RuntimeSpec, WritesAreJudged

-----------------------------------------------------------------------------
(***************************************************************************)
(* What a StepResult says.  While apply() runs, its batch is this step's   *)
(* action rendered, and so is the report of a call that did not raise;     *)
(* the report stays as it is until the next step.                          *)
(***************************************************************************)
Reported ==
  /\ DOMAIN result = {"action", "approved", "error", "applied"}
  /\ pc = "acting" /\ apc # "idle" => batch = Rendering(result.action)
  /\ pc = "acting" /\ apc = "idle" /\ ~returned.raised
       /\ result.approved /\ result.action # None
     => returned.cmds = Rendering(result.action)
  /\ pc = "ready" /\ result.approved /\ result.action # None
       /\ result.error = "none"
     => /\ result.applied = Rendering(result.action)
        /\ returned.cmds = result.applied

LEMMA ResultFields ==
  ASSUME NEW a, NEW ok, NEW e
  PROVE  /\ DOMAIN StepResult(a, ok, e) = {"action", "approved", "error", "applied"}
         /\ StepResult(a, ok, e).action = a
BY DEF StepResult

LEMMA ReportedInit == RuntimeInit => Reported
<1> SUFFICES ASSUME RuntimeInit PROVE Reported
  OBVIOUS
<1>1. pc = "ready" /\ result = StepResult(None, FALSE, "none")
  BY DEF RuntimeInit, NoResult
<1>2. /\ DOMAIN result = {"action", "approved", "error", "applied"}
      /\ result.action = None
  BY <1>1, ResultFields
<1> QED BY <1>1, <1>2 DEF Reported

(* apply() starts: it returns at once, or begins to write.                 *)
LEMMA ActuateReported ==
  ASSUME StepConsistent, Reported, Actuate
  PROVE  Reported'
<1> DEFINE a == result.action
<1>1. /\ pc' = "acting" /\ UNCHANGED result
      /\ ApplyWithoutWriting(a, result.approved) \/ ApplyForReal(a, result.approved)
  BY DEF Actuate, Apply
<1>2. apc' # "idle" => batch' = Rendering(a)
  BY <1>1 DEF ApplyWithoutWriting, ApplyForReal, Finish
<1>3. apc' = "idle" /\ ~returned'.raised /\ result.approved /\ a # None
        => returned'.cmds = Rendering(a)
  <2> SUFFICES ASSUME apc' = "idle", ~returned'.raised, result.approved, a # None
               PROVE  returned'.cmds = Rendering(a)
    OBVIOUS
  <2>1. ApplyWithoutWriting(a, result.approved)
    BY <1>1 DEF ApplyForReal
  <2>2. returned' = Raised \/ returned' = Returned(Rendering(a))
    BY <2>1 DEF ApplyWithoutWriting, Finish
  <2> QED BY <2>2 DEF Raised, Returned
<1> QED BY <1>1, <1>2, <1>3 DEF Reported

(* A turn of apply(): the batch stays until it is reported or given up.    *)
LEMMA ActuatingReported ==
  ASSUME StepConsistent, Reported, Actuating
  PROVE  Reported'
<1>1. pc = "acting" /\ UNCHANGED <<pc, result>> /\ ActuatorStep
  BY DEF Actuating, loopVars
<1>2. apc # "idle" /\ batch = Rendering(result.action)
  BY <1>1 DEF Reported, ActuatorStep, WriteNext, WriteFails, RestoreNext, RestoreFails
<1>3. \/ apc' = apc /\ batch' = batch
      \/ apc' = "rollback" /\ batch' = batch
      \/ apc' = "idle" /\ (returned' = Returned(batch) \/ returned' = Raised)
  BY <1>1
  DEF ActuatorStep, WriteNext, WriteFails, RestoreNext, RestoreFails, Dismiss, Finish
<1>4. Returned(batch).cmds = batch /\ Raised.raised
  BY DEF Returned, Raised
<1> QED BY <1>1, <1>2, <1>3, <1>4 DEF Reported

LEMMA ReturnReported ==
  ASSUME StepConsistent, Reported, Return
  PROVE  Reported'
<1>1. pc = "acting" /\ apc = "idle" /\ pc' = "ready" /\ UNCHANGED <<returned, apc>>
  BY DEF Return, actuatorVars
<1>2. CASE returned.raised
  <2>1. result' = [result EXCEPT !.error = "actuation"]
    BY <1>2 DEF Return
  <2>2. result'.error = "actuation" /\ DOMAIN result' = DOMAIN result
    BY <2>1 DEF Reported
  <2> QED BY <1>1, <2>2 DEF Reported
<1>3. CASE ~returned.raised
  <2>1. result' = [result EXCEPT !.applied = returned.cmds]
    BY <1>3 DEF Return
  <2>2. /\ result'.applied = returned.cmds /\ result'.action = result.action
        /\ result'.approved = result.approved /\ DOMAIN result' = DOMAIN result
    BY <2>1 DEF Reported
  <2> QED BY <1>1, <1>3, <2>2 DEF Reported
<1> QED BY <1>2, <1>3

LEMMA ReportedStep ==
  ASSUME StepConsistent, Reported, [RuntimeNext]_runtimeVars
  PROVE  Reported'
<1>1. ASSUME pc' \notin {"ready", "acting"}, \/ UNCHANGED result
                                            \/ \E a, ok, e : result' = StepResult(a, ok, e)
      PROVE  Reported'
  BY <1>1, ResultFields DEF Reported
<1>2. ASSUME NEW ok, NEW e, pc' = "ready", result' = StepResult(None, ok, e)
      PROVE  Reported'
  BY <1>2, ResultFields DEF Reported
<1>3. ASSUME NEW k \in KIRs, Observe(k)
      PROVE  Reported'
  BY <1>1, <1>3 DEF Observe, NoResult
<1>4. CASE ObserveFails
  BY <1>1, <1>4 DEF ObserveFails, NoResult
<1>5. ASSUME NEW d \in Decisions(policy, kir), Decide(d)
      PROVE  Reported'
  BY <1>1, <1>2, <1>5 DEF Decide
<1>6. CASE DecideRaises
  BY <1>2, <1>6 DEF DecideRaises
<1>7. CASE Validate
  BY <1>1, <1>7 DEF Validate
<1>8. CASE Actuate
  BY <1>8, ActuateReported
<1>9. CASE Actuating
  BY <1>9, ActuatingReported
<1>10. CASE Return
  BY <1>10, ReturnReported
<1>11. ASSUME NEW kind \in SwapKinds, SwapPolicy(kind)
       PROVE  Reported'
  BY <1>11 DEF SwapPolicy, actuatorVars, Reported
<1>12. CASE Kill
  BY <1>1, <1>12 DEF Kill
<1>13. ASSUME NEW kind \in StartKinds, Restart(kind)
       PROVE  Reported'
  BY <1>2, <1>13 DEF Restart, NoResult
<1>14. CASE UNCHANGED runtimeVars
  BY <1>14 DEF runtimeVars, loopVars, actuatorVars, Reported
<1> QED
  BY <1>3, <1>4, <1>5, <1>6, <1>7, <1>8, <1>9, <1>10, <1>11, <1>12, <1>13, <1>14
  DEF RuntimeNext, StepOn

(***************************************************************************)
(* A StepResult that reports an approved action without an error can be    *)
(* relied on: all of the action is in force, and is what was reported.     *)
(***************************************************************************)
THEOREM ApprovedStaysInForce == RuntimeSpec => []ApprovedIsInForce
<1>1. RuntimeSpec => []ReportMatchesKernel
  BY LoopDrivesActuator, ReportIsTrue, PTL DEF DrivesActuator
<1>2. StepConsistent /\ Reported /\ ReportMatchesKernel => ApprovedIsInForce
  <2> SUFFICES ASSUME StepConsistent, Reported, ReportMatchesKernel, pc = "ready",
                      result.approved, result.action # None, result.error = "none"
               PROVE  /\ result.applied = Rendering(result.action)
                      /\ execute_real => InForce(result.action)
    BY DEF ApprovedIsInForce
  <2>1. /\ result.applied = Rendering(result.action)
        /\ returned.cmds = Rendering(result.action)
    BY DEF Reported
  <2>2. apc = "idle"
    BY DEF StepConsistent
  <2>3. ASSUME execute_real, NEW f \in DOMAIN result.action
        PROVE  kernel[f] = Rendered(f, result.action[f])
    BY <2>1, <2>2, <2>3 DEF ReportMatchesKernel, Rendering
  <2> QED BY <2>1, <2>3 DEF InForce
<1>3. StepConsistent /\ Reported /\ [RuntimeNext]_runtimeVars
        => StepConsistent' /\ Reported'
  BY ConsistentStep, ReportedStep
<1> QED BY <1>1, <1>2, <1>3, ConsistentInit, ReportedInit, PTL DEF RuntimeSpec

-----------------------------------------------------------------------------
(***************************************************************************)
(* The simulation monitor's belief.  The invariant follows a batch that    *)
(* the kernel takes through apply(): while no fault is injected it never   *)
(* rolls back, and when it is over all of the action is in force.          *)
(***************************************************************************)
Unfailing(a) == execute_real /\ faults = 0 /\ KernelTakes(a)

Believed ==
  /\ pc \in {"ready", "observed", "decided", "judged"} /\ pending # None
       /\ Unfailing(pending) => InForce(pending)
  /\ pc = "acting" /\ result.approved /\ Unfailing(result.action)
       => /\ apc # "rollback"
          /\ apc = "idle" => InForce(result.action)

LEMMA BookkeepingInLoop == RuntimeSpec => [](ActuatorTypeOK /\ BatchBookkeeping)
BY LoopDrivesActuator, BookkeepingHolds, PTL DEF DrivesActuator

(* Between two calls of apply() neither the kernel nor the belief changes. *)
LEMMA BelievedAtRest ==
  ASSUME Believed, UNCHANGED <<execute_real, kernel, faults, pending>>,
         pc \in {"ready", "observed", "decided", "judged"},
         pc' \notin {"acting"}
  PROVE  Believed'
BY DEF Believed, Unfailing, KernelTakes, Accepts, Malformed, InForce

(* apply() starts: a batch without a command is in force as it is.         *)
LEMMA ActuateBelieved ==
  ASSUME StepConsistent, Actuate
  PROVE  Believed'
<1> DEFINE a == result.action
<1>1. /\ pc' = "acting" /\ UNCHANGED <<result, execute_real, kernel, faults>>
      /\ ApplyWithoutWriting(a, result.approved) \/ ApplyForReal(a, result.approved)
  BY DEF Actuate, Apply, ApplyWithoutWriting, ApplyForReal
<1>2. a # None
  BY ActionsAssumption DEF Actuate, StepConsistent
<1>3. apc' \in {"idle", "writing"}
  BY <1>1 DEF ApplyWithoutWriting, ApplyForReal, Finish
<1>4. ASSUME result.approved, Unfailing(a), apc' = "idle"
      PROVE  InForce(a)
  <2>1. ApplyWithoutWriting(a, result.approved)
    BY <1>1, <1>4 DEF ApplyForReal
  <2>2. DOMAIN a = {}
    BY <1>2, <1>4, <2>1 DEF ApplyWithoutWriting, Unfailing, KernelTakes
  <2> QED BY <2>2 DEF InForce
<1>5. Unfailing(a)' => Unfailing(a)
  BY <1>1 DEF Unfailing, KernelTakes, Accepts, Malformed
<1>6. InForce(a) => InForce(a)'
  BY <1>1 DEF InForce
<1> QED BY <1>1, <1>3, <1>4, <1>5, <1>6 DEF Believed

(* A turn of apply(): the last write completes what was already in force.  *)
LEMMA ActuatingBelieved ==
  ASSUME StepConsistent, Reported, ActuatorTypeOK, BatchBookkeeping, Believed, Actuating
  PROVE  Believed'
<1> DEFINE a == result.action
<1>1. /\ pc = "acting" /\ UNCHANGED <<pc, result, pending, execute_real>> /\ ActuatorStep
      /\ apc # "idle"
  BY DEF Actuating, loopVars, ActuatorStep, WriteNext, WriteFails, RestoreNext, RestoreFails
<1>2. faults \in Nat /\ faults' \in {faults, faults + 1}
  BY <1>1, ModesAssumption
  DEF ActuatorTypeOK, ActuatorStep, WriteNext, WriteFails, RestoreNext, RestoreFails
<1> SUFFICES ASSUME result.approved, Unfailing(a)'
             PROVE  apc' # "rollback" /\ (apc' = "idle" => InForce(a)')
  BY <1>1 DEF Believed
<1>3. Unfailing(a) /\ faults' = faults
  BY <1>1, <1>2 DEF Unfailing, KernelTakes, Accepts, Malformed
<1>4. apc = "writing" /\ batch = Rendering(a)
  BY <1>1, <1>3 DEF Believed, Reported, ActuatorTypeOK
<1>5. DOMAIN batch = todo \cup DOMAIN saved /\ \A f \in DOMAIN saved : kernel[f] = batch[f]
  BY <1>4 DEF BatchBookkeeping
<1>6. /\ DOMAIN batch = DOMAIN a
      /\ \A f \in DOMAIN a : batch[f] = Rendered(f, a[f]) /\ Accepts(f, batch[f])
  BY <1>3, <1>4 DEF Rendering, Unfailing, KernelTakes
<1>7. PICK f \in Fields : WriteNext(f)
  <2>1. PICK f \in Fields :
          WriteNext(f) \/ WriteFails(f) \/ RestoreNext(f) \/ RestoreFails(f)
    BY <1>1 DEF ActuatorStep
  <2>2. ~RestoreNext(f) /\ ~RestoreFails(f)
    BY <1>4 DEF RestoreNext, RestoreFails
  <2>3. ASSUME WriteFails(f) PROVE FALSE
    <3>1. f \in DOMAIN a
      BY <2>3, <1>5, <1>6 DEF WriteFails, First
    <3>2. ~Accepts(f, batch[f]) \/ faults' = faults + 1
      BY <2>3 DEF WriteFails
    <3> QED BY <1>2, <1>3, <1>6, <3>1, <3>2
  <2> QED BY <2>1, <2>2, <2>3
<1>8. /\ kernel' = [kernel EXCEPT ![f] = batch[f]] /\ f \in todo
      /\ apc' = "writing" \/ (apc' = "idle" /\ todo = {f})
  BY <1>4, <1>7 DEF WriteNext, Finish, First
<1>9. ASSUME apc' = "idle"
      PROVE  InForce(a)'
  <2> SUFFICES ASSUME NEW g \in DOMAIN a
               PROVE  kernel'[g] = Rendered(g, a[g])
    BY <1>1 DEF InForce
  <2>1. CASE g = f
    BY <1>6, <1>7, <1>8, <2>1 DEF ActuatorTypeOK
  <2>2. CASE g # f
    BY <1>5, <1>6, <1>8, <1>9, <2>2 DEF ActuatorTypeOK
  <2> QED BY <2>1, <2>2
<1> QED BY <1>8, <1>9

LEMMA ReturnBelieved ==
  ASSUME Believed, Return
  PROVE  Believed'
<1>1. /\ pc = "acting" /\ apc = "idle" /\ pc' = "ready"
      /\ UNCHANGED <<execute_real, kernel, faults>>
      /\ pending' = IF result.approved THEN result.action ELSE None
  BY DEF Return, actuatorVars
<1>2. CASE ~result.approved
  BY <1>1, <1>2 DEF Believed
<1>3. CASE result.approved
  <2>1. pending' = result.action
    BY <1>1, <1>3
  <2>2. Unfailing(pending)' => Unfailing(result.action) /\ pending' = result.action
    BY <1>1, <2>1 DEF Unfailing, KernelTakes, Accepts, Malformed
  <2>3. InForce(result.action) => InForce(pending)'
    BY <1>1, <2>1 DEF InForce
  <2> QED BY <1>1, <1>3, <2>2, <2>3 DEF Believed
<1> QED BY <1>2, <1>3

LEMMA BelievedStep ==
  ASSUME StepConsistent, Reported, ActuatorTypeOK, BatchBookkeeping, Believed,
         [RuntimeNext]_runtimeVars
  PROVE  Believed'
<1>1. CASE UNCHANGED <<execute_real, kernel, faults, pending>> /\ pc' # "acting"
           /\ pc \in {"ready", "observed", "decided", "judged"}
  BY <1>1, BelievedAtRest
<1>2. CASE Actuate
  BY <1>2, ActuateBelieved
<1>3. CASE Actuating
  BY <1>3, ActuatingBelieved
<1>4. CASE Return
  BY <1>4, ReturnBelieved
<1>5. CASE pc' \in {"raised", "down"} \/ (pc' = "ready" /\ pending' = None)
  BY <1>5 DEF Believed
<1>6. CASE UNCHANGED runtimeVars
  BY <1>6
  DEF runtimeVars, loopVars, actuatorVars, Believed, Unfailing, KernelTakes, Accepts,
      Malformed, InForce
<1> QED
  BY <1>1, <1>2, <1>3, <1>4, <1>5, <1>6
  DEF RuntimeNext, StepOn, Observe, ObserveFails, Decide, DecideRaises, Validate,
      SwapPolicy, Kill, Restart, actuatorVars

(***************************************************************************)
(* Whichever policies take part, however the process is killed: where no   *)
(* write has failed, the action submit_action() was last given is in force *)
(* in the kernel if the kernel takes it.                                   *)
(***************************************************************************)
THEOREM BeliefStaysTrue == RuntimeSpec => []BeliefMatchesKernel
<1> DEFINE Inv == StepConsistent /\ Reported /\ Believed
<1>1. RuntimeInit => Inv
  BY ConsistentInit, ReportedInit DEF RuntimeInit, Believed
<1>2. Inv /\ ActuatorTypeOK /\ BatchBookkeeping /\ [RuntimeNext]_runtimeVars => Inv'
  BY ConsistentStep, ReportedStep, BelievedStep
<1>3. Inv => BeliefMatchesKernel
  BY DEF Believed, Unfailing, BeliefMatchesKernel
<1> QED BY <1>1, <1>2, <1>3, BookkeepingInLoop, PTL DEF RuntimeSpec

-----------------------------------------------------------------------------
(***************************************************************************)
(* What the heuristic remembers: in a step, the action it has just         *)
(* proposed; between steps, the one the monitor was told of last, since    *)
(* what a heuristic proposes is never rejected.                            *)
(***************************************************************************)
Remembers ==
  /\ policy.kind # "heuristic" => policy.last = None
  /\ policy.last # None =>
       /\ pc \in {"ready", "observed"} => pending = policy.last
       /\ pc \in {"decided", "judged", "acting"} => result.action = policy.last

LEMMA FreshRemembersNothing == \A kind : Fresh(kind).last = None
BY DEF Fresh

(* A heuristic that proposes nothing still remembers what it did before.   *)
LEMMA DecisionIsRemembered ==
  ASSUME NEW p \in PolicyObjects, p.kind \in StartKinds \cup SwapKinds,
         NEW k, NEW d \in Decisions(p, k)
  PROVE  \/ d.policy = p /\ p.kind # "heuristic"
         \/ /\ d.policy.kind = "heuristic" /\ p.kind = "heuristic"
            /\ \/ d.action = None /\ d.policy.last = p.last /\ p.last # None
               \/ d.action # None /\ d.policy.last = d.action
<1>1. p.kind \in Kinds
  BY DEF PolicyObjects
<1>2. CASE p.kind = "heuristic"
  <2>1. d = HeuristicDecision(p, k)
    BY <1>2 DEF Decisions
  <2> DEFINE params == IF TightMode(p, k) THEN TIGHT_PARAMS ELSE LOOSE_PARAMS
  <2>2. /\ d.action = IF params = p.last THEN None ELSE params
        /\ d.policy = [p EXCEPT !.tight = TightMode(p, k), !.last = params]
    BY <2>1 DEF HeuristicDecision, Decision
  <2>3. params # None
    <3>1. {TIGHT_PARAMS, LOOSE_PARAMS} \subseteq Actions
      BY <1>2, ProposalsAssumption DEF Proposals
    <3> QED BY <3>1, ActionsAssumption
  <2>4. d.policy.kind = "heuristic" /\ d.policy.last = params
    BY <1>2, <2>2 DEF PolicyObjects
  <2> QED BY <1>2, <2>2, <2>3, <2>4
<1>3. CASE p.kind # "heuristic"
  BY <1>1, <1>3 DEF Decisions, Decision, Kinds
<1> QED BY <1>2, <1>3

LEMMA RemembersStep ==
  ASSUME StepConsistent, Acceptable, Remembers, [RuntimeNext]_runtimeVars
  PROVE  Remembers'
<1>1. ASSUME NEW d \in Decisions(policy, kir), Decide(d)
      PROVE  Remembers'
  <2>1. /\ pc = "observed" /\ policy \in PolicyObjects
        /\ policy.kind \in StartKinds \cup SwapKinds
        /\ policy' = d.policy /\ UNCHANGED pending
        /\ \/ d.action = None /\ pc' = "ready"
           \/ d.action # None /\ pc' = "decided" /\ result'.action = d.action
    BY <1>1 DEF Decide, StepConsistent, StepResult
  <2> QED BY <2>1, DecisionIsRemembered DEF Remembers
<1>2. CASE Validate
  BY <1>2 DEF Validate, StepResult, Remembers
<1>3. CASE Actuate \/ Actuating \/ UNCHANGED runtimeVars
  BY <1>3 DEF Actuate, Actuating, loopVars, runtimeVars, Remembers
<1>4. CASE Return
  <2>1. /\ pc = "acting" /\ pc' = "ready" /\ UNCHANGED policy
        /\ pending' = IF result.approved THEN result.action ELSE None
    BY <1>4 DEF Return
  <2>2. policy.kind = "heuristic" => result.approved
    BY <2>1 DEF StepConsistent, Acceptable
  <2> QED BY <2>1, <2>2 DEF Remembers
<1>5. CASE UNCHANGED <<policy, pending>> /\ pc \in {"ready", "observed"}
           /\ pc' \in {"ready", "observed", "raised"}
  BY <1>5 DEF Remembers
<1>6. CASE pc' = "down" /\ UNCHANGED policy
  BY <1>6 DEF Remembers
<1>7. CASE policy'.last = None
  BY <1>7 DEF Remembers
<1> QED
  BY <1>1, <1>2, <1>3, <1>4, <1>5, <1>6, <1>7, FreshRemembersNothing
  DEF RuntimeNext, StepOn, Observe, ObserveFails, DecideRaises, SwapPolicy, Kill, Restart

(***************************************************************************)
(* The suppression of repeated decisions is sound where no write fails,    *)
(* whichever policies are swapped in and however often the process dies:   *)
(* what the heuristic remembers is in force.                               *)
(***************************************************************************)
THEOREM MemoryStaysTrue == RuntimeSpec => []MemoryMatchesKernel
<1> DEFINE Inv == StepConsistent /\ Acceptable /\ Remembers
<1>1. RuntimeInit => Inv
  BY ConsistentInit, FreshRemembersNothing DEF RuntimeInit, Acceptable, Remembers
<1>2. Inv /\ [RuntimeNext]_runtimeVars => Inv'
  BY ConsistentStep, AcceptableStep, RemembersStep
<1>3. Inv /\ BeliefMatchesKernel => MemoryMatchesKernel
  BY DEF Remembers, BeliefMatchesKernel, MemoryMatchesKernel
<1> QED BY <1>1, <1>2, <1>3, BeliefStaysTrue, PTL DEF RuntimeSpec
=============================================================================
