---------------------------- MODULE OnlineProofs ----------------------------
(***************************************************************************)
(* The online driver, which judges actions itself and passes no verdict    *)
(* on, drives the actuator and the drift manager as their specifications   *)
(* allow, so what is proved of them holds for it; and its audit log        *)
(* accounts for the kernel, for every set of policies, observations and    *)
(* rewards.                                                                *)
(***************************************************************************)
EXTENDS OnlineLoop, ActuatorProofs, DriftProofs

(* The locals of a cycle agree: what the actuator is given was judged for  *)
(* the observation of this cycle, and it runs only then.                   *)
CycleConsistent ==
  /\ pc \in {"observe", "check", "adapt", "decide", "judge", "act", "record", "down"}
  /\ policy \in PolicyObjects /\ policy.kind \in TrainedKinds \cup {"heuristic"}
  /\ kir = None \/ kir \in KIRs
  /\ pc \notin {"observe", "down"} => kir \in KIRs
  /\ DOMAIN entry = {"action", "valid", "error"}
  /\ pc \in {"judge", "act"} => entry.action \in Actions
  /\ pc = "act" => entry.valid /\ ValidateAction(kir, entry.action)
  /\ apc # "idle" => pc = "act"

LEMMA EntryFields ==
  ASSUME NEW a, NEW v, NEW e
  PROVE  /\ DOMAIN Entry(a, v, e) = {"action", "valid", "error"}
         /\ Entry(a, v, e).action = a /\ Entry(a, v, e).valid = v
         /\ Entry(a, v, e).error = e
BY DEF Entry

LEMMA NoEntryFields == DOMAIN NoEntry = {"action", "valid", "error"}
BY DEF NoEntry, Entry

LEMMA FreshPolicies ==
  ASSUME NEW kind \in TrainedKinds \cup {"heuristic"}
  PROVE  Fresh(kind) \in PolicyObjects /\ Fresh(kind).kind = kind
<1>1. kind \in Kinds
  BY OnlineAssumption DEF Kinds
<1> QED BY <1>1, FreshIsPolicy

LEMMA CycleInit == OnlineInit => CycleConsistent
<1> SUFFICES ASSUME OnlineInit PROVE CycleConsistent
  OBVIOUS
<1>1. DOMAIN entry = {"action", "valid", "error"}
  BY NoEntryFields DEF OnlineInit
<1>2. policy \in PolicyObjects /\ policy.kind = "heuristic"
  BY FreshPolicies DEF OnlineInit
<1> QED BY <1>1, <1>2 DEF OnlineInit, ActuatorInit, CycleConsistent

LEMMA DecideCycle ==
  ASSUME CycleConsistent, pc = "decide", NEW d \in Decisions(policy, kir), Decide(d)
  PROVE  CycleConsistent'
<1>1. policy \in PolicyObjects /\ kir \in KIRs /\ apc = "idle"
      /\ policy.kind \in TrainedKinds \cup {"heuristic"}
  BY DEF CycleConsistent
<1>2. /\ d.action = None \/ d.action \in Proposals(policy.kind, KIRs)
      /\ d.policy \in PolicyObjects /\ d.policy.kind = policy.kind
  BY <1>1, DecisionsAreProposals
<1>3. d.action # None => d.action \in Actions
  BY <1>1, <1>2, OnlineAssumption
<1>4. /\ policy' = d.policy /\ entry' = Entry(d.action, FALSE, FALSE)
      /\ pc' = (IF d.action = None THEN "record" ELSE "judge")
      /\ kir' = kir /\ apc' = apc
  BY DEF Decide, actuatorVars
<1>5. DOMAIN entry' = {"action", "valid", "error"} /\ entry'.action = d.action
  BY <1>4 DEF Entry
<1> QED BY <1>1, <1>2, <1>3, <1>4, <1>5 DEF CycleConsistent

LEMMA JudgeCycle ==
  ASSUME CycleConsistent, Judge
  PROVE  CycleConsistent'
<1> DEFINE valid == ValidateAction(kir, entry.action)
<1>1. /\ pc = "judge" /\ apc = "idle" /\ entry.action \in Actions /\ kir \in KIRs
      /\ UNCHANGED <<policy, kir>>
  BY DEF Judge, CycleConsistent
<1>2. entry' = Entry(entry.action, valid, ~valid)
  BY DEF Judge
<1>3. /\ DOMAIN entry' = {"action", "valid", "error"}
      /\ entry'.action = entry.action /\ entry'.valid = valid
  BY <1>2, EntryFields
<1>4. CASE valid /\ pc' = "act"
  BY <1>1, <1>3, <1>4 DEF CycleConsistent
<1>5. CASE pc' = "record" /\ UNCHANGED actuatorVars
  BY <1>1, <1>3, <1>5 DEF CycleConsistent, actuatorVars
<1> QED BY <1>4, <1>5 DEF Judge

LEMMA EndsCycle ==
  ASSUME CycleConsistent, Ends, apc' = "idle"
  PROVE  CycleConsistent'
BY NoEntryFields DEF Ends, CycleConsistent

LEMMA CycleStep ==
  ASSUME CycleConsistent, [OnlineNext]_onlineVars
  PROVE  CycleConsistent'
<1>1. ASSUME NEW t \in Transitions, ObserveFirst(t) \/ Observe(t)
      PROVE  CycleConsistent'
  BY <1>1, TransitionsAssumption DEF ObserveFirst, Observe, actuatorVars, CycleConsistent
<1>2. CASE Check
  BY <1>2 DEF Check, actuatorVars, CycleConsistent
<1>3. CASE Adapt
  BY <1>3, FreshPolicies DEF Adapt, actuatorVars, CycleConsistent
<1>4. ASSUME pc = "decide", NEW d \in Decisions(policy, kir), Decide(d)
      PROVE  CycleConsistent'
  BY <1>4, DecideCycle
<1>5. CASE Judge
  BY <1>5, JudgeCycle
<1>6. CASE Acting
  BY <1>6 DEF Acting, cycleVars, CycleConsistent
<1>7. CASE Settle
  BY <1>7 DEF Settle, actuatorVars, CycleConsistent
<1>8. CASE Record
  BY <1>8, NoEntryFields DEF Record, actuatorVars, CycleConsistent
<1>9. CASE Killed
  BY <1>9, EndsCycle DEF Killed, Crash, Finish
<1>10. CASE Exit \/ TrainingRaises \/ DecideRaises \/ RecordRaises
  BY <1>10, EndsCycle
  DEF Exit, TrainingRaises, DecideRaises, RecordRaises, actuatorVars, CycleConsistent
<1>11. CASE Start
  BY <1>11, FreshPolicies DEF Start, Construct, CycleConsistent
<1>12. CASE UNCHANGED onlineVars
  BY <1>12 DEF onlineVars, cycleVars, actuatorVars, CycleConsistent
<1> QED
  BY <1>1, <1>2, <1>3, <1>4, <1>5, <1>6, <1>7, <1>8, <1>9, <1>10, <1>11, <1>12
  DEF OnlineNext, CycleOn

-----------------------------------------------------------------------------
(* Seen from the actuator, the driver's check is a verdict passed on.      *)
LEMMA DrivenStep ==
  ASSUME CycleConsistent, [OnlineNext]_onlineVars
  PROVE  [ActuatorNext]_actuatorVars
<1>1. CASE Judge
  <2>1. kir \in KIRs /\ entry.action \in Actions
    BY <1>1 DEF Judge, CycleConsistent
  <2>2. CASE ValidateAction(kir, entry.action) /\ Apply(entry.action, DefaultApproved)
    <3>1. Apply(entry.action, ValidateAction(kir, entry.action))
      BY <2>2 DEF Apply, ApplyWithoutWriting, ApplyForReal, DefaultApproved
    <3> QED BY <2>1, <3>1 DEF ActuatorNext, ValidatedCall
  <2> QED BY <1>1, <2>2 DEF Judge
<1>2. CASE Acting
  BY <1>2 DEF Acting, ActuatorNext
<1>3. CASE Killed
  BY <1>3 DEF Killed, ActuatorNext
<1>4. CASE Start
  BY <1>4 DEF Start, ActuatorNext
<1>5. CASE UNCHANGED onlineVars
  BY <1>5 DEF onlineVars
<1> QED
  BY <1>1, <1>2, <1>3, <1>4, <1>5
  DEF OnlineNext, CycleOn, ObserveFirst, Observe, Check, Adapt, Decide, Settle,
      Record, Exit, TrainingRaises, DecideRaises, RecordRaises

(***************************************************************************)
(* Though it passes no verdict on, the driver implements a caller that     *)
(* always does.                                                            *)
(***************************************************************************)
THEOREM OnlineDrivesActuator == OnlineSpec => DrivesActuator
<1>1. OnlineInit => ActuatorInit
  BY DEF OnlineInit
<1> QED
  BY <1>1, CycleInit, CycleStep, DrivenStep, PTL
  DEF OnlineSpec, DrivesActuator, ActuatorSpec

(* So online adaptation keeps the kernel within bounds, whatever policies  *)
(* training returns.                                                       *)
THEOREM OnlineKeepsKernelInBounds == OnlineSpec => []KernelInBounds
BY OnlineDrivesActuator, KernelStaysInBounds, PTL DEF DrivesActuator

-----------------------------------------------------------------------------
(* In the driver too batches apply whole, or in part only where the        *)
(* process is killed or a restoring write may fail.                        *)
THEOREM OnlineAppliesAtomically == OnlineSpec => AppliesAtomically
BY OnlineDrivesActuator, AppliesBatchesAtomically, PTL DEF DrivesActuator

(* Seen from the drift manager, the driver is one that never consumes.     *)
LEMMA DriftingStep ==
  ASSUME [OnlineNext]_onlineVars
  PROVE  [DriftNext]_driftVars
<1>1. ASSUME NEW t \in Transitions, Observe(t)
      PROVE  DriftNext
  BY <1>1, TransitionsAssumption DEF Observe, DriftNext
<1>2. CASE Check
  BY <1>2, OnlineAssumption DEF Check, DriftNext
<1>3. CASE Adapt
  BY <1>3 DEF Adapt, DriftNext
<1>4. CASE Ends
  BY <1>4 DEF Ends, DriftNext
<1>5. CASE UNCHANGED onlineVars
  BY <1>5 DEF onlineVars
<1> QED
  BY <1>1, <1>2, <1>3, <1>4, <1>5
  DEF OnlineNext, CycleOn, ObserveFirst, Decide, Judge, Acting, Settle, Record,
      Killed, Exit, TrainingRaises, DecideRaises, RecordRaises, Start

LEMMA OnlineDrifts == OnlineSpec => DriftSpec
<1>1. OnlineInit => DriftInit
  BY DEF OnlineInit
<1> QED BY <1>1, DriftingStep, PTL DEF OnlineSpec, DriftSpec

(* Adaptations of the driver are a whole window of rewards apart, through  *)
(* kills, restarts and failing training.                                   *)
THEOREM AdaptationsAreApart == OnlineSpec => AlarmsAreApart
BY OnlineDrifts, AlarmsStayApart, PTL

(* Nor does the driver sleep through a drop: what ends its cycles early    *)
(* also empties the window.                                                *)
THEOREM OnlineDropsAreNoticed ==
  ASSUME TThreshold < 10 * (WindowSize - 1)
  PROVE  OnlineSpec => []NoSilentDrop
BY OnlineDrifts, DropsAreNoticed, PTL

-----------------------------------------------------------------------------
(***************************************************************************)
(* The audit log.  What apply() has changed and no entry tells of yet is   *)
(* the action at hand, once it has been applied; all other fields are told *)
(* or missed, in the kernel or in what a rollback will restore.            *)
(***************************************************************************)
Applied == pc = "act" /\ apc = "idle" /\ ~returned.raised

Untold ==
  IF execute_real /\ (Applied \/ (pc = "record" /\ entry.valid /\ ~entry.error))
  THEN DOMAIN entry.action ELSE {}

Accounted ==
  /\ pc = "act" /\ apc # "idle" => batch = Rendering(entry.action)
  /\ Applied => returned.cmds = Rendering(entry.action)
  /\ pc = "record" => \A f \in Untold : kernel[f] = Rendered(f, entry.action[f])
  /\ \A f \in (Fields \ missed) \ Untold : Restored[f] = told[f]

Audit == CycleConsistent /\ Structure /\ ReportMatchesKernel /\ Accounted

LEMMA AtRest ==
  ASSUME Structure, apc = "idle", NEW f \in Fields
  PROVE  Restored[f] = kernel[f]
BY DEF Structure, BatchBookkeeping, Restored

(* Steps that touch neither kernel nor log, with nothing left to tell.     *)
LEMMA ElsewhereAccounted ==
  ASSUME Accounted, UNCHANGED <<actuatorVars, told, missed>>,
         pc \notin {"act", "record"}, pc' # "act",
         pc' = "record" => ~entry'.valid
  PROVE  Accounted'
<1>1. Untold = {} /\ Untold' = {} /\ ~Applied'
  BY DEF Untold, Applied
<1>2. Restored' = Restored
  BY RestoredUnchanged DEF actuatorVars
<1> QED BY <1>1, <1>2 DEF Accounted

LEMMA JudgeAccounted ==
  ASSUME CycleConsistent, Structure, Accounted, Judge
  PROVE  Accounted'
<1> DEFINE a == entry.action
<1> DEFINE valid == ValidateAction(kir, a)
<1>1. /\ pc = "judge" /\ entry' = Entry(a, valid, ~valid) /\ a \in Actions
      /\ UNCHANGED <<told, missed>>
  BY DEF Judge, CycleConsistent
<1>2. entry'.action = a /\ entry'.valid = valid
  BY <1>1 DEF Entry
<1>3. CASE ~valid /\ pc' = "record" /\ UNCHANGED actuatorVars
  BY <1>1, <1>2, <1>3, ElsewhereAccounted
<1>4. CASE Apply(a, DefaultApproved) /\ pc' = "act"
  <2>1. Restored' = Restored
    BY <1>4, ApplyAtomic
  <2>2. Untold = {}
    BY <1>1 DEF Untold, Applied
  <2>3. apc' # "idle" => batch' = Rendering(a)
    BY <1>4 DEF Apply, ApplyWithoutWriting, ApplyForReal, Finish
  <2>4. a # None
    BY <1>1, ActionsAssumption
  <2>5. apc' = "idle" /\ ~returned'.raised => returned'.cmds = Rendering(a)
    <3>1. CASE ApplyForReal(a, DefaultApproved)
      BY <3>1 DEF ApplyForReal
    <3>2. CASE ApplyWithoutWriting(a, DefaultApproved)
      <4>1. returned' = Raised \/ returned' = Returned(Rendering(a))
        BY <2>4, <3>2 DEF ApplyWithoutWriting, DefaultApproved, Finish
      <4> QED BY <4>1 DEF Raised, Returned
    <3> QED BY <1>4, <3>1, <3>2 DEF Apply
  <2> QED BY <1>1, <1>2, <1>4, <2>1, <2>2, <2>3, <2>5 DEF Accounted, Applied
<1> QED BY <1>3, <1>4 DEF Judge

(* While apply() runs, what it has done shows only when it is through.     *)
LEMMA ActingAccounted ==
  ASSUME ~RollbackMayFail, Audit, Acting
  PROVE  Accounted'
<1>1. /\ pc = "act" /\ pc' = "act" /\ UNCHANGED <<entry, told, missed>>
      /\ ActuatorStep
  BY DEF Acting, cycleVars
<1>2. apc # "idle" /\ execute_real /\ execute_real' = execute_real
  BY <1>1
  DEF Audit, Structure, BatchBookkeeping, ActuatorStep, WriteNext, WriteFails,
      RestoreNext, RestoreFails
<1>3. batch = Rendering(entry.action) /\ Untold = {}
  BY <1>1, <1>2 DEF Audit, Accounted, Untold, Applied
<1>4. \/ apc' # "idle" /\ batch' = batch
      \/ apc' = "idle" /\ (returned' = Returned(batch) \/ returned' = Raised)
  BY <1>1, <1>2
  DEF ActuatorStep, WriteNext, WriteFails, RestoreNext, RestoreFails, Dismiss, Finish
<1>5. Returned(batch).cmds = batch /\ Raised.raised
  BY DEF Returned, Raised
<1>6. /\ pc' = "act" /\ apc' # "idle" => batch' = Rendering(entry'.action)
      /\ Applied' => returned'.cmds = Rendering(entry'.action)
  BY <1>1, <1>3, <1>4, <1>5 DEF Applied
<1>7. ASSUME NEW f \in (Fields \ missed') \ Untold'
      PROVE  Restored'[f] = told'[f]
  <2>1. f \in (Fields \ missed) \ Untold
    BY <1>1, <1>3, <1>7
  <2>2. Restored[f] = told[f]
    BY <2>1 DEF Audit, Accounted
  <2>3. CASE Restored' = Restored
    BY <1>1, <2>2, <2>3
  <2>4. CASE apc' # "idle" \/ returned'.raised
    BY <1>1, <2>3, <2>4, RaisingStep DEF Audit, ActuatorNext
  <2>5. CASE apc' = "idle" /\ ~returned'.raised
    <3>1. f \notin DOMAIN batch
      BY <1>1, <1>2, <1>3, <1>7, <2>5 DEF Untold, Applied, Rendering
    <3>2. PICK g \in Fields : WriteNext(g)
      BY <1>1, <2>5, FinishClears
      DEF ActuatorStep, WriteFails, RestoreNext, RestoreFails, Dismiss, Raised
    <3>3. CASE Restored' = Overlay(Restored, batch)
      BY <1>1, <2>2, <3>1, <3>3 DEF Overlay
    <3> QED BY <2>3, <3>2, <3>3, WriteNextAtomic DEF Audit
  <2> QED BY <2>4, <2>5
<1> QED BY <1>1, <1>6, <1>7 DEF Accounted

LEMMA SettleAccounted ==
  ASSUME Audit, Settle
  PROVE  Accounted'
<1>1. /\ pc = "act" /\ apc = "idle" /\ pc' = "record"
      /\ UNCHANGED <<actuatorVars, told, missed>>
      /\ entry' = [entry EXCEPT !.error = returned.raised]
  BY DEF Settle
<1>2. /\ entry'.action = entry.action /\ entry'.valid = entry.valid
      /\ entry'.error = returned.raised /\ entry.valid
  BY <1>1 DEF Audit, CycleConsistent
<1>3. Untold' = Untold /\ ~Applied'
  BY <1>1, <1>2 DEF Untold, Applied, actuatorVars
<1>4. Restored' = Restored
  BY <1>1, RestoredUnchanged DEF actuatorVars
<1>5. ASSUME NEW f \in Untold
      PROVE  kernel[f] = Rendered(f, entry.action[f])
  <2>1. execute_real /\ Applied /\ f \in DOMAIN entry.action
    BY <1>1, <1>5 DEF Untold
  <2>2. returned.cmds = Rendering(entry.action)
    BY <2>1 DEF Audit, Accounted
  <2> QED BY <1>1, <2>1, <2>2 DEF Audit, ReportMatchesKernel, Rendering
<1> QED BY <1>1, <1>2, <1>3, <1>4, <1>5 DEF Audit, Accounted, actuatorVars

LEMMA RecordAccounted ==
  ASSUME Audit, Record
  PROVE  Accounted'
<1>1. /\ pc = "record" /\ pc' = "observe" /\ UNCHANGED actuatorVars
      /\ apc = "idle"
  BY DEF Record, Audit, CycleConsistent
<1>2. Untold = (IF execute_real THEN Claimed ELSE {}) /\ Untold' = {}
  BY <1>1 DEF Untold, Claimed, Applied
<1>3. Restored' = Restored
  BY <1>1, RestoredUnchanged DEF actuatorVars
<1>4. ASSUME NEW f \in Fields \ missed'
      PROVE  Restored[f] = told'[f]
  <2>1. told'[f] = IF f \in Untold THEN Rendered(f, entry.action[f]) ELSE told[f]
    BY <1>2 DEF Record
  <2>2. CASE f \in Untold
    BY <1>1, <2>1, <2>2, AtRest DEF Audit, Accounted
  <2>3. CASE f \notin Untold
    <3>1. f \notin missed
      BY <1>2, <1>4, <2>3 DEF Record
    <3> QED BY <2>1, <2>3, <3>1 DEF Audit, Accounted
  <2> QED BY <2>2, <2>3
<1> QED BY <1>1, <1>2, <1>3, <1>4 DEF Accounted, Applied

(* What a process leaves untold when it ends is missed from then on.       *)
LEMMA EndsAccounted ==
  ASSUME Audit, Ends, UNCHANGED kernel, DOMAIN saved' = {}
  PROVE  Accounted'
<1>1. /\ pc' = "down" /\ UNCHANGED told /\ missed' = missed \cup Unrecorded
  BY DEF Ends
<1>2. Untold' = {} /\ ~Applied'
  BY <1>1 DEF Untold, Applied
<1>3. Untold \cup DOMAIN saved \subseteq Unrecorded
  <2>1. Untold \subseteq Unrecorded
    BY DEF Untold, Applied, Unrecorded, Audit, CycleConsistent
  <2>2. CASE apc = "idle"
    BY <2>1, <2>2 DEF Audit, Structure, BatchBookkeeping
  <2>3. CASE apc # "idle"
    <3>1. pc = "act" /\ entry.valid /\ execute_real /\ DOMAIN saved \subseteq DOMAIN batch
      BY <2>3 DEF Audit, CycleConsistent, Structure, ActuatorTypeOK, BatchBookkeeping
    <3>2. DOMAIN batch = DOMAIN entry.action
      BY <2>3, <3>1 DEF Audit, Accounted, Rendering
    <3> QED BY <2>1, <3>1, <3>2 DEF Unrecorded
  <2> QED BY <2>2, <2>3
<1>4. ASSUME NEW f \in Fields \ missed'
      PROVE  Restored'[f] = told'[f]
  <2>1. f \notin missed /\ f \notin Untold /\ f \notin DOMAIN saved
    BY <1>1, <1>3, <1>4
  <2>2. Restored[f] = told[f] /\ Restored[f] = kernel[f]
    BY <1>4, <2>1 DEF Audit, Accounted, Restored
  <2>3. Restored'[f] = kernel[f]
    BY <1>4 DEF Restored
  <2> QED BY <1>1, <2>2, <2>3
<1> QED BY <1>1, <1>2, <1>4 DEF Accounted

LEMMA AccountedStep ==
  ASSUME ~RollbackMayFail, Audit, [OnlineNext]_onlineVars
  PROVE  Accounted'
<1>1. ASSUME NEW t \in Transitions, ObserveFirst(t) \/ Observe(t)
      PROVE  Accounted'
  BY <1>1, ElsewhereAccounted DEF ObserveFirst, Observe, Audit
<1>2. CASE Check \/ Adapt
  BY <1>2, ElsewhereAccounted DEF Check, Adapt, Audit
<1>3. ASSUME pc = "decide", NEW d \in Decisions(policy, kir), Decide(d)
      PROVE  Accounted'
  <2>1. ~entry'.valid
    BY <1>3 DEF Decide, Entry
  <2> QED BY <1>3, <2>1, ElsewhereAccounted DEF Decide, Audit
<1>4. CASE Judge
  BY <1>4, JudgeAccounted DEF Audit
<1>5. CASE Acting
  BY <1>5, ActingAccounted
<1>6. CASE Settle
  BY <1>6, SettleAccounted
<1>7. CASE Record
  BY <1>7, RecordAccounted
<1>8. CASE Killed
  <2>1. UNCHANGED kernel /\ DOMAIN saved' = {}
    BY <1>8, FinishClears DEF Killed, Crash
  <2> QED BY <1>8, <2>1, EndsAccounted DEF Killed
<1>9. CASE Exit \/ TrainingRaises \/ DecideRaises \/ RecordRaises
  <2>1. UNCHANGED actuatorVars /\ Ends /\ apc = "idle"
    BY <1>9
    DEF Exit, TrainingRaises, DecideRaises, RecordRaises, Audit, CycleConsistent
  <2>2. UNCHANGED kernel /\ DOMAIN saved' = {}
    BY <2>1 DEF actuatorVars, Audit, Structure, BatchBookkeeping
  <2> QED BY <2>1, <2>2, EndsAccounted
<1>10. CASE Start
  <2>1. Restored' = Restored
    BY <1>10, RestoredUnchanged DEF Start, Construct
  <2>2. Untold = {} /\ Untold' = {} /\ ~Applied'
    BY <1>10 DEF Start, Untold, Applied
  <2> QED BY <1>10, <2>1, <2>2 DEF Start, Audit, Accounted
<1>11. CASE UNCHANGED onlineVars
  <2>1. Restored' = Restored /\ Untold' = Untold /\ Applied' = Applied
    BY <1>11, RestoredUnchanged
    DEF onlineVars, cycleVars, actuatorVars, Untold, Applied
  <2> QED BY <1>11, <2>1 DEF onlineVars, cycleVars, actuatorVars, Audit, Accounted
<1> QED
  BY <1>1, <1>2, <1>3, <1>4, <1>5, <1>6, <1>7, <1>8, <1>9, <1>10, <1>11
  DEF OnlineNext, CycleOn

(***************************************************************************)
(* Where restoring writes do not fail, the log accounts for every sysctl   *)
(* but those changed in a cycle that ended before its record.              *)
(***************************************************************************)
THEOREM AuditStaysTrue == OnlineSpec => []AuditExplainsKernel
<1> DEFINE Inv == Audit \/ RollbackMayFail
<1>1. OnlineInit => Inv
  <2> SUFFICES ASSUME OnlineInit PROVE Audit
    OBVIOUS
  <2>1. ActuatorInit /\ CycleConsistent /\ Structure
    BY CycleInit, StructureInit DEF OnlineInit
  <2>2. ReportMatchesKernel
    BY <2>1 DEF ActuatorInit, ReportMatchesKernel, Returned, NoCommands
  <2>3. pc = "observe" /\ apc = "idle" /\ told = kernel
    BY <2>1 DEF OnlineInit, ActuatorInit
  <2>4. Accounted
    BY <2>1, <2>3, AtRest DEF Accounted, Applied, Untold
  <2> QED BY <2>1, <2>2, <2>4 DEF Audit
<1>2. Inv /\ [OnlineNext]_onlineVars => Inv'
  <2> SUFFICES ASSUME Audit, ~RollbackMayFail, [OnlineNext]_onlineVars
               PROVE  Audit'
    OBVIOUS
  <2>1. CycleConsistent' /\ [ActuatorNext]_actuatorVars
    BY CycleStep, DrivenStep DEF Audit
  <2>2. Structure' /\ ReportMatchesKernel'
    BY <2>1, StructureStep, ReportStep DEF Audit
  <2> QED BY <2>1, <2>2, AccountedStep DEF Audit
<1>3. Inv => AuditExplainsKernel
  <2> SUFFICES ASSUME Audit, pc \notin {"act", "record"}, NEW f \in Fields \ missed
               PROVE  kernel[f] = told[f]
    BY DEF AuditExplainsKernel
  <2>1. apc = "idle" /\ Untold = {}
    BY DEF Audit, CycleConsistent, Untold, Applied
  <2> QED BY <2>1, AtRest DEF Audit, Accounted
<1> QED BY <1>1, <1>2, <1>3, PTL DEF OnlineSpec

-----------------------------------------------------------------------------
(* The terms of a reward.                                                  *)
LEMMA Quotient ==
  ASSUME NEW x \in Nat, NEW y \in Nat, y > 0
  PROVE  x \div y \in Nat
BY SMT

LEMMA TermsBounded ==
  ASSUME NEW s, IsSample(s)
  PROVE  /\ Throughput(s) \in Nat /\ Throughput(s) <= 100
         /\ Latency(s) \in Nat /\ Latency(s) <= 100
<1>1. SwitchDelta(s) \in Nat /\ Elapsed(s) \in Nat /\ Elapsed(s) > 0
  BY DEF IsSample, SwitchDelta, Elapsed
<1>2. (10 * SwitchDelta(s)) \div Elapsed(s) \in Nat
  BY <1>1, Quotient
<1>3. Throughput(s) \in Nat /\ Throughput(s) <= 100
  BY <1>2 DEF Throughput, AtMost
<1>4. Latency(s) \in Nat /\ Latency(s) <= 100
  BY SMT DEF IsSample, Latency, AtMost
<1> QED BY <1>3, <1>4

LEMMA ThrashBounded ==
  ASSUME NEW s, Throughput(s) \in Nat, Throughput(s) <= 100
  PROVE  /\ Thrash(s) \in Nat /\ Thrash(s) <= 100
         /\ 10 * Throughput(s) - 6 * Thrash(s) <= BEST_REWARD
         /\ 10 * Throughput(s) - 6 * Thrash(s) >= 0
<1>1. CASE Throughput(s) > 85
  <2>1. Thrash(s) = ((Throughput(s) - 85) * 100) \div 15
    BY <1>1, SMT DEF Thrash, THRASH_TAU
  <2> QED BY <1>1, <2>1, SMT DEF BEST_REWARD
<1>2. CASE ~(Throughput(s) > 85)
  <2>1. Thrash(s) = 0
    BY <1>2, SMT DEF Thrash, THRASH_TAU
  <2> QED BY <1>2, <2>1, SMT DEF BEST_REWARD
<1> QED BY <1>1, <1>2

(***************************************************************************)
(* Whatever two observations are compared, their reward is one that a      *)
(* healthy transition may earn.                                            *)
(***************************************************************************)
LEMMA StepRewardBounded ==
  ASSUME NEW s, IsSample(s)
  PROVE  IsReward(StepReward(s))
<1>1. /\ Throughput(s) \in Nat /\ Throughput(s) <= 100
      /\ Latency(s) \in Nat /\ Latency(s) <= 100
  BY TermsBounded
<1>2. /\ Thrash(s) \in Nat
      /\ 10 * Throughput(s) - 6 * Thrash(s) <= BEST_REWARD
      /\ 10 * Throughput(s) - 6 * Thrash(s) >= 0
  BY <1>1, ThrashBounded
<1>3. s.util \in Nat /\ s.util <= 100
  BY DEF IsSample
<1>4. /\ StepReward(s) \in Int /\ StepReward(s) <= BEST_REWARD
      /\ StepReward(s) >= WORST_REWARD
  BY <1>1, <1>2, <1>3, SMT DEF StepReward, WORST_REWARD, BEST_REWARD
<1> QED BY <1>4, SMT DEF IsReward, WORST_REWARD, BEST_REWARD

LEMMA WindowKeepsBounds ==
  ASSUME NEW w \in Seq(Rewards), \A i \in DOMAIN w : IsReward(w[i]),
         NEW r \in Rewards, IsReward(r)
  PROVE  LET v == Append(IF Len(w) < Required THEN w ELSE Tail(w), r)
         IN  \A i \in DOMAIN v : IsReward(v[i])
<1> DEFINE u == IF Len(w) < Required THEN w ELSE Tail(w)
<1>1. u \in Seq(Rewards) /\ \A i \in DOMAIN u : IsReward(u[i])
  <2>1. CASE Len(w) < Required
    BY <2>1
  <2>2. CASE ~(Len(w) < Required)
    <3>1. Len(w) \in Nat /\ w # <<>>
      BY <2>2, RequiredPositive, LenProperties, EmptySeq
    <3>2. /\ Tail(w) \in Seq(Rewards) /\ Len(Tail(w)) = Len(w) - 1
          /\ \A i \in 1 .. Len(Tail(w)) : Tail(w)[i] = w[i + 1]
      BY <3>1, HeadTailProperties
    <3>3. DOMAIN Tail(w) = 1 .. Len(Tail(w)) /\ DOMAIN w = 1 .. Len(w)
      BY <3>2, LenProperties
    <3>4. ASSUME NEW i \in 1 .. Len(Tail(w))
          PROVE  i + 1 \in DOMAIN w /\ Tail(w)[i] = w[i + 1]
      BY <3>1, <3>2, <3>3, <3>4
    <3>5. u = Tail(w)
      BY <2>2
    <3> QED BY <3>2, <3>3, <3>4, <3>5
  <2> QED BY <2>1, <2>2
<1>2. /\ DOMAIN Append(u, r) = 1 .. Len(u) + 1 /\ DOMAIN u = 1 .. Len(u)
      /\ \A i \in 1 .. Len(u) : Append(u, r)[i] = u[i]
      /\ Append(u, r)[Len(u) + 1] = r
  BY <1>1, AppendProperties, LenProperties
<1>3. Len(u) \in Nat
  BY <1>1, LenProperties
<1>4. ASSUME NEW i \in 1 .. Len(u) + 1
      PROVE  IsReward(Append(u, r)[i])
  <2>1. CASE i = Len(u) + 1
    BY <1>2, <2>1
  <2>2. CASE i \in 1 .. Len(u)
    BY <1>1, <1>2, <2>2
  <2> QED BY <1>3, <2>1, <2>2
<1> QED BY <1>2, <1>4

(***************************************************************************)
(* However clocks and counters jump, every reward in the window stays      *)
(* within what the reward's coefficients allow a healthy transition.       *)
(***************************************************************************)
THEOREM RewardsStayBounded == OnlineSpec => []RewardsBounded
<1>1. OnlineInit => RewardsBounded
  BY DEF OnlineInit, DriftInit, RewardsBounded
<1>2. DriftTypeOK /\ RewardsBounded /\ [OnlineNext]_onlineVars => RewardsBounded'
  <2> SUFFICES ASSUME DriftTypeOK, RewardsBounded, [OnlineNext]_onlineVars
               PROVE  RewardsBounded'
    OBVIOUS
  <2>1. ASSUME NEW t \in Transitions, Observe(t)
        PROVE  RewardsBounded'
    <3>1. StepReward(t.sample) \in Rewards /\ IsReward(StepReward(t.sample))
      BY TransitionsAssumption, StepRewardBounded
    <3>2. ring' = Append(IF Len(ring) < Required THEN ring ELSE Tail(ring),
                         StepReward(t.sample))
      BY <2>1 DEF Observe, AddStep
    <3> QED BY <3>1, <3>2, WindowKeepsBounds DEF DriftTypeOK, RewardsBounded
  <2>2. CASE ring' = <<>>
    BY <2>2 DEF RewardsBounded
  <2>3. CASE UNCHANGED ring
    BY <2>3 DEF RewardsBounded
  <2>4. CASE Check
    BY <2>3, <2>4 DEF Check, CheckDrift
  <2> QED
    BY <2>1, <2>2, <2>3, <2>4
    DEF OnlineNext, CycleOn, ObserveFirst, Adapt, TriggerAdaptation, Decide, Judge,
        Acting, Settle, Record, Killed, Ends, ProcessEnds, Cleared, Exit,
        TrainingRaises, DecideRaises, RecordRaises, Start, driftVars, onlineVars
<1>3. OnlineSpec => []DriftTypeOK
  BY OnlineDrifts, DriftTypeHolds, PTL
<1> QED BY <1>1, <1>2, <1>3, PTL DEF OnlineSpec

(***************************************************************************)
(* After an alarm the window starts afresh under the policy that training  *)
(* returned, and keeps no reward of another.                               *)
(***************************************************************************)
THEOREM WindowStaysCurrent == OnlineSpec => []WindowIsCurrentPolicys
<1> DEFINE Fresher ==
      /\ stale = 0
      /\ pc = "down" => quiet = MaxCount
      /\ ring = <<>> /\ quiet = 0 => policy.kind \in TrainedKinds
<1>1. OnlineInit => Fresher
  BY RequiredPositive DEF OnlineInit, DriftInit
<1>2. CycleConsistent /\ DriftTypeOK /\ Fresher /\ [OnlineNext]_onlineVars => Fresher'
  <2> SUFFICES ASSUME CycleConsistent, DriftTypeOK, Fresher, [OnlineNext]_onlineVars
               PROVE  Fresher'
    OBVIOUS
  <2>1. ASSUME NEW t \in Transitions, Observe(t)
        PROVE  Fresher'
    <3>1. stale' = 0 /\ pc' = "check"
      BY <2>1 DEF Observe
    <3>2. ring' # <<>>
      <4>1. /\ ring' = Append(IF Len(ring) < Required THEN ring ELSE Tail(ring),
                              StepReward(t.sample))
            /\ StepReward(t.sample) \in Rewards
        BY <2>1, TransitionsAssumption DEF Observe, AddStep
      <4>2. (IF Len(ring) < Required THEN ring ELSE Tail(ring)) \in Seq(Rewards)
        <5>1. CASE Len(ring) < Required
          BY <5>1 DEF DriftTypeOK
        <5>2. CASE ~(Len(ring) < Required)
          <6>1. ring # <<>>
            BY <5>2, RequiredPositive, EmptySeq DEF DriftTypeOK
          <6> QED BY <5>2, <6>1, HeadTailProperties DEF DriftTypeOK
        <5> QED BY <5>1, <5>2
      <4> QED BY <4>1, <4>2, AppendProperties
    <3> QED BY <3>1, <3>2
  <2>2. CASE Check
    <3>1. Drifted(ring) => ring # <<>>
      BY RequiredPositive, EmptySeq DEF Drifted
    <3> QED BY <2>2, <3>1 DEF Check, CheckDrift
  <2>3. CASE Adapt
    <3>1. ring' = <<>> /\ stale' = Len(ring') /\ pc' = "decide"
      BY <2>3 DEF Adapt, TriggerAdaptation, Cleared
    <3>2. PICK kind \in TrainedKinds : policy' = Fresh(kind)
      BY <2>3 DEF Adapt
    <3> QED BY <3>1, <3>2, Empty, FreshPolicies
  <2>4. ASSUME pc = "decide", NEW d \in Decisions(policy, kir), Decide(d)
        PROVE  Fresher'
    <3>1. policy'.kind = policy.kind
      BY <2>4, DecisionsAreProposals DEF Decide, CycleConsistent
    <3> QED BY <2>4, <3>1 DEF Decide, driftVars
  <2>5. CASE Ends
    BY <2>5, RequiredPositive DEF Ends, ProcessEnds
  <2>6. CASE Start
    BY <2>6, RequiredPositive DEF Start, driftVars
  <2>7. CASE UNCHANGED <<stale, quiet, ring, policy>> /\ pc' # "down"
    BY <2>7
  <2>8. CASE UNCHANGED onlineVars
    BY <2>8 DEF onlineVars, cycleVars, driftVars
  <2> QED
    BY <2>1, <2>2, <2>3, <2>4, <2>5, <2>6, <2>7, <2>8
    DEF OnlineNext, CycleOn, ObserveFirst, Judge, Acting, Settle, Record, Killed,
        Exit, TrainingRaises, DecideRaises, RecordRaises, driftVars, cycleVars
<1>3. OnlineSpec => []DriftTypeOK
  BY OnlineDrifts, DriftTypeHolds, PTL
<1>4. Fresher => WindowIsCurrentPolicys
  BY DEF WindowIsCurrentPolicys
<1> QED BY <1>1, <1>2, <1>3, <1>4, CycleInit, CycleStep, PTL DEF OnlineSpec
=============================================================================
