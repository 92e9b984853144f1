--------------------------- MODULE ActuatorProofs ---------------------------
(***************************************************************************)
(* What holds of the actuator for every set of actions, every kernel and   *)
(* every bound on failures, proved from an inductive invariant: the batch  *)
(* being written is within the validator's bounds, the values saved for a  *)
(* rollback were in the kernel before, and the bookkeeping relates the two.*)
(* The lemmas at the end are about what the policies give the actuator:    *)
(* their bounds lie within the validator's.                                *)
(***************************************************************************)
EXTENDS Actuator, Policies, TLAPS

(* A rendered value the kernel may be given: a congestion-control name is  *)
(* one of the allowlist only once the kernel has recognised it.            *)
WritableSetting(f, x) ==
  IF f = "congestion_control"
  THEN x \in Spellings /\ Lower(x) \in ALLOWED_CONGESTION_CONTROL
  ELSE SafeSetting(f, x)

KnownSetting(f, x) == x = InitKernel[f] \/ SafeSetting(f, x)

BatchWritable ==
  apc # "idle" => \A f \in DOMAIN batch : WritableSetting(f, batch[f])

SavedKnown == \A f \in DOMAIN saved : KnownSetting(f, saved[f])

-----------------------------------------------------------------------------
(* Scaling microseconds to nanoseconds keeps an interval an interval.      *)
LEMMA ScaledInterval ==
  ASSUME NEW v, NEW lo \in Int, NEW hi \in Int, v \in lo .. hi
  PROVE  v * 1000 \in 1000 * lo .. 1000 * hi
BY SMT

LEMMA ScaledFloor ==
  ASSUME NEW v \in Int, NEW lo \in Int, v >= lo
  PROVE  v * 1000 >= 1000 * lo
BY SMT

LEMMA BoundsAreIntegers ==
  /\ MIN_TARGET_LATENCY_US \in Int /\ MAX_TARGET_LATENCY_US \in Int
  /\ MIN_WAKEUP_GRANULARITY_US \in Int /\ MAX_MIGRATION_COST_NS \in Int
  /\ MIN_SWAPPINESS \in Int /\ MAX_SWAPPINESS \in Int /\ MAX_QUEUE_LIMIT \in Int
BY SMT DEF MIN_TARGET_LATENCY_US, MAX_TARGET_LATENCY_US, MIN_WAKEUP_GRANULARITY_US,
           MAX_MIGRATION_COST_NS, MIN_SWAPPINESS, MAX_SWAPPINESS, MAX_QUEUE_LIMIT

(* A field of an action the validator accepts is rendered as a value the   *)
(* kernel may be given: the scaling and the stripping keep the bounds.     *)
LEMMA RenderedWritable ==
  ASSUME NEW a, IsAction(a), NEW k, ValidateAction(k, a), NEW f \in DOMAIN a
  PROVE  WritableSetting(f, Rendered(f, a[f]))
<1>1. CASE f = "congestion_control"
  <2>1. a[f] \in Spellings
    BY <1>1 DEF IsAction
  <2>2. Lower(Strip(a[f])) \in ALLOWED_CONGESTION_CONTROL
    BY <1>1 DEF ValidateAction, NetworkOK, Sets
  <2>3. Strip(a[f]) \in Spellings
    BY <2>1, Zenon DEF Strip, Spellings
  <2> QED BY <1>1, <2>2, <2>3 DEF WritableSetting, Rendered
<1>2. CASE f # "congestion_control"
  <2>1. f \in NumericFields /\ a[f] \in Int
    BY <1>2 DEF IsAction, NumericFields
  <2>2. Rendered(f, a[f]) = a[f] * Scale(f)
    BY <1>2 DEF Rendered
  <2>3. CASE f = "target_latency_us"
    <3>1. a[f] \in MIN_TARGET_LATENCY_US .. MAX_TARGET_LATENCY_US
      BY <2>3 DEF ValidateAction, SchedulerOK, Sets
    <3>2. Rendered(f, a[f]) = a[f] * 1000
      BY <2>2, <2>3 DEF Scale
    <3>3. a[f] * 1000 \in 1000 * MIN_TARGET_LATENCY_US .. 1000 * MAX_TARGET_LATENCY_US
      BY <3>1, ScaledInterval, BoundsAreIntegers
    <3> QED BY <2>3, <3>2, <3>3 DEF WritableSetting, SafeSetting
  <2>4. CASE f = "wakeup_granularity_us"
    <3>1. a[f] >= MIN_WAKEUP_GRANULARITY_US
      BY <2>4 DEF ValidateAction, SchedulerOK, Sets
    <3>2. Rendered(f, a[f]) = a[f] * 1000
      BY <2>2, <2>4 DEF Scale
    <3>3. a[f] * 1000 >= 1000 * MIN_WAKEUP_GRANULARITY_US
      BY <2>1, <3>1, ScaledFloor, BoundsAreIntegers
    <3> QED BY <2>4, <3>2, <3>3 DEF WritableSetting, SafeSetting
  <2>5. CASE f \in NumericFields \ {"target_latency_us", "wakeup_granularity_us"}
    <3>1. Rendered(f, a[f]) = a[f]
      BY <2>1, <2>2, <2>5 DEF Scale
    <3>2. SafeSetting(f, a[f])
      BY <1>2, <2>5
      DEF ValidateAction, SchedulerOK, VMOK, NetworkOK, Sets, SafeSetting,
          NumericFields, Fields, SchedulerFields, VMFields, NetFields
    <3> QED BY <1>2, <3>1, <3>2 DEF WritableSetting
  <2> QED BY <2>1, <2>3, <2>4, <2>5
<1> QED BY <1>1, <1>2

(* A value the kernel took is within bounds: it matches names exactly, so  *)
(* a name it recognised is spelled as in the allowlist.                    *)
LEMMA AcceptedSafe ==
  ASSUME NEW f, WritableSetting(f, batch[f]), Accepts(f, batch[f])
  PROVE  SafeSetting(f, batch[f])
<1>1. CASE f = "congestion_control"
  <2>1. batch[f] \in Spellings /\ ~batch[f].upper
    BY <1>1, RegisteredAssumption DEF WritableSetting, Accepts
  <2>2. Lower(batch[f]) = batch[f]
    BY <2>1 DEF Lower, Spellings
  <2> QED BY <1>1, <2>2 DEF WritableSetting, SafeSetting
<1>2. CASE f # "congestion_control"
  BY <1>2 DEF WritableSetting
<1> QED BY <1>1, <1>2

(* The bounds of an action's fields are those of the tunable fields.       *)
LEMMA ActionFields ==
  ASSUME NEW a \in Actions
  PROVE  IsAction(a) /\ DOMAIN a \subseteq Fields
BY ActionsAssumption DEF IsAction

-----------------------------------------------------------------------------
(* The structural part of the inductive invariant.                         *)
Structure == ActuatorTypeOK /\ BatchBookkeeping

(* The commands of a batch have an order, and no two the same place in it. *)
LEMMA RankOrders ==
  ASSUME NEW f \in Fields, NEW g \in Fields
  PROVE  Rank[f] \in Nat /\ Rank[g] \in Nat /\ (Rank[f] = Rank[g] => f = g)
BY DEF Rank, Fields, SchedulerFields, VMFields, NetFields

(* The end of a call leaves no batch behind.                               *)
LEMMA FinishClears ==
  ASSUME NEW r, Finish(r)
  PROVE  /\ apc' = "idle" /\ todo' = {} /\ returned' = r
         /\ DOMAIN saved' = {} /\ DOMAIN found' = {}
         /\ BatchBookkeeping'
<1>1. /\ apc' = "idle" /\ todo' = {} /\ saved' = NoCommands /\ found' = NoCommands
      /\ returned' = r
  BY DEF Finish
<1>2. DOMAIN NoCommands = {}
  BY DEF NoCommands
<1> QED BY <1>1, <1>2 DEF BatchBookkeeping

(* A report of a call that raised, or of no command, is well-typed.        *)
LEMMA ReportTypes ==
  /\ Raised.raised \in BOOLEAN /\ DOMAIN Raised.cmds \subseteq Fields
  /\ \A c : Returned(c).raised \in BOOLEAN /\ Returned(c).cmds = c
  /\ DOMAIN NoCommands = {}
BY DEF Raised, Returned, NoCommands

LEMMA StructureInit == ActuatorInit => Structure
<1> SUFFICES ASSUME ActuatorInit PROVE Structure
  OBVIOUS
<1>1. /\ DOMAIN saved = {} /\ DOMAIN found = {}
      /\ returned.raised \in BOOLEAN /\ DOMAIN returned.cmds = {}
  BY ReportTypes DEF ActuatorInit
<1>2. ActuatorTypeOK
  BY <1>1, KernelAssumption, ModesAssumption, SMT DEF ActuatorInit, ActuatorTypeOK
<1>3. BatchBookkeeping
  BY <1>1 DEF ActuatorInit, BatchBookkeeping
<1> QED BY <1>2, <1>3 DEF Structure

LEMMA ApplyStructure ==
  ASSUME Structure, NEW a, NEW ok, a = None \/ a \in Actions, Apply(a, ok)
  PROVE  Structure'
<1>1. CASE ApplyWithoutWriting(a, ok)
  <2>1. PICK r : Finish(r) /\ r.raised \in BOOLEAN /\ DOMAIN r.cmds \subseteq Fields
    <3>1. CASE Finish(Returned(NoCommands))
      BY <3>1, ReportTypes
    <3>2. CASE Finish(Raised)
      BY <3>2, ReportTypes
    <3>3. CASE a \in Actions /\ Finish(Returned(Rendering(a)))
      BY <3>3, ReportTypes, ActionFields DEF Rendering
    <3> QED
      BY <1>1, <3>1, <3>2, <3>3 DEF ApplyWithoutWriting
  <2>2. UNCHANGED <<execute_real, kernel, faults, crashes>>
    BY <1>1 DEF Apply, ApplyWithoutWriting
  <2>3. ActuatorTypeOK'
    BY <2>1, <2>2, FinishClears DEF Structure, ActuatorTypeOK
  <2> QED BY <2>1, <2>3, FinishClears DEF Structure
<1>2. CASE ApplyForReal(a, ok)
  <2>1. a \in Actions /\ DOMAIN a # {} /\ DOMAIN a \subseteq Fields /\ execute_real
    BY <1>2, ActionFields DEF ApplyForReal
  <2>2. /\ apc' = "writing" /\ batch' = Rendering(a) /\ todo' = DOMAIN a
        /\ DOMAIN saved' = {} /\ DOMAIN Rendering(a) = DOMAIN a
        /\ found' = kernel /\ UNCHANGED <<kernel, returned>>
    BY <1>2, ReportTypes DEF ApplyForReal, Rendering
  <2>3. UNCHANGED <<execute_real, faults, crashes>>
    BY DEF Apply
  <2>4. ActuatorTypeOK'
    BY <2>1, <2>2, <2>3 DEF Structure, ActuatorTypeOK
  <2>5. BatchBookkeeping'
    BY <2>1, <2>2, <2>3 DEF BatchBookkeeping
  <2> QED BY <2>4, <2>5 DEF Structure
<1> QED BY <1>1, <1>2 DEF Apply

LEMMA WriteNextStructure ==
  ASSUME Structure, NEW f \in Fields, WriteNext(f)
  PROVE  Structure'
<1>1. /\ apc = "writing" /\ First(f, todo) /\ f \in todo /\ todo \subseteq Fields
      /\ DOMAIN kernel' = Fields /\ kernel'[f] = batch[f]
      /\ \A g \in Fields \ {f} : kernel'[g] = kernel[g]
      /\ UNCHANGED <<execute_real, faults, crashes>>
  BY DEF Structure, ActuatorTypeOK, WriteNext, First
<1>2. /\ todo \cap DOMAIN saved = {} /\ DOMAIN batch = todo \cup DOMAIN saved
      /\ execute_real /\ DOMAIN saved \subseteq Fields
      /\ \A g \in Fields \ DOMAIN saved : kernel[g] = found[g]
      /\ \A g \in DOMAIN saved :
           /\ kernel[g] = batch[g] /\ saved[g] = found[g]
           /\ \A h \in DOMAIN batch \ DOMAIN saved : Rank[g] < Rank[h]
  BY <1>1 DEF Structure, ActuatorTypeOK, BatchBookkeeping
<1>3. CASE todo # {f}
  <2>1. /\ todo' = todo \ {f} /\ DOMAIN saved' = DOMAIN saved \cup {f}
        /\ saved'[f] = kernel[f] /\ \A g \in DOMAIN saved : saved'[g] = saved[g]
        /\ UNCHANGED <<apc, batch, found, returned>>
    BY <1>1, <1>2, <1>3 DEF WriteNext
  <2>2. ActuatorTypeOK'
    BY <1>1, <1>2, <2>1 DEF Structure, ActuatorTypeOK
  <2>3. BatchBookkeeping'
    <3>1. /\ \A g \in DOMAIN saved' : kernel'[g] = batch'[g] /\ saved'[g] = found'[g]
          /\ \A g \in Fields \ DOMAIN saved' : kernel'[g] = found'[g]
      BY <1>1, <1>2, <2>1
    <3>2. todo' # {} /\ todo' \cap DOMAIN saved' = {}
          /\ DOMAIN batch' = todo' \cup DOMAIN saved'
      BY <1>1, <1>2, <1>3, <2>1
    <3>3. ASSUME NEW g \in DOMAIN saved', NEW h \in DOMAIN batch' \ DOMAIN saved'
          PROVE  Rank[g] < Rank[h]
      <4>1. h \in todo /\ h # f /\ h \in DOMAIN batch \ DOMAIN saved
        BY <1>2, <2>1
      <4>2. CASE g = f
        <5>1. Rank[f] <= Rank[h]
          BY <1>1, <4>1 DEF First
        <5> QED BY <1>1, <4>1, <4>2, <5>1, RankOrders
      <4>3. CASE g \in DOMAIN saved
        BY <1>2, <4>1, <4>3
      <4> QED BY <2>1, <4>2, <4>3
    <3> QED BY <1>1, <1>2, <2>1, <3>1, <3>2, <3>3 DEF BatchBookkeeping
  <2> QED BY <2>2, <2>3 DEF Structure
<1>4. CASE todo = {f}
  <2>1. Finish(Returned(batch))
    BY <1>4 DEF WriteNext
  <2>2. Returned(batch).raised \in BOOLEAN /\ DOMAIN Returned(batch).cmds \subseteq Fields
    BY <1>1, <1>2, ReportTypes
  <2>3. ActuatorTypeOK'
    BY <1>1, <2>1, <2>2, FinishClears DEF Structure, ActuatorTypeOK
  <2> QED BY <2>1, <2>3, FinishClears DEF Structure
<1> QED BY <1>3, <1>4

LEMMA WriteFailsStructure ==
  ASSUME Structure, NEW f \in Fields, WriteFails(f)
  PROVE  Structure'
<1>1. apc = "writing" /\ UNCHANGED <<execute_real, kernel, crashes>>
  BY DEF WriteFails
<1>2. faults' \in 0 .. MaxFaults
  BY ModesAssumption DEF WriteFails, Structure, ActuatorTypeOK
<1>3. CASE apc' = "rollback" /\ DOMAIN saved # {} /\ todo' = {}
           /\ UNCHANGED <<batch, saved, found, returned>>
  <2>1. ActuatorTypeOK'
    BY <1>1, <1>2, <1>3 DEF Structure, ActuatorTypeOK
  <2>2. BatchBookkeeping'
    BY <1>1, <1>3 DEF Structure, BatchBookkeeping, LeftBehind
  <2> QED BY <2>1, <2>2 DEF Structure
<1>4. CASE Finish(Raised)
  <2>1. ActuatorTypeOK'
    BY <1>1, <1>2, <1>4, FinishClears, ReportTypes DEF Structure, ActuatorTypeOK
  <2> QED BY <1>4, <2>1, FinishClears DEF Structure
<1> QED BY <1>3, <1>4 DEF WriteFails

(* Either way the rollback goes past a field, restored or not.             *)
LEMMA RestoreStructure ==
  ASSUME Structure, NEW f \in Fields, RestoreNext(f) \/ RestoreFails(f)
  PROVE  Structure'
<1>1. /\ apc = "rollback" /\ Last(f, DOMAIN saved) /\ f \in DOMAIN saved
      /\ Dismiss(f) /\ UNCHANGED <<execute_real, crashes>>
      /\ DOMAIN kernel' = Fields /\ DOMAIN kernel = Fields
      /\ \A g \in Fields \ {f} : kernel'[g] = kernel[g]
      /\ kernel'[f] = saved[f] \/ (RollbackMayFail /\ kernel'[f] = kernel[f])
  BY DEF Structure, ActuatorTypeOK, RestoreNext, RestoreFails, Last
<1>2. faults' \in 0 .. MaxFaults
  BY ModesAssumption DEF RestoreNext, RestoreFails, Structure, ActuatorTypeOK
<1>3. /\ DOMAIN saved \subseteq DOMAIN batch /\ DOMAIN saved \subseteq Fields
      /\ execute_real /\ \A g \in Fields \ DOMAIN saved : LeftBehind(g)
      /\ \A g \in DOMAIN saved :
           /\ kernel[g] = batch[g] /\ saved[g] = found[g]
           /\ \A h \in DOMAIN batch \ DOMAIN saved : Rank[g] < Rank[h]
  BY <1>1 DEF Structure, ActuatorTypeOK, BatchBookkeeping
<1>4. CASE DOMAIN saved # {f} /\ saved' = [g \in DOMAIN saved \ {f} |-> saved[g]]
           /\ UNCHANGED <<apc, batch, todo, found, returned>>
  <2>1. /\ DOMAIN saved' = DOMAIN saved \ {f}
        /\ \A g \in DOMAIN saved' : saved'[g] = saved[g]
    BY <1>4
  <2>2. ActuatorTypeOK'
    BY <1>1, <1>2, <1>4, <2>1 DEF Structure, ActuatorTypeOK
  <2>3. BatchBookkeeping'
    <3>1. DOMAIN saved' # {} /\ DOMAIN saved' \subseteq DOMAIN batch'
      BY <1>1, <1>3, <1>4, <2>1
    <3>2. \A g \in DOMAIN saved' : kernel'[g] = batch'[g] /\ saved'[g] = found'[g]
      BY <1>1, <1>3, <1>4, <2>1
    <3>3. ASSUME NEW g \in Fields \ DOMAIN saved' PROVE LeftBehind(g)'
      <4>1. CASE g = f
        BY <1>1, <1>3, <1>4, <4>1 DEF LeftBehind
      <4>2. CASE g # f
        <5>1. g \in Fields \ DOMAIN saved /\ kernel'[g] = kernel[g]
          BY <1>1, <2>1, <4>2
        <5> QED BY <1>3, <1>4, <5>1 DEF LeftBehind
      <4> QED BY <4>1, <4>2
    <3>4. ASSUME NEW g \in DOMAIN saved', NEW h \in DOMAIN batch' \ DOMAIN saved'
          PROVE  Rank[g] < Rank[h]
      <4>1. CASE h = f
        <5>1. g \in DOMAIN saved /\ g \in Fields /\ g # f
          BY <1>3, <2>1
        <5>2. Rank[g] <= Rank[f]
          BY <1>1, <5>1 DEF Last
        <5> QED BY <4>1, <5>1, <5>2, RankOrders
      <4>2. CASE h # f
        BY <1>3, <1>4, <2>1, <4>2
      <4> QED BY <4>1, <4>2
    <3> QED BY <1>1, <1>3, <1>4, <3>1, <3>2, <3>3, <3>4 DEF BatchBookkeeping
  <2> QED BY <2>2, <2>3 DEF Structure
<1>5. CASE Finish(Raised)
  <2>1. ActuatorTypeOK'
    BY <1>1, <1>2, <1>5, FinishClears, ReportTypes DEF Structure, ActuatorTypeOK
  <2> QED BY <1>5, <2>1, FinishClears DEF Structure
<1> QED BY <1>1, <1>4, <1>5 DEF Dismiss

LEMMA ConstructStructure ==
  ASSUME Structure, Construct
  PROVE  Structure'
<1>1. ActuatorTypeOK'
  BY ReportTypes DEF Construct, Structure, ActuatorTypeOK
<1>2. BatchBookkeeping'
  BY DEF Construct, Structure, BatchBookkeeping
<1> QED BY <1>1, <1>2 DEF Structure

LEMMA CrashStructure ==
  ASSUME Structure, Crash
  PROVE  Structure'
<1>1. Finish(Returned(NoCommands)) /\ UNCHANGED <<execute_real, kernel, faults>>
  BY DEF Crash
<1>2. crashes' \in 0 .. MaxCrashes
  BY ModesAssumption DEF Crash, Structure, ActuatorTypeOK
<1>3. ActuatorTypeOK'
  BY <1>1, <1>2, FinishClears, ReportTypes DEF Structure, ActuatorTypeOK
<1> QED BY <1>1, <1>3, FinishClears DEF Structure

(* Every step of the actuator keeps types and bookkeeping.                 *)
LEMMA StructureStep ==
  ASSUME Structure, [ActuatorNext]_actuatorVars
  PROVE  Structure'
<1>1. ASSUME NEW a \in Actions, ValidatedCall(a)
      PROVE  Structure'
  BY <1>1, ApplyStructure DEF ValidatedCall
<1>2. CASE Apply(None, DefaultApproved)
  BY <1>2, ApplyStructure
<1>3. CASE ActuatorStep
  BY <1>3, WriteNextStructure, WriteFailsStructure, RestoreStructure DEF ActuatorStep
<1>4. CASE Construct
  BY <1>4, ConstructStructure
<1>5. CASE Crash
  BY <1>5, CrashStructure
<1>6. CASE UNCHANGED actuatorVars
  BY <1>6 DEF actuatorVars, Structure, ActuatorTypeOK, BatchBookkeeping, LeftBehind
<1> QED BY <1>1, <1>2, <1>3, <1>4, <1>5, <1>6 DEF ActuatorNext

(***************************************************************************)
(* Type correctness and the bookkeeping of a batch, for every instance:    *)
(* apply() always knows which fields are written and which are not, holds  *)
(* for each of them the value the batch found, and restores them latest    *)
(* first.                                                                  *)
(***************************************************************************)
THEOREM BookkeepingHolds == ActuatorSpec => []ActuatorTypeOK /\ []BatchBookkeeping
<1>1. Structure /\ [ActuatorNext]_actuatorVars => Structure'
  BY StructureStep
<1>2. Structure => ActuatorTypeOK /\ BatchBookkeeping
  BY DEF Structure
<1> QED BY StructureInit, <1>1, <1>2, PTL DEF ActuatorSpec

(* The types alone: every variable keeps to the values its code gives it.  *)
THEOREM ActuatorTypeHolds == ActuatorSpec => []ActuatorTypeOK
BY BookkeepingHolds, PTL

-----------------------------------------------------------------------------
(* The part of the invariant about values, where every caller validates.   *)
Bounds == KernelInBounds /\ SavedKnown /\ BatchWritable

LEMMA FinishKeepsBounds ==
  ASSUME KernelInBounds', NEW r, Finish(r)
  PROVE  Bounds'
<1>1. apc' = "idle" /\ DOMAIN saved' = {}
  BY FinishClears
<1> QED BY <1>1 DEF Bounds, SavedKnown, BatchWritable

LEMMA BoundsInit == ActuatorInit => Bounds
<1> SUFFICES ASSUME ActuatorInit PROVE Bounds
  OBVIOUS
<1>1. kernel = InitKernel /\ apc = "idle" /\ DOMAIN saved = {}
  BY ReportTypes DEF ActuatorInit
<1> QED BY <1>1 DEF Bounds, KernelInBounds, SavedKnown, BatchWritable

(* What a validated call is about to write is writable.                    *)
LEMMA ValidatedBounds ==
  ASSUME Bounds, NEW a, a = None \/ a \in Actions, NEW ok,
         a # None /\ ok => \E k \in KIRs : ValidateAction(k, a),
         Apply(a, ok)
  PROVE  Bounds'
<1>1. CASE ApplyWithoutWriting(a, ok)
  <2>1. KernelInBounds'
    BY <1>1 DEF ApplyWithoutWriting, Bounds, KernelInBounds
  <2> QED BY <1>1, <2>1, FinishKeepsBounds DEF ApplyWithoutWriting
<1>2. CASE ApplyForReal(a, ok)
  <2>1. PICK k \in KIRs : ValidateAction(k, a)
    BY <1>2 DEF ApplyForReal
  <2>2. IsAction(a)
    BY <1>2, ActionFields DEF ApplyForReal
  <2>3. /\ batch' = Rendering(a) /\ DOMAIN saved' = {} /\ UNCHANGED kernel
    BY <1>2, ReportTypes DEF ApplyForReal
  <2>4. BatchWritable'
    BY <2>1, <2>2, <2>3, RenderedWritable DEF BatchWritable, Rendering
  <2> QED
    BY <2>3, <2>4 DEF Bounds, KernelInBounds, SavedKnown
<1> QED BY <1>1, <1>2 DEF Apply

LEMMA WriteNextBounds ==
  ASSUME Structure, Bounds, NEW f \in Fields, WriteNext(f)
  PROVE  Bounds'
<1>1. /\ apc = "writing" /\ f \in DOMAIN batch /\ f \in DOMAIN kernel /\ Accepts(f, batch[f])
      /\ kernel' = [kernel EXCEPT ![f] = batch[f]]
  BY DEF Structure, ActuatorTypeOK, BatchBookkeeping, WriteNext, First
<1>2. SafeSetting(f, batch[f])
  BY <1>1, AcceptedSafe DEF Bounds, BatchWritable
<1>3. DOMAIN kernel = Fields
  BY DEF Structure, ActuatorTypeOK
<1>4. KernelInBounds'
  <2> SUFFICES ASSUME NEW g \in Fields
               PROVE  kernel'[g] = InitKernel[g] \/ SafeSetting(g, kernel'[g])
    BY DEF KernelInBounds
  <2>1. CASE g = f
    BY <1>1, <1>2, <1>3, <2>1
  <2>2. CASE g # f
    BY <1>1, <1>3, <2>2 DEF Bounds, KernelInBounds
  <2> QED BY <2>1, <2>2
<1>5. CASE todo # {f}
  <2>1. /\ saved' = [g \in DOMAIN saved \cup {f} |-> IF g = f THEN kernel[f] ELSE saved[g]]
        /\ UNCHANGED <<apc, batch>>
    BY <1>5 DEF WriteNext
  <2>2. KnownSetting(f, kernel[f])
    BY DEF Bounds, KernelInBounds, KnownSetting
  <2>3. SavedKnown'
    BY <2>1, <2>2 DEF Bounds, SavedKnown
  <2>4. BatchWritable'
    BY <2>1 DEF Bounds, BatchWritable
  <2> QED BY <1>4, <2>3, <2>4 DEF Bounds
<1>6. CASE todo = {f}
  BY <1>4, <1>6, FinishKeepsBounds DEF WriteNext
<1> QED BY <1>5, <1>6

LEMMA WriteFailsBounds ==
  ASSUME Bounds, NEW f \in Fields, WriteFails(f)
  PROVE  Bounds'
<1>1. KernelInBounds'
  BY DEF WriteFails, Bounds, KernelInBounds
<1>2. CASE Finish(Raised)
  BY <1>1, <1>2, FinishKeepsBounds
<1>3. CASE apc' = "rollback" /\ UNCHANGED <<batch, saved>>
  <2>1. apc # "idle"
    BY DEF WriteFails
  <2> QED BY <1>1, <1>3, <2>1 DEF Bounds, SavedKnown, BatchWritable
<1> QED BY <1>2, <1>3 DEF WriteFails

LEMMA RestoreBounds ==
  ASSUME Structure, Bounds, NEW f \in Fields, RestoreNext(f) \/ RestoreFails(f)
  PROVE  Bounds'
<1>1. /\ apc = "rollback" /\ f \in DOMAIN saved /\ Dismiss(f)
      /\ kernel' = [kernel EXCEPT ![f] = saved[f]] \/ UNCHANGED kernel
  BY DEF RestoreNext, RestoreFails, Last
<1>2. DOMAIN kernel = Fields
  BY DEF Structure, ActuatorTypeOK
<1>3. KernelInBounds'
  <2> SUFFICES ASSUME NEW g \in Fields
               PROVE  kernel'[g] = InitKernel[g] \/ SafeSetting(g, kernel'[g])
    BY DEF KernelInBounds
  <2>1. CASE kernel'[g] = kernel[g]
    BY <2>1 DEF Bounds, KernelInBounds
  <2>2. CASE g = f /\ kernel'[g] = saved[f]
    BY <1>1, <2>2 DEF Bounds, SavedKnown, KnownSetting
  <2> QED BY <1>1, <1>2, <2>1, <2>2
<1>4. CASE saved' = [g \in DOMAIN saved \ {f} |-> saved[g]] /\ UNCHANGED <<apc, batch>>
  <2>1. SavedKnown'
    BY <1>4 DEF Bounds, SavedKnown
  <2> QED BY <1>3, <1>4, <2>1 DEF Bounds, BatchWritable
<1>5. CASE Finish(Raised)
  BY <1>3, <1>5, FinishKeepsBounds
<1> QED BY <1>1, <1>4, <1>5 DEF Dismiss

LEMMA BoundsStep ==
  ASSUME Structure, Bounds, [ActuatorNext]_actuatorVars
  PROVE  Bounds'
<1>1. ASSUME NEW a \in Actions, ValidatedCall(a)
      PROVE  Bounds'
  BY <1>1, ValidatedBounds DEF ValidatedCall
<1>3. CASE Apply(None, DefaultApproved)
  BY <1>3, ValidatedBounds
<1>4. CASE ActuatorStep
  BY <1>4, WriteNextBounds, WriteFailsBounds, RestoreBounds DEF ActuatorStep
<1>5. CASE Construct
  BY <1>5 DEF Construct, Bounds, KernelInBounds, SavedKnown, BatchWritable
<1>6. CASE Crash
  <2>1. KernelInBounds'
    BY <1>6 DEF Crash, Bounds, KernelInBounds
  <2> QED BY <1>6, <2>1, FinishKeepsBounds DEF Crash
<1>7. CASE UNCHANGED actuatorVars
  BY <1>7 DEF actuatorVars, Bounds, KernelInBounds, SavedKnown, BatchWritable
<1> QED BY <1>1, <1>3, <1>4, <1>5, <1>6, <1>7 DEF ActuatorNext

(***************************************************************************)
(* No destabilising parameter reaches the kernel, whatever is proposed,    *)
(* however writes and restoring writes fail and whenever the process dies, *)
(* provided every caller of apply() passes it the validator's verdict.     *)
(***************************************************************************)
THEOREM KernelStaysInBounds == ActuatorSpec => []KernelInBounds
<1>1. ActuatorInit => Structure /\ Bounds
  BY StructureInit, BoundsInit
<1>2. Structure /\ Bounds /\ [ActuatorNext]_actuatorVars => (Structure /\ Bounds)'
  BY StructureStep, BoundsStep
<1>3. Bounds => KernelInBounds
  BY DEF Bounds
<1> QED BY <1>1, <1>2, <1>3, PTL DEF ActuatorSpec

-----------------------------------------------------------------------------
(***************************************************************************)
(* A list of commands returned by a real-mode call is in force until the   *)
(* next call starts, for every instance.                                   *)
(***************************************************************************)
LEMMA FinishEmptyReport ==
  ASSUME NEW r, Finish(r), r = Raised \/ r = Returned(NoCommands)
  PROVE  ReportMatchesKernel'
<1>1. DOMAIN returned'.cmds = {}
  BY FinishClears DEF Raised, Returned, NoCommands
<1> QED BY <1>1 DEF ReportMatchesKernel

LEMMA ReportStep ==
  ASSUME Structure, ReportMatchesKernel, [ActuatorNext]_actuatorVars
  PROVE  ReportMatchesKernel'
<1>1. ASSUME NEW a, NEW ok, Apply(a, ok)
      PROVE  ReportMatchesKernel'
  <2>1. CASE Finish(Returned(NoCommands)) \/ Finish(Raised)
    BY <2>1, FinishEmptyReport
  <2>2. CASE ~execute_real
    BY <1>1, <2>2 DEF Apply, ReportMatchesKernel
  <2>3. CASE apc' = "writing"
    BY <2>3 DEF ReportMatchesKernel
  <2>4. CASE DOMAIN a = {} /\ Finish(Returned(Rendering(a)))
    <3>1. DOMAIN returned'.cmds = {}
      BY <2>4, FinishClears DEF Returned, Rendering
    <3> QED BY <3>1 DEF ReportMatchesKernel
  <2> QED
    BY <1>1, <2>1, <2>2, <2>3, <2>4 DEF Apply, ApplyWithoutWriting, ApplyForReal
<1>2. ASSUME NEW f \in Fields, WriteNext(f)
      PROVE  ReportMatchesKernel'
  <2>1. CASE todo # {f}
    BY <1>2, <2>1 DEF WriteNext, ReportMatchesKernel
  <2>2. CASE todo = {f}
    <3>1. returned'.cmds = batch
      BY <1>2, <2>2, FinishClears DEF WriteNext, Returned
    <3>2. \A g \in DOMAIN batch : kernel'[g] = batch[g]
      BY <1>2, <2>2 DEF WriteNext, Structure, ActuatorTypeOK, BatchBookkeeping
    <3> QED BY <3>1, <3>2 DEF ReportMatchesKernel
  <2> QED BY <2>1, <2>2
<1>3. ASSUME NEW f \in Fields, WriteFails(f) \/ RestoreNext(f) \/ RestoreFails(f)
      PROVE  ReportMatchesKernel'
  <2>1. CASE Finish(Raised)
    BY <2>1, FinishEmptyReport
  <2>2. CASE apc' # "idle"
    BY <2>2 DEF ReportMatchesKernel
  <2> QED
    BY <1>3, <2>1, <2>2 DEF WriteFails, RestoreNext, RestoreFails, Dismiss
<1>4. CASE Construct
  <2>1. DOMAIN returned'.cmds = {}
    BY <1>4 DEF Construct, Returned, NoCommands
  <2> QED BY <2>1 DEF ReportMatchesKernel
<1>5. CASE Crash
  BY <1>5, FinishEmptyReport DEF Crash
<1>6. CASE UNCHANGED actuatorVars
  BY <1>6 DEF actuatorVars, ReportMatchesKernel
<1> QED
  BY <1>1, <1>2, <1>3, <1>4, <1>5, <1>6
  DEF ActuatorNext, ActuatorStep, ValidatedCall

THEOREM ReportIsTrue == ActuatorSpec => []ReportMatchesKernel
<1>1. ActuatorInit => ReportMatchesKernel
  BY DEF ActuatorInit, ReportMatchesKernel, Returned, NoCommands
<1>2. Structure /\ ReportMatchesKernel /\ [ActuatorNext]_actuatorVars
        => (Structure /\ ReportMatchesKernel)'
  BY StructureStep, ReportStep
<1> QED BY StructureInit, <1>1, <1>2, PTL DEF ActuatorSpec

-----------------------------------------------------------------------------
(***************************************************************************)
(* apply() implements AtomicTuning through Restored.                       *)
(***************************************************************************)
Batches == {Rendering(a) : a \in {b \in Actions : MayWrite(b)}}

BatchApproved == apc # "idle" => batch \in Batches

LEMMA BatchApprovedStep ==
  ASSUME BatchApproved, [ActuatorNext]_actuatorVars
  PROVE  BatchApproved'
<1>1. ASSUME NEW a, NEW ok, Apply(a, ok), a # None /\ ok => a \in Actions /\ MayWrite(a)
      PROVE  BatchApproved'
  BY <1>1
  DEF Apply, ApplyWithoutWriting, ApplyForReal, BatchApproved, Batches, Finish
<1>2. ASSUME NEW a \in Actions, ValidatedCall(a)
      PROVE  BatchApproved'
  <2>1. PICK ok : Apply(a, ok) /\ (ok => MayWrite(a))
    BY <1>2 DEF ValidatedCall, MayWrite
  <2> QED BY <1>1, <2>1
<1>3. CASE Apply(None, DefaultApproved)
  BY <1>1, <1>3
<1>4. CASE ActuatorStep
  BY <1>4
  DEF ActuatorStep, WriteNext, WriteFails, RestoreNext, RestoreFails, Dismiss,
      Finish, BatchApproved
<1>5. CASE Construct \/ Crash \/ UNCHANGED actuatorVars
  BY <1>5 DEF Construct, Crash, Finish, actuatorVars, BatchApproved
<1> QED BY <1>2, <1>3, <1>4, <1>5 DEF ActuatorNext

(* Where neither the kernel nor what is saved of it changes, neither does  *)
(* the configuration a rollback would restore.                             *)
LEMMA RestoredUnchanged ==
  ASSUME UNCHANGED kernel, UNCHANGED saved \/ (DOMAIN saved = {} /\ DOMAIN saved' = {})
  PROVE  Restored' = Restored
BY DEF Restored

LEMMA ApplyAtomic ==
  ASSUME Structure, NEW a, NEW ok, Apply(a, ok)
  PROVE  Restored' = Restored
<1>1. apc = "idle" /\ UNCHANGED kernel /\ DOMAIN saved = {}
  BY DEF Apply, ApplyWithoutWriting, ApplyForReal, Structure, BatchBookkeeping
<1>2. DOMAIN saved' = {}
  BY DEF Apply, ApplyWithoutWriting, ApplyForReal, Finish, NoCommands
<1> QED BY <1>1, <1>2, RestoredUnchanged

(* The writes of a batch are invisible until the last, which commits it.   *)
LEMMA WriteNextAtomic ==
  ASSUME Structure, NEW f \in Fields, WriteNext(f)
  PROVE  \/ Restored' = Restored
         \/ todo = {f} /\ Restored' = Overlay(Restored, batch)
<1>1. /\ apc = "writing" /\ f \in todo /\ DOMAIN kernel = Fields
      /\ kernel' = [kernel EXCEPT ![f] = batch[f]]
      /\ todo \cap DOMAIN saved = {} /\ DOMAIN batch = todo \cup DOMAIN saved
      /\ \A g \in DOMAIN saved : kernel[g] = batch[g]
  BY DEF Structure, ActuatorTypeOK, BatchBookkeeping, WriteNext, First
<1>2. CASE todo # {f}
  <2>1. saved' = [g \in DOMAIN saved \cup {f} |-> IF g = f THEN kernel[f] ELSE saved[g]]
    BY <1>2 DEF WriteNext
  <2>2. ASSUME NEW g \in Fields
        PROVE  (IF g \in DOMAIN saved' THEN saved'[g] ELSE kernel'[g])
                 = (IF g \in DOMAIN saved THEN saved[g] ELSE kernel[g])
    BY <1>1, <2>1
  <2> QED BY <2>2 DEF Restored
<1>3. CASE todo = {f}
  <2>1. DOMAIN saved' = {}
    BY <1>3, FinishClears DEF WriteNext
  <2>2. ASSUME NEW g \in Fields
        PROVE  kernel'[g] = IF g \in DOMAIN batch THEN batch[g] ELSE Restored[g]
    BY <1>1, <1>3 DEF Restored
  <2> QED BY <1>3, <2>1, <2>2 DEF Restored, Overlay
<1> QED BY <1>2, <1>3

LEMMA WriteFailsAtomic ==
  ASSUME Structure, NEW f \in Fields, WriteFails(f)
  PROVE  Restored' = Restored
<1>1. CASE UNCHANGED saved
  BY <1>1, RestoredUnchanged DEF WriteFails
<1>2. CASE DOMAIN saved = {} /\ Finish(Raised)
  BY <1>2, FinishClears, RestoredUnchanged DEF WriteFails
<1> QED BY <1>1, <1>2 DEF WriteFails

LEMMA RestoreNextAtomic ==
  ASSUME Structure, NEW f \in Fields, RestoreNext(f)
  PROVE  Restored' = Restored
<1>1. /\ f \in DOMAIN saved /\ DOMAIN kernel = Fields
      /\ kernel' = [kernel EXCEPT ![f] = saved[f]]
  BY DEF Structure, ActuatorTypeOK, RestoreNext, Last
<1>2. DOMAIN saved' = DOMAIN saved \ {f} /\ \A g \in DOMAIN saved' : saved'[g] = saved[g]
  BY FinishClears DEF RestoreNext, Dismiss
<1>3. ASSUME NEW g \in Fields
      PROVE  (IF g \in DOMAIN saved' THEN saved'[g] ELSE kernel'[g])
               = (IF g \in DOMAIN saved THEN saved[g] ELSE kernel[g])
  BY <1>1, <1>2
<1> QED BY <1>3 DEF Restored

(* A restoring write that fails leaves one field of the batch behind.      *)
LEMMA RestoreFailsAtomic ==
  ASSUME Structure, NEW f \in Fields, RestoreFails(f)
  PROVE  /\ RollbackMayFail /\ f \in DOMAIN batch /\ apc = "rollback"
         /\ faults' = faults + 1
         /\ Restored' = Overlay(Restored, [g \in {f} |-> batch[g]])
<1>1. /\ f \in DOMAIN saved /\ UNCHANGED kernel /\ RollbackMayFail /\ apc = "rollback"
      /\ f \in DOMAIN batch /\ kernel[f] = batch[f]
  BY DEF Structure, BatchBookkeeping, RestoreFails, Last
<1>2. DOMAIN saved' = DOMAIN saved \ {f} /\ \A g \in DOMAIN saved' : saved'[g] = saved[g]
  BY FinishClears DEF RestoreFails, Dismiss
<1>3. ASSUME NEW g \in Fields
      PROVE  (IF g \in DOMAIN saved' THEN saved'[g] ELSE kernel'[g])
               = (IF g \in {f} THEN batch[g] ELSE Restored[g])
  BY <1>1, <1>2 DEF Restored
<1> QED BY <1>1, <1>3 DEF Restored, Overlay, RestoreFails

(* A kill leaves what is written of the batch behind.                      *)
LEMMA CrashAtomic ==
  ASSUME Structure, Crash
  PROVE  \/ Restored' = Restored
         \/ /\ apc # "idle" /\ DOMAIN saved \subseteq DOMAIN batch
            /\ Restored' = Overlay(Restored, [g \in DOMAIN saved |-> batch[g]])
<1>1. UNCHANGED kernel /\ DOMAIN saved' = {}
  BY FinishClears DEF Crash
<1>2. CASE DOMAIN saved = {}
  BY <1>1, <1>2, RestoredUnchanged
<1>3. CASE DOMAIN saved # {}
  <2>1. apc # "idle" /\ DOMAIN saved \subseteq DOMAIN batch
    BY <1>3 DEF Structure, BatchBookkeeping, ActuatorTypeOK
  <2>2. ASSUME NEW g \in Fields
        PROVE  kernel'[g] = IF g \in DOMAIN saved THEN batch[g] ELSE Restored[g]
    BY <1>1 DEF Structure, BatchBookkeeping, Restored
  <2> QED BY <1>1, <2>1, <2>2 DEF Restored, Overlay
<1> QED BY <1>2, <1>3

(* Only a kill counts as one.                                              *)
LEMMA OnlyCrashKills ==
  ASSUME [ActuatorNext]_actuatorVars
  PROVE  Crash \/ UNCHANGED crashes
BY DEF ActuatorNext, ActuatorStep, ValidatedCall, Apply, WriteNext, WriteFails,
       RestoreNext, RestoreFails, Construct, actuatorVars

LEMMA AtomicStep ==
  ASSUME Structure, BatchApproved, [ActuatorNext]_actuatorVars
  PROVE  [Promise!Next]_<<Restored, crashes>>
<1>1. ASSUME NEW b \in Batches, Restored' = Overlay(Restored, b),
             UNCHANGED <<crashes, faults>>
      PROVE  Promise!Next
  <2>1. Promise!Commit(b)
    BY <1>1
    DEF Promise!Commit, Promise!Survived, Promise!Overlay, Promise!Fields,
        Promise!SchedulerFields, Promise!VMFields, Promise!NetFields, Overlay,
        Fields, SchedulerFields, VMFields, NetFields
  <2> QED BY <2>1 DEF Promise!Next, Batches
<1>2. ASSUME NEW b, NEW S, Restored' = Overlay(Restored, [g \in S |-> b[g]])
      PROVE  Promise!Change(b, S)
  BY <1>2
  DEF Promise!Change, Promise!Overlay, Promise!Fields, Promise!SchedulerFields,
      Promise!VMFields, Promise!NetFields, Overlay, Fields, SchedulerFields,
      VMFields, NetFields
<1>3. CASE Crash
  <2>1. crashes' = crashes + 1
    BY <1>3 DEF Crash
  <2>2. CASE Restored' = Restored
    BY <2>1, <2>2 DEF Promise!Next, Promise!Killed
  <2>3. CASE Restored' # Restored
    <3>1. batch \in Batches /\ DOMAIN saved \in SUBSET DOMAIN batch
      BY <1>3, <2>3, CrashAtomic DEF BatchApproved
    <3>2. Promise!Change(batch, DOMAIN saved)
      BY <1>2, <1>3, <2>3, CrashAtomic
    <3> QED
      BY <2>1, <3>1, <3>2 DEF Promise!Next, Promise!Tear, Promise!Killed, Batches
  <2> QED BY <2>2, <2>3
<1>4. CASE UNCHANGED crashes
  <2>1. CASE Restored' = Restored
    BY <1>4, <2>1
  <2>2. ASSUME NEW f \in Fields, WriteNext(f)
        PROVE  [Promise!Next]_<<Restored, crashes>>
    <3>1. batch \in Batches /\ UNCHANGED faults
      BY <2>2 DEF WriteNext, BatchApproved
    <3> QED BY <1>1, <1>4, <2>1, <2>2, <3>1, WriteNextAtomic
  <2>3. ASSUME NEW f \in Fields, RestoreFails(f)
        PROVE  [Promise!Next]_<<Restored, crashes>>
    <3>1. /\ batch \in Batches /\ f \in DOMAIN batch
          /\ RollbackMayFail /\ apc = "rollback" /\ faults' = faults + 1
      BY <2>3, RestoreFailsAtomic DEF BatchApproved
    <3>2. Promise!Change(batch, {f})
      BY <1>2, <2>3, RestoreFailsAtomic
    <3> QED
      BY <1>4, <3>1, <3>2
      DEF Promise!Next, Promise!NotUndone, Promise!Survived, Batches
  <2>4. CASE Construct \/ UNCHANGED actuatorVars
    BY <2>1, <2>4, RestoredUnchanged DEF Construct, actuatorVars
  <2> QED
    BY <1>3, <2>1, <2>2, <2>3, <2>4, ApplyAtomic, WriteFailsAtomic, RestoreNextAtomic
    DEF ActuatorNext, ActuatorStep, ValidatedCall
<1> QED BY <1>3, <1>4, OnlyCrashKills

(***************************************************************************)
(* Every behaviour of the actuator, seen through what a rollback would     *)
(* restore, applies approved batches whole; a part of one is left behind   *)
(* only by a kill or, one field each, by restoring writes that fail.       *)
(***************************************************************************)
THEOREM AppliesBatchesAtomically == ActuatorSpec => AppliesAtomically
<1>1. ActuatorInit => BatchApproved
  BY DEF ActuatorInit, BatchApproved
<1>2. ActuatorInit => Promise!Init
  <2> SUFFICES ASSUME ActuatorInit PROVE Restored = InitKernel
    BY DEF Promise!Init, ActuatorInit
  <2>1. kernel = InitKernel /\ DOMAIN saved = {}
    BY ReportTypes DEF ActuatorInit
  <2>2. Restored = [f \in Fields |-> InitKernel[f]]
    BY <2>1 DEF Restored
  <2> QED BY <2>2, KernelAssumption
<1>3. Structure /\ BatchApproved /\ [ActuatorNext]_actuatorVars
        => (Structure /\ BatchApproved)' /\ [Promise!Next]_<<Restored, crashes>>
  BY StructureStep, BatchApprovedStep, AtomicStep
<1> QED
  BY StructureInit, <1>1, <1>2, <1>3, PTL
  DEF ActuatorSpec, AppliesAtomically, Promise!Spec

(* A step after which the call goes on, or has raised.                     *)
LEMMA RaisingStep ==
  ASSUME ~RollbackMayFail, Structure, [ActuatorNext]_actuatorVars,
         apc' # "idle" \/ returned'.raised
  PROVE  Restored' = Restored
<1>1. ASSUME NEW f \in Fields, WriteNext(f)
      PROVE  Restored' = Restored
  <2>1. CASE todo = {f}
    BY <1>1, <2>1, FinishClears DEF WriteNext, Returned
  <2>2. CASE todo # {f}
    BY <1>1, <2>2, WriteNextAtomic
  <2> QED BY <2>1, <2>2
<1>2. ASSUME NEW f \in Fields, RestoreFails(f)
      PROVE  Restored' = Restored
  BY <1>2 DEF RestoreFails
<1>3. CASE Crash
  BY <1>3, FinishClears DEF Crash, Returned
<1>4. CASE Construct \/ UNCHANGED actuatorVars
  BY <1>4, RestoredUnchanged DEF Construct, actuatorVars
<1> QED
  BY <1>1, <1>2, <1>3, <1>4, ApplyAtomic, WriteFailsAtomic, RestoreNextAtomic
  DEF ActuatorNext, ActuatorStep, ValidatedCall

(***************************************************************************)
(* Where restoring writes do not fail, a call that raises leaves the       *)
(* configuration the batch found.                                          *)
(***************************************************************************)
THEOREM RaisingRestores ==
  ASSUME ~RollbackMayFail
  PROVE  ActuatorSpec => RaisingChangesNothing
<1>1. Structure /\ [ActuatorNext]_actuatorVars
        => [apc' # "idle" \/ returned'.raised => Restored' = Restored]_actuatorVars
  BY RaisingStep
<1> QED
  BY StructureInit, StructureStep, <1>1, PTL DEF ActuatorSpec, RaisingChangesNothing

-----------------------------------------------------------------------------
(* The validator's relations within one action survive rendering, and an   *)
(* action that sets both fields of a pair or neither hands them on to the  *)
(* kernel.                                                                 *)
LEMMA ScalingIsMonotone ==
  ASSUME NEW v \in Int, NEW w \in Int, v <= w
  PROVE  v * 1000 <= w * 1000 /\ v * 1 <= w * 1
BY SMT

LEMMA PairedKeepsJoint ==
  ASSUME NEW s, JointSafe(s), NEW a, IsAction(a), NEW k, ValidateAction(k, a), Paired(a)
  PROVE  JointSafe(Overlay(s, Rendering(a)))
<1> DEFINE o == Overlay(s, Rendering(a))
<1>1. \A f \in Fields : o[f] = IF f \in DOMAIN a THEN Rendered(f, a[f]) ELSE s[f]
  BY DEF Overlay, Rendering
<1>2. /\ Sets(a, "wakeup_granularity_us") <=> Sets(a, "target_latency_us")
      /\ Sets(a, "dirty_background_ratio") <=> Sets(a, "dirty_ratio")
  BY DEF Paired, Pairs
<1>3. o["wakeup_granularity_us"] <= o["target_latency_us"]
  <2>1. CASE Sets(a, "wakeup_granularity_us")
    <3>1. /\ a["wakeup_granularity_us"] \in Int /\ a["target_latency_us"] \in Int
          /\ a["wakeup_granularity_us"] <= a["target_latency_us"]
      BY <1>2, <2>1
      DEF Sets, IsAction, NumericFields, Fields, SchedulerFields, ValidateAction,
          SchedulerOK
    <3>2. a["wakeup_granularity_us"] * 1000 <= a["target_latency_us"] * 1000
      BY <3>1, ScalingIsMonotone
    <3> QED
      BY <1>1, <1>2, <2>1, <3>2 DEF Sets, Rendered, Scale, Fields, SchedulerFields
  <2>2. CASE ~Sets(a, "wakeup_granularity_us")
    BY <1>1, <1>2, <2>2 DEF Sets, Fields, SchedulerFields, JointSafe
  <2> QED BY <2>1, <2>2
<1>4. o["dirty_background_ratio"] <= o["dirty_ratio"]
  <2>1. CASE Sets(a, "dirty_background_ratio")
    <3>1. /\ a["dirty_background_ratio"] \in Int /\ a["dirty_ratio"] \in Int
          /\ a["dirty_background_ratio"] <= a["dirty_ratio"]
      BY <1>2, <2>1
      DEF Sets, IsAction, NumericFields, Fields, VMFields, ValidateAction, VMOK
    <3>2. a["dirty_background_ratio"] * 1 <= a["dirty_ratio"] * 1
      BY <3>1, ScalingIsMonotone
    <3> QED
      BY <1>1, <1>2, <2>1, <3>2 DEF Sets, Rendered, Scale, Fields, VMFields
  <2>2. CASE ~Sets(a, "dirty_background_ratio")
    BY <1>1, <1>2, <2>2 DEF Sets, Fields, VMFields, JointSafe
  <2> QED BY <2>1, <2>2
<1> QED BY <1>3, <1>4 DEF JointSafe

(***************************************************************************)
(* Policies that set both fields of a pair or neither keep the kernel      *)
(* jointly safe at rest, through every failed write; the hot-swap run      *)
(* shows why the condition is needed.                                      *)
(***************************************************************************)
THEOREM PairedStaysJointSafe == ActuatorSpec => []JointSafeWhenPaired
<1> DEFINE Premise == /\ JointSafe(InitKernel) /\ \A a \in Actions : Paired(a)
                      /\ ~RollbackMayFail
<1> DEFINE Inv == Structure /\ BatchApproved /\ JointSafeWhenPaired
<1>1. ActuatorInit => Inv
  <2> SUFFICES ASSUME ActuatorInit PROVE Inv
    OBVIOUS
  <2>1. BatchApproved
    BY DEF ActuatorInit, BatchApproved
  <2>2. kernel = InitKernel /\ DOMAIN saved = {}
    BY ReportTypes DEF ActuatorInit
  <2>3. JointSafe(InitKernel) => JointSafe(Restored)
    BY <2>2
    DEF Restored, JointSafe, Fields, SchedulerFields, VMFields, NetFields
  <2> QED BY <2>1, <2>3, StructureInit DEF JointSafeWhenPaired
<1>2. Inv /\ [ActuatorNext]_actuatorVars => Inv'
  <2> SUFFICES ASSUME Inv, [ActuatorNext]_actuatorVars, Premise, crashes' = 0
               PROVE  JointSafe(Restored')
    <3>1. ASSUME Inv, [ActuatorNext]_actuatorVars
          PROVE  Structure' /\ BatchApproved'
      BY <3>1, StructureStep, BatchApprovedStep
    <3> QED BY <3>1 DEF JointSafeWhenPaired, JointSafe, Restored
  <2>1. ~Crash
    BY ModesAssumption DEF Crash, Structure, ActuatorTypeOK
  <2>2. crashes = 0
    BY <2>1
    DEF ActuatorNext, ActuatorStep, ValidatedCall, Apply, WriteNext,
        WriteFails, RestoreNext, RestoreFails, Construct, actuatorVars
  <2>3. JointSafe(Restored)
    BY <2>2 DEF JointSafeWhenPaired
  <2>4. CASE Restored' = Restored
    BY <2>3, <2>4
  <2>5. ASSUME NEW b \in Batches, Restored' = Overlay(Restored, b)
        PROVE  JointSafe(Restored')
    <3>1. PICK a \in Actions : MayWrite(a) /\ b = Rendering(a)
      BY DEF Batches
    <3>2. PICK k \in KIRs : ValidateAction(k, a)
      BY <3>1 DEF MayWrite
    <3> QED BY <2>3, <2>5, <3>1, <3>2, PairedKeepsJoint, ActionFields
  <2>7. ASSUME NEW f \in Fields, WriteNext(f)
        PROVE  JointSafe(Restored')
    <3>1. batch \in Batches
      BY <2>7 DEF WriteNext, BatchApproved
    <3> QED BY <2>4, <2>5, <2>7, <3>1, WriteNextAtomic
  <2>8. ASSUME NEW f \in Fields, RestoreFails(f)
        PROVE  FALSE
    BY <2>8 DEF RestoreFails
  <2>9. CASE Construct \/ UNCHANGED actuatorVars
    BY <2>4, <2>9, RestoredUnchanged DEF Construct, actuatorVars
  <2> QED
    BY <2>1, <2>4, <2>7, <2>8, <2>9, ApplyAtomic, WriteFailsAtomic, RestoreNextAtomic
    DEF ActuatorNext, ActuatorStep, ValidatedCall
<1>3. Inv => JointSafeWhenPaired
  OBVIOUS
<1> QED BY <1>1, <1>2, <1>3, PTL DEF ActuatorSpec

-----------------------------------------------------------------------------
(* A policy's decision is None or one of its kind's proposals, and leaves  *)
(* an object of the same kind.                                             *)
LEMMA DecisionsAreProposals ==
  ASSUME NEW p \in PolicyObjects, NEW ks, NEW k \in ks, NEW d \in Decisions(p, k)
  PROVE  /\ d.action = None \/ d.action \in Proposals(p.kind, ks)
         /\ d.policy \in PolicyObjects /\ d.policy.kind = p.kind
<1>1. p.kind \in Kinds
  BY DEF PolicyObjects
<1>2. CASE p.kind = "baseline"
  BY <1>2 DEF Decisions, Decision
<1>3. CASE p.kind = "heuristic"
  <2>1. d = HeuristicDecision(p, k)
    BY <1>3 DEF Decisions
  <2>2. PICK t \in BOOLEAN, params \in {TIGHT_PARAMS, LOOSE_PARAMS} :
          d = Decision(IF params = p.last THEN None ELSE params,
                       [p EXCEPT !.tight = t, !.last = params])
    BY <2>1 DEF HeuristicDecision, TightMode
  <2>3. d.action \in {None, TIGHT_PARAMS, LOOSE_PARAMS}
    BY <2>2 DEF Decision
  <2>4. d.policy = [p EXCEPT !.tight = t, !.last = params]
    BY <2>2 DEF Decision
  <2>5. d.policy \in PolicyObjects /\ d.policy.kind = p.kind
    BY <2>4 DEF PolicyObjects
  <2> QED BY <1>3, <2>3, <2>5 DEF Proposals
<1>4. CASE p.kind = "joint"
  BY <1>4 DEF Decisions, Decision, Proposals
<1>5. CASE p.kind = "learned"
  BY <1>5 DEF Decisions, Decision, Proposals
<1>6. CASE p.kind = "foreign"
  BY <1>6 DEF Decisions, Decision, Proposals
<1> QED BY <1>1, <1>2, <1>3, <1>4, <1>5, <1>6 DEF Kinds

(* A new policy object.                                                    *)
LEMMA FreshIsPolicy ==
  ASSUME NEW kind \in Kinds
  PROVE  Fresh(kind) \in PolicyObjects /\ Fresh(kind).kind = kind
BY DEF Fresh, PolicyObjects

(* The bands of the policies lie within the validator's.                   *)
LEMMA ClipBand ==
  ASSUME NEW raw \in Int
  PROVE  Clip(raw) \in MIN_TARGET_LATENCY_US .. MAX_TARGET_LATENCY_US
<1>1. CASE raw < 1000
  BY <1>1 DEF Clip, MIN_TARGET_LATENCY_US, MAX_TARGET_LATENCY_US
<1>2. CASE raw > 24000
  BY <1>2 DEF Clip, MIN_TARGET_LATENCY_US, MAX_TARGET_LATENCY_US
<1>3. CASE ~(raw < 1000) /\ ~(raw > 24000)
  <2>1. Clip(raw) = raw
    BY <1>3 DEF Clip
  <2>2. /\ MIN_TARGET_LATENCY_US \in Int /\ MAX_TARGET_LATENCY_US \in Int
        /\ MIN_TARGET_LATENCY_US <= raw /\ raw <= MAX_TARGET_LATENCY_US
    BY <1>3, SMT DEF MIN_TARGET_LATENCY_US, MAX_TARGET_LATENCY_US
  <2>3. raw \in MIN_TARGET_LATENCY_US .. MAX_TARGET_LATENCY_US
    BY <2>2
  <2> QED BY <2>1, <2>3
<1> QED BY <1>1, <1>2, <1>3

LEMMA JointBands ==
  ASSUME NEW k
  PROVE  /\ JointParams(k)[1] \in MIN_TARGET_LATENCY_US .. MAX_TARGET_LATENCY_US
         /\ JointParams(k)[2] \in MIN_SWAPPINESS .. MAX_SWAPPINESS
         /\ JointParams(k)[3] \in 1 .. MAX_QUEUE_LIMIT
         /\ ~(JointParams(k)[3] >= MAX_QUEUE_LIMIT)
<1>1. CASE MemoryCritical(k)
  <2>1. JointParams(k) = <<12000, 100, 1000>>
    BY <1>1 DEF JointParams
  <2> QED
    BY <2>1
    DEF MIN_TARGET_LATENCY_US, MAX_TARGET_LATENCY_US, MIN_SWAPPINESS,
        MAX_SWAPPINESS, MAX_QUEUE_LIMIT
<1>2. CASE Backlogged(k) /\ ~MemoryCritical(k)
  <2>1. JointParams(k) = <<2000, 10, 4000>>
    BY <1>2 DEF JointParams
  <2> QED
    BY <2>1
    DEF MIN_TARGET_LATENCY_US, MAX_TARGET_LATENCY_US, MIN_SWAPPINESS,
        MAX_SWAPPINESS, MAX_QUEUE_LIMIT
<1>3. CASE ~Backlogged(k) /\ ~MemoryCritical(k)
  <2>1. JointParams(k) = <<6000, 60, 1000>>
    BY <1>3 DEF JointParams
  <2> QED
    BY <2>1
    DEF MIN_TARGET_LATENCY_US, MAX_TARGET_LATENCY_US, MIN_SWAPPINESS,
        MAX_SWAPPINESS, MAX_QUEUE_LIMIT
<1> QED BY <1>1, <1>2, <1>3

(***************************************************************************)
(* Whatever was observed, the validator accepts what any of the program's  *)
(* own policies may propose.                                               *)
(***************************************************************************)
LEMMA BuiltInsAcceptable ==
  ASSUME NEW k, NEW ks, NEW kind \in Kinds \ {"foreign"},
         NEW a \in Proposals(kind, ks)
  PROVE  ValidateAction(k, a)
<1>1. CASE kind = "heuristic"
  <2>1. PICK l, g : /\ a = SchedulerAction(l, g)
                    /\ (l = 2000 /\ g = 500) \/ (l = 12000 /\ g = 3000)
    <3>1. a = TIGHT_PARAMS \/ a = LOOSE_PARAMS
      BY <1>1 DEF Proposals
    <3>2. TIGHT_PARAMS = SchedulerAction(2000, 500)
      BY DEF TIGHT_PARAMS
    <3>3. LOOSE_PARAMS = SchedulerAction(12000, 3000)
      BY DEF LOOSE_PARAMS
    <3> QED BY <3>1, <3>2, <3>3
  <2>2. /\ l \in MIN_TARGET_LATENCY_US .. MAX_TARGET_LATENCY_US
        /\ g >= MIN_WAKEUP_GRANULARITY_US /\ g <= l
    BY <2>1 DEF MIN_TARGET_LATENCY_US, MAX_TARGET_LATENCY_US, MIN_WAKEUP_GRANULARITY_US
  <2>3. /\ DOMAIN a = {"target_latency_us", "wakeup_granularity_us"}
        /\ a["target_latency_us"] = l /\ a["wakeup_granularity_us"] = g
    BY <2>1 DEF SchedulerAction
  <2>4. /\ ~Sets(a, "migration_cost_ns") /\ ~Sets(a, "swappiness")
        /\ ~Sets(a, "dirty_ratio") /\ ~Sets(a, "dirty_background_ratio")
        /\ ~Sets(a, "queue_limit") /\ ~Sets(a, "congestion_control")
    BY <2>3 DEF Sets
  <2> QED
    BY <2>2, <2>3, <2>4, Zenon DEF ValidateAction, SchedulerOK, VMOK, NetworkOK, JointOK
<1>2. CASE kind = "joint"
  <2>1. PICK j \in ks : a = JointAction(j)
    BY <1>2 DEF Proposals
  <2>2. DOMAIN a = {"target_latency_us", "swappiness", "queue_limit"}
    BY <2>1 DEF JointAction
  <2>3. /\ a["target_latency_us"] = JointParams(j)[1]
        /\ a["swappiness"] = JointParams(j)[2] /\ a["queue_limit"] = JointParams(j)[3]
    BY <2>1 DEF JointAction
  <2>4. /\ ~Sets(a, "wakeup_granularity_us") /\ ~Sets(a, "migration_cost_ns")
        /\ ~Sets(a, "dirty_ratio") /\ ~Sets(a, "dirty_background_ratio")
        /\ ~Sets(a, "congestion_control")
    BY <2>2 DEF Sets
  <2> QED
    BY <2>3, <2>4, JointBands, Zenon
    DEF ValidateAction, SchedulerOK, VMOK, NetworkOK, JointOK
<1>3. CASE kind = "learned"
  <2>1. PICK raw \in LearnedRaw : a = LearnedAction(raw)
    BY <1>3 DEF Proposals
  <2>2. DOMAIN a = {"target_latency_us"} /\ a["target_latency_us"] = Clip(raw)
    BY <2>1 DEF LearnedAction
  <2>3. Clip(raw) \in MIN_TARGET_LATENCY_US .. MAX_TARGET_LATENCY_US
    BY LearnedRawAssumption, ClipBand
  <2>4. /\ ~Sets(a, "wakeup_granularity_us") /\ ~Sets(a, "migration_cost_ns")
        /\ ~Sets(a, "swappiness") /\ ~Sets(a, "dirty_ratio")
        /\ ~Sets(a, "dirty_background_ratio") /\ ~Sets(a, "queue_limit")
        /\ ~Sets(a, "congestion_control")
    BY <2>2 DEF Sets
  <2> QED
    BY <2>2, <2>3, <2>4, Zenon DEF ValidateAction, SchedulerOK, VMOK, NetworkOK, JointOK
<1>4. kind # "baseline"
  BY DEF Proposals
<1> QED BY <1>1, <1>2, <1>3, <1>4 DEF Kinds
=============================================================================
