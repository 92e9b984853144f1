---------------------------- MODULE DriftProofs ----------------------------
(***************************************************************************)
(* What holds of the drift manager for every set of rewards, window size   *)
(* and threshold.  Up to the last section the statistic stays unexpanded:  *)
(* of Drifted the proofs use only that the window must be full.            *)
(***************************************************************************)
EXTENDS DriftManager, SumProofs, SequenceTheorems, TLAPS

(* The window holds nothing older than the last alarm.                     *)
WindowIsYoung == phase # "adapt" => Len(ring) <= quiet

DriftInv == DriftTypeOK /\ WindowIsYoung

LEMMA RequiredPositive == Required \in Nat /\ Required >= 4 /\ MaxCount = Required + 1
BY DriftAssumption DEF Required, MaxCount

(* A window of at most Required rewards stays one when a reward enters it. *)
LEMMA Enters ==
  ASSUME NEW s \in Seq(Rewards), Len(s) <= Required, NEW r \in Rewards
  PROVE  LET w == Append(IF Len(s) < Required THEN s ELSE Tail(s), r)
         IN  /\ w \in Seq(Rewards) /\ Len(w) <= Required
             /\ Len(w) <= Len(s) + 1
<1>0. Len(s) \in Nat
  BY LenProperties
<1>1. CASE Len(s) < Required
  <2>1. Append(s, r) \in Seq(Rewards) /\ Len(Append(s, r)) = Len(s) + 1
    BY AppendProperties
  <2> QED BY <1>0, <1>1, <2>1, RequiredPositive
<1>2. CASE ~(Len(s) < Required)
  <2>1. s # <<>>
    BY <1>2, RequiredPositive, EmptySeq
  <2>2. Tail(s) \in Seq(Rewards) /\ Len(Tail(s)) = Len(s) - 1
    BY <2>1, HeadTailProperties
  <2>3. /\ Append(Tail(s), r) \in Seq(Rewards)
        /\ Len(Append(Tail(s), r)) = Len(Tail(s)) + 1
    BY <2>2, AppendProperties
  <2> QED BY <1>0, <1>2, <2>2, <2>3, RequiredPositive
<1> QED BY <1>1, <1>2

LEMMA Counts ==
  ASSUME NEW n \in 0 .. MaxCount
  PROVE  /\ CountUp(n) \in 0 .. MaxCount
         /\ CountUp(n) = n + 1 \/ (n = MaxCount /\ CountUp(n) = MaxCount)
BY RequiredPositive DEF CountUp

LEMMA Empty == <<>> \in Seq(Rewards) /\ Len(<<>>) = 0
OBVIOUS

LEMMA AddStepKeeps ==
  ASSUME DriftInv, NEW r \in Rewards, AddStep(r)
  PROVE  DriftInv'
<1>1. /\ ring' \in Seq(Rewards) /\ Len(ring') <= Required
      /\ Len(ring') <= Len(ring) + 1
  BY Enters DEF DriftInv, DriftTypeOK, AddStep
<1>2. quiet' \in 0 .. MaxCount /\ gone' \subseteq Rewards
  <2>1. Len(ring) >= Required => Head(ring) \in Rewards
    <3> SUFFICES ASSUME Len(ring) >= Required PROVE Head(ring) \in Rewards
      OBVIOUS
    <3>1. ring \in Seq(Rewards) /\ ring # <<>>
      BY RequiredPositive, EmptySeq DEF DriftInv, DriftTypeOK
    <3> QED BY <3>1, HeadTailProperties
  <2>2. Len(ring) < Required \/ Len(ring) >= Required
    BY RequiredPositive, LenProperties DEF DriftInv, DriftTypeOK
  <2> QED BY <2>1, <2>2, Counts DEF DriftInv, DriftTypeOK, AddStep
<1>3. DriftTypeOK'
  BY <1>1, <1>2 DEF DriftTypeOK, AddStep
<1>4. Len(ring) <= quiet
  BY DEF DriftInv, WindowIsYoung, AddStep
<1>5. quiet' = quiet + 1 \/ quiet' = MaxCount
  BY Counts DEF DriftInv, DriftTypeOK, AddStep
<1>6. Len(ring) \in Nat /\ Len(ring') \in Nat /\ quiet \in Int
  BY <1>1, LenProperties DEF DriftInv, DriftTypeOK
<1>7. Len(ring') <= quiet'
  BY <1>1, <1>4, <1>5, <1>6, RequiredPositive
<1> QED BY <1>3, <1>7 DEF DriftInv, WindowIsYoung

LEMMA CheckDriftKeeps ==
  ASSUME DriftInv, NEW consume \in Consumes, CheckDrift(consume)
  PROVE  DriftInv'
<1>1. ring' \in Seq(Rewards) /\ Len(ring') <= Required /\ gone' \subseteq Rewards
  <2>1. (ring' = <<>> /\ gone' = {}) \/ (ring' = ring /\ gone' = gone)
    BY DEF CheckDrift, Cleared
  <2>2. CASE ring' = <<>> /\ gone' = {}
    BY <2>2, Empty, RequiredPositive
  <2>3. CASE ring' = ring /\ gone' = gone
    BY <2>3 DEF DriftInv, DriftTypeOK
  <2> QED BY <2>1, <2>2, <2>3
<1>2. quiet' \in 0 .. MaxCount /\ phase' \in {"add", "adapt"}
  BY RequiredPositive DEF DriftInv, DriftTypeOK, CheckDrift
<1>3. WindowIsYoung'
  BY DEF DriftInv, WindowIsYoung, CheckDrift
<1> QED BY <1>1, <1>2, <1>3 DEF DriftInv, DriftTypeOK

LEMMA ClearingKeeps ==
  ASSUME DriftInv, TriggerAdaptation \/ ProcessEnds
  PROVE  DriftInv'
<1>1. ring' = <<>> /\ gone' = {} /\ phase' = "add"
  BY DEF TriggerAdaptation, ProcessEnds, Cleared
<1>2. quiet' \in 0 .. MaxCount
  BY RequiredPositive DEF DriftInv, DriftTypeOK, TriggerAdaptation, ProcessEnds
<1>3. ring' \in Seq(Rewards) /\ Len(ring') = 0
  BY <1>1, Empty
<1> QED BY <1>1, <1>2, <1>3, RequiredPositive DEF DriftInv, DriftTypeOK, WindowIsYoung

LEMMA DriftInvHolds == DriftSpec => []DriftInv
<1>1. DriftInit => DriftInv
  BY Empty, RequiredPositive DEF DriftInit, DriftInv, DriftTypeOK, WindowIsYoung
<1>2. DriftInv /\ [DriftNext]_driftVars => DriftInv'
  <2> SUFFICES ASSUME DriftInv, [DriftNext]_driftVars PROVE DriftInv'
    OBVIOUS
  <2>1. CASE \E r \in Rewards : AddStep(r)
    BY <2>1, AddStepKeeps
  <2>2. CASE \E consume \in Consumes : CheckDrift(consume)
    BY <2>2, CheckDriftKeeps
  <2>3. CASE TriggerAdaptation \/ ProcessEnds
    BY <2>3, ClearingKeeps
  <2>4. CASE UNCHANGED driftVars
    BY <2>4 DEF DriftInv, DriftTypeOK, WindowIsYoung, driftVars
  <2> QED BY <2>1, <2>2, <2>3, <2>4 DEF DriftNext
<1> QED BY <1>1, <1>2, PTL DEF DriftSpec

(* The window is never longer than its two halves, whatever is added and   *)
(* whether alarms are consumed or training fails.                          *)
THEOREM DriftTypeHolds == DriftSpec => []DriftTypeOK
<1>1. DriftInv => DriftTypeOK
  BY DEF DriftInv
<1> QED BY <1>1, DriftInvHolds, PTL

(* Alarms are a whole window of new rewards apart: an alarm needs a full   *)
(* window, and none of its rewards is older than the alarm before.         *)
THEOREM AlarmsStayApart == DriftSpec => AlarmsAreApart
<1> DEFINE Alarm == phase = "check" /\ phase' = "adapt"
<1>1. DriftInv /\ [DriftNext]_driftVars => (Alarm => quiet >= Required)
  <2> SUFFICES ASSUME DriftInv, [DriftNext]_driftVars, Alarm
               PROVE  quiet >= Required
    OBVIOUS
  <2>1. \E consume \in Consumes : CheckDrift(consume)
    BY DEF DriftNext, driftVars, AddStep, TriggerAdaptation, ProcessEnds
  <2>2. Drifted(ring)
    BY <2>1 DEF CheckDrift
  <2>3. Len(ring) >= Required
    BY <2>2 DEF Drifted
  <2>4. Len(ring) <= quiet
    BY DEF DriftInv, WindowIsYoung
  <2> QED BY <2>3, <2>4, RequiredPositive DEF DriftInv, DriftTypeOK
<1> QED BY <1>1, DriftInvHolds, PTL DEF DriftSpec, AlarmsAreApart

-----------------------------------------------------------------------------
(***************************************************************************)
(* The statistic.  A half that is level but for its first reward has these *)
(* sums.                                                                   *)
(***************************************************************************)
Half == 1 .. WindowSize

StepIn(half, a, b) ==
  DOMAIN half = Half /\ half[1] = a /\ \A i \in Half \ {1} : half[i] = b

LEMMA HalfIsFinite == IsFiniteSet(Half) /\ Cardinality(Half) = WindowSize /\ 1 \in Half
<1>1. 1 \in Int /\ WindowSize \in Int /\ 1 <= WindowSize /\ WindowSize - 1 + 1 = WindowSize
  BY DriftAssumption
<1> QED BY <1>1, FS_Interval DEF Half

LEMMA SumOfStep ==
  ASSUME NEW a \in Int, NEW b \in Int, NEW half, StepIn(half, a, b)
  PROVE  SumFunction(half) = a + (WindowSize - 1) * b
<1> DEFINE level == [i \in Half |-> b]
<1>1. \A i \in Half : level[i] = b
  OBVIOUS
<1>2. \A i \in Half : level[i] \in Int /\ half[i] \in Int
  BY DEF StepIn
<1>3. \A i \in Half \ {1} : half[i] = level[i]
  BY DEF StepIn
<1>4. half[1] - level[1] = a - b
  BY HalfIsFinite DEF StepIn
<1> HIDE DEF level
<1>5. SumFunctionOnSet(level, Half) = WindowSize * b
  BY <1>1, HalfIsFinite, SumOfEqual
<1>6. SumFunctionOnSet(half, Half) = SumFunctionOnSet(level, Half) + (half[1] - level[1])
  BY <1>2, <1>3, HalfIsFinite, SumOfChange
<1>7. SumFunction(half) = WindowSize * b + (a - b)
  BY <1>4, <1>5, <1>6, SumOfFunction DEF StepIn
<1>8. WindowSize * b + (a - b) = a + (WindowSize - 1) * b
  BY DriftAssumption
<1> QED BY <1>7, <1>8

LEMMA SpreadOfStep ==
  ASSUME NEW a \in Int, NEW b \in Int, NEW half, StepIn(half, a, b)
  PROVE  Spread(half) = (WindowSize - 1) * ((a - b) * (a - b))
<1> DEFINE squares == [i \in 1 .. WindowSize |-> half[i] * half[i]]
           m == WindowSize - 1
<1>1. StepIn(squares, a * a, b * b)
  BY HalfIsFinite DEF StepIn, Half
<1>2. a * a \in Int /\ b * b \in Int /\ m \in Int /\ WindowSize = m + 1
  BY DriftAssumption
<1> HIDE DEF squares
<1>3. SumFunction(squares) = a * a + m * (b * b)
  BY <1>1, <1>2, SumOfStep
<1>4. SumFunction(half) = a + m * b
  BY SumOfStep
<1>5. Spread(half) = WindowSize * SumFunction(squares) - SumFunction(half) * SumFunction(half)
  BY DEF Spread, squares
<1> HIDE DEF m
<1>6. (m + 1) * (a * a + m * (b * b)) - (a + m * b) * (a + m * b) = m * ((a - b) * (a - b))
  BY <1>2
<1> QED BY <1>2, <1>3, <1>4, <1>5, <1>6 DEF m

(***************************************************************************)
(* The window one reward into a drop: at the first reward of its recent    *)
(* half still at x.  It is alarming for every drop of CleanDropFrom, where *)
(* the threshold is one that a window of this size can reach at all.       *)
(***************************************************************************)
LEMMA DropIsSignificant ==
  ASSUME TThreshold < 10 * (WindowSize - 1), NEW x \in Int, NEW y \in Int, x > y
  PROVE  Significant((WindowSize - 1) * (x - y), (WindowSize - 1) * ((x - y) * (x - y)))
<1> DEFINE m == WindowSize - 1
           d == x - y
           T == TThreshold
<1>1. m \in Nat /\ m >= 1 /\ d \in Nat /\ d >= 1 /\ T \in Nat /\ T < 10 * m
  BY DriftAssumption
<1> HIDE DEF m, d, T
<1>2. d * d \in Int /\ d * d >= 1 /\ m * d \in Int /\ m * d >= 1
  BY <1>1
<1>3. m * (d * d) \in Int /\ m * (d * d) >= 1
  BY <1>1, <1>2
<1>4. T * T < (10 * m) * (10 * m)
  BY <1>1
<1>5. (10 * m) * (10 * m) = 100 * (m * m) /\ T * T \in Int /\ m * m \in Int
  BY <1>1
<1>6. (T * T) * (m * (d * d)) < (100 * (m * m)) * (m * (d * d))
  BY <1>3, <1>4, <1>5
<1>7. (100 * (m * m)) * (m * (d * d)) = 100 * (m * d) * (m * d) * m
  BY <1>1
<1> QED BY <1>2, <1>3, <1>5, <1>6, <1>7 DEF Significant, m, d, T

LEMMA DropIsNoticed ==
  ASSUME TThreshold < 10 * (WindowSize - 1), NEW w, NEW x \in Int, NEW y \in Int,
         Len(w) >= Required, x > y, (WindowSize - 1) * (x - y) >= MinEffect * WindowSize,
         StepIn(Reference(w), x, x), StepIn(Recent(w), x, y)
  PROVE  Drifted(w)
<1> DEFINE m == WindowSize - 1
<1>1. m \in Int /\ m * x \in Int /\ m * y \in Int
  BY DriftAssumption
<1> HIDE DEF m
<1>2. Loss(w) = m * (x - y)
  <2>1. SumFunction(Reference(w)) = x + m * x /\ SumFunction(Recent(w)) = x + m * y
    BY SumOfStep DEF m
  <2>2. (x + m * x) - (x + m * y) = m * (x - y)
    BY <1>1
  <2> QED BY <2>1, <2>2 DEF Loss
<1>3. Spreads(w) = m * ((x - y) * (x - y))
  <2>1. Spread(Reference(w)) = m * ((x - x) * (x - x))
    BY SpreadOfStep DEF m
  <2>2. Spread(Recent(w)) = m * ((x - y) * (x - y))
    BY SpreadOfStep DEF m
  <2>3. m * ((x - x) * (x - x)) = 0 /\ m * ((x - y) * (x - y)) \in Int
    BY <1>1
  <2> QED BY <2>1, <2>2, <2>3 DEF Spreads
<1> QED BY <1>2, <1>3, DropIsSignificant DEF Drifted, m

-----------------------------------------------------------------------------
(***************************************************************************)
(* Of the window before the last reward the driver went past the check:    *)
(* what it would find there is still known when that reward is added.      *)
(***************************************************************************)
Before(g, w) == [i \in 1 .. Required |-> IF i = 1 THEN g ELSE w[i - 1]]

WasChecked ==
  /\ phase = "add" => ~Drifted(ring)
  /\ phase \in {"add", "check"} =>
       \A g \in gone : Len(ring) = Required /\ ~Drifted(Before(g, ring))

LEMMA AddStepChecked ==
  ASSUME DriftInv, WasChecked, NEW r \in Rewards, AddStep(r)
  PROVE  WasChecked'
<1>1. phase = "add" /\ phase' = "check" /\ ~Drifted(ring)
  BY DEF AddStep, WasChecked
<1>2. ring \in Seq(Rewards) /\ Len(ring) \in Nat /\ Len(ring) <= Required
  BY LenProperties DEF DriftInv, DriftTypeOK
<1>3. CASE Len(ring) < Required
  BY <1>1, <1>3 DEF AddStep, WasChecked
<1>4. CASE ~(Len(ring) < Required)
  <2>1. Len(ring) = Required /\ ring # <<>>
    BY <1>2, <1>4, RequiredPositive, EmptySeq
  <2>2. gone' = {Head(ring)} /\ ring' = Append(Tail(ring), r)
    BY <1>4 DEF AddStep
  <2>3. /\ Tail(ring) \in Seq(Rewards) /\ Len(Tail(ring)) = Required - 1
        /\ Head(ring) = ring[1]
        /\ \A i \in 1 .. Required - 1 : Tail(ring)[i] = ring[i + 1]
    BY <1>2, <2>1, HeadTailProperties
  <2>4. /\ Len(ring') = Required
        /\ \A i \in 1 .. Required - 1 : ring'[i] = ring[i + 1]
    BY <2>2, <2>3, RequiredPositive, AppendProperties
  <2>5. Before(Head(ring), ring') = ring
    <3>1. DOMAIN ring = 1 .. Required /\ ring = [i \in DOMAIN ring |-> ring[i]]
      BY <1>2, <2>1, LenProperties
    <3>2. \A i \in 1 .. Required : (IF i = 1 THEN ring[1] ELSE ring'[i - 1]) = ring[i]
      BY <2>4, RequiredPositive
    <3>3. [i \in 1 .. Required |-> IF i = 1 THEN ring[1] ELSE ring'[i - 1]] = ring
      BY <3>1, <3>2
    <3> QED BY <2>3, <3>3 DEF Before
  <2> QED BY <1>1, <2>2, <2>4, <2>5 DEF WasChecked
<1> QED BY <1>3, <1>4

LEMMA CheckDriftChecked ==
  ASSUME DriftInv, WasChecked, NEW consume \in Consumes, CheckDrift(consume)
  PROVE  WasChecked'
<1>1. CASE Drifted(ring)
  BY <1>1 DEF CheckDrift, WasChecked
<1>2. CASE ~Drifted(ring)
  <2>1. phase = "check" /\ ring' = ring /\ gone' = gone
    BY <1>2 DEF CheckDrift
  <2> QED BY <1>2, <2>1 DEF WasChecked
<1> QED BY <1>1, <1>2

LEMMA EmptyNotDrifted == ~Drifted(<<>>)
BY Empty, RequiredPositive DEF Drifted

LEMMA WasCheckedHolds == DriftSpec => []WasChecked
<1>1. DriftInit => WasChecked
  BY EmptyNotDrifted DEF DriftInit, WasChecked
<1>2. DriftInv /\ WasChecked /\ [DriftNext]_driftVars => WasChecked'
  <2> SUFFICES ASSUME DriftInv, WasChecked, [DriftNext]_driftVars PROVE WasChecked'
    OBVIOUS
  <2>1. CASE \E r \in Rewards : AddStep(r)
    BY <2>1, AddStepChecked
  <2>2. CASE \E consume \in Consumes : CheckDrift(consume)
    BY <2>2, CheckDriftChecked
  <2>3. CASE TriggerAdaptation \/ ProcessEnds
    <3>1. ring' = <<>> /\ gone' = {}
      BY <2>3 DEF TriggerAdaptation, ProcessEnds, Cleared
    <3> QED BY <3>1, EmptyNotDrifted DEF WasChecked
  <2>4. CASE UNCHANGED driftVars
    BY <2>4 DEF WasChecked, driftVars
  <2> QED BY <2>1, <2>2, <2>3, <2>4 DEF DriftNext
<1> QED BY <1>1, <1>2, DriftInvHolds, PTL DEF DriftSpec

(* A clean drop that fills the recent half was one reward into it before.  *)
LEMMA DropWasSeen ==
  ASSUME DriftInv, WasChecked, TThreshold < 10 * (WindowSize - 1), NEW x \in gone
  PROVE  ~CleanDropFrom(x)
<1> SUFFICES ASSUME CleanDropFrom(x) PROVE FALSE
  OBVIOUS
<1> DEFINE w == Before(x, ring)
<1>1. /\ phase = "add" /\ Len(ring) = Required /\ ring \in Seq(Rewards)
      /\ LevelAt(Reference(ring), x) /\ x \in Rewards /\ x \in Int
  BY DriftAssumption DEF CleanDropFrom, DriftInv, DriftTypeOK
<1>2. PICK y \in Rewards : /\ LevelAt(Recent(ring), y) /\ x > y
                           /\ (WindowSize - 1) * (x - y) >= MinEffect * WindowSize
  BY DEF CleanDropFrom
<1>3. ~Drifted(w)
  BY <1>1 DEF WasChecked
<1>4. Required = 2 * WindowSize /\ WindowSize \in Nat /\ WindowSize >= 2
  BY DriftAssumption DEF Required
<1>5. \A i \in Half : ring[i] = x /\ ring[WindowSize + i] = y
  BY <1>1, <1>2 DEF LevelAt, Reference, Recent, Half
<1>6. \A i \in 1 .. Required : w[i] = IF i <= WindowSize + 1 THEN x ELSE y
  <2> TAKE i \in 1 .. Required
  <2>1. CASE i = 1
    BY <1>4, <2>1 DEF Before
  <2>2. CASE i # 1 /\ i <= WindowSize + 1
    <3>1. i - 1 \in Half
      BY <1>4, <2>2 DEF Half
    <3>2. w[i] = ring[i - 1]
      BY <2>2 DEF Before
    <3> QED BY <1>5, <2>2, <3>1, <3>2
  <2>3. CASE i > WindowSize + 1
    <3>1. i - 1 - WindowSize \in Half /\ WindowSize + (i - 1 - WindowSize) = i - 1 /\ i # 1
      BY <1>4, <2>3 DEF Half
    <3>2. w[i] = ring[i - 1]
      BY <3>1 DEF Before
    <3>3. ring[i - 1] = y
      BY <1>5, <3>1
    <3> QED BY <1>4, <2>3, <3>2, <3>3
  <2> QED BY <1>4, <2>1, <2>2, <2>3
<1>7. Len(w) = Required
  <2>1. \A i \in 1 .. Required : w[i] \in Rewards
    BY <1>1, <1>2, <1>6
  <2>2. w \in [1 .. Required -> Rewards]
    BY <2>1 DEF Before
  <2>3. w \in Seq(Rewards) /\ DOMAIN w = 1 .. Required
    BY <1>4, <2>2, SeqDef, RequiredPositive
  <2> QED BY <2>3, LenProperties, RequiredPositive
<1> HIDE DEF w
<1>8. StepIn(Reference(w), x, x)
  BY <1>4, <1>6 DEF StepIn, Reference, Half
<1>9. StepIn(Recent(w), x, y)
  <2>1. /\ w[WindowSize + 1] = x
        /\ \A i \in Half \ {1} : w[WindowSize + i] = y
    BY <1>4, <1>6 DEF Half
  <2> QED BY <1>4, <2>1 DEF StepIn, Recent, Half
<1>10. y \in Int /\ Len(w) >= Required
  BY <1>4, <1>7, DriftAssumption
<1> QED BY <1>1, <1>2, <1>3, <1>8, <1>9, <1>10, DropIsNoticed

(* No drop from a level to a clearly lower one goes unnoticed while it     *)
(* fills the recent half, where the threshold is one that a window of this *)
(* size can reach: the window of one reward into the drop was checked, and *)
(* it is alarming.                                                         *)
THEOREM DropsAreNoticed ==
  ASSUME TThreshold < 10 * (WindowSize - 1)
  PROVE  DriftSpec => []NoSilentDrop
<1>1. DriftInv /\ WasChecked => NoSilentDrop
  BY DropWasSeen DEF NoSilentDrop
<1> QED BY <1>1, DriftInvHolds, WasCheckedHolds, PTL
=============================================================================
