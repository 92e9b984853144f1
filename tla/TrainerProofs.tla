--------------------------- MODULE TrainerProofs ----------------------------
(***************************************************************************)
(* What holds of the trainer for every scoring of points, number of        *)
(* weights and rounds, and schedule of steps.                              *)
(***************************************************************************)
EXTENDS OfflineTrainer, TLAPS

(* The counters of the search, and what it works on while train() runs.    *)
Searching ==
  /\ tpc \in {"idle", "search", "saving", "down"}
  /\ rnd \in Nat \ {0} /\ coord \in 1 .. (Bias + 1)
  /\ moved.now \in BOOLEAN /\ DOMAIN moved = {"now", "before"}
  /\ tpc = "search" =>
       /\ data \in DataSets /\ point \in Points
       /\ cur_train = TrainScore(data, point)
       /\ cur_train >= TrainScore(data, Start)

(* Coordinates and points.                                                 *)
LEMMA BiasIsLast == Bias \in Coordinates /\ Coordinates \ {Bias} = 1 .. NWeights
BY TrainerAssumption DEF Bias, Coordinates

LEMMA StartIsPoint == Start \in Points
<1>1. \A i \in Coordinates : Start[i] = IF i = Bias THEN BiasStart ELSE 0
  BY DEF Start
<1>2. Start[Bias] \in BiasMin .. BiasMax
  BY <1>1, BiasIsLast, TrainerAssumption
<1>3. \A i \in 1 .. NWeights : Start[i] \in (0 - weight_clip) .. weight_clip
  <2>1. \A i \in 1 .. NWeights : i \in Coordinates /\ i # Bias
    BY BiasIsLast
  <2>2. 0 \in (0 - weight_clip) .. weight_clip
    BY TrainerAssumption
  <2> QED BY <1>1, <2>1, <2>2
<1>4. Start \in [Coordinates -> (0 - weight_clip) .. weight_clip \cup BiasMin .. BiasMax]
  <2>1. \A i \in Coordinates :
          Start[i] \in (0 - weight_clip) .. weight_clip \cup BiasMin .. BiasMax
    BY <1>2, <1>3, BiasIsLast
  <2> QED BY <2>1 DEF Start
<1> QED BY <1>2, <1>3, <1>4 DEF Points

(* A step that is tried leads to a point.                                  *)
LEMMA CandidateIsPoint ==
  ASSUME NEW p \in Points, NEW i \in Coordinates, NEW r \in 1 .. rounds,
         NEW n \in Tried(p, i, r)
  PROVE  Candidate(p, i, r, n) \in Points
<1>1. Moved(p, i, r, n) \in Int
  <2>1. p[i] \in Int
    BY TrainerAssumption DEF Points
  <2>2. WeightSteps[r] \in Int /\ BiasSteps[r] \in Int
    BY TrainerAssumption
  <2>3. \A s \in Int : Deltas(s)[n] \in Int
    BY DEF Deltas, Tried
  <2>4. CASE i = Bias
    <3>1. p[i] + Deltas(BiasSteps[r])[n] \in Int
      BY <2>1, <2>2, <2>3
    <3> QED BY <2>4, <3>1, TrainerAssumption DEF Moved, Clamp
  <2>5. CASE i # Bias
    BY <2>1, <2>2, <2>3, <2>5 DEF Moved
  <2> QED BY <2>4, <2>5
<1>2. CASE i = Bias
  <2>1. Moved(p, i, r, n) \in BiasMin .. BiasMax
    BY <1>1, <1>2, TrainerAssumption DEF Moved, Clamp
  <2> QED BY <1>2, <2>1, BiasIsLast DEF Points, Candidate
<1>3. CASE i # Bias
  <2>1. Abs(Moved(p, i, r, n)) <= weight_clip
    BY <1>3 DEF Tried
  <2>2. Moved(p, i, r, n) \in (0 - weight_clip) .. weight_clip
    BY <1>1, <2>1, TrainerAssumption DEF Abs
  <2> QED BY <1>3, <2>2, BiasIsLast DEF Points, Candidate
<1> QED BY <1>2, <1>3

(* A candidate's score is a number, so the candidate that wins is a point  *)
(* with a better score.                                                    *)
LEMMA GainIsScore ==
  ASSUME Searching, tpc = "search", rnd <= rounds,
         NEW i \in Coordinates, NEW n \in Tried(point, i, rnd)
  PROVE  /\ Candidate(point, i, rnd, n) \in Points
         /\ Gain(point, i, rnd, n) \in Int
<1>1. rnd \in 1 .. rounds
  BY TrainerAssumption DEF Searching
<1>2. Candidate(point, i, rnd, n) \in Points
  BY <1>1, CandidateIsPoint DEF Searching
<1> QED BY <1>2, ScoresAssumption DEF Gain, Searching

LEMMA SweepSearches ==
  ASSUME Searching, Sweep
  PROVE  Searching'
<1>1. tpc = "search" /\ rnd <= rounds /\ coord \in Coordinates
  BY DEF Sweep
<1>2. coord' \in 1 .. (Bias + 1)
  BY <1>1, TrainerAssumption DEF Sweep, Coordinates, Bias
<1>3. moved'.now \in BOOLEAN /\ DOMAIN moved' = {"now", "before"}
  BY DEF Sweep, Searching
<1>4. /\ point' \in Points /\ cur_train' = TrainScore(data, point')
      /\ cur_train' >= TrainScore(data, Start)
  <2>1. CASE UNCHANGED <<point, cur_train>>
    BY <1>1, <2>1 DEF Searching
  <2>2. ASSUME NEW n \in 1 .. 4, Wins(coord, n),
               point' = Candidate(point, coord, rnd, n),
               cur_train' = Gain(point, coord, rnd, n)
        PROVE  /\ point' \in Points /\ cur_train' = TrainScore(data, point')
               /\ cur_train' >= TrainScore(data, Start)
    <3>1. n \in Tried(point, coord, rnd) /\ cur_train < cur_train'
      BY <2>2 DEF Wins
    <3>2. point' \in Points /\ cur_train' \in Int
      BY <1>1, <2>2, <3>1, GainIsScore
    <3>3. cur_train \in Int /\ TrainScore(data, Start) \in Int
      BY <1>1, StartIsPoint, ScoresAssumption DEF Searching
    <3>4. cur_train >= TrainScore(data, Start)
      BY <1>1 DEF Searching
    <3> QED BY <2>2, <3>1, <3>2, <3>3, <3>4 DEF Gain
  <2> QED BY <2>1, <2>2 DEF Sweep
<1> QED BY <1>1, <1>2, <1>3, <1>4 DEF Searching, Sweep

LEMMA SearchingHolds == TrainerSpec => []Searching
<1>1. TrainerInit => Searching
  BY TrainerAssumption DEF TrainerInit, Searching, Bias
<1>2. Searching /\ [TrainerNext]_trainerVars => Searching'
  <2> SUFFICES ASSUME Searching, [TrainerNext]_trainerVars PROVE Searching'
    OBVIOUS
  <2>1. ASSUME NEW d \in DataSets, Begin(d) PROVE Searching'
    <3>1. TrainScore(d, Start) \in Int
      BY StartIsPoint, ScoresAssumption
    <3> QED BY <2>1, <3>1, StartIsPoint, TrainerAssumption DEF Begin, Searching, Bias
  <2>2. CASE Sweep
    BY <2>2, SweepSearches
  <2>3. CASE EndRound
    BY <2>3, TrainerAssumption DEF EndRound, Searching, Bias
  <2>4. CASE Return
    BY <2>4 DEF Return, searchVars, Searching
  <2>5. CASE SaveOpens \/ SaveWrites \/ SaveFails \/ Load \/ Revive \/ Die
    BY <2>5 DEF SaveOpens, SaveWrites, SaveFails, Load, Revive, Die, searchVars, Searching
  <2>6. ASSUME NEW p \in Forgeries, Forge(p) PROVE Searching'
    BY <2>6 DEF Forge, searchVars, Searching
  <2>7. CASE UNCHANGED trainerVars
    BY <2>7 DEF trainerVars, searchVars, Searching
  <2> QED BY <2>1, <2>2, <2>3, <2>4, <2>5, <2>6, <2>7 DEF TrainerNext
<1> QED BY <1>1, <1>2, PTL DEF TrainerSpec

(* The search is monotone on the training split, its score is never that   *)
(* of another point, and the point stays within the clip and the band.     *)
THEOREM SearchIsMonotone == TrainerSpec => []ScoreIsCurrent
<1>1. Searching => ScoreIsCurrent
  <2> SUFFICES ASSUME Searching, tpc = "search" PROVE ScoreIsCurrent
    BY DEF ScoreIsCurrent
  <2>1. point \in Points /\ point[Bias] \in BiasMin .. BiasMax
    BY DEF Searching, Points
  <2>2. ASSUME NEW i \in Coordinates \ {Bias} PROVE Abs(point[i]) <= weight_clip
    <3>1. point[i] \in (0 - weight_clip) .. weight_clip
      BY <2>1, BiasIsLast DEF Points
    <3> QED BY <3>1, TrainerAssumption DEF Abs
  <2> QED BY <2>1, <2>2 DEF Searching, ScoreIsCurrent
<1> QED BY <1>1, SearchingHolds, PTL

-----------------------------------------------------------------------------
(* The checkpoint is the best of what it was chosen from.                  *)
CheckpointIsBest ==
  tpc = "search" =>
    /\ ends \subseteq Points /\ best.point \in ends
    /\ best.val = HoldoutScore(data, best.point)
    /\ \A p \in ends : HoldoutScore(data, p) <= best.val

LEMMA EndRoundKeepsBest ==
  ASSUME Searching, CheckpointIsBest, EndRound
  PROVE  CheckpointIsBest'
<1>1. tpc = "search" /\ data' = data /\ ends' = ends \cup {point}
  BY DEF EndRound
<1>2. point \in Points /\ ends \subseteq Points /\ best.point \in ends
  BY <1>1 DEF Searching, CheckpointIsBest
<1>3. \A p \in ends' : HoldoutScore(data, p) \in Int
  BY <1>1, <1>2, ScoresAssumption DEF Searching
<1>4. best.val = HoldoutScore(data, best.point)
  BY <1>1 DEF CheckpointIsBest
<1>5. \A p \in ends : HoldoutScore(data, p) <= best.val
  BY <1>1 DEF CheckpointIsBest
<1>6. CASE HoldoutScore(data, point) > best.val
  <2>1. best'.point = point /\ best'.val = HoldoutScore(data, point)
    BY <1>6 DEF EndRound, Checkpoint
  <2>2. best.val \in Int
    BY <1>1, <1>2, <1>3, <1>4
  <2>3. \A p \in ends' : HoldoutScore(data, p) <= HoldoutScore(data, point)
    BY <1>1, <1>3, <1>5, <1>6, <2>2
  <2> QED BY <1>1, <1>2, <2>1, <2>3 DEF CheckpointIsBest
<1>7. CASE ~(HoldoutScore(data, point) > best.val)
  <2>1. best' = best
    BY <1>7 DEF EndRound
  <2>2. best.val \in Int /\ HoldoutScore(data, point) \in Int
    BY <1>1, <1>2, <1>3, <1>4
  <2>3. \A p \in ends' : HoldoutScore(data, p) <= best.val
    BY <1>1, <1>5, <1>7, <2>2
  <2> QED BY <1>1, <1>2, <1>4, <2>1, <2>3 DEF CheckpointIsBest
<1> QED BY <1>6, <1>7

(* What training returns is never worse on the holdout than the start, nor *)
(* than the end of any round.                                              *)
THEOREM CheckpointStaysBest == TrainerSpec => []BestOfRounds
<1>1. TrainerInit => CheckpointIsBest
  BY DEF TrainerInit, CheckpointIsBest
<1>2. Searching /\ CheckpointIsBest /\ [TrainerNext]_trainerVars => CheckpointIsBest'
  <2> SUFFICES ASSUME Searching, CheckpointIsBest, [TrainerNext]_trainerVars
               PROVE  CheckpointIsBest'
    OBVIOUS
  <2>1. ASSUME NEW d \in DataSets, Begin(d) PROVE CheckpointIsBest'
    <3>1. HoldoutScore(d, Start) \in Int
      BY StartIsPoint, ScoresAssumption
    <3>2. ends' = {Start} /\ data' = d /\ best'.point = Start
          /\ best'.val = HoldoutScore(d, Start)
      BY <2>1 DEF Begin, Checkpoint
    <3> QED BY <3>1, <3>2, StartIsPoint DEF CheckpointIsBest
  <2>2. CASE Sweep
    BY <2>2 DEF Sweep, CheckpointIsBest
  <2>3. CASE EndRound
    BY <2>3, EndRoundKeepsBest
  <2>4. CASE Return \/ SaveOpens \/ SaveWrites \/ SaveFails \/ Load \/ Revive \/ Die
    BY <2>4 DEF Return, SaveOpens, SaveWrites, SaveFails, Load, Revive, Die,
                searchVars, CheckpointIsBest
  <2>5. ASSUME NEW p \in Forgeries, Forge(p) PROVE CheckpointIsBest'
    BY <2>5 DEF Forge, searchVars, CheckpointIsBest
  <2>6. CASE UNCHANGED trainerVars
    BY <2>6 DEF trainerVars, searchVars, CheckpointIsBest
  <2> QED BY <2>1, <2>2, <2>3, <2>4, <2>5, <2>6 DEF TrainerNext
<1>3. CheckpointIsBest => BestOfRounds
  BY DEF CheckpointIsBest, BestOfRounds
<1> QED BY <1>1, <1>2, <1>3, SearchingHolds, PTL DEF TrainerSpec

-----------------------------------------------------------------------------
(* Of numbers above a bound, one is the first of the largest: built up     *)
(* over the four steps of a sweep.                                         *)
FirstBest(T, G, n) ==
  n \in T /\ \A m \in T : G[m] <= G[n] /\ (m < n => G[m] < G[n])

LEMMA FirstBestGrows ==
  ASSUME NEW T \in SUBSET (1 .. 4), NEW G \in [T -> Int], NEW c \in Int,
         NEW k \in 1 .. 4,
         (\E m \in T \cap 1 .. (k - 1) : G[m] > c) =>
            \E n \in T : FirstBest(T \cap 1 .. (k - 1), G, n) /\ G[n] > c
  PROVE  (\E m \in T \cap 1 .. k : G[m] > c) =>
            \E n \in T : FirstBest(T \cap 1 .. k, G, n) /\ G[n] > c
<1> DEFINE U == T \cap 1 .. (k - 1)
           V == T \cap 1 .. k
<1> SUFFICES ASSUME \E m \in V : G[m] > c
             PROVE  \E n \in T : FirstBest(V, G, n) /\ G[n] > c
  OBVIOUS
<1>1. \A m \in V : m \in U \/ (m = k /\ k \in T)
  OBVIOUS
<1>2. \A m \in U : m < k /\ m \in T /\ m \in V
  OBVIOUS
<1>3. CASE \E m \in U : G[m] > c
  <2>1. PICK n \in T : FirstBest(U, G, n) /\ G[n] > c
    BY <1>3
  <2>2. CASE k \in T /\ G[k] > G[n]
    <3>1. \A m \in V : G[m] <= G[k] /\ (m < k => G[m] < G[k])
      BY <1>1, <1>2, <2>1, <2>2 DEF FirstBest
    <3> QED BY <2>1, <2>2, <3>1 DEF FirstBest
  <2>3. CASE ~(k \in T /\ G[k] > G[n])
    <3>1. n \in V /\ n \in U
      BY <1>2, <2>1 DEF FirstBest
    <3>2. \A m \in V : G[m] <= G[n] /\ (m < n => G[m] < G[n])
      BY <1>1, <1>2, <2>1, <2>3, <3>1 DEF FirstBest
    <3> QED BY <2>1, <3>1, <3>2 DEF FirstBest
  <2> QED BY <2>2, <2>3
<1>4. CASE ~ \E m \in U : G[m] > c
  <2>1. k \in T /\ G[k] > c
    BY <1>1, <1>4
  <2>2. \A m \in V : G[m] <= G[k] /\ (m < k => G[m] < G[k])
    BY <1>1, <1>2, <1>4, <2>1
  <2> QED BY <2>1, <2>2 DEF FirstBest
<1> QED BY <1>3, <1>4

LEMMA FirstBestExists ==
  ASSUME NEW T \in SUBSET (1 .. 4), NEW G \in [T -> Int], NEW c \in Int,
         \E m \in T : G[m] > c
  PROVE  \E n \in T : FirstBest(T, G, n) /\ G[n] > c
<1> DEFINE P(k) == (\E m \in T \cap 1 .. k : G[m] > c) =>
                      \E n \in T : FirstBest(T \cap 1 .. k, G, n) /\ G[n] > c
<1>1. P(0)
  OBVIOUS
<1>2. ASSUME NEW k \in 1 .. 4, P(k - 1) PROVE P(k)
  BY <1>2, FirstBestGrows
<1> HIDE DEF P
<1>3. P(1)
  <2>1. P(1 - 1) BY <1>1
  <2> QED BY <2>1, <1>2
<1>4. P(2)
  <2>1. P(2 - 1) BY <1>3
  <2> QED BY <2>1, <1>2
<1>5. P(3)
  <2>1. P(3 - 1) BY <1>4
  <2> QED BY <2>1, <1>2
<1>6. P(4)
  <2>1. P(4 - 1) BY <1>5
  <2> QED BY <2>1, <1>2
<1>7. T \cap 1 .. 4 = T
  OBVIOUS
<1> QED BY <1>6, <1>7 DEF P

(* A sweep that does not move found no better candidate.                   *)
LEMMA NoWinnerNoGain ==
  ASSUME Searching, tpc = "search", rnd <= rounds, coord \in Coordinates,
         \A n \in 1 .. 4 : ~Wins(coord, n)
  PROVE  \A n \in Tried(point, coord, rnd) : Gain(point, coord, rnd, n) <= cur_train
<1> DEFINE T == Tried(point, coord, rnd)
           G == [n \in T |-> Gain(point, coord, rnd, n)]
<1>1. T \in SUBSET (1 .. 4)
  BY DEF Tried
<1>2. \A n \in T : Gain(point, coord, rnd, n) \in Int
  BY GainIsScore
<1>3. cur_train \in Int
  BY ScoresAssumption DEF Searching
<1>4. SUFFICES ASSUME \E m \in T : ~(G[m] <= cur_train) PROVE FALSE
  BY <1>2
<1>5. G \in [T -> Int]
  BY <1>2
<1>6. \E m \in T : G[m] > cur_train
  BY <1>3, <1>4, <1>5
<1> HIDE DEF T, G
<1>7. PICK n \in T : FirstBest(T, G, n) /\ G[n] > cur_train
  BY <1>1, <1>3, <1>5, <1>6, FirstBestExists
<1>8. Wins(coord, n)
  <2>1. \A m \in T : G[m] = Gain(point, coord, rnd, m)
    BY DEF G
  <2> QED BY <1>7, <2>1 DEF Wins, FirstBest, T
<1> QED BY <1>1, <1>8

(* While a round has not moved, what it has swept cannot be improved on.   *)
Swept ==
  /\ StalledIsOptimal
  /\ tpc = "search" /\ rnd <= rounds /\ ~moved.now =>
       \A i \in 1 .. (coord - 1) : \A n \in Tried(point, i, rnd) :
         Gain(point, i, rnd, n) <= cur_train

LEMMA SweepKeepsSwept ==
  ASSUME Searching, Swept, Sweep
  PROVE  Swept'
<1>1. /\ tpc = "search" /\ rnd <= rounds /\ coord \in Coordinates
      /\ coord' = coord + 1 /\ rnd' = rnd /\ data' = data
  BY DEF Sweep
<1>2. coord \in Nat /\ coord >= 1
  BY <1>1, TrainerAssumption DEF Coordinates, Bias
<1>3. StalledIsOptimal'
  BY <1>1, <1>2 DEF StalledIsOptimal
<1>4. SUFFICES ASSUME ~moved'.now, NEW i \in 1 .. coord,
                      NEW n \in Tried(point', i, rnd)
               PROVE  Gain(point', i, rnd, n) <= cur_train'
  BY <1>1, <1>2, <1>3 DEF Swept, Gain
<1>5. CASE \E k \in 1 .. 4 : Wins(coord, k) /\ moved' = [moved EXCEPT !.now = TRUE]
  BY <1>4, <1>5 DEF Searching
<1>6. CASE /\ \A k \in 1 .. 4 : ~Wins(coord, k)
           /\ UNCHANGED <<point, cur_train, moved>>
  <2>1. CASE i = coord
    BY <1>1, <1>4, <1>6, <2>1, NoWinnerNoGain
  <2>2. CASE i # coord
    <3>1. i \in 1 .. (coord - 1)
      BY <1>2, <2>2
    <3> QED BY <1>1, <1>4, <1>6, <3>1 DEF Swept
  <2> QED BY <2>1, <2>2
<1> QED BY <1>5, <1>6 DEF Sweep

LEMMA EndRoundKeepsSwept ==
  ASSUME Searching, Swept, EndRound
  PROVE  Swept'
<1>1. /\ tpc = "search" /\ rnd <= rounds /\ coord \notin Coordinates
      /\ coord' = 1 /\ rnd' = rnd + 1 /\ data' = data /\ point' = point
      /\ cur_train' = cur_train /\ moved'.before = moved.now
  BY DEF EndRound
<1>2. \A i \in 1 .. (coord' - 1) : FALSE
  BY <1>1
<1>3. rnd' - 1 = rnd
  BY <1>1 DEF Searching
<1>4. Coordinates = 1 .. (coord - 1)
  BY <1>1, TrainerAssumption DEF Searching, Coordinates, Bias
<1>5. cur_train = TrainScore(data, point)
  BY <1>1 DEF Searching
<1>6. StalledIsOptimal'
  <2> SUFFICES ASSUME ~moved.now, NEW i \in Coordinates, NEW n \in Tried(point, i, rnd)
               PROVE  Gain(point, i, rnd, n) <= TrainScore(data, point)
    BY <1>1, <1>3 DEF StalledIsOptimal, Gain
  <2> QED BY <1>1, <1>4, <1>5 DEF Swept
<1> QED BY <1>2, <1>6 DEF Swept

(* A round without a move leaves a point that is locally optimal at that   *)
(* round's scale: every step along every coordinate was tried from it.     *)
THEOREM StallsOnlyAtOptimum == TrainerSpec => []StalledIsOptimal
<1>1. TrainerInit => Swept
  BY DEF TrainerInit, Swept, StalledIsOptimal
<1>2. Searching /\ Swept /\ [TrainerNext]_trainerVars => Swept'
  <2> SUFFICES ASSUME Searching, Swept, [TrainerNext]_trainerVars PROVE Swept'
    OBVIOUS
  <2>1. ASSUME NEW d \in DataSets, Begin(d) PROVE Swept'
    <3>1. coord' = 1 /\ moved'.before = TRUE
      BY <2>1 DEF Begin
    <3>2. \A i \in 1 .. (coord' - 1) : FALSE
      BY <3>1
    <3> QED BY <3>1, <3>2 DEF Swept, StalledIsOptimal
  <2>2. CASE Sweep
    BY <2>2, SweepKeepsSwept
  <2>3. CASE EndRound
    BY <2>3, EndRoundKeepsSwept
  <2>4. CASE Return \/ SaveOpens \/ SaveWrites \/ SaveFails \/ Load \/ Revive \/ Die
             \/ \E p \in Forgeries : Forge(p)
    <3>1. UNCHANGED searchVars /\ (tpc' = "search" => tpc = "search")
      BY <2>4 DEF Return, SaveOpens, SaveWrites, SaveFails, Load, Revive, Die, Forge,
                  searchVars
    <3> QED BY <3>1 DEF Swept, StalledIsOptimal, searchVars, Gain
  <2>5. CASE UNCHANGED trainerVars
    BY <2>5 DEF trainerVars, searchVars, Swept, StalledIsOptimal, Gain
  <2> QED BY <2>1, <2>2, <2>3, <2>4, <2>5 DEF TrainerNext
<1>3. Swept => StalledIsOptimal
  BY DEF Swept
<1> QED BY <1>1, <1>2, <1>3, SearchingHolds, PTL DEF TrainerSpec

-----------------------------------------------------------------------------
(* What the signature of the artifact file covers was trained.             *)
SignedWasTrained ==
  /\ held \subseteq trained
  /\ file \notin {None, Torn} =>
       file.sha256.point \in trained /\ DOMAIN file = {"payload", "sha256"}

(* Through interrupted saves, changed files, kills and restarts a process  *)
(* holds only policies that a training returned.                           *)
THEOREM OnlyTrainedAreHeld == TrainerSpec => []HeldWasTrained
<1>1. TrainerInit => SignedWasTrained
  BY DEF TrainerInit, SignedWasTrained
<1>2. SignedWasTrained /\ [TrainerNext]_trainerVars => SignedWasTrained'
  <2> SUFFICES ASSUME SignedWasTrained, [TrainerNext]_trainerVars
               PROVE  SignedWasTrained'
    OBVIOUS
  <2>1. CASE (\E d \in DataSets : Begin(d)) \/ Sweep \/ EndRound \/ Return \/ SaveFails
             \/ Revive \/ Die
    <3>1. file' = file /\ trained \subseteq trained' /\ held' \subseteq trained'
      BY <2>1 DEF Begin, Sweep, EndRound, Return, SaveFails, Revive, Die, SignedWasTrained
    <3> QED BY <3>1 DEF SignedWasTrained
  <2>2. CASE SaveOpens
    BY <2>2 DEF SaveOpens, SignedWasTrained
  <2>3. CASE SaveWrites
    <3>1. PICK p \in held : file' = Artifact(p, report)
      BY <2>3 DEF SaveWrites
    <3>2. file'.sha256.point = p /\ DOMAIN file' = {"payload", "sha256"}
      BY <3>1 DEF Artifact
    <3> QED BY <2>3, <3>1, <3>2 DEF SaveWrites, SignedWasTrained
  <2>4. CASE Load
    <3>1. file.payload.point \in trained
      BY <2>4 DEF Load, SignedWasTrained
    <3> QED BY <2>4, <3>1 DEF Load, SignedWasTrained
  <2>5. ASSUME NEW p \in Forgeries, Forge(p) PROVE SignedWasTrained'
    <3>1. file'.sha256 = file.sha256 /\ DOMAIN file' = {"payload", "sha256"}
      BY <2>5 DEF Forge, SignedWasTrained
    <3> QED BY <2>5, <3>1 DEF Forge, SignedWasTrained
  <2>6. CASE UNCHANGED trainerVars
    BY <2>6 DEF trainerVars, SignedWasTrained
  <2> QED BY <2>1, <2>2, <2>3, <2>4, <2>5, <2>6 DEF TrainerNext
<1>3. SignedWasTrained => HeldWasTrained
  BY DEF SignedWasTrained, HeldWasTrained
<1> QED BY <1>1, <1>2, <1>3, PTL DEF TrainerSpec
=============================================================================
