--------------------------- MODULE OfflineTrainer ---------------------------
(***************************************************************************)
(* OfflineTrainer and the artifacts of LearnedLinearPolicy                 *)
(* (learned_kernel/trainer/rl_trainer.py).  A policy is its parameters, a  *)
(* point: the weights and, last, the bias, as integers in units of the     *)
(* instance.  What a rollout of a point through the simulator earns is     *)
(* data: all candidates are scored on the same seeded workload, so a score *)
(* is a function of data set and point.                                    *)
(*                                                                         *)
(* Each round tries four steps along every coordinate in turn, moves if    *)
(* the best of them is strictly better on the training split, and then     *)
(* scores the point it has reached on the held-out one.                    *)
(***************************************************************************)
EXTENDS Integers

CONSTANTS
  DataSets,           \* what train() may be given (at least one trajectory)
  TrainScore(_, _),   \* _evaluate() of a point on the training split
  HoldoutScore(_, _), \* and on the held-out one
  NWeights,           \* number of weights
  weight_clip,
  BiasMin, BiasMax,   \* band of the bias
  BiasStart,          \* the bias a search begins with
  rounds,
  WeightSteps,        \* w_step0 * decay^round, of each round
  BiasSteps,          \* b_step0_us * decay^round, of each round
  Forgeries,          \* points a program that changes an artifact may write
  MaxTrainings,       \* bound on the calls of train()
  None

Bias == NWeights + 1

Coordinates == 1 .. Bias

(* The points a search may visit.                                         *)
Points ==
  {p \in [Coordinates -> (0 - weight_clip) .. weight_clip \cup BiasMin .. BiasMax] :
     /\ p[Bias] \in BiasMin .. BiasMax
     /\ \A i \in 1 .. NWeights : p[i] \in (0 - weight_clip) .. weight_clip}

ASSUME TrainerAssumption ==
  /\ NWeights \in Nat /\ weight_clip \in Nat
  /\ BiasMin \in Int /\ BiasMax \in Int /\ BiasStart \in BiasMin .. BiasMax
  /\ rounds \in Nat
  /\ WeightSteps \in [1 .. rounds -> Nat] /\ BiasSteps \in [1 .. rounds -> Nat]
  /\ MaxTrainings \in Nat

ASSUME ScoresAssumption ==
  \A d \in DataSets : \A p \in Points : TrainScore(d, p) \in Int /\ HoldoutScore(d, p) \in Int

VARIABLES
  tpc,        \* "idle", "search" (train() runs), "saving" or "down"
  data,       \* the data set of the training at hand, or None
  point,      \* weights and bias
  cur_train,  \* what the search takes for the score of the point
  best,       \* the best-holdout checkpoint
  rnd,        \* the round, counted from 1
  coord,      \* the coordinate to be swept next
  report,     \* last_report and last_dataset_hash, or None
  held,       \* the policies the process holds
  file,       \* the artifact file: None, Torn or an artifact
  trained,    \* every policy that a training ever returned
  ends,       \* the start of this search and where its rounds ended
  moved,      \* whether this round has moved, and the one before it did
  trainings   \* calls of train() so far

searchVars == <<data, point, cur_train, best, rnd, coord, ends, moved>>

trainerVars ==
  <<tpc, searchVars, report, held, file, trained, trainings>>

Start == [i \in Coordinates |-> IF i = Bias THEN BiasStart ELSE 0]

Checkpoint(p, val, r) == [point |-> p, val |-> val, round |-> r]

NoCheckpoint == Checkpoint(Start, 0, 0)

Report(d, base, b) ==
  [data |-> d, baseline_val |-> base, final_val |-> b.val,
   best_round |-> b.round, improved |-> b.val > base]

(* SHA-256 is injective: a checksum is the payload it was computed from.   *)
Artifact(p, rep) ==
  [payload |-> [point |-> p, report |-> rep], sha256 |-> [point |-> p, report |-> rep]]

(* What a truncated or partly written file holds: no JSON text.            *)
Torn == [payload |-> None, sha256 |-> None]

TrainerInit ==
  /\ tpc = "idle"
  /\ data = None /\ point = Start /\ cur_train = 0 /\ best = NoCheckpoint
  /\ rnd = 1 /\ coord = 1
  /\ ends = {} /\ moved = [now |-> FALSE, before |-> TRUE]
  /\ report = None /\ held = {} /\ file = None /\ trained = {}
  /\ trainings = 0

-----------------------------------------------------------------------------
Abs(x) == IF x < 0 THEN 0 - x ELSE x

(* The four steps of a sweep, in the order they are tried.                 *)
Deltas(s) == <<s, 0 - s, s \div 4, 0 - (s \div 4)>>

Clamp(b) == IF b < BiasMin THEN BiasMin ELSE IF b > BiasMax THEN BiasMax ELSE b

(* Where the n-th step of round r along coordinate i leads from p.         *)
Moved(p, i, r, n) ==
  IF i = Bias THEN Clamp(p[i] + Deltas(BiasSteps[r])[n])
  ELSE p[i] + Deltas(WeightSteps[r])[n]

Candidate(p, i, r, n) == [p EXCEPT ![i] = Moved(p, i, r, n)]

(* The steps that are scored: within the clip, and not back to the point.  *)
Tried(p, i, r) ==
  {n \in 1 .. 4 : IF i = Bias THEN Moved(p, i, r, n) # p[i]
                  ELSE Abs(Moved(p, i, r, n)) <= weight_clip}

Gain(p, i, r, n) == TrainScore(data, Candidate(p, i, r, n))

(* The n-th step is the first of the best, and strictly better.            *)
Wins(i, n) ==
  /\ n \in Tried(point, i, rnd)
  /\ Gain(point, i, rnd, n) > cur_train
  /\ \A m \in Tried(point, i, rnd) :
       /\ Gain(point, i, rnd, m) <= Gain(point, i, rnd, n)
       /\ m < n => Gain(point, i, rnd, m) < Gain(point, i, rnd, n)

(* train() begins: the start is scored on both splits.                     *)
Begin(d) ==
  /\ tpc = "idle" /\ trainings < MaxTrainings
  /\ tpc' = "search"
  /\ data' = d /\ point' = Start
  /\ cur_train' = TrainScore(d, Start)
  /\ best' = Checkpoint(Start, HoldoutScore(d, Start), 0)
  /\ rnd' = 1 /\ coord' = 1
  /\ ends' = {Start} /\ moved' = [now |-> FALSE, before |-> TRUE]
  /\ trainings' = trainings + 1
  /\ UNCHANGED <<report, held, file, trained>>

\* Mutants of Sweep: the score is not kept; the checkpoint is the search's
\* own list of weights.
Mutant_ScoreNotKept ==
  /\ tpc = "search" /\ rnd <= rounds /\ coord \in Coordinates
  /\ \/ \E n \in 1 .. 4 :
          /\ Wins(coord, n)
          /\ point' = Candidate(point, coord, rnd, n)
          /\ moved' = [moved EXCEPT !.now = TRUE]
     \/ /\ \A n \in 1 .. 4 : ~Wins(coord, n)
        /\ UNCHANGED <<point, moved>>
  /\ coord' = coord + 1
  /\ UNCHANGED <<tpc, data, cur_train, best, rnd, ends, report, held, file,
                 trained, trainings>>

Mutant_Aliased ==
  /\ tpc = "search" /\ rnd <= rounds /\ coord \in Coordinates
  /\ \/ \E n \in 1 .. 4 :
          /\ Wins(coord, n)
          /\ point' = Candidate(point, coord, rnd, n)
          /\ cur_train' = Gain(point, coord, rnd, n)
          /\ best' = IF best.point = point THEN [best EXCEPT !.point = point'] ELSE best
          /\ moved' = [moved EXCEPT !.now = TRUE]
     \/ /\ \A n \in 1 .. 4 : ~Wins(coord, n)
        /\ UNCHANGED <<point, cur_train, best, moved>>
  /\ coord' = coord + 1
  /\ UNCHANGED <<tpc, data, rnd, ends, report, held, file, trained, trainings>>

(* The sweep of one coordinate.                                            *)
Sweep ==
  /\ tpc = "search" /\ rnd <= rounds /\ coord \in Coordinates
  /\ \/ \E n \in 1 .. 4 :
          /\ Wins(coord, n)
          /\ point' = Candidate(point, coord, rnd, n)
          /\ cur_train' = Gain(point, coord, rnd, n)
          /\ moved' = [moved EXCEPT !.now = TRUE]
     \/ /\ \A n \in 1 .. 4 : ~Wins(coord, n)
        /\ UNCHANGED <<point, cur_train, moved>>
  /\ coord' = coord + 1
  /\ UNCHANGED <<tpc, data, best, rnd, ends, report, held, file, trained, trainings>>

\* Mutant of EndRound: the bias is not swept.
Mutant_BiasSkipped ==
  /\ tpc = "search" /\ rnd <= rounds /\ coord = Bias
  /\ LET va == HoldoutScore(data, point)
     IN  best' = IF va > best.val THEN Checkpoint(point, va, rnd) ELSE best
  /\ rnd' = rnd + 1 /\ coord' = 1
  /\ ends' = ends \cup {point} /\ moved' = [now |-> FALSE, before |-> moved.now]
  /\ UNCHANGED <<tpc, data, point, cur_train, report, held, file, trained, trainings>>

(* The end of a round: its point may become the checkpoint.                *)
EndRound ==
  /\ tpc = "search" /\ rnd <= rounds /\ coord \notin Coordinates
  /\ LET va == HoldoutScore(data, point)
     IN  best' = IF va > best.val THEN Checkpoint(point, va, rnd) ELSE best
  /\ rnd' = rnd + 1 /\ coord' = 1
  /\ ends' = ends \cup {point} /\ moved' = [now |-> FALSE, before |-> moved.now]
  /\ UNCHANGED <<tpc, data, point, cur_train, report, held, file, trained, trainings>>

(* train() returns the checkpoint as a policy.                             *)
Return ==
  /\ tpc = "search" /\ rnd > rounds
  /\ tpc' = "idle"
  /\ report' = Report(data, HoldoutScore(data, Start), best)
  /\ held' = held \cup {best.point} /\ trained' = trained \cup {best.point}
  /\ UNCHANGED <<searchVars, file, trainings>>

-----------------------------------------------------------------------------
(* save_artifact(): opening the file truncates it.                         *)
SaveOpens ==
  /\ tpc = "idle" /\ held # {}
  /\ tpc' = "saving"
  /\ file' = Torn
  /\ UNCHANGED <<searchVars, report, held, trained, trainings>>

(* The policy is written under whatever training was the last.             *)
SaveWrites ==
  /\ tpc = "saving"
  /\ tpc' = "idle"
  /\ \E p \in held : file' = Artifact(p, report)
  /\ UNCHANGED <<searchVars, report, held, trained, trainings>>

(* The disk is full, or closed: what was written stays.                    *)
SaveFails ==
  /\ tpc = "saving"
  /\ tpc' = "idle"
  /\ UNCHANGED <<searchVars, report, held, file, trained, trainings>>

\* Mutant of Load: the checksum is not looked at.
Mutant_Unchecked ==
  /\ tpc = "idle" /\ file \notin {None, Torn}
  /\ held' = held \cup {file.payload.point}
  /\ UNCHANGED <<tpc, searchVars, report, file, trained, trainings>>

(* load_artifact(): anything but an artifact as it was signed is refused.  *)
Load ==
  /\ tpc = "idle" /\ file \notin {None, Torn} /\ file.sha256 = file.payload
  /\ held' = held \cup {file.payload.point}
  /\ UNCHANGED <<tpc, searchVars, report, file, trained, trainings>>

(* Another program changes the parameters in the file.                     *)
Forge(p) ==
  /\ tpc \in {"idle", "down"} /\ file \notin {None, Torn}
  /\ file' = [file EXCEPT !.payload.point = p]
  /\ UNCHANGED <<tpc, searchVars, report, held, trained, trainings>>

(* The process ends or is killed, at any point; the next has a new trainer. *)
Die ==
  /\ tpc # "down"
  /\ tpc' = "down"
  /\ held' = {} /\ report' = None
  /\ UNCHANGED <<searchVars, file, trained, trainings>>

Revive ==
  /\ tpc = "down"
  /\ tpc' = "idle"
  /\ UNCHANGED <<searchVars, report, held, file, trained, trainings>>

TrainerNext ==
  \/ \E d \in DataSets : Begin(d)
  \/ Sweep
  \/ EndRound
  \/ Return
  \/ SaveOpens
  \/ SaveWrites
  \/ SaveFails
  \/ Load
  \/ \E p \in Forgeries : Forge(p)
  \/ Die
  \/ Revive

TrainerSpec == TrainerInit /\ [][TrainerNext]_trainerVars

-----------------------------------------------------------------------------
(***************************************************************************)
(* "Monotone on train (accept-only-if-better)", with one score carried     *)
(* through all the sweeps: it is the score of the point at hand, which is  *)
(* never worse than the start, and never leaves the clip and the band.     *)
(***************************************************************************)
ScoreIsCurrent ==
  tpc = "search" =>
    /\ cur_train = TrainScore(data, point)
    /\ cur_train >= TrainScore(data, Start)
    /\ point[Bias] \in BiasMin .. BiasMax
    /\ \A i \in Coordinates \ {Bias} : Abs(point[i]) <= weight_clip

(***************************************************************************)
(* A round that did not move has tried everything: the point is better     *)
(* than none of its neighbours at that round's scale, in any coordinate.   *)
(***************************************************************************)
StalledIsOptimal ==
  tpc = "search" /\ coord = 1 /\ ~moved.before =>
    \A i \in Coordinates : \A n \in Tried(point, i, rnd - 1) :
      Gain(point, i, rnd - 1, n) <= TrainScore(data, point)

(***************************************************************************)
(* "The best-holdout checkpoint is what gets returned": of the start and   *)
(* the ends of all rounds so far none is better on the holdout, however    *)
(* the search went on after it; so training never makes it worse.          *)
(***************************************************************************)
BestOfRounds ==
  tpc = "search" =>
    /\ best.val = HoldoutScore(data, best.point)
    /\ best.point \in ends
    /\ \A p \in ends : HoldoutScore(data, p) <= best.val

(***************************************************************************)
(* "Refusing to load": through interrupted saves, changed files, kills and *)
(* restarts, a process holds only policies that some training returned.    *)
(***************************************************************************)
HeldWasTrained == held \subseteq trained
=============================================================================
