----------------------------- MODULE MCTrainer ------------------------------
(***************************************************************************)
(* Small instances of OfflineTrainer: one weight, the bias, three rounds.  *)
(* A data set is where its splits have their summit; on the training split *)
(* the coordinates interact, so that a sweep can spoil the one before it,  *)
(* and there are ties.                                                     *)
(***************************************************************************)
EXTENDS OfflineTrainer, TLC

Distance(x, y) == Abs(x - y)

MCDataSets ==
  {[train |-> <<w, b>>, holdout |-> v] : w \in {-3, 0, 4}, b \in {0, 3, 8}, v \in {0, 2, 5}}

MCTrainScore(d, p) ==
  0 - 2 * Distance(p[1], d.train[1]) - Distance(p[2], d.train[2])
    - 2 * Distance(p[1] + p[2], d.train[1] + d.train[2])

MCHoldoutScore(d, p) == 0 - Distance(p[2], d.holdout) - Distance(p[1], 1) \div 2

MCWeightSteps == <<8, 4, 4>>

MCBiasSteps == <<8, 8, 4>>

MCForgeries == {<<9, 9>>}
=============================================================================
