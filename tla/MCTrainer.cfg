SPECIFICATION TrainerSpec
CONSTANTS
  DataSets <- MCDataSets
  TrainScore <- MCTrainScore
  HoldoutScore <- MCHoldoutScore
  NWeights = 1
  weight_clip = 4
  BiasMin = 0
  BiasMax = 8
  BiasStart = 3
  rounds = 3
  WeightSteps <- MCWeightSteps
  BiasSteps <- MCBiasSteps
  Forgeries <- MCForgeries
  MaxTrainings = 2
  None = None
INVARIANTS
  ScoreIsCurrent
  StalledIsOptimal
  BestOfRounds
  HeldWasTrained
