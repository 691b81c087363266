SPECIFICATION CoupledSpec
CONSTANTS
  N = 2
  Schemes = {"singlePass"}
  SubAttempts = 2
  SubIterations = {1, 4}
  ShortEnough = 8192
  MaxSubSteps = 3
  MaxTimeStepCuts = 2
  MaxConfigurations = 1
  MinNewton = 1
  MaxNewton = 3
  IncreaseLimit = 2
  DecreaseLimit = 2
  CutFactor <- Half
  MinIncreaseInterval = 2
  AllowNonConverged = FALSE
  HasDefault = FALSE
  Unlimited = 2000000000
  InitialDt = 65536
  Shorter = {0}
  MaxCycles = 2
INVARIANT AllSolvedTheStep
