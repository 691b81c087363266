SPECIFICATION FairSpec
CONSTANTS
  MaxSubSteps = 3
  MaxTimeStepCuts = 2
  MaxConfigurations = 3
  MinNewton = 1
  MaxNewton = 3
  IncreaseLimit = 2
  DecreaseLimit = 2
  CutFactor <- ThreeEighths
  MinIncreaseInterval = 2
  AllowNonConverged = FALSE
  HasDefault = TRUE
  Unlimited = 2000000000
  InitialDt = 67108864
  Shorter = {0, 16777216}
  MaxCycles = 3
INVARIANTS TypeOK AttemptsStartClean CompletesWhatItSolved ReturnsAnAttempt StepsFit
PROPERTIES NoGrowthAfterCut ExecuteEnds
