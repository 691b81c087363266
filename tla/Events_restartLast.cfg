SPECIFICATION FairSpec
CONSTANTS
  Attributes <- RestartLast
  Main <- RestartLastMain
  Idle = 10000
  Unlimited = 10000
  Never <- MinusThousand
  MinTime = 0
  MaxTime = 12
  MaxCycle = 20
  MaxRestarts = 2
  Functions <- SomeTimes
  Requests = {2, 3}
  PlanLength = 3
INVARIANTS OnTime StepsToWindows
PROPERTIES ResumesExactly SolverStepsKept ReachesMaxTime
