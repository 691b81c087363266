SPECIFICATION Spec
CONSTANTS
  Attributes <- Nested
  Main <- NestedMain
  Idle = 10000
  Unlimited = 10000
  Never <- MinusThousand
  MinTime = 0
  MaxTime = 8
  MaxCycle = 20
  MaxRestarts = 2
  Functions <- NoTime
  Requests = {1, 3}
  PlanLength = 2
INVARIANTS TypeOK
PROPERTIES ResumesExactly SubEventsExecuted HaltsWithCycle
