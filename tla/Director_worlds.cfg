SPECIFICATION Spec
CONSTANTS
  c1 = c1
  c2 = c2
  c3 = c3
  Caller <- Three
  MaxWorlds = 2
  MaxCalls = 3
INVARIANTS
  BlindUntilOver
  OneActiveJob
  JobTellsTheTruth
PROPERTY EveryCallReturns
