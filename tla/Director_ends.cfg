SPECIFICATION Spec
CONSTANTS
  c1 = c1
  c2 = c2
  c3 = c3
  Caller <- Two
  MaxWorlds = 1
  MaxCalls = 5
INVARIANTS
  NoPanic
  CompletedIsWhole
PROPERTY UnblindedIsNotScored
