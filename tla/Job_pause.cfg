SPECIFICATION Spec
CONSTANTS
  o1 = o1
  o2 = o2
  Caller = {o1, o2}
  Plan <- MCPlan
  MaxCalls = 2
PROPERTY PauseReturnsAtStandstill
