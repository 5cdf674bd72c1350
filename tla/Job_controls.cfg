SPECIFICATION Spec
CONSTANTS
  o1 = o1
  o2 = o2
  Caller = {o1, o2}
  Plan <- MCPlan
  MaxCalls = 4
INVARIANT ClearsItsOwnFault ImmediateBeforeTheEnd
PROPERTY StepIsOneChunk ControlsSettle
