SPECIFICATION Spec
CONSTANTS
  h1 = h1
  h2 = h2
  h3 = h3
  Handler <- Three
  MaxSessions = 2
INVARIANT ClosedLeavesNoSession
