SPECIFICATION Spec
CONSTANTS
  c1 = c1
  c2 = c2
  c3 = c3
  Client = {c1, c2, c3}
  Backlog = 1
  MaxConns = 3
  MaxCalls = 2
  MaxChanges = 1
INVARIANT RepliesAreVisible
PROPERTY NobodyWaitsForEver
