SPECIFICATION MCSpec
CONSTANTS
  d1 = d1
  d2 = d2
  k1 = k1
  k2 = k2
  e1 = e1
  e2 = e2
  Driver = {d1}
  Consumer = {k1}
  EmitTimes = {1}
  Horizon = 2
  Offers <- MalformedOutage
  MaxCommands = 5
  Entity = {e1, e2}
  Start = 1
  EffectorDecl <- Effectors
  FaultDecl <- Faulty
  Watched = "x"
  SampledBy <- Links
  Args <- Sendable
  Modes = {"ok", "partial", "reject"}
  Cadence = {1}
  Lifetimes = {1}
  Initial = {}
  Births = {}
  WorldHorizon = 1
  MaxWorldCommands = 0
CHECK_DEADLOCK FALSE
INVARIANT DroppedIsNotSent
