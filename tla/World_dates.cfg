SPECIFICATION MCSpec
CONSTANTS
  d1 = d1
  d2 = d2
  k1 = k1
  k2 = k2
  e1 = e1
  e2 = e2
  Driver = {d1, d2}
  Consumer = {k1}
  EmitTimes = {1, 2}
  Horizon = 2
  Offers <- MCOffers
  MaxCommands = 0
  Entity = {e1, e2}
  Start = 1
  EffectorDecl <- Effectors
  FaultDecl <- Faulty
  Watched = "x"
  SampledBy <- Links
  Args <- Sendable
  Modes = {"ok", "partial", "reject"}
  Cadence = {1}
  Lifetimes = {1}
  Initial = {e1, e2}
  Births = {}
  WorldHorizon = 4
  MaxWorldCommands = 2
SYMMETRY Symmetric
CHECK_DEADLOCK FALSE
INVARIANT EveryLeaseHolds EveryStepStands
