SPECIFICATION Spec
CONSTANTS
  fan = fan
  lamp = lamp
  Target = {fan, lamp}
  Stoppable = {fan, lamp}
  NoTarget = NoTarget
  Id = {"i1", "i2"}
  Content <- LeaseContents
  Gateways <- LeaseGateways
  MaxValue = 1
  MaxExpires = 1
  Schedules <- NoFaults
  Mode <- OnlyOk
  MaxTime = 2
  MaxInbox = 1
  MaxHangs = 1
PROPERTY LeaseIsCarriedOut
