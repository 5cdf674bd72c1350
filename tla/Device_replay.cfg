SPECIFICATION Spec
CONSTANTS
  fan = fan
  lamp = lamp
  Target = {fan, lamp}
  Stoppable = {fan, lamp}
  NoTarget = NoTarget
  Id = {"i1", "i2"}
  Content <- RebootContents
  Gateways <- RebootGateways
  MaxValue = 1
  MaxExpires = 1
  Schedules <- OneReboot
  Mode <- OnlyOk
  MaxTime = 2
  MaxInbox = 1
  MaxHangs = 1
PROPERTY OnlyTheWorldEnergizes
