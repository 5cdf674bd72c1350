SPECIFICATION Spec
CONSTANTS
  fan = fan
  lamp = lamp
  Target = {fan, lamp}
  Stoppable = {fan, lamp}
  NoTarget = NoTarget
  Id = {"i1", "i2"}
  Content <- CommandContents
  Gateways <- CommandGateways
  MaxValue = 1
  MaxExpires = 1
  Schedules <- AnySchedule
  Mode <- AnyMode
  MaxTime = 2
  MaxInbox = 1
  MaxHangs = 1
INVARIANT OncePerCommand OffIsOff
PROPERTY EvidenceIsStable EveryCommandIsAnswered
