SPECIFICATION FairTurnSpec
CONSTANTS
  a = a  b = b  None = None
  Chat <- TwoChats
  SlotCount = 2
  GenerationLimit = 3
  InboundLen = 1
  RoundsMax = 2
  CallsMax = 3
  Providers = 2
  MaxMessages = 3
  MaxStops = 1
  MaxDirectives = 1
CHECK_DEADLOCK FALSE
INVARIANTS CancelledIffUnwanted StopIsNoticed SilenceWasAsked BoundInsideOnly
PROPERTIES DirectiveOnce EveryMessageSettled
