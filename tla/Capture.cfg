SPECIFICATION CaptureSpec
CONSTANTS
  logic = logic
  a1 = a1
  a2 = a2
  Sources <- LogicAndAnalog
  LogicData = logic
  Devices = {"hardware","inputfile"}
  Framings = {TRUE, FALSE}
  MayFail = TRUE
  MaxFrames = 2
  MaxSamples = 2
  MaxTriggers = 1
  MaxCaptures = 2
  MaxCalls = 1
CHECK_DEADLOCK FALSE
INVARIANT CountsFollowSegments TriggersMatchFrames RegularEnd ReportsFinished RangeHeld
PROPERTY SourceSpec
