SPECIFICATION FairStoreSpec
CONSTANTS
  logic = logic
  a1 = a1
  Sources = {logic}
  LogicData = logic
  Devices = {"hardware"}
  Framings = {FALSE}
  MayFail = FALSE
  FormatMayFail = TRUE
  MaxFrames = 0
  MaxSamples = 3
  MaxTriggers = 0
  MaxCaptures = 2
  BlockSamples = 2
  WordSize = 5
  Ranges <- SomeRanges
  MaxStores = 1
CHECK_DEADLOCK FALSE
INVARIANT StoresWhatWasAsked ReadsWithinSegments
PROPERTY CancelsOnlyFinished GuiReturns
