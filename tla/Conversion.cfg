SPECIFICATION FairConversionSpec
CONSTANTS
  Block = 2
  MaxSamples = 3
  MaxSegments = 2
  MaxCaptures = 2
  MaxEdits = 1
  MaxQueued = 2
CHECK_DEADLOCK FALSE
INVARIANT ConvertsItsOwn ConvertsAll
PROPERTY ConvertedIsSource
PROPERTY StopConversionReturns
