SPECIFICATION StorageSpec
CONSTANTS
  LogicValues = {0, 1}
  AnalogValues <- Voltages
  ChunkSizes = {3, 4}
  MayFail = TRUE
  MaxSamples = 7
  MaxPacket = 3
  MipMapScaleFactor = 2
  ScaleStepCount = 2
  EnvelopeScaleFactor = 2
  EnvelopeSteps = 2
  SearchWindow = 1
  MinLengths = {1, 2, 3, 4}
CHECK_DEADLOCK FALSE
INVARIANT SummariesExact SearchesExact
PROPERTY SequenceSpec
