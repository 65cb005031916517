SPECIFICATION FairSpec
CONSTANTS
  s1 = s1
  s2 = s2
  s3 = s3
  c1 = c1
  c2 = c2
  NoSource = NoSource
  Mux = Mux
  Sources <- TwoSources
  Channels <- BothChannels
  Converted = {}
  Required = {c1}
  SavedInputs <- SplitInput
  SavedDepths = {1}
  ChunkSamples = 1
  WordSize = 16
  MayFail = FALSE
  MaxSegments = 2
  MaxSamples = 1
  MaxCaptures = 1
  MaxDepth = 1
  MaxEdits = 0
  UserOps = {}
  MaxQueue = 1
CHECK_DEADLOCK FALSE
INVARIANT MuxServesDecoder MuxFollowsSources
PROPERTY JoinsReturn DecoderCatchesUp
