SPECIFICATION Spec
CONSTANTS
  s1 = s1
  s2 = s2
  s3 = s3
  c1 = c1
  c2 = c2
  NoSource = NoSource
  Mux = Mux
  Sources <- OneSource
  Channels <- BothChannels
  Converted = {s1}
  Required = {c1}
  SavedInputs <- PackedInput
  SavedDepths = {1}
  ChunkSamples = 2
  WordSize = 16
  MayFail = TRUE
  MaxSegments = 2
  MaxSamples = 2
  MaxCaptures = 2
  MaxDepth = 2
  MaxEdits = 1
  UserOps = {"pause","option","assign","stack","remove","unconvert","destroy"}
  MaxQueue = 2
CHECK_DEADLOCK FALSE
INVARIANT DecodesOnlyReceived TearsDownAlone SessionMatchesStack DecodesProvidedChannels
PROPERTY ProgressSpec
