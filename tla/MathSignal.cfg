SPECIFICATION FairMathSpec
CONSTANTS
  A = A
  B = B
  Sources = {A, B}
  Self = Self
  NoCall = NoCall
  Invalid = Invalid
  Expressions <- AllKinds
  Chunk = 2
  MaxSamples = 2
  MaxSegments = 2
  MaxCaptures = 2
  MaxEdits = 1
  MaxQueued = 1
CHECK_DEADLOCK FALSE
INVARIANT GeneratesFromReceived GeneratesAll
PROPERTY ResetReturns
