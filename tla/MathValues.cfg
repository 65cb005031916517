SPECIFICATION ExpressionSpec
CONSTANTS
  Inputs = {A, B}
  Self = Self
  Zero = Zero
  NoSignal = NoSignal
  Expressions <- AllShort
  Chunk = 2
  Length = 3
  MaxSegments = 2
CHECK_DEADLOCK FALSE
INVARIANT ReadsWhatItNames
