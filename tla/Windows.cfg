SPECIFICATION WindowSpec
CONSTANTS
  a = a  b = b
  Addresses = {a, b}
  NoSession = NoSession
  MaxSessions = 2
  MaxChanges = 2
  MaxCaptures = 1
  MaxNested = 1
SYMMETRY AddressSymmetry
CHECK_DEADLOCK FALSE
INVARIANT ListsAgree FocusAgrees ButtonTellsState WritesWhatWasRead
