SPECIFICATION AnnotationSpec
CONSTANTS
  bits = bits  bytes = bytes
  bit = bit  byte = byte  frame = frame
  Rows = {bits, bytes}
  Classes = {bit, byte, frame}
  Hideable = {byte}
  RowOf <- ClassRows
  IndexBlockSize = 2
  Ranges <- AnnotationRanges
  MaxAnnotations = 4
  Filters <- TableFilters
  Windows <- AnnotationWindows
  Limits = {1, 2}
CHECK_DEADLOCK FALSE
INVARIANT QueryExact ListedOnce TableShowsFiltered
