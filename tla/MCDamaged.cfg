SPECIFICATION MCSpec
CONSTANTS
  CountSlack = 1
  Sizes = {1}
  Counts = {0, 1, 2, 3, 4, 14}
  BYTE = 8
  WORD = 1
  ID_BITS = 3
  VARINT_BITS = 5
  BYTE_SHIFT = 2
INVARIANTS WorkBounded ListSound
PROPERTY Terminates
\* A call returns.
CHECK_DEADLOCK FALSE
