SPECIFICATION FairSpec
CONSTANTS
  Alphabet = 5
  RANS_M = 4
  CountValues = {0, 1, 2, 5, 30}
  Excess = 3
  RawCounts <- MCRawCounts
  Totals <- MCTotals
INVARIANTS Represented Tiles
PROPERTY Terminates
\* The call returns.
CHECK_DEADLOCK FALSE
