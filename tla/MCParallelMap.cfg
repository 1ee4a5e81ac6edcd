SPECIFICATION FairSpec
CONSTANTS
  MaxItems = 4
  Workers = {w1, w2, w3}
  Main = main
  None = none
INVARIANTS Quiescent SharedStateReady
PROPERTY MapDelivers
\* The map returns or raises.
CHECK_DEADLOCK FALSE
