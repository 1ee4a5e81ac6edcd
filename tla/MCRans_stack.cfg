SPECIFICATION Spec
CONSTANTS
  Symbols <- MCSymbols
  Tables <- MCTables
  RANS_M = 8
  Scale = 2
  Word = 8
  Width = 256
  MaxPush = 5
INVARIANTS StateBound Retraces
PROPERTY IsStack
\* The decoder stops when the stack is empty.
CHECK_DEADLOCK FALSE
