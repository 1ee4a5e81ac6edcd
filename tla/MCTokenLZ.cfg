SPECIFICATION FairSpec
CONSTANTS
  Symbols <- MCSymbols
  MatchFlag = 5
  MATCH_WINDOW = 7
  MIN_MATCH_LEN = 3
  MAX_MATCH_LEN = 4
  Byte = 5
  Slots <- MCSlots
  Hash <- MCHash
  Dictionaries <- MCDictionaries
  Inputs <- MCInputs
  Damageable <- MCDamageable
  InputTokens = {0, 1, 5}
  MaxInput = 7
  DamagedTokens = {0, 5}
  MaxDamaged = 6
INVARIANTS HeadSound RoundTrip ExpansionBound CopyInBounds
PROPERTIES DeliversTokens Terminates
\* Both loops end.
CHECK_DEADLOCK FALSE
