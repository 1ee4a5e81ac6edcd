\* The decoder returns before it comes to the crc32.
SPECIFICATION Spec
CONSTANTS
  Vocabularies = {default, trained}
  DefaultVocabulary = default
  Dictionaries = {first, second}
  NoDictionary = none
  ADAPTIVE_MIN_SYMBOLS = 2
  CountSlack = 0
  MaxFaults = 1
  Texts <- MCTexts
  Size <- MCSize
  Tokens <- MCTokens
  Overflows <- MCOverflows
  ForcedModes <- MCForcedModes
INVARIANT IntegrityDetects
CHECK_DEADLOCK FALSE
