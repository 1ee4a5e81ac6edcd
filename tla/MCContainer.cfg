SPECIFICATION Spec
CONSTANTS
  Vocabularies = {default, trained}
  DefaultVocabulary = default
  Dictionaries = {first, second}
  NoDictionary = none
  ADAPTIVE_MIN_SYMBOLS = 2
  CountSlack = 0
  MaxFaults = 2
  Texts <- MCTexts
  Size <- MCSize
  Tokens <- MCTokens
  Overflows <- MCOverflows
  ForcedModes <- MCForcedModes
INVARIANTS RoundTrip StampProtects CorruptionCaught
\* compress raises, or the decoder returns or raises.
CHECK_DEADLOCK FALSE
