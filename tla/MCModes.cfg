SPECIFICATION Spec
CONSTANTS
  MatchFlag = 4
  RANS_M = 3
  Freq <- MCFreq
  Byte = 2
  ADAPTIVE_MIN_CHUNK = 1
  ADAPTIVE_WORK_BUDGET = 6
  MIN_CONTEXT_TRANSITIONS = 2
  MAX_CONTEXT_TABLES = 1
  BYTE_BITS = 4
  WORD_BITS = 4
  REFILL = 8
  Trailers <- MCTrailers
  Trainings <- MCTrainings
  Theirs <- MCTheirs
  EscapeShare <- MCEscapeShare
  DictFlag = 2
  StaticInputs <- MCStaticInputs
  AdaptiveInputs <- MCAdaptiveInputs
  PpmInputs <- MCPpmInputs
  DictInputs <- MCDictInputs
  RawInputs <- RawLists
  StaticItems = 4
  AdaptiveItems = 4
  PpmItems = 5
  TrainingLength = 5
  RecordLength = 3
  RawLength = 5
INVARIANTS TypeOK CallsAccepted InSync
PROPERTY DeliversTokens
\* A behaviour is one record.
CHECK_DEADLOCK FALSE
