SPECIFICATION MCSpec
CONSTANTS
  BYTES = 2
  num_merges = 4
  MaxBytes = 6
  MaxTokens = 7
  Corpora <- MCCorpora
  Texts <- MCTexts
  Samples <- MCSamples
  PrimingModes = {"concat", "coverage", "diverse", "cover"}
  Budgets = {4, 9}
  Segments = {3, 4}
  Dmers = {2, 4}
INVARIANTS ValidChain TiktokenAgrees CountsCurrent BufferComplete
PROPERTY ImplementsReference
\* Training ends.
CHECK_DEADLOCK FALSE
