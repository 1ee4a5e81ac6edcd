SPECIFICATION ContextSpec
CONSTANTS
  Contexts = {0, 1}
  MaxKey = 1
  Locals = {0, 1}
  MIN_CONTEXT_TRANSITIONS = 2
  Build <- MCBuild
  MaxChunks = 4
  Wrap = 6
  MaxCount = 4
INVARIANT StaleIsDirty
PROPERTY MatchesReference
\* The record ends.
CHECK_DEADLOCK FALSE
