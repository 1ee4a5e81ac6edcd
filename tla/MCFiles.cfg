SPECIFICATION Spec
CONSTANTS
  Commands <- MCCommands
  Originals <- MCOriginals
  Empty = ""
  Wrong = "?"
  Merges <- MCMerges
  MaxCommands = 4
INVARIANTS NeverWrong FailureKeepsFiles UnpackInOrder ReadableAgain
\* No command need be given.
CHECK_DEADLOCK FALSE
