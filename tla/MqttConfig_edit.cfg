SPECIFICATION Spec
CONSTANTS
  MaxMessages = 1
  MaxEdits = 1
  MaxCuts = 0
INVARIANT EditKept
