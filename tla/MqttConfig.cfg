SPECIFICATION FairSpec
CONSTANTS
  MaxMessages = 2
  MaxEdits = 1
  MaxCuts = 1
INVARIANTS AsSaved NobodyDeaf
PROPERTIES HearsAgain StopHeeded
