SPECIFICATION FairSpec
CONSTANTS
  Options <- Lines
  Known <- Cameras
  Depth = 3
  MaxBatch = 3
  PipeSize = 1
  MaxFrames = 4
  MaxLeaves = 1
INVARIANTS TypeOK Decodable
PROPERTIES MovesOn
CHECK_DEADLOCK FALSE
