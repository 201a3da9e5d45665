SPECIFICATION Spec
CONSTANTS
  N = 6
  H = 1
  Lens = {0, 1, 2}
  MaxBatch = 10
  MaxFrames = 5
INVARIANT SyncLossIsReal
