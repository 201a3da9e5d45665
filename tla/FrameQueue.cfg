SPECIFICATION Spec
CONSTANTS
  low = low
  high = high
  aac = aac
  sps = sps
  bad = bad
  large = large
  empty = empty
  none = none
  NoFrame = none
  Video = {low, high}
  Audio = {aac}
  Wanted = {low, aac}
  GoodFrames = {sps}
  SpsFrames = {sps}
  BadFrames = {bad}
  LargeFrames = {large}
  EmptyFrames = {}
  MaxQueueSize = 2
  StartSize = 1
INVARIANTS LocksBalanced QueueBounded CheckedFrameInFront
PROPERTY ImplementsLossyFifo
