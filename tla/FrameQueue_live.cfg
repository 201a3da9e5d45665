SPECIFICATION FairSpec
CONSTANTS
  low = low
  high = high
  aac = aac
  sps = sps
  bad = bad
  large = large
  empty = empty
  none = none
  NoFrame = none
  Video = {low, high}
  Audio = {}
  Wanted = {low}
  GoodFrames = {sps}
  SpsFrames = {sps}
  BadFrames = {bad}
  LargeFrames = {large}
  EmptyFrames = {empty}
  MaxQueueSize = 2
  StartSize = 1
PROPERTIES EventLoopUnblocks ServerStarts
