SPECIFICATION Server
CONSTANTS
  N = 6
  H = 1
  Lens = {0, 2}
  MaxBatch = 4
  MaxFrames = 5
  Speakers = {s1, s2}
  Full = 2
  MaxFds = 3
  MaxPackets = 4
  MaxKills = 1
INVARIANTS TypeOK CopiesWrap StaysAligned SentInOrder OneHolder
PROPERTIES NoSilentLoss FramesMoveOn RunsDown
