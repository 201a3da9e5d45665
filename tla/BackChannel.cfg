SPECIFICATION AudioWays
CONSTANTS
  c1 = c1
  c2 = c2
  c3 = c3
  Clients = {c1, c2, c3}
  MaxStreams = 2
  MaxSetups = 3
  FifoSize = 8
  Blocks = {2, 4}
  Buffers = {2, 3, 4, 6}
  Preferred = 4
  Word = 16
  MaxCloses = 2
INVARIANTS LastIsTheOne PlayedIsConnected
PROPERTIES PlayedIsHeard AudioFlows
CHECK_DEADLOCK FALSE
