SPECIFICATION Spec
CONSTANTS
  motion = motion
  sound = sound
  stop = stop
  other = other
  none = none
  p1 = p1
  p2 = p2
  NumQueues = 2
  MaxMsg = 2
  Reader = 1
  Alarms = {motion}
  Sound = sound
  Stop = stop
  Other = other
  None = none
  Procs = {p1, p2}
  MaxSent = 2
INVARIANT AlreadyRunning
CHECK_DEADLOCK FALSE
