SPECIFICATION FairSpec
CONSTANTS
  Procs = {p1, p2}
  Script = script
  Lines <- MCLines
  Edits <- MCEdits
  Words <- MCWords
  Places = {0, 1}
  QueueSize = 1
  PtzKind = "v2_alt"
  MaxCalls = 2
  MaxEdits = 2
  Args <- MCArgs
  Envs <- MCEnvs
  MaxPid = 3
  Videos = {1}
  Files <- MCFiles
  Gop <- MCGop
  Depth = 3
  MaxShots = 2
  MaxReboots = 1
INVARIANTS ProgramsTypeOK ListAgrees OfferedIsFed OneAtATime PartsComplete KeyFrameShown
PROPERTIES MotionEnds ThumbSettles
CHECK_DEADLOCK FALSE
