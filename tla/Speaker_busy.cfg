SPECIFICATION SpeakerSpec
CONSTANTS
  Speakers = {s1, s2}
  Full = 2
  MaxFds = 3
  MaxPackets = 3
  MaxKills = 0
INVARIANT BusyIsInUse
