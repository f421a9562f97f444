CONSTANTS
  Faults <- LostOnly
  Noise <- Silence
  PollsPerCycle = 2
  MaxQueue = 3
SPECIFICATION FairSpec
PROPERTIES
  KeepsReporting
  EveryWaitEnds
