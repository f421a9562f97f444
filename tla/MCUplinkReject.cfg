CONSTANTS
  Faults <- RejectOnly
  Noise <- Silence
  PollsPerCycle = 2
  MaxQueue = 2
SPECIFICATION Spec
INVARIANTS
  ConnectedMeansSubscribed
