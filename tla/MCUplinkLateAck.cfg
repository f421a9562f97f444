CONSTANTS
  Faults <- CallErrors
  Noise <- Silence
  PollsPerCycle = 2
  MaxQueue = 2
SPECIFICATION Spec
INVARIANTS
  AckMeansDelivered
