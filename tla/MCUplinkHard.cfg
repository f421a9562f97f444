CONSTANTS
  Faults <- AllFaults
  Noise <- Chatter
  PollsPerCycle = 2
  MaxQueue = 2
SPECIFICATION Spec
INVARIANTS
  TypeOK
  ConnectAwaitsBoth
  CountTrueUntilFailure
  TelemetryGated
  KeyBeforeTelemetry
PROPERTIES
  AnswerCounts
