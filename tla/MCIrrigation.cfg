CONSTANTS
  KFakeMoistureReset = 480
  KFakeMoistureStep = 60
  KFakeMoistureLow = 300
  FirstMoisture = 310
  DefaultLow = 300
  Commands <- MCCommands
  U16Max = 65535
  MaxTime = 1
SPECIFICATION FairSpec
INVARIANTS
  TypeOK
  MoistureInRange
  NewestCommandInForce
  ReportsRealWaterings
PROPERTIES
  ThresholdMovesForward
  PumpEventuallyOff
  ImplementsController
