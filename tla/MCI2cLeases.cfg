CONSTANTS
  Threads <- MCThreads
  Devices <- MCDevices
  Cap <- LeaseCap
  Batches <- MCBatches
  Lens <- MCLens
  LeaseMs <- MCLeaseMs
  MaxReservations = 2
  MsPerTick = 10
  U16Max <- MCU16Max
  NoThread = NoThread
  NoDevice = NoDevice
  NoClaim = NoClaim
  t1 = t1
  t2 = t2
  dMoist = dMoist
  dTemp = dTemp
SPECIFICATION Spec
SYMMETRY ThreadSymmetry
INVARIANTS
  TypeOK
  OneClaimPerDevice
  BatchClaimReturned
  SleeperHasHolder
  ClaimWithinCeiling
  TableNeverFull
PROPERTIES
  ClaimNotStolen
  ClaimNeverExtended
  ImplementsClaims
