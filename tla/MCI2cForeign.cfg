CONSTANTS
  Threads <- MCThreads
  Devices <- MCDevices
  Cap <- ShippedCap
  Batches <- LiveBatches
  Lens <- LiveLens
  LeaseMs <- NoLeaseMs
  MaxReservations = 2
  MsPerTick = 10
  U16Max <- MCU16Max
  NoThread = NoThread
  NoDevice = NoDevice
  NoClaim = NoClaim
  t1 = t1
  t2 = t2
  dMoist = dMoist
  dTemp = dTemp
SPECIFICATION Spec
INVARIANT NoForeignTransfer
