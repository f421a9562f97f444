CONSTANTS
  MaxBoots = 2
  MaxClock = 2
  MaxQueue = 2
  MaxCommands = 2
  None = None
SPECIFICATION Spec
INVARIANTS
  TypeOK
  AnnouncedAreReal
  AnnouncedOnce
  SessionIsRetained
  NoSilentStale
PROPERTIES
  MissedOnlyAfterRejoin
  ImplementsController
