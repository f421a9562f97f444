CONSTANTS
  MaxBoots = 2
  MaxClock = 2
  MaxQueue = 2
  MaxCommands = 2
  None = None
SPECIFICATION Spec
INVARIANT EveryChangeAnnounced
