SPECIFICATION Spec
CONSTANTS
  Units <- MCUnits
  Rank <- MCRank
  Vars = {"x", "y"}
  Watchers = {"wx", "ey"}
  EdgeDetectors = {"ey"}
  Readers <- MCReaders
  OutReaders = {"ey"}
  TimeReaders = {}
  LoadUnits = {"load"}
  WorldUnits = {"load"}
  Clocks = {}
  Timers = {}
  Buffers = {"on"}
  Delay = 1
  Senders = {"ping", "pong"}
  Receivers <- MCReceivers
  ContainerWatchers = {"on"}
  MaxSteps = 2
  MaxDepth = 1
  Seeded = FALSE
INVARIANTS
  NoHandlerMissed
