SPECIFICATION Spec
CONSTANTS
  Units <- MCUnits
  Rank <- MCRank
  Vars = {"x", "y"}
  Watchers = {"wx", "ey"}
  EdgeDetectors = {"ey"}
  Readers <- MCReaders
  OutReaders = {"ey"}
  TimeReaders = {"wx"}
  LoadUnits = {"load"}
  WorldUnits = {"load"}
  Clocks = {"load"}
  Timers = {"on"}
  Buffers = {"on"}
  Delay = 1
  Senders = {"ping", "pong"}
  Receivers <- MCReceivers
  ContainerWatchers = {"on"}
  MaxSteps = 3
  MaxDepth = 1
  Seeded = TRUE
INVARIANTS
  TypeOK TickDone LateBeforePass PendingAhead
PROPERTIES
  NoSecondTurn  KeepsPromise TickEnds
