SPECIFICATION Spec
CONSTANTS
  Pure = {"neg", "join", "loop", "time"}
  Vars = {"x", "y"}
  Outs = {"o"}
  Clock = "clock"
  Source <- MCSource
  Watched = {"wj", "wd", "wt", "wx"}
  Reads <- MCReads
  Pulses <- MCPulses
  Seeded = {"wd"}
  Stored <- MCStored
  High <- MCHigh
  Saved <- MCSaved
  Law <- MCLaw
INVARIANTS
  CacheInv WatchedRight
PROPERTIES
  NoGlitch SettleEnds
