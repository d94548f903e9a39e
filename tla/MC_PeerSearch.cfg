SPECIFICATION Spec
CONSTANTS
  Binaries = {"a", "b"}
  Funcs = {"f", "g", "h"}
  NoBinary = NoBinary
  NoFunc = NoFunc
  Worlds <- AllWorlds
  Large = 5
  MaxSites = 3
  MaxCallers = 2
INVARIANTS
  PeerUsesIt
  MatchUnlessHidden
CHECK_DEADLOCK FALSE
