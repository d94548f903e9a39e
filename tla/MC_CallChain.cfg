SPECIFICATION Spec
CONSTANTS
  Init_ = "init"
  Target = "target"
  Files = {"a", "b", "init", "script", "target"}
  Place <- Sorted
  NoFile = "-"
  Worlds <- Firmwares
  Count = 4
INVARIANTS ChainIsReal FoundUnlessHidden
CHECK_DEADLOCK FALSE
