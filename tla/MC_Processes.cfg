SPECIFICATION ProcSpec
CONSTANTS
  Tries = 15
  Rounds = 4
  MaxCommands = 4
  MaxSlow = 2
  ScriptIsRcS = FALSE
INVARIANTS Unblocks TargetSpared OneTarget
