SPECIFICATION GhSpec
CONSTANTS
  Firmware <- Firmwares
  MaxCycles = 5
INVARIANTS PatchIsLast SuccessRunsAgain GivesUpForCause
PROPERTIES Ends
