SPECIFICATION Spec
CONSTANTS
  Cases <- MC_Cases
  Listed <- MC_Listed
  Size <- MC_Size
  Rebooting <- MC_Rebooting
  ShuttingDown <- MC_ShuttingDown
INVARIANTS TargetIntact Quiet GivenUpForCause StartFound
