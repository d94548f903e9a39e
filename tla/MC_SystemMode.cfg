SPECIFICATION Spec
CONSTANTS
  Subnet = {"n0", "n1"}
  Wanted = "n0"
  NoNet = "none"
  HasProcd = TRUE
  Fuzz = TRUE
  EnvTries = 3
  MaxLooks = 2
INVARIANTS ReadyIsReachable SafeUntilRestart
PROPERTIES Finishes
