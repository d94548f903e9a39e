SPECIFICATION TraceSpec
CONSTANTS
  Pid = {1, 2}
  Fd = {3, 4}
  Device = {"br0"}
  Service = {"ubusd"}
  Known = {"ubusd"}
  Ignored = {"ld"}
  System = {"dev"}
  Nvram = {}
  Elsewhere = {"conf"}
  Contents <- Firmware
  Merges = TRUE
  Collapse = 3
  Timeouts = 2
  Span = 10
  MaxLines <- Lines
  MaxFixes = 1
INVARIANTS EmptyReadIsReal EmptyFileIsFound HangIsFound
CHECK_DEADLOCK FALSE
