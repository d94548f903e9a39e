SPECIFICATION FairSpec
CONSTANTS
  Service <- MC_Service
  Target = "httpd"
  Nobody <- MC_Nobody
  NoError <- MC_NoError
  Device = {"eth2"}
  SysFile = {"proc_mtd"}
  LibFile = {"conf"}
  SocketFd = {"fd3"}
  MaxRounds = 2
  FallbackRound = 1
  HasProcd = TRUE
  Baseline = FALSE
  FixEnabled = TRUE
  Export = TRUE
INVARIANTS AtMostOneRunning EnvRemoved SavedRunsAlone VerdictFresh SuccessIsExported FixesAreSaved
PROPERTIES Terminates
