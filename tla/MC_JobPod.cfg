SPECIFICATION FairSpec
CONSTANTS
  Completions = 2
  Parallelism = 2
  BackoffLimit = 1
  PreExtracted = {}
  StaleDone = {1}
  RetryFlag = TRUE
  MaxFaults = 2
  NoLog = NoLog
INVARIANTS SucceededIsLogged ResultsBeforeLog
PROPERTIES IndexSettles
CHECK_DEADLOCK FALSE
