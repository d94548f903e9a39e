SPECIFICATION FairSpec
CONSTANTS
  c1 = c1
  c2 = c2
  c3 = c3
  NoClient = NoClient
  Client <- MC_Client
  Name <- MC_Name
  NameOf <- MC_NameOf
  NoKey <- MC_NoKey
  Cmd = {"build_docker", "ps"}
  TTL = 2
  AcquireTimeout = 2
  Enabled <- MC_Enabled
INVARIANTS LeaseMutex
PROPERTIES ImplementsGlobalLock KeyIsDropped
