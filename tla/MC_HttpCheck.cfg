SPECIFICATION FairSpec
CONSTANTS
  Page <- MC_Page
  Targets <- MC_Targets
  TlsPort = {"tls"}
  Leads <- MC_Leads
  LoginType = {"basic"}
  User = {"admin", "root", "nobody"}
  Pairs <- MC_Pairs
  NoUser = "nobody"
  NoUrl = NoUrl
INVARIANTS WellformedIsTested VerdictIsExported
PROPERTIES ProbeEnds
