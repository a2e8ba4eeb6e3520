SPECIFICATION FairSpec
CONSTANTS
  PayloadSize = 2
  WordSize = 16
  FileId = {"f", "g", "h"}
  Length <- MCLength
  IoFails = TRUE
  Version = {0, 1}
  MaxCalls = 1
  Files <- MCOneFile
  Incoming <- MCIncoming
INVARIANT RequestsServed
CHECK_DEADLOCK FALSE
