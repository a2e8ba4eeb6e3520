SPECIFICATION FairSpec
CONSTANTS
  PayloadSize = 2
  WordSize = 16
  FileId = {"f", "g", "h"}
  Length <- MCLength
  IoFails = TRUE
  Version = {0, 1}
  NoCrc = NoCrc
  Incoming <- MCIncoming
INVARIANTS ClientTypeOK  DeliveredIntact ActiveHasOwner
PROPERTIES ThreadEnds 
CHECK_DEADLOCK FALSE
