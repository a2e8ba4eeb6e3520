SPECIFICATION FairSpec
CONSTANTS
  PayloadSize = 2
  WordSize = 16
  FileId = {"f", "g", "h"}
  Length <- MCLength
  IoFails = TRUE
  Version = {0, 1}
  MaxCalls = 2
  Files <- MCTwoFiles
  Incoming <- MCIncoming
INVARIANTS ServerTypeOK FinMeansAllSent OnlyFilePackets ThreadWithinObject EntryOutlivesCall CallInv PacketInv
PROPERTIES CancelSticks CallReturns ServerStops
CHECK_DEADLOCK FALSE
