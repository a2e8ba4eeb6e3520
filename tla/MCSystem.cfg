SPECIFICATION Spec
CONSTANTS
  PayloadSize = 2
  WordSize = 16
  FileId = {"f", "g"}
  Length <- MCLength
  IoFails = TRUE
  Version = {0, 1}
  NoCrc = NoCrc
  MaxCalls = 1
  Files <- MCFiles
  Leftover <- MCLeftover
INVARIANTS FinMeansVerified DeliveredMeansFin DeliveredIntact
PROPERTY ImplementsTransfer
CHECK_DEADLOCK FALSE
