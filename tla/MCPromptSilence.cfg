SPECIFICATION Spec
CONSTANTS
  PayloadSize = 2
  WordSize = 16
  FileId = {"f", "g"}
  Length <- MCLength
  IoFails = FALSE
  Version = {0, 1, 2}
  NoCrc = NoCrc
  MaxCalls = 2
  Files <- MCFiles
  Scenarios <- MCFastAnswer
PROPERTY NtfMeansSilence
CHECK_DEADLOCK FALSE
