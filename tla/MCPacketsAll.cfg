SPECIFICATION Spec
CONSTANTS
  PayloadSize = 3
  WordSize = 64
  FileId = {"f"}
  Length <- MCLength
  Version = {0}
INVARIANT AcceptsEveryPacket
CHECK_DEADLOCK FALSE
