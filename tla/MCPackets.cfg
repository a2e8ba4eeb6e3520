SPECIFICATION Spec
CONSTANTS
  PayloadSize = 3
  WordSize = 64
  FileId = {"f"}
  Length <- MCLength
  Version = {0}
INVARIANTS Tiling  AcceptsPartialLast
CHECK_DEADLOCK FALSE
