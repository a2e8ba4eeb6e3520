SPECIFICATION LogSpec
CONSTANTS
  Threads <- MCThreads
  Consoles <- MCConsoles
  Paths <- MCPaths
  MaxLines <- MCMaxLines
INVARIANTS
  LinesAreWhole
  OneMutexPerFile
PROPERTY LoggingReturns
CHECK_DEADLOCK FALSE
