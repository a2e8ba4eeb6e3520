SPECIFICATION MCSpec
CONSTANTS
  Files <- MCFiles
  Rewrites <- MCRewrites
  ChunkSize <- MCChunkSize
  Messages <- MCMessages
  MaxFlips <- MCMaxFlips
INVARIANTS
  ChunksAreChained
  CrcOfFile
  AnswerIsOfWholeFile
  FewFlipsAreNoticed
CHECK_DEADLOCK FALSE
