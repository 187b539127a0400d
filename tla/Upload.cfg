\* Every body of at most eight bytes over two letters, cut in every way into
\* messages of at most three; in it a file of up to five bytes around a limit of
\* four, chunks of two against blocks of one to three.
SPECIFICATION UploadFairSpec
CONSTANTS
  Bytes <- MCBytes
  Boundary <- MCBoundary
  Limit = 8
  MaxChunk = 3
  Overhead = 4
  Signature = 2
  MaxSize = 4
  ChunkSize = 2
  BlockSizes = {1, 2, 3}
  MaxFile = 5
INVARIANTS
  ClosedIffReceived
  VerdictIsJustified
  DecisionDependsOnFile
  StoredIsTheFile
PROPERTIES
  EveryFileIsDecided
CHECK_DEADLOCK FALSE
