\* JPEG frames of any size but none, four of them, two buffers asked for and up to
\* three granted, two records.
CONSTANTS
  kBufN = 2
  kBufCount = 2
  MaxGrant = 3
  Compressed = TRUE
  Sizes = {"full", "short"}
  MaxFrames = 4
SPECIFICATION FairSpec
INVARIANTS
  TypeOK
  RecordHasOwnCapture
  ExactDrops
  BuffersAccounted
  BorrowedWhileUsed
  NothingLeft
PROPERTIES
  BufferComesBack
  ImplementsBackend
  ShutdownCompletes
