\* Raw frames, four of them, two blackbox records.
CONSTANTS
  kBufN = 2
  Compressed = FALSE
  Sizes = {"full", "short"}
  MaxFrames = 4
SPECIFICATION FairSpec
INVARIANTS
  TypeOK
  NoDropMissed
  RecordsTellHistory
  FrameConservation
  BorrowedWhileUsed
PROPERTIES
  InOrderPublish
  GrabsNewest
  PulledIsPublished
  ImplementsBackend
  ShutdownCompletes
  RenderedFrameLeaves
