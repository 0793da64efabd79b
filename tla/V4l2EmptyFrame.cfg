\* An empty JPEG buffer is dequeued, and never queued again.
CONSTANTS
  kBufN = 2
  kBufCount = 2
  MaxGrant = 3
  Compressed = TRUE
  Sizes = {"full", "empty"}
  MaxFrames = 3
SPECIFICATION Spec
INVARIANT
  BuffersAccounted
