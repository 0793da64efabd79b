\* The record of a frame takes the capture stamp of a later one.
CONSTANTS
  kBufN = 2
  Compressed = FALSE
  Sizes = {"full"}
  MaxFrames = 3
SPECIFICATION Spec
INVARIANT
  RecordHasOwnCapture
