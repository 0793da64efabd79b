\* A frame on its way to the appsink is reported as dropped, then delivered.
CONSTANTS
  kBufN = 2
  Compressed = FALSE
  Sizes = {"full"}
  MaxFrames = 3
SPECIFICATION Spec
INVARIANT
  DropsAreLost
