\* Every setting of the parameters, every tool; readers that keep two messages.
CONSTANTS
  Depth = 2
  MaxMessages = 4
  MaxPictures = 3
  MaxRuns = 2
SPECIFICATION Spec
INVARIANTS
  TypeOK
  EverySettingFits
  ToolsTellTheStream
