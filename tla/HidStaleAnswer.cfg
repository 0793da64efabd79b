\* The exposure command of an earlier run is answered late.
CONSTANTS
  Leftovers <- MCLeftovers
  kReads = 3
  kOsReads = 1
  MaxUnread = 2
SPECIFICATION Spec
INVARIANT
  ExposureIsOurs
