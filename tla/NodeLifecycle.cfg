SPECIFICATION FairSpec
INVARIANTS
  TypeOK
  NoUseAfterClose
  CleanExit
PROPERTY
  SignalEndsProcess
