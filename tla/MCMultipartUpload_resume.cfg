SPECIFICATION FairSpec
CONSTANTS
  MaxPart = 3
  Concurrency = 2
  MaxStart = 1
  MaxResume = 2
  MaxFault = 1
  MaxRestart = 1
CHECK_DEADLOCK FALSE
INVARIANT TypeOK
INVARIANT WholeObject
INVARIANT NotifiedOnce
PROPERTY Settles
