SPECIFICATION FairSpec
CONSTANTS
  t1 = t1
  t2 = t2
  Tab = {t1}
  MaxSignIn = 1
  MaxLoad = 2
  MaxSend = 2
  MaxTick = 1
  MaxFault = 1
CHECK_DEADLOCK FALSE
INVARIANT TypeOK
INVARIANT StoresAgree
INVARIANT WaitsAreServed
PROPERTY RequestsEnd
PROPERTY NotStuck
