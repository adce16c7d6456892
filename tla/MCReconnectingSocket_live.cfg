SPECIFICATION Spec
CONSTANTS
  NoRoom = NoRoom
  r1 = r1
  Room = {r1}
  MaxObject = 2
  MaxConn = 7
  MaxReconnect = 2
  MaxFault = 3
CHECK_DEADLOCK FALSE
INVARIANT TypeOK
INVARIANT OneChain
INVARIANT HeardOnce
INVARIANT OpenIsPinged
PROPERTY Reconnects
