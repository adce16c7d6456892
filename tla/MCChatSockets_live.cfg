SPECIFICATION FairSpec
CONSTANTS
  a1 = a1
  a2 = a2
  p1 = p1
  r = r
  ua = ua
  Socket = {a1, a2}
  Process = {p1}
  Room <- Room1
  User = {ua}
  NoSocket = NoSocket
  ProcOf <- Together
  RoomOf <- OneRoom
  UserOf <- Owner
  MaxMessage <- InRoom2
  MaxFault = 1
CHECK_DEADLOCK FALSE
INVARIANT TypeOK
INVARIANT OpenIsServed
INVARIANT OnlineHasEndpoint
PROPERTY Hears
PROPERTY MessagesArrive
