SPECIFICATION Spec
CONSTANTS
  talkA = talkA
  talkB = talkB
  All = All
  Direct = Direct
  NoRoom = NoRoom
  NoChannel = NoChannel
  Channel = {All, talkA}
  RoomsOf <- RoomLists
  Text = {x}
  MaxMessage = 2
  MaxOpen = 2
  MaxSend = 1
  MaxFault = 1
CHECK_DEADLOCK FALSE
INVARIANT TypeOK
INVARIANT OneCopy
INVARIANT GoneIsDeleted
