SPECIFICATION Spec
CONSTANTS
  talkA = talkA
  talkB = talkB
  direct = direct
  news = news
  NoRoom = NoRoom
  NoChannel = NoChannel
  Channel = {talkB, direct}
  Type <- Types
  Room <- Rooms
  Text = {x}
  MaxMessage = 2
  MaxOpen = 2
  MaxFault = 1
  MaxPoll = 1
CHECK_DEADLOCK FALSE
INVARIANT TypeOK
INVARIANT NoDuplicates
PROPERTY NothingVanishes
PROPERTY FlagsConverge
