SPECIFICATION Spec
CONSTANTS
  MaxVisit = 2
  MaxCourse = 2
  MaxCall = 3
  MaxFault = 0
INVARIANT NothingBleeds
CHECK_DEADLOCK FALSE
