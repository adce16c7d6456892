SPECIFICATION Spec
CONSTANTS
  c1 = c1
  c2 = c2
  o1 = o1
  o2 = o2
  Course = {c1, c2}
  Free = {c2}
  Order = {o1, o2}
  NoCourse = NoCourse
  NoOrder = NoOrder
  MaxFlow = 3
  MaxMount = 3
  MaxFault = 2
SYMMETRY Symmetry
CHECK_DEADLOCK FALSE
INVARIANT TypeOK
INVARIANT ShownIsOpen
INVARIANT ChargedOnce
