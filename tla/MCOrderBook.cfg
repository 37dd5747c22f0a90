CONSTANTS
  TickSize = 2
  BasisPoints = 4
  None = None
  OrderId = {o1, o2}
  StopId = {s1}
  AlertId = {a1}
  Version = {1, 2}
  Price = {3, 4, 6, 9}
  Infinity = 99
  Trail <- MCTrail
  MaxPlaced = 4
SPECIFICATION MCSpec
INVARIANTS RestingIsIndexed
PROPERTIES TicksOnlyTighten ActsOnAll
CHECK_DEADLOCK FALSE
