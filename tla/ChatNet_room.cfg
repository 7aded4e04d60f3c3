SPECIFICATION Spec
CONSTANTS
  p1 = p1
  p2 = p2
  p3 = p3
  Procs = {p1, p2, p3}
  Nets <- MCNets
  MaxSaid = 2
  None = None
PROPERTIES RoomSpec Settles
CHECK_DEADLOCK FALSE
