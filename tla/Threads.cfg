SPECIFICATION Spec
CONSTANTS
  MAXTHREAD = 4
  Prints = 2
  MaxSpurious = 2
INVARIANT TextsWhole
PROPERTY MainReturns
CHECK_DEADLOCK FALSE
