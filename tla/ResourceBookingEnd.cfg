SPECIFICATION FairSpec
CONSTANTS
  Bookings = {b1}
  Windows <- MCWindows
  Horizon = 2
  Callers = {c1}
  Operators = {o1}
  Worker = worker
  MaxAttempts = 4
  MaxBlocks = 0
  MaxDirect = 1
  MaxByHand = 1
  MaxStops = 2
CONSTRAINT MCToEnd
PROPERTY EveryStayEnds
CHECK_DEADLOCK FALSE
