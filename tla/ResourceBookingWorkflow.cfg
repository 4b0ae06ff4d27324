SPECIFICATION Spec
CONSTANTS
  Bookings = {b1}
  Windows <- MCOneWindow
  Horizon = 1
  Callers = {c1, c2}
  Operators = {o1}
  Worker = worker
  MaxAttempts = 2
  MaxBlocks = 0
  MaxDirect = 1
  MaxByHand = 1
  MaxStops = 1
SYMMETRY MCSymmetry
INVARIANT WorkflowFollows
CONSTRAINT MCFollowing
CHECK_DEADLOCK FALSE
