SPECIFICATION Spec
CONSTANTS
  Bookings = {b1, b2}
  Windows <- MCWindows
  Horizon = 1
  Callers = {c1, c2}
  Operators = {}
  Worker = worker
  MaxAttempts = 1
  MaxBlocks = 1
  MaxDirect = 0
  MaxByHand = 0
  MaxStops = 0
VIEW MCView
SYMMETRY MCSymmetry
INVARIANT NoDoubleBooking
CONSTRAINTS MCUndisturbed MCWorkerFirst
CHECK_DEADLOCK FALSE
