SPECIFICATION Spec
CONSTANTS
  a = a
  b = b
  Lines = {a, b}
  Ordered <- MCOrdered
  Mapped = {a, b}
  Deliveries <- MCDeliveries
  Stores = {s1, s2}
  Receipts = {r1, r2}
  Callers = {c1, c2}
  MaxEdits = 1
SYMMETRY MCSymmetry
INVARIANTS ReceivedAddsUp OrderFollowsReceipts PostedIsBooked BookedIsPosted
CONSTRAINTS MCUndisturbed MCOneCutOff
CHECK_DEADLOCK FALSE
