SPECIFICATION Spec
CONSTANTS
  a = a
  b = b
  Lines = {a, b}
  Ordered <- MCOrdered
  Mapped = {a, b}
  Deliveries <- MCDeliveries
  Stores = {s1, s2}
  Receipts = {r1}
  Callers = {c1}
  MaxEdits = 0
SYMMETRY MCSymmetry
INVARIANT ReversalTakesStockBack
CHECK_DEADLOCK FALSE
