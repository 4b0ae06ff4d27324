SPECIFICATION Spec
CONSTANTS
  p = p
  q = q
  Places = {p, q}
  Counts = {n1}
  Adjustments = {a1, a2}
  Scopes <- MCScopes
  Deltas <- MCDeltas
  Callers = {c1, c2}
  MaxOnHand = 1
SYMMETRY MCSymmetry
INVARIANTS CompleteMeansCounted CountCorrectsStock AdjustmentPostsAsWritten PostedMeansBooked
CONSTRAINT MCOneKind
CHECK_DEADLOCK FALSE
