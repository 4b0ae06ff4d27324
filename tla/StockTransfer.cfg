SPECIFICATION Spec
CONSTANTS
  one = one
  two = two
  Lines <- MCLines
  Places = {store}
  SourceOf <- MCSourceOf
  Orders <- MCOrders
  Callers = {c1, c2}
  Requests <- MCRequests
  MaxAvailable = 2
  NoLine = NoLine
SYMMETRY MCSymmetry
INVARIANTS LinesWerePosted RetriesPostOnce StatusWasEarned
           NothingFromNothing LinesMatchLedger
CHECK_DEADLOCK FALSE
