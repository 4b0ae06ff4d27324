SPECIFICATION Spec
CONSTANTS
  Reservations = {r1, r2}
  Callers = {c1, c2}
  Quantities = {1, 2}
  MaxOnHand = 3
SYMMETRY MCSymmetry
INVARIANTS FulfilledWasIssued RetriesIssueOnce LedgerMatchesRow
           ReservedIsOutstanding
PROPERTY ClosedStaysClosed
CONSTRAINT MCOneDisturbed
CHECK_DEADLOCK FALSE
