SPECIFICATION FairSpec
CONSTANTS
  a = a
  b = b
  Issues = {x1}
  Returns = {t1, t2}
  NoIssue = NoIssue
  Items = {a, b}
  Clients = {c1, c2}
  Forms <- MCForms
  MaxReceived = 1
INVARIANTS TypeOK StatusTellsStock StockExplained ReturnedWithinIssued
PROPERTIES RequestsEnd PostsAtOnce
CHECK_DEADLOCK FALSE
