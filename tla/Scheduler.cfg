SPECIFICATION FairSpec
CONSTANTS
  j1 = j1
  j2 = j2
  Jobs = {j1, j2}
  NoJob = NoJob
  Handled = {j1}
  Workers = {w1, w2}
  Operators = {o1}
  maxAttempts <- MCMaxAttempts
  BatchSize = 2
  MaxFaults = 1
  MaxByHand = 1
INVARIANTS ClaimsExclusive CallsCounted CompletedMeansRan StrandedByFault
PROPERTIES WorkersKeepCompleted Settles
CHECK_DEADLOCK FALSE
