SPECIFICATION FairSpec
CONSTANTS
  oil = oil
  Items = {oil}
  b1 = b1
  Clients = {c1, c2}
  Places = {store}
  Batches = {b1}
  NoBatch = NoBatch
  BatchItem <- MCBatchItem
  Keys = {k1}
  NoKey = NoKey
  Types <- MCTypes
  Deltas <- MCDeltas
  Tracked = {oil}
  MaxEntries = 3

INVARIANT ReadIsCurrent
PROPERTIES Serializable RequestsEnd
CHECK_DEADLOCK FALSE
