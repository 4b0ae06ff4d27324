SPECIFICATION Spec
CONSTANTS
  tyre = tyre
  oil = oil
  b1 = b1
  b2 = b2
  Items = {tyre, oil}
  Places = {store}
  Batches = {b1, b2}
  NoBatch = NoBatch
  BatchItem <- MCBatchItem
  Keys = {k1}
  NoKey = NoKey
  Types <- MCTypes
  Deltas <- MCDeltas
  Tracked = {oil}
  MaxEntries = 3
SYMMETRY BatchSymmetry
INVARIANTS ReservedCovered KeyPostedOnce TrailUnbroken BatchesAddUp
CHECK_DEADLOCK FALSE
