--------------------------- MODULE MCStockLedger ---------------------------
(* A small instance of StockLedger: two items, one of them batch-tracked   *)
(* with two batches, one place, and movements of one unit.         *)
EXTENDS StockLedger, TLC

CONSTANTS tyre, oil, b1, b2

MCBatchItem == (b1 :> oil) @@ (b2 :> oil)
MCTypes == {"RECEIPT", "ISSUE", "RESERVATION", "RESERVATION_RELEASE", "REVERSAL"}
MCDeltas == {-1, 0, 1}
BatchSymmetry == Permutations({b1, b2})
=============================================================================
