-------------------------- MODULE MCStockLedgerTx --------------------------
(* A small instance of StockLedgerTx: concurrent requests on one place for *)
(* one batch-tracked item with one batch, and one idempotency key.         *)
EXTENDS StockLedgerTx, TLC

CONSTANTS oil, b1

MCBatchItem == b1 :> oil
MCTypes == {"RECEIPT", "ISSUE"}
MCDeltas == {-1, 0, 1}
ClientSymmetry == Permutations(Clients)
=============================================================================
