---------------------------- MODULE LedgerTables ----------------------------
(***************************************************************************)
(* The tables of the inventory stock ledger, and what must be true of them *)
(* whoever writes them: StockLedger in one step for each movement,         *)
(* StockLedgerTx in the SQL statements of concurrent requests.             *)
(***************************************************************************)
EXTENDS StockMovement, FiniteSetsExt

VARIABLES
  stock,   \* the balance rows; Zero for a row that is not there
  ledger   \* inventory_stock_ledger, in the order of insertion

(* No balance, of a store or of a batch, is negative or has more reserved  *)
(* than it holds, whatever the order of receipts, issues, reservations and *)
(* reversals (the refusals in postMovementWithClient).                     *)
ReservedCovered == \A r \in Rows : stock[r].rsv <= stock[r].qty

(* An idempotency key is in the ledger at most once.                       *)
KeyPostedOnce ==
  \A m, n \in DOMAIN ledger :
    /\ ledger[m].movement.key = ledger[n].movement.key
    /\ ledger[m].movement.key # NoKey
    => m = n

IsEntryOf(n, r) == AggregateRow(ledger[n].movement) = r

Earlier(n) == {k \in 1 .. n - 1 : IsEntryOf(k, AggregateRow(ledger[n].movement))}

Later(n) ==
  {k \in n + 1 .. Len(ledger) : IsEntryOf(k, AggregateRow(ledger[n].movement))}

Unwritten(r) == r.batch = NoBatch /\ \A n \in DOMAIN ledger : ~IsEntryOf(n, r)

(* The entries of a balance row form an unbroken trail: each starts where  *)
(* the one before it ended, the first starts from nothing, the last ends   *)
(* at the balance itself, and a row without entries holds nothing          *)
(* (insertLedgerEntry, with updateBalance).                                *)
TrailUnbroken ==
  /\ \A n \in DOMAIN ledger :
       /\ Earlier(n) = {} => ledger[n].before = Zero
       /\ \A k \in Earlier(n) :
            (\A j \in Earlier(n) : j <= k) => ledger[n].before = ledger[k].after
       /\ Later(n) = {} =>
            stock[AggregateRow(ledger[n].movement)] = ledger[n].after
  /\ \A r \in Rows : Unwritten(r) => stock[r] = Zero

SumOver(field, rs) == MapThenSumSet(LAMBDA r : stock[r][field], rs)

BatchRowsOf(i, p) == {r \in Rows : r.item = i /\ r.place = p /\ r.batch # NoBatch}

BookedWithoutBatch(field, i, p) ==
  MapThenSumSet(LAMBDA n : ledger[n].movement[field],
                {n \in DOMAIN ledger :
                   IsEntryOf(n, [item |-> i, place |-> p, batch |-> NoBatch])
                   /\ ledger[n].movement.batch = NoBatch})

(* What an item has at a place, on hand and reserved, is what its batches  *)
(* have there together and what was booked there while the item was not    *)
(* batch-tracked (one delta is written to both kinds of row).              *)
BatchesAddUp ==
  \A i \in Items, p \in Places :
    LET total == stock[[item |-> i, place |-> p, batch |-> NoBatch]]
    IN  /\ total.qty =
             SumOver("qty", BatchRowsOf(i, p)) + BookedWithoutBatch("qty", i, p)
        /\ total.rsv =
             SumOver("rsv", BatchRowsOf(i, p)) + BookedWithoutBatch("rsv", i, p)
=============================================================================
