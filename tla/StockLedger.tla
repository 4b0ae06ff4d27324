---------------------------- MODULE StockLedger ----------------------------
(***************************************************************************)
(* What the stock ledger promises: postMovement as one atomic step.        *)
(*                                                                         *)
(* A movement that passes the checks changes the balance rows it touches   *)
(* and appends one entry to the ledger; a movement that fails them, or     *)
(* whose idempotency key was posted before (a replay), changes nothing and *)
(* is a stuttering step.  UpdateItem is the one operation of the item      *)
(* catalogue that changes how movements of an item are booked.             *)
(***************************************************************************)
EXTENDS LedgerTables

CONSTANTS
  Tracked,    \* the items created with isBatchTracked
  MaxEntries  \* bound on the length of the ledger

ASSUME LedgerAssumption ==
  /\ Tracked \subseteq Items
  /\ MaxEntries \in Nat

VARIABLE
  tracked   \* the items with isBatchTracked

vars == <<stock, ledger, tracked>>

Init ==
  /\ stock = [r \in Rows |-> Zero]
  /\ ledger = <<>>
  /\ tracked = Tracked

(* batchId is required for a batch-tracked item and refused for another.   *)
BatchUse(m) == m.batch # NoBatch <=> m.item \in tracked

Post(m) ==
  /\ Len(ledger) < MaxEntries
  /\ BatchUse(m)
  /\ m.key \notin PostedKeys(ledger)
  /\ \A r \in TouchedRows(m) : Allowed(stock[r], m)
  /\ stock' = [r \in Rows |->
                 IF r \in TouchedRows(m) THEN After(stock[r], m) ELSE stock[r]]
  /\ ledger' = Append(ledger, LedgerEntry(m, stock[AggregateRow(m)]))
  /\ UNCHANGED tracked

(* updateItem writes dto.isBatchTracked ?? current.isBatchTracked and      *)
(* looks at no balance.                                                    *)
UpdateItem(i) ==
  /\ tracked' = IF i \in tracked THEN tracked \ {i} ELSE tracked \cup {i}
  /\ UNCHANGED <<stock, ledger>>

Posting == \E m \in Movements : Post(m)

Next == Posting \/ \E i \in Items : UpdateItem(i)

Spec == Init /\ [][Next]_vars

(* The same system while nobody edits isBatchTracked.                      *)
FixedCatalogSpec == Init /\ [][Posting]_vars

-----------------------------------------------------------------------------
TypeOK ==
  /\ stock \in [Rows -> Amounts]
  /\ ledger \in Seq(LedgerEntries)
  /\ tracked \in SUBSET Items
=============================================================================
