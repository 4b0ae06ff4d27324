--------------------------- MODULE StockMovement ---------------------------
(***************************************************************************)
(* The data of an inventory movement and the arithmetic of posting one:    *)
(* what postMovementWithClient validates, which balance rows it touches    *)
(* and what it writes to them.  Nothing here changes state; StockLedger    *)
(* (the atomic specification) and StockLedgerTx (the SQL transactions)     *)
(* are both built from these operators.                                    *)
(*                                                                         *)
(* Quantities are integers here and six-decimal numbers in the code: a     *)
(* movement only adds, so one unit stands for one millionth.  Costs are    *)
(* left out.                                                               *)
(***************************************************************************)
EXTENDS Integers, Sequences, FiniteSets

CONSTANTS
  Items,      \* inventory items that exist and are active
  Places,     \* places of stock: a store, or a bin location of a store
  Batches,    \* batches that exist and are ACTIVE
  BatchItem,  \* the item each batch belongs to
  NoBatch,    \* "no batchId was given"
  Keys,       \* idempotency keys callers use
  NoKey,      \* "no idempotencyKey was given"
  Types,      \* the movement types callers use
  Deltas      \* the quantity changes callers ask for

PositiveTypes == {"OPENING", "RECEIPT", "TRANSFER_IN", "ADJUSTMENT_IN"}
NegativeTypes == {"ISSUE", "TRANSFER_OUT", "ADJUSTMENT_OUT"}
ReservationTypes == {"RESERVATION", "RESERVATION_RELEASE"}
MovementTypes ==
  PositiveTypes \cup NegativeTypes \cup ReservationTypes \cup {"REVERSAL"}

ASSUME MovementAssumption ==
  /\ IsFiniteSet(Batches)
  /\ BatchItem \in [Batches -> Items]
  /\ NoBatch \notin Batches
  /\ NoKey \notin Keys
  /\ Types \subseteq MovementTypes
  /\ Deltas \subseteq Int

BatchRefs == Batches \cup {NoBatch}
KeyRefs == Keys \cup {NoKey}

-----------------------------------------------------------------------------
(* The sign rules of validateMovementInput and the batch/item match of     *)
(* requireActiveBatch.                                                     *)
ValidMovement(m) ==
  /\ m.qty # 0 \/ m.rsv # 0
  /\ m.type \in PositiveTypes => m.qty > 0
  /\ m.type \in NegativeTypes => m.qty < 0
  /\ m.type = "RESERVATION" => m.qty = 0 /\ m.rsv > 0
  /\ m.type = "RESERVATION_RELEASE" => m.qty = 0 /\ m.rsv < 0
  /\ m.batch # NoBatch => BatchItem[m.batch] = m.item

MovementInputs ==
  [type : Types, item : Items, place : Places, batch : BatchRefs,
   qty : Deltas, rsv : Deltas, key : KeyRefs]

Movements == {m \in MovementInputs : ValidMovement(m)}

-----------------------------------------------------------------------------
(* Balance rows.  inventory_stock_balances has one row per item and place, *)
(* inventory_batch_balances one per batch, item and place; a row of the    *)
(* first kind is written here with NoBatch in its batch field.             *)
Rows == [item : Items, place : Places, batch : BatchRefs]

AggregateRow(m) == [item |-> m.item, place |-> m.place, batch |-> NoBatch]
BatchRow(m) == [item |-> m.item, place |-> m.place, batch |-> m.batch]

(* Mistake for a mutant: the batch balance is not updated.                 *)
AggregateOnly(m) == {AggregateRow(m)}

(* Both rows are the same row when the movement names no batch.            *)
TouchedRows(m) == {AggregateRow(m), BatchRow(m)}

Amounts == [qty : Nat, rsv : Nat]
Zero == [qty |-> 0, rsv |-> 0]

After(amount, m) == [qty |-> amount.qty + m.qty, rsv |-> amount.rsv + m.rsv]

(* Mistake for a mutant: the check of the reservation against the quantity *)
(* on hand is forgotten.                                                   *)
AllowedUncovered(amount, m) ==
  LET after == After(amount, m)
  IN  after.qty >= 0 /\ after.rsv >= 0

(* The three refusals of postMovementWithClient, the same for a stock      *)
(* balance and for a batch balance.                                        *)
Allowed(amount, m) ==
  LET after == After(amount, m)
  IN  /\ after.qty >= 0
      /\ after.rsv >= 0
      /\ after.rsv <= after.qty

(* Mistake for a mutant: the entry is built from the updated balance.      *)
LedgerEntryLate(m, before) ==
  [movement |-> m, before |-> After(before, m), after |-> After(before, m)]

(* insertLedgerEntry records the aggregate balance before and after.       *)
LedgerEntry(m, before) ==
  [movement |-> m, before |-> before, after |-> After(before, m)]

LedgerEntries ==
  [movement : Movements, before : Amounts, after : Amounts]

(* Mistake for a mutant: only the latest entry is looked at for the key.   *)
LatestKey(entries) ==
  {entries[n].movement.key : n \in DOMAIN entries \cap {Len(entries)}} \ {NoKey}

(* The idempotency keys the unique index knows of.                         *)
PostedKeys(entries) ==
  {entries[n].movement.key : n \in DOMAIN entries} \ {NoKey}
=============================================================================
