--------------------------- MODULE StockLedgerTx ---------------------------
(***************************************************************************)
(* postMovement as the SQL statements it is made of, run by concurrent     *)
(* backend requests on one PostgreSQL database at READ COMMITTED.          *)
(*                                                                         *)
(* A request takes the advisory lock of its idempotency key, looks the key *)
(* up, locks (or inserts) the aggregate balance row and then the batch     *)
(* balance row, computes the new amounts from what it read, and commits.   *)
(* The tables are what is committed: a statement reads them when it runs;  *)
(* what a transaction writes is seen by others at COMMIT.  A crash of the  *)
(* process or of the connection is a ROLLBACK.                             *)
(***************************************************************************)
EXTENDS LedgerTables

CONSTANTS
  Clients,    \* requests that run at the same time, one connection each
  Tracked,    \* items with isBatchTracked
  MaxEntries  \* bound on the length of the ledger

ASSUME TxAssumption ==
  /\ IsFiniteSet(Clients)
  /\ Tracked \subseteq Items
  /\ MaxEntries \in Nat

NoMovement == [key |-> NoKey, type |-> "NONE"]

Steps ==
  {"idle", "lockKey", "findKey", "check", "select", "insert", "write", "commit"}

VARIABLES
  exists,   \* the balance rows that are committed
  pc,       \* the statement each request runs next
  mv,       \* the movement each request is posting
  rows,     \* the balance rows each transaction holds locked
  made,     \* those of them it inserted itself and has not committed
  read      \* the amounts each transaction read when it locked its rows

dbVars == <<stock, exists, ledger>>
txVars == <<pc, mv, rows, made, read>>
vars == <<stock, exists, ledger, pc, mv, rows, made, read>>

NothingRead == [r \in Rows |-> Zero]

Init ==
  /\ stock = [r \in Rows |-> Zero]
  /\ exists = {}
  /\ ledger = <<>>
  /\ pc = [c \in Clients |-> "idle"]
  /\ mv = [c \in Clients |-> NoMovement]
  /\ rows = [c \in Clients |-> {}]
  /\ made = [c \in Clients |-> {}]
  /\ read = [c \in Clients |-> NothingRead]

-----------------------------------------------------------------------------
(* Mistake for a mutant: the advisory lock is taken for the session of one *)
(* statement only.                                                         *)
HoldsKeyBriefly(c) == pc[c] = "findKey"

(* Locks live as long as their transaction.                                *)
HoldsKey(c) == pc[c] \notin {"idle", "lockKey"}

KeyFree(c) ==
  \A d \in Clients \ {c} : HoldsKey(d) => mv[d].key # mv[c].key

(* Mistake for a mutant: SELECT without FOR UPDATE.                        *)
RowAlwaysFree(c, r) == TRUE

RowFree(c, r) == \A d \in Clients \ {c} : r \notin rows[d]

(* The row a transaction has to lock next: the aggregate, then the batch.  *)
NextRow(c) ==
  IF AggregateRow(mv[c]) \in rows[c] THEN BatchRow(mv[c])
                                     ELSE AggregateRow(mv[c])

(* Mistake for a mutant: the connection goes back to the pool with its     *)
(* transaction still open, so its row locks stay.                          *)
EndTxStillOpen(c) ==
  /\ pc' = [pc EXCEPT ![c] = "idle"]
  /\ mv' = [mv EXCEPT ![c] = NoMovement]
  /\ made' = [made EXCEPT ![c] = {}]
  /\ read' = [read EXCEPT ![c] = NothingRead]
  /\ UNCHANGED rows

(* The transaction is over, by COMMIT or by ROLLBACK: nothing is held.     *)
EndTx(c) ==
  /\ pc' = [pc EXCEPT ![c] = "idle"]
  /\ mv' = [mv EXCEPT ![c] = NoMovement]
  /\ rows' = [rows EXCEPT ![c] = {}]
  /\ made' = [made EXCEPT ![c] = {}]
  /\ read' = [read EXCEPT ![c] = NothingRead]

(* The transaction has row r locked with the given amounts in hand; it     *)
(* goes on to the batch row if there is one, else to the update.           *)
TakeRow(c, r, amount) ==
  /\ rows' = [rows EXCEPT ![c] = @ \cup {r}]
  /\ read' = [read EXCEPT ![c][r] = amount]
  /\ pc' = [pc EXCEPT ![c] = IF r = BatchRow(mv[c]) THEN "write" ELSE "select"]

-----------------------------------------------------------------------------
Active == {c \in Clients : pc[c] # "idle"}

(* BEGIN and validateMovementInput.  A request without a key skips the     *)
(* advisory lock and the look-up.                                          *)
Begin(c, m) ==
  /\ pc[c] = "idle"
  /\ Len(ledger) + Cardinality(Active) < MaxEntries
  /\ mv' = [mv EXCEPT ![c] = m]
  /\ pc' = [pc EXCEPT ![c] = IF m.key = NoKey THEN "check" ELSE "lockKey"]
  /\ UNCHANGED <<dbVars, rows, made, read>>

(* SELECT pg_advisory_xact_lock(hashtext(key)): blocks while another       *)
(* transaction holds the lock of the same key.                             *)
LockKey(c) ==
  /\ pc[c] = "lockKey"
  /\ KeyFree(c)
  /\ pc' = [pc EXCEPT ![c] = "findKey"]
  /\ UNCHANGED <<dbVars, mv, rows, made, read>>

(* findLedgerEntryByIdempotencyKeyWithClient: an entry that is there is    *)
(* answered as a replay and the transaction ends with nothing written.     *)
FindKey(c) ==
  /\ pc[c] = "findKey"
  /\ \/ /\ mv[c].key \in PostedKeys(ledger)
        /\ EndTx(c)
     \/ /\ mv[c].key \notin PostedKeys(ledger)
        /\ pc' = [pc EXCEPT ![c] = "check"]
        /\ UNCHANGED <<mv, rows, made, read>>
  /\ UNCHANGED dbVars

(* requireActiveItem and the two refusals about batchId.                   *)
CheckItem(c) ==
  /\ pc[c] = "check"
  /\ \/ /\ mv[c].batch # NoBatch <=> mv[c].item \in Tracked
        /\ pc' = [pc EXCEPT ![c] = "select"]
        /\ UNCHANGED <<mv, rows, made, read>>
     \/ /\ ~(mv[c].batch # NoBatch <=> mv[c].item \in Tracked)
        /\ EndTx(c)
  /\ UNCHANGED dbVars

(* SELECT ... FOR UPDATE of lockOrCreateBalance or of                      *)
(* lockOrCreateBatchBalance: a committed row is locked and read, or waited *)
(* for; a row that is not committed is not seen.                           *)
SelectRow(c) ==
  LET r == NextRow(c)
  IN  /\ pc[c] = "select"
      /\ \/ /\ r \in exists
            /\ RowFree(c, r)
            /\ TakeRow(c, r, stock[r])
            /\ UNCHANGED made
         \/ /\ r \notin exists
            /\ pc' = [pc EXCEPT ![c] = "insert"]
            /\ UNCHANGED <<rows, made, read>>
      /\ UNCHANGED <<dbVars, mv>>

(* The INSERT of the missing row, which waits for another transaction that *)
(* has the same row inserted and not yet committed.  When that one has     *)
(* committed, the INSERT fails with 23505; the catch swallows the error,   *)
(* but PostgreSQL has aborted the transaction, so the SELECT that follows  *)
(* fails and withTransaction rolls back.                                   *)
InsertRow(c) ==
  LET r == NextRow(c)
  IN  /\ pc[c] = "insert"
      /\ \/ /\ r \notin exists
            /\ RowFree(c, r)
            /\ made' = [made EXCEPT ![c] = @ \cup {r}]
            /\ TakeRow(c, r, Zero)
            /\ UNCHANGED mv
         \/ /\ r \in exists
            /\ EndTx(c)
      /\ UNCHANGED dbVars

(* The refusals, computed from the amounts read; a refusal rolls back.     *)
(* Otherwise the UPDATEs and the INSERT into the ledger run, seen by no    *)
(* other transaction until COMMIT.                                         *)
Write(c) ==
  /\ pc[c] = "write"
  /\ \/ /\ \A r \in TouchedRows(mv[c]) : Allowed(read[c][r], mv[c])
        /\ pc' = [pc EXCEPT ![c] = "commit"]
        /\ UNCHANGED <<mv, rows, made, read>>
     \/ /\ \E r \in TouchedRows(mv[c]) : ~Allowed(read[c][r], mv[c])
        /\ EndTx(c)
  /\ UNCHANGED dbVars

(* COMMIT: the amounts computed from what was read become the rows.        *)
Commit(c) ==
  /\ pc[c] = "commit"
  /\ stock' = [r \in Rows |->
                 IF r \in TouchedRows(mv[c]) THEN After(read[c][r], mv[c])
                                             ELSE stock[r]]
  /\ exists' = exists \cup made[c]
  /\ ledger' =
       Append(ledger, LedgerEntry(mv[c], read[c][AggregateRow(mv[c])]))
  /\ EndTx(c)

(* The process or its connection dies and PostgreSQL rolls back.  A        *)
(* request whose answer was lost after COMMIT is one that already ended;   *)
(* the caller's retry is another Begin of the same movement.               *)
Crash(c) ==
  /\ pc[c] # "idle"
  /\ EndTx(c)
  /\ UNCHANGED dbVars

Advance(c) ==
  \/ LockKey(c)
  \/ FindKey(c)
  \/ CheckItem(c)
  \/ SelectRow(c)
  \/ InsertRow(c)
  \/ Write(c)
  \/ Commit(c)

Next ==
  \E c \in Clients :
    \/ \E m \in Movements : Begin(c, m)
    \/ Advance(c)
    \/ Crash(c)

Spec == Init /\ [][Next]_vars

(* PostgreSQL runs every statement it was given and grants a lock to its   *)
(* waiters in turn, so a statement that can run again and again does run;  *)
(* nothing obliges a caller to post or a process to die.                   *)
FairSpec == Spec /\ \A c \in Clients : SF_vars(Advance(c))

-----------------------------------------------------------------------------
TypeOK ==
  /\ stock \in [Rows -> Amounts]
  /\ exists \in SUBSET Rows
  /\ ledger \in Seq(LedgerEntries)
  /\ pc \in [Clients -> Steps]
  /\ mv \in [Clients -> Movements \cup {NoMovement}]
  /\ rows \in [Clients -> SUBSET Rows]
  /\ made \in [Clients -> SUBSET Rows]
  /\ read \in [Clients -> [Rows -> Amounts]]

(* The committed tables, seen as one atomic ledger.                        *)
Atomic == INSTANCE StockLedger WITH tracked <- Tracked

(* Concurrent transactions are serializable: what they commit is what a    *)
(* sequence of atomic postings would have done, one posting at a time,     *)
(* each allowed by the balances it found and each key posted at most once. *)
Serializable == Atomic!FixedCatalogSpec

(* What a transaction computes from is what the rows still hold: no other  *)
(* transaction wrote a row between its SELECT FOR UPDATE and its COMMIT.   *)
ReadIsCurrent ==
  \A c \in Clients : \A r \in rows[c] : read[c][r] = stock[r]

(* A request that has begun comes to an end: no two transactions wait for  *)
(* each other's advisory lock or rows.                                     *)
RequestsEnd == \A c \in Clients : pc[c] # "idle" ~> pc[c] = "idle"
=============================================================================
