------------------------ MODULE StockLedgerTx_proofs ------------------------
(***************************************************************************)
(* Proofs about the ledger, for any number of requests, items, places,     *)
(* batches and keys: the SQL transactions implement the atomic ledger, and *)
(* what is proved of a posting holds of both.                              *)
(*                                                                         *)
(* The invariant has a part for each request (Own), which says what it     *)
(* holds and knows at each statement, a part for each two requests         *)
(* (Apart), which says that their locks exclude each other, and two parts  *)
(* about the committed tables.                                             *)
(***************************************************************************)
EXTENDS StockLedgerTx, Functions, FiniteSetTheorems, SequenceTheorems,
        WellFoundedInduction, TLAPS

VARIABLE
  tracked   \* the items with isBatchTracked, where the catalogue is edited

(* The atomic ledger together with the edits of the catalogue.             *)
Ledger == INSTANCE StockLedger

Shape(c) ==
  /\ pc[c] = "idle" => rows[c] = {}
  /\ pc[c] # "idle" => mv[c] \in Movements
  /\ pc[c] \in {"lockKey", "findKey", "check"} => rows[c] = {}
  /\ pc[c] \in {"select", "insert"} =>
       \/ rows[c] = {}
       \/ /\ rows[c] = {AggregateRow(mv[c])}
          /\ AggregateRow(mv[c]) # BatchRow(mv[c])
  /\ pc[c] \in {"write", "commit"} => rows[c] = TouchedRows(mv[c])
  /\ made[c] \subseteq rows[c]

KeyNew(c) ==
  pc[c] \in {"check", "select", "insert", "write", "commit"} =>
    mv[c].key \notin PostedKeys(ledger)

Fit(c) ==
  /\ pc[c] \in {"select", "insert", "write", "commit"} =>
       (mv[c].batch # NoBatch <=> mv[c].item \in Tracked)
  /\ pc[c] = "commit" =>
       \A r \in TouchedRows(mv[c]) : Allowed(read[c][r], mv[c])

Current(c) ==
  \A r \in rows[c] :
    /\ read[c][r] = stock[r]
    /\ r \in exists \cup made[c]
    /\ r \in made[c] => r \notin exists

Own(c) == Shape(c) /\ KeyNew(c) /\ Fit(c) /\ Current(c)

(* No row is locked by both, and no key but "none".                        *)
Apart(c, d) ==
  /\ \A r \in rows[c] : r \notin rows[d]
  /\ HoldsKey(c) /\ HoldsKey(d) /\ mv[c].key = mv[d].key => mv[c].key = NoKey

EmptyRows == \A r \in Rows \ exists : stock[r] = Zero

Room == Len(ledger) + Cardinality(Active) <= MaxEntries

IInv ==
  /\ TypeOK
  /\ \A c \in Clients : Own(c)
  /\ \A c, d \in Clients : c # d => Apart(c, d)
  /\ EmptyRows
  /\ Room

(* Only request c moves, and nothing is committed.                         *)
Alone(c) ==
  /\ UNCHANGED dbVars
  /\ \A e \in Clients \ {c} :
       /\ pc'[e] = pc[e] /\ mv'[e] = mv[e] /\ rows'[e] = rows[e]
       /\ made'[e] = made[e] /\ read'[e] = read[e]

-----------------------------------------------------------------------------
(* A movement has the fields of a movement.                                *)
LEMMA MovementFields ==
  ASSUME NEW m \in Movements
  PROVE  /\ m \in MovementInputs
         /\ m.item \in Items /\ m.place \in Places /\ m.batch \in BatchRefs
         /\ m.key \in KeyRefs /\ m.qty \in Int /\ m.rsv \in Int
         /\ AggregateRow(m) \in Rows /\ BatchRow(m) \in Rows
         /\ TouchedRows(m) \subseteq Rows
  <1>1. m \in MovementInputs
    BY DEF Movements
  <1>2. /\ m.item \in Items /\ m.place \in Places /\ m.batch \in BatchRefs
        /\ m.key \in KeyRefs /\ m.qty \in Deltas /\ m.rsv \in Deltas
    BY <1>1 DEF MovementInputs
  <1>3. m.qty \in Int /\ m.rsv \in Int
    BY <1>2, MovementAssumption DEF MovementAssumption
  <1>4. AggregateRow(m) \in Rows /\ BatchRow(m) \in Rows
    BY <1>2 DEF AggregateRow, BatchRow, Rows, BatchRefs
  <1>. QED
    BY <1>1, <1>2, <1>3, <1>4 DEF TouchedRows

(* A movement allowed on a balance leaves a balance, with no more reserved *)
(* than on hand.                                                           *)
LEMMA AllowedAfter ==
  ASSUME NEW m \in Movements, NEW a \in Amounts, Allowed(a, m)
  PROVE  /\ After(a, m) \in Amounts
         /\ After(a, m).rsv <= After(a, m).qty
  <1>1. m.qty \in Int /\ m.rsv \in Int
    BY MovementFields
  <1>2. a.qty \in Nat /\ a.rsv \in Nat
    BY DEF Amounts
  <1>. QED
    BY <1>1, <1>2 DEF Allowed, After, Amounts

LEMMA ZeroIsAmount == Zero \in Amounts
BY DEF Zero, Amounts

LEMMA ActiveFinite ==
  /\ IsFiniteSet(Active)
  /\ Cardinality(Active) \in Nat
<1>1. Active \in SUBSET Clients
  BY DEF Active
<1>2. IsFiniteSet(Active)
  BY <1>1, TxAssumption, FS_Subset DEF TxAssumption
<1> QED
  BY <1>2, FS_CardinalityType

LEMMA InvInit == Init => IInv
<1> SUFFICES ASSUME Init PROVE IInv
  OBVIOUS
<1>1. TypeOK
  BY ZeroIsAmount DEF Init, TypeOK, Steps, NothingRead, NoMovement
<1>2. \A c \in Clients : Own(c)
  BY DEF Init, Own, Shape, KeyNew, Fit, Current
<1>3. \A c, d \in Clients : c # d => Apart(c, d)
  BY DEF Init, Apart, HoldsKey
<1>4. EmptyRows
  BY DEF Init, EmptyRows
<1>5. Room
  <2>1. Active = {}
    BY DEF Init, Active
  <2>2. Cardinality(Active) = 0 /\ Len(ledger) = 0
    BY <2>1, FS_EmptySet DEF Init
  <2> QED
    BY <2>2, TxAssumption DEF Room, TxAssumption
<1> QED
  BY <1>1, <1>2, <1>3, <1>4, <1>5 DEF IInv

(* Request c moves alone: only its own part, what it shares with the       *)
(* others and the number of requests are to be looked at.                  *)
LEMMA AloneKeeps ==
  ASSUME IInv, NEW c \in Clients, Alone(c), TypeOK', Own(c)',
         \A e \in Clients \ {c} : Apart(c, e)' /\ Apart(e, c)',
         Room'
  PROVE  IInv'
<1>1. ASSUME NEW e \in Clients \ {c}
      PROVE  Own(e)'
  BY <1>1 DEF IInv, Alone, dbVars, Own, Shape, KeyNew, Fit, Current
<1>2. ASSUME NEW e \in Clients \ {c}, NEW f \in Clients \ {c}, e # f
      PROVE  Apart(e, f)'
  BY <1>2 DEF IInv, Alone, Apart, HoldsKey
<1>3. EmptyRows'
  BY DEF IInv, Alone, dbVars, EmptyRows
<1> QED
  BY <1>1, <1>2, <1>3 DEF IInv

(* A request that goes from one statement to the next, none of them idle,  *)
(* leaves the number of requests as it is.                                 *)
LEMMA SameRoom ==
  ASSUME IInv, NEW c \in Clients, NEW s \in Steps \ {"idle"}, pc[c] # "idle",
         pc' = [pc EXCEPT ![c] = s], ledger' = ledger
  PROVE  Room'
<1>1. Active' = Active
  BY DEF IInv, TypeOK, Active
<1> QED
  BY <1>1 DEF IInv, Room

LEMMA RoomAfterEnd ==
  ASSUME IInv, NEW c \in Clients, pc[c] # "idle", pc' = [pc EXCEPT ![c] = "idle"]
  PROVE  Len(ledger) + Cardinality(Active') + 1 <= MaxEntries
<1>1. Active' = Active \ {c} /\ c \in Active
  BY DEF IInv, TypeOK, Active
<1>2. Cardinality(Active \ {c}) = Cardinality(Active) - 1
  BY <1>1, ActiveFinite, FS_RemoveElement
<1>3. Len(ledger) \in Nat
  BY DEF IInv, TypeOK
<1> QED
  BY <1>1, <1>2, <1>3, ActiveFinite, TxAssumption DEF IInv, Room, TxAssumption

(* A transaction that ends without a commit.                               *)
LEMMA EndKeeps ==
  ASSUME IInv, NEW c \in Clients, pc[c] # "idle", EndTx(c), UNCHANGED dbVars
  PROVE  IInv'
<1>1. Alone(c)
  BY DEF IInv, TypeOK, EndTx, Alone
<1>2. TypeOK'
  BY ZeroIsAmount DEF IInv, TypeOK, EndTx, dbVars, Steps, NothingRead
<1>3. pc'[c] = "idle" /\ rows'[c] = {} /\ made'[c] = {}
  BY DEF IInv, TypeOK, EndTx
<1>4. Own(c)'
  BY <1>3 DEF Own, Shape, KeyNew, Fit, Current
<1>5. \A e \in Clients \ {c} : Apart(c, e)' /\ Apart(e, c)'
  BY <1>3 DEF Apart, HoldsKey
<1>6. Room'
  <2>1. Len(ledger) + Cardinality(Active') + 1 <= MaxEntries
    BY RoomAfterEnd DEF EndTx
  <2>2. Cardinality(Active') \in Nat /\ Len(ledger) \in Nat /\ ledger' = ledger
    <3>1. Active' \in SUBSET Clients
      BY DEF Active
    <3> QED
      BY <3>1, TxAssumption, FS_Subset, FS_CardinalityType
      DEF TxAssumption, IInv, TypeOK, dbVars
  <2> QED
    BY <2>1, <2>2, TxAssumption DEF Room, TxAssumption
<1> QED
  BY <1>1, <1>2, <1>4, <1>5, <1>6, AloneKeeps

LEMMA BeginKeeps ==
  ASSUME IInv, NEW c \in Clients, NEW m \in Movements, Begin(c, m)
  PROVE  IInv'
<1>1. Alone(c)
  BY DEF IInv, TypeOK, Begin, Alone
<1>2. TypeOK'
  BY DEF IInv, TypeOK, Begin, dbVars, Steps
<1>3. /\ pc'[c] = IF m.key = NoKey THEN "check" ELSE "lockKey"
      /\ mv'[c] = m /\ rows'[c] = {} /\ made'[c] = {} /\ ledger' = ledger
  BY DEF IInv, TypeOK, Begin, Own, Shape, dbVars
<1>4. Own(c)'
  BY <1>3 DEF Own, Shape, KeyNew, Fit, Current, PostedKeys
<1>5. \A e \in Clients \ {c} : Apart(c, e)' /\ Apart(e, c)'
  BY <1>3 DEF Apart, HoldsKey
<1>6. Room'
  <2>1. Active' = Active \cup {c} /\ c \notin Active
    BY DEF IInv, TypeOK, Begin, Active
  <2>2. Cardinality(Active \cup {c}) = Cardinality(Active) + 1
    BY <2>1, ActiveFinite, FS_AddElement
  <2>3. Len(ledger) + Cardinality(Active) < MaxEntries /\ Len(ledger) \in Nat
    BY DEF IInv, TypeOK, Begin
  <2> QED
    BY <1>3, <2>1, <2>2, <2>3, ActiveFinite, TxAssumption DEF Room, TxAssumption
<1> QED
  BY <1>1, <1>2, <1>4, <1>5, <1>6, AloneKeeps

(* A request that goes on to the next statement and takes no row.          *)
LEMMA MoveKeeps ==
  ASSUME IInv, NEW c \in Clients, NEW s \in Steps \ {"idle"}, pc[c] # "idle",
         pc' = [pc EXCEPT ![c] = s],
         UNCHANGED <<dbVars, mv, rows, made, read>>,
         Own(c)',
         \A e \in Clients \ {c} : Apart(c, e)' /\ Apart(e, c)'
  PROVE  IInv'
<1>1. Alone(c)
  BY DEF IInv, TypeOK, Alone
<1>2. TypeOK'
  BY DEF IInv, TypeOK, dbVars
<1>3. Room'
  BY SameRoom DEF dbVars
<1> QED
  BY <1>1, <1>2, <1>3, AloneKeeps

(* Nothing new is locked when the key of the request was held already.     *)
LEMMA SameLocks ==
  ASSUME IInv, NEW c \in Clients, HoldsKey(c), UNCHANGED <<mv, rows>>,
         \A e \in Clients \ {c} : pc'[e] = pc[e]
  PROVE  \A e \in Clients \ {c} : Apart(c, e)' /\ Apart(e, c)'
BY DEF IInv, Apart, HoldsKey

LEMMA LockKeyKeeps ==
  ASSUME IInv, NEW c \in Clients, LockKey(c)
  PROVE  IInv'
<1>1. /\ pc[c] = "lockKey" /\ pc' = [pc EXCEPT ![c] = "findKey"]
      /\ UNCHANGED <<dbVars, mv, rows, made, read>>
  BY DEF LockKey
<1>2. pc'[c] = "findKey" /\ \A e \in Clients \ {c} : pc'[e] = pc[e]
  BY <1>1 DEF IInv, TypeOK
<1>3. Own(c)'
  BY <1>1, <1>2 DEF IInv, Own, Shape, KeyNew, Fit, Current, dbVars
<1>4. \A e \in Clients \ {c} : Apart(c, e)' /\ Apart(e, c)'
  BY <1>1, <1>2 DEF IInv, LockKey, KeyFree, Apart, HoldsKey
<1> QED
  BY <1>1, <1>3, <1>4, MoveKeeps DEF Steps

LEMMA FindKeyKeeps ==
  ASSUME IInv, NEW c \in Clients, FindKey(c)
  PROVE  IInv'
<1>1. CASE EndTx(c)
  BY <1>1, EndKeeps DEF FindKey
<1>2. CASE ~EndTx(c)
  <2>1. /\ pc[c] = "findKey" /\ pc' = [pc EXCEPT ![c] = "check"]
        /\ mv[c].key \notin PostedKeys(ledger)
        /\ UNCHANGED <<dbVars, mv, rows, made, read>>
    BY <1>2 DEF FindKey
  <2>2. pc'[c] = "check" /\ \A e \in Clients \ {c} : pc'[e] = pc[e]
    BY <2>1 DEF IInv, TypeOK
  <2>3. Own(c)'
    BY <2>1, <2>2 DEF IInv, Own, Shape, KeyNew, Fit, Current, dbVars
  <2>4. HoldsKey(c)
    BY <2>1 DEF HoldsKey
  <2> QED
    BY <2>1, <2>2, <2>3, <2>4, SameLocks, MoveKeeps DEF Steps
<1> QED
  BY <1>1, <1>2

LEMMA CheckItemKeeps ==
  ASSUME IInv, NEW c \in Clients, CheckItem(c)
  PROVE  IInv'
<1>1. CASE EndTx(c)
  BY <1>1, EndKeeps DEF CheckItem
<1>2. CASE ~EndTx(c)
  <2>1. /\ pc[c] = "check" /\ pc' = [pc EXCEPT ![c] = "select"]
        /\ mv[c].batch # NoBatch <=> mv[c].item \in Tracked
        /\ UNCHANGED <<dbVars, mv, rows, made, read>>
    BY <1>2 DEF CheckItem
  <2>2. pc'[c] = "select" /\ \A e \in Clients \ {c} : pc'[e] = pc[e]
    BY <2>1 DEF IInv, TypeOK
  <2>3. Own(c)'
    BY <2>1, <2>2 DEF IInv, Own, Shape, KeyNew, Fit, Current, dbVars
  <2>4. HoldsKey(c)
    BY <2>1 DEF HoldsKey
  <2> QED
    BY <2>1, <2>2, <2>3, <2>4, SameLocks, MoveKeeps DEF Steps
<1> QED
  BY <1>1, <1>2

LEMMA WriteKeeps ==
  ASSUME IInv, NEW c \in Clients, Write(c)
  PROVE  IInv'
<1>1. CASE EndTx(c)
  BY <1>1, EndKeeps DEF Write
<1>2. CASE ~EndTx(c)
  <2>1. /\ pc[c] = "write" /\ pc' = [pc EXCEPT ![c] = "commit"]
        /\ \A r \in TouchedRows(mv[c]) : Allowed(read[c][r], mv[c])
        /\ UNCHANGED <<dbVars, mv, rows, made, read>>
    BY <1>2 DEF Write
  <2>2. pc'[c] = "commit" /\ \A e \in Clients \ {c} : pc'[e] = pc[e]
    BY <2>1 DEF IInv, TypeOK
  <2>3. Own(c)'
    BY <2>1, <2>2 DEF IInv, Own, Shape, KeyNew, Fit, Current, dbVars
  <2>4. HoldsKey(c)
    BY <2>1 DEF HoldsKey
  <2> QED
    BY <2>1, <2>2, <2>3, <2>4, SameLocks, MoveKeeps DEF Steps
<1> QED
  BY <1>1, <1>2

(* The row a request locks next is one of its movement.                    *)
LEMMA NextRowOfMovement ==
  ASSUME IInv, NEW c \in Clients, pc[c] \in {"select", "insert"}
  PROVE  /\ mv[c] \in Movements
         /\ NextRow(c) \in Rows
         /\ \/ NextRow(c) = BatchRow(mv[c])
               /\ rows[c] \cup {NextRow(c)} = TouchedRows(mv[c])
            \/ NextRow(c) = AggregateRow(mv[c]) /\ rows[c] = {}
               /\ AggregateRow(mv[c]) # BatchRow(mv[c])
<1>1. /\ mv[c] \in Movements
      /\ \/ rows[c] = {}
         \/ /\ rows[c] = {AggregateRow(mv[c])}
            /\ AggregateRow(mv[c]) # BatchRow(mv[c])
  BY DEF IInv, Own, Shape
<1>2. PICK m \in Movements : mv[c] = m
  BY <1>1
<1>3. AggregateRow(m) \in Rows /\ BatchRow(m) \in Rows
  BY MovementFields
<1>4. CASE rows[c] = {}
  <2>1. NextRow(c) = AggregateRow(m)
    BY <1>2, <1>4 DEF NextRow
  <2> QED
    BY <1>2, <1>3, <1>4, <2>1 DEF TouchedRows
<1>5. CASE /\ rows[c] = {AggregateRow(mv[c])}
           /\ AggregateRow(mv[c]) # BatchRow(mv[c])
  <2>1. NextRow(c) = BatchRow(m)
    BY <1>2, <1>5 DEF NextRow
  <2> QED
    BY <1>2, <1>3, <1>5, <2>1 DEF TouchedRows
<1> QED
  BY <1>1, <1>4, <1>5

(* A request locks its next row, which nobody else has locked, with the    *)
(* committed amounts in hand.                                              *)
LEMMA TakeKeeps ==
  ASSUME IInv, NEW c \in Clients, pc[c] \in {"select", "insert"},
         NEW r, r = NextRow(c), RowFree(c, r), TakeRow(c, r, stock[r]),
         UNCHANGED <<dbVars, mv>>,
         \/ r \in exists /\ UNCHANGED made
         \/ r \notin exists /\ made' = [made EXCEPT ![c] = @ \cup {r}]
  PROVE  IInv'
<1>1. /\ mv[c] \in Movements /\ r \in Rows
      /\ \/ r = BatchRow(mv[c]) /\ rows[c] \cup {r} = TouchedRows(mv[c])
         \/ r = AggregateRow(mv[c]) /\ rows[c] = {}
            /\ AggregateRow(mv[c]) # BatchRow(mv[c])
  BY NextRowOfMovement
<1>2. stock[r] \in Amounts
  BY <1>1 DEF IInv, TypeOK
<1>3. PICK s \in {"write", "select"} :
        /\ s = IF r = BatchRow(mv[c]) THEN "write" ELSE "select"
        /\ pc' = [pc EXCEPT ![c] = s]
        /\ rows' = [rows EXCEPT ![c] = @ \cup {r}]
        /\ read' = [read EXCEPT ![c][r] = stock[r]]
  BY DEF TakeRow
<1>4. Alone(c)
  BY <1>3 DEF IInv, TypeOK, Alone
<1>5. TypeOK'
  <2>1. rows' \in [Clients -> SUBSET Rows] /\ made' \in [Clients -> SUBSET Rows]
    BY <1>1, <1>3 DEF IInv, TypeOK
  <2>2. read' \in [Clients -> [Rows -> Amounts]]
    BY <1>1, <1>2, <1>3 DEF IInv, TypeOK
  <2>3. pc' \in [Clients -> Steps]
    BY <1>3 DEF IInv, TypeOK, Steps
  <2> QED
    BY <2>1, <2>2, <2>3 DEF IInv, TypeOK, dbVars
<1>6. /\ pc'[c] = s /\ mv'[c] = mv[c] /\ rows'[c] = rows[c] \cup {r}
      /\ read'[c][r] = stock[r]
      /\ \A q \in Rows \ {r} : read'[c][q] = read[c][q]
      /\ \A e \in Clients \ {c} : pc'[e] = pc[e] /\ rows'[e] = rows[e]
  BY <1>1, <1>3 DEF IInv, TypeOK
<1>7. \/ r \in exists /\ made'[c] = made[c]
      \/ r \notin exists /\ made'[c] = made[c] \cup {r}
  BY DEF IInv, TypeOK
<1>8. Own(c)
  BY DEF IInv
<1>9. Shape(c)'
  <2>1. made'[c] \subseteq rows'[c]
    BY <1>6, <1>7, <1>8 DEF Own, Shape
  <2>2. CASE r = BatchRow(mv[c])
    BY <1>1, <1>3, <1>6, <2>1, <2>2 DEF Shape
  <2>3. CASE r # BatchRow(mv[c])
    BY <1>1, <1>3, <1>6, <2>1, <2>3 DEF Shape
  <2> QED
    BY <2>2, <2>3
<1>10. KeyNew(c)' /\ Fit(c)'
  BY <1>3, <1>6, <1>8 DEF Own, KeyNew, Fit, dbVars
<1>11. Current(c)'
  <2>1. rows[c] \subseteq Rows /\ stock' = stock /\ exists' = exists
    BY DEF IInv, TypeOK, dbVars
  <2>2. ASSUME NEW q \in rows[c], q # r
        PROVE  /\ read'[c][q] = stock[q]
               /\ q \in exists \cup made'[c]
               /\ q \in made'[c] => q \notin exists
    BY <1>6, <1>7, <1>8, <2>1, <2>2 DEF Own, Current
  <2>3. /\ read'[c][r] = stock[r]
        /\ r \in exists \cup made'[c]
        /\ r \in made'[c] => r \notin exists
    BY <1>6, <1>7, <1>8 DEF Own, Shape, Current
  <2> QED
    BY <1>6, <2>1, <2>2, <2>3 DEF Current
<1>12. \A e \in Clients \ {c} : Apart(c, e)' /\ Apart(e, c)'
  <2>1. \A e \in Clients \ {c} : r \notin rows[e]
    BY DEF RowFree
  <2>2. HoldsKey(c)
    BY DEF HoldsKey
  <2> QED
    BY <1>6, <2>1, <2>2 DEF IInv, Apart, HoldsKey
<1>13. Room'
  BY <1>3, SameRoom DEF Steps, dbVars
<1> QED
  BY <1>4, <1>5, <1>9, <1>10, <1>11, <1>12, <1>13, AloneKeeps DEF Own

LEMMA SelectRowKeeps ==
  ASSUME IInv, NEW c \in Clients, SelectRow(c)
  PROVE  IInv'
<1>1. CASE NextRow(c) \in exists
  <2>1. PICK r : r = NextRow(c)
    OBVIOUS
  <2>2. /\ pc[c] = "select" /\ r \in exists /\ RowFree(c, r)
        /\ TakeRow(c, r, stock[r]) /\ UNCHANGED <<dbVars, mv, made>>
    BY <1>1, <2>1 DEF SelectRow
  <2> QED
    BY <2>1, <2>2, TakeKeeps
<1>2. CASE NextRow(c) \notin exists
  <2>1. /\ pc[c] = "select" /\ pc' = [pc EXCEPT ![c] = "insert"]
        /\ UNCHANGED <<dbVars, mv, rows, made, read>>
    BY <1>2 DEF SelectRow
  <2>2. pc'[c] = "insert" /\ \A e \in Clients \ {c} : pc'[e] = pc[e]
    BY <2>1 DEF IInv, TypeOK
  <2>3. Own(c)'
    BY <2>1, <2>2 DEF IInv, Own, Shape, KeyNew, Fit, Current, dbVars
  <2>4. HoldsKey(c)
    BY <2>1 DEF HoldsKey
  <2> QED
    BY <2>1, <2>2, <2>3, <2>4, SameLocks, MoveKeeps DEF Steps
<1> QED
  BY <1>1, <1>2

LEMMA InsertRowKeeps ==
  ASSUME IInv, NEW c \in Clients, InsertRow(c)
  PROVE  IInv'
<1>1. CASE NextRow(c) \in exists
  BY <1>1, EndKeeps DEF InsertRow
<1>2. CASE NextRow(c) \notin exists
  <2>1. PICK r : r = NextRow(c)
    OBVIOUS
  <2>2. /\ pc[c] = "insert" /\ r \notin exists /\ RowFree(c, r)
        /\ made' = [made EXCEPT ![c] = @ \cup {r}]
        /\ TakeRow(c, r, Zero) /\ UNCHANGED <<dbVars, mv>>
    BY <1>2, <2>1 DEF InsertRow
  <2>3. r \in Rows
    BY <2>1, <2>2, NextRowOfMovement
  <2>4. stock[r] = Zero
    BY <2>2, <2>3 DEF IInv, EmptyRows
  <2> QED
    BY <2>1, <2>2, <2>4, TakeKeeps
<1> QED
  BY <1>1, <1>2

(* What a commit does to the tables, in terms of the committed balances:   *)
(* what the transaction read is what they hold.                            *)
LEMMA CommitFacts ==
  ASSUME IInv, NEW c \in Clients, Commit(c)
  PROVE  \E m \in Movements :
           /\ m = mv[c]
           /\ rows[c] = TouchedRows(m)
           /\ m.key \notin PostedKeys(ledger)
           /\ m.batch # NoBatch <=> m.item \in Tracked
           /\ \A r \in TouchedRows(m) : Allowed(stock[r], m)
           /\ stock' = [r \in Rows |-> IF r \in TouchedRows(m)
                                       THEN After(stock[r], m) ELSE stock[r]]
           /\ ledger' = Append(ledger, LedgerEntry(m, stock[AggregateRow(m)]))
<1>1. pc[c] = "commit" /\ Own(c)
  BY DEF Commit, IInv
<1>2. mv[c] \in Movements
  BY <1>1 DEF Own, Shape
<1>3. PICK m \in Movements : m = mv[c]
  BY <1>2
<1>4. /\ rows[c] = TouchedRows(m)
      /\ m.key \notin PostedKeys(ledger)
      /\ m.batch # NoBatch <=> m.item \in Tracked
      /\ \A r \in TouchedRows(m) : Allowed(read[c][r], m)
      /\ \A r \in TouchedRows(m) : read[c][r] = stock[r]
  BY <1>1, <1>3 DEF Own, Shape, KeyNew, Fit, Current
<1>5. \A r \in TouchedRows(m) : Allowed(stock[r], m)
  BY <1>4
<1>6. stock' = [r \in Rows |-> IF r \in TouchedRows(m)
                              THEN After(stock[r], m) ELSE stock[r]]
  BY <1>3, <1>4 DEF Commit
<1>7. ledger' = Append(ledger, LedgerEntry(m, stock[AggregateRow(m)]))
  <2>1. AggregateRow(m) \in TouchedRows(m)
    BY DEF TouchedRows
  <2>2. read[c][AggregateRow(m)] = stock[AggregateRow(m)]
    BY <1>4, <2>1
  <2>3. ledger' = Append(ledger, LedgerEntry(m, read[c][AggregateRow(m)]))
    BY <1>3 DEF Commit
  <2> QED
    BY <2>2, <2>3
<1> QED
  BY <1>3, <1>4, <1>5, <1>6, <1>7

(* The keys posted after one more entry.                                   *)
LEMMA PostedAfterAppend ==
  ASSUME NEW entries \in Seq(LedgerEntries), NEW m \in Movements, NEW before
  PROVE  PostedKeys(Append(entries, LedgerEntry(m, before)))
           \subseteq PostedKeys(entries) \cup ({m.key} \ {NoKey})
<1> DEFINE longer == Append(entries, LedgerEntry(m, before))
<1>1. ASSUME NEW n \in DOMAIN longer
      PROVE  \/ n \in DOMAIN entries /\ longer[n] = entries[n]
             \/ longer[n].movement = m
  BY <1>1 DEF LedgerEntry
<1> QED
  BY <1>1 DEF PostedKeys

LEMMA CommitKeeps ==
  ASSUME IInv, NEW c \in Clients, Commit(c)
  PROVE  IInv'
<1>1. PICK m \in Movements :
        /\ m = mv[c]
        /\ rows[c] = TouchedRows(m)
        /\ \A r \in TouchedRows(m) : Allowed(stock[r], m)
        /\ stock' = [r \in Rows |-> IF r \in TouchedRows(m)
                                    THEN After(stock[r], m) ELSE stock[r]]
        /\ ledger' = Append(ledger, LedgerEntry(m, stock[AggregateRow(m)]))
  BY CommitFacts
<1>2. pc[c] = "commit" /\ EndTx(c) /\ exists' = exists \cup made[c]
  BY DEF Commit
<1>3. /\ pc'[c] = "idle" /\ rows'[c] = {} /\ made'[c] = {}
      /\ \A e \in Clients \ {c} :
           /\ pc'[e] = pc[e] /\ mv'[e] = mv[e] /\ rows'[e] = rows[e]
           /\ made'[e] = made[e] /\ read'[e] = read[e]
  BY <1>2 DEF IInv, TypeOK, EndTx
<1>4. TypeOK'
  <2>1. \A r \in TouchedRows(m) : r \in Rows /\ After(stock[r], m) \in Amounts
    BY <1>1, MovementFields, AllowedAfter DEF IInv, TypeOK
  <2>2. stock' \in [Rows -> Amounts]
    BY <1>1, <2>1 DEF IInv, TypeOK
  <2>3. AggregateRow(m) \in TouchedRows(m) /\ AggregateRow(m) \in Rows
    BY MovementFields DEF TouchedRows
  <2>4. LedgerEntry(m, stock[AggregateRow(m)]) \in LedgerEntries
    BY <2>1, <2>3 DEF IInv, TypeOK, LedgerEntry, LedgerEntries
  <2>5. ledger' \in Seq(LedgerEntries)
    BY <1>1, <2>4 DEF IInv, TypeOK
  <2>6. exists' \in SUBSET Rows
    BY <1>2 DEF IInv, TypeOK
  <2>7. /\ pc' \in [Clients -> Steps]
        /\ mv' \in [Clients -> Movements \cup {NoMovement}]
        /\ rows' \in [Clients -> SUBSET Rows]
        /\ made' \in [Clients -> SUBSET Rows]
        /\ read' \in [Clients -> [Rows -> Amounts]]
    BY <1>2, ZeroIsAmount DEF IInv, TypeOK, EndTx, Steps, NothingRead
  <2> QED
    BY <2>2, <2>5, <2>6, <2>7 DEF TypeOK
<1>5. ASSUME NEW e \in Clients PROVE Own(e)'
  <2>1. CASE e = c
    BY <1>3, <2>1 DEF Own, Shape, KeyNew, Fit, Current
  <2>2. CASE e # c
    <3>1. /\ pc'[e] = pc[e] /\ mv'[e] = mv[e] /\ rows'[e] = rows[e]
          /\ made'[e] = made[e] /\ read'[e] = read[e]
      BY <1>3, <2>2
    <3>2. Own(e) /\ Apart(c, e)
      BY <2>2 DEF IInv
    <3>3. Shape(e)' /\ Fit(e)'
      BY <3>1, <3>2 DEF Own, Shape, Fit
    <3>4. KeyNew(e)'
      <4>1. HoldsKey(c)
        BY <1>2 DEF HoldsKey
      <4>2. PostedKeys(ledger') \subseteq PostedKeys(ledger) \cup ({m.key} \ {NoKey})
        BY <1>1, PostedAfterAppend DEF IInv, TypeOK
      <4>3. HoldsKey(e) => mv[e].key \notin {m.key} \ {NoKey}
        BY <1>1, <3>2, <4>1 DEF Apart
      <4> QED
        BY <3>1, <3>2, <4>2, <4>3 DEF Own, KeyNew, HoldsKey, PostedKeys
    <3>5. Current(e)'
      <4>1. ASSUME NEW r \in rows[e]
            PROVE  r \notin TouchedRows(m) /\ r \notin made[c] /\ r \in Rows
        BY <1>1, <3>2 DEF Apart, IInv, TypeOK, Own, Shape
      <4>2. ASSUME NEW r \in rows[e] PROVE stock'[r] = stock[r]
        BY <1>1, <4>1
      <4> QED
        BY <1>2, <3>1, <3>2, <4>1, <4>2 DEF Own, Current
    <3> QED
      BY <3>3, <3>4, <3>5 DEF Own
  <2> QED
    BY <2>1, <2>2
<1>6. \A d, e \in Clients : d # e => Apart(d, e)'
  BY <1>3 DEF IInv, Apart, HoldsKey
<1>7. EmptyRows'
  <2>1. ASSUME NEW r \in Rows \ exists'
        PROVE  stock'[r] = Zero
    <3>1. r \notin TouchedRows(m) /\ r \notin exists
      BY <1>1, <1>2, <2>1 DEF IInv, Own, Current
    <3> QED
      BY <1>1, <3>1 DEF IInv, EmptyRows
  <2> QED
    BY <2>1 DEF EmptyRows
<1>8. Room'
  <2>1. Len(ledger) + Cardinality(Active') + 1 <= MaxEntries
    BY <1>2, RoomAfterEnd DEF EndTx
  <2>2. Len(ledger') = Len(ledger) + 1 /\ Len(ledger) \in Nat
    BY <1>1 DEF IInv, TypeOK
  <2>3. Cardinality(Active') \in Nat
    <3>1. Active' \in SUBSET Clients
      BY DEF Active
    <3> QED
      BY <3>1, TxAssumption, FS_Subset, FS_CardinalityType DEF TxAssumption
  <2> QED
    BY <2>1, <2>2, <2>3, TxAssumption DEF Room, TxAssumption
<1> QED
  BY <1>4, <1>5, <1>6, <1>7, <1>8 DEF IInv

LEMMA InvNext == IInv /\ [Next]_vars => IInv'
<1> SUFFICES ASSUME IInv, [Next]_vars PROVE IInv'
  OBVIOUS
<1>1. CASE UNCHANGED vars
  BY <1>1 DEF IInv, TypeOK, Own, Shape, KeyNew, Fit, Current, Apart, HoldsKey,
              EmptyRows, Room, Active, PostedKeys, vars
<1>2. ASSUME NEW c \in Clients, NEW m \in Movements, Begin(c, m) PROVE IInv'
  BY <1>2, BeginKeeps
<1>3. ASSUME NEW c \in Clients, Advance(c) PROVE IInv'
  BY <1>3, LockKeyKeeps, FindKeyKeeps, CheckItemKeeps, SelectRowKeeps,
     InsertRowKeeps, WriteKeeps, CommitKeeps DEF Advance
<1>4. ASSUME NEW c \in Clients, Crash(c) PROVE IInv'
  BY <1>4, EndKeeps DEF Crash
<1> QED
  BY <1>1, <1>2, <1>3, <1>4 DEF Next

LEMMA Invariance == Spec => []IInv
BY InvInit, InvNext, PTL DEF Spec

-----------------------------------------------------------------------------
(* Whatever the interleaving, the tables hold balances that are numbers    *)
(* from zero up and entries that are movements with their balances before  *)
(* and after, and every request is at one of its statements.               *)
THEOREM TxTypeCorrect == Spec => []TypeOK
<1>1. IInv => TypeOK
  BY DEF IInv
<1> QED
  BY <1>1, Invariance, PTL

(* No request writes a balance row between the moment another has locked   *)
(* and read it and the moment that other commits (SELECT ... FOR UPDATE,   *)
(* and the INSERT of a missing row).                                       *)
THEOREM TxReadIsCurrent == Spec => []ReadIsCurrent
<1>1. IInv => ReadIsCurrent
  BY DEF IInv, Own, Current, ReadIsCurrent
<1> QED
  BY <1>1, Invariance, PTL

-----------------------------------------------------------------------------
LEMMA InitRefines == Init => Atomic!Init
BY DEF Init, Atomic!Init, Rows, Atomic!Rows, BatchRefs, Atomic!BatchRefs,
       Zero, Atomic!Zero

(* A statement before COMMIT, and the end of a transaction, change nothing *)
(* that is committed.                                                      *)
LEMMA QuietSteps ==
  ASSUME NEW c \in Clients,
         \/ \E m \in Movements : Begin(c, m)
         \/ Advance(c) /\ ~Commit(c)
         \/ Crash(c)
  PROVE  UNCHANGED <<stock, ledger>>
BY DEF Begin, Advance, Crash, LockKey, FindKey, CheckItem, SelectRow, InsertRow,
       Write, dbVars

(* A commit is a posting of the atomic ledger.                             *)
LEMMA CommitRefines ==
  ASSUME IInv, NEW c \in Clients, Commit(c)
  PROVE  \E m \in Movements : Atomic!Post(m)
<1>1. PICK m \in Movements :
        /\ m = mv[c]
        /\ m.key \notin PostedKeys(ledger)
        /\ m.batch # NoBatch <=> m.item \in Tracked
        /\ \A r \in TouchedRows(m) : Allowed(stock[r], m)
        /\ stock' = [r \in Rows |-> IF r \in TouchedRows(m)
                                    THEN After(stock[r], m) ELSE stock[r]]
        /\ ledger' = Append(ledger, LedgerEntry(m, stock[AggregateRow(m)]))
  BY CommitFacts
<1>2. Len(ledger) < MaxEntries
  <2>1. Len(ledger) + Cardinality(Active') + 1 <= MaxEntries
    BY RoomAfterEnd DEF Commit, EndTx
  <2>2. Cardinality(Active') \in Nat /\ Len(ledger) \in Nat
    <3>1. Active' \in SUBSET Clients
      BY DEF Active
    <3> QED
      BY <3>1, TxAssumption, FS_Subset, FS_CardinalityType
      DEF TxAssumption, IInv, TypeOK
  <2> QED
    BY <2>1, <2>2, TxAssumption DEF TxAssumption
<1>3. Atomic!BatchUse(m)
  BY <1>1 DEF Atomic!BatchUse
<1>4. Atomic!PostedKeys(ledger) = PostedKeys(ledger)
  BY DEF PostedKeys, Atomic!PostedKeys
<1>5. Atomic!TouchedRows(m) = TouchedRows(m) /\ Atomic!Rows = Rows
  BY DEF TouchedRows, AggregateRow, BatchRow, Atomic!TouchedRows,
         Atomic!AggregateRow, Atomic!BatchRow, Rows, Atomic!Rows, BatchRefs,
         Atomic!BatchRefs
<1>6. \A r \in Atomic!TouchedRows(m) : Atomic!Allowed(stock[r], m)
  BY <1>1, <1>5 DEF Allowed, After, Atomic!Allowed, Atomic!After
<1>7. stock' = [r \in Atomic!Rows |-> IF r \in Atomic!TouchedRows(m)
                                     THEN Atomic!After(stock[r], m)
                                     ELSE stock[r]]
  BY <1>1, <1>5 DEF After, Atomic!After
<1>8. ledger' = Append(ledger, Atomic!LedgerEntry(m, stock[Atomic!AggregateRow(m)]))
  BY <1>1
  DEF LedgerEntry, After, AggregateRow, Atomic!LedgerEntry, Atomic!After,
              Atomic!AggregateRow
<1> QED
  BY <1>1, <1>2, <1>3, <1>4, <1>6, <1>7, <1>8 DEF Atomic!Post

LEMMA StepRefines ==
  IInv /\ [Next]_vars => [Atomic!Posting]_(Atomic!vars)
<1> SUFFICES ASSUME IInv, [Next]_vars
             PROVE  Atomic!Posting \/ UNCHANGED <<stock, ledger>>
  BY DEF Atomic!vars
<1>1. CASE UNCHANGED vars
  BY <1>1 DEF vars
<1>2. ASSUME NEW c \in Clients, Commit(c)
      PROVE  Atomic!Posting
  <2>1. Atomic!Movements = Movements
    BY DEF Movements, Atomic!Movements, MovementInputs, Atomic!MovementInputs,
           ValidMovement, Atomic!ValidMovement, BatchRefs, Atomic!BatchRefs,
           KeyRefs, Atomic!KeyRefs, PositiveTypes, Atomic!PositiveTypes,
           NegativeTypes, Atomic!NegativeTypes
  <2> QED
    BY <1>2, <2>1, CommitRefines DEF Atomic!Posting
<1> QED
  BY <1>1, <1>2, QuietSteps DEF Next, Advance

(* However many requests interleave their statements, and wherever they    *)
(* fail, what they commit is a sequence of atomic postings.                *)
THEOREM TxSerializable == Spec => Serializable
<1>1. Init => Atomic!Init
  BY InitRefines
<1>2. IInv /\ [Next]_vars => [Atomic!Posting]_(Atomic!vars)
  BY StepRefines
<1> QED
  BY <1>1, <1>2, Invariance, PTL DEF Spec, Serializable, Atomic!FixedCatalogSpec

-----------------------------------------------------------------------------
(* The atomic ledger, with its tables and without the catalogue: what a    *)
(* posting of either specification does to them.                           *)
Tables ==
  /\ stock \in [Rows -> Amounts]
  /\ ledger \in Seq(LedgerEntries)

Booked(m) ==
  /\ m.key \notin PostedKeys(ledger)
  /\ \A r \in TouchedRows(m) : Allowed(stock[r], m)
  /\ stock' = [r \in Rows |->
                 IF r \in TouchedRows(m) THEN After(stock[r], m) ELSE stock[r]]
  /\ ledger' = Append(ledger, LedgerEntry(m, stock[AggregateRow(m)]))

(* A posting writes a balance into every row it touches.                   *)
LEMMA BookedStock ==
  ASSUME NEW m \in Movements, Tables, Booked(m)
  PROVE  /\ stock' \in [Rows -> Amounts]
         /\ \A r \in Rows : r \in TouchedRows(m) =>
              /\ stock'[r] = After(stock[r], m)
              /\ stock'[r].rsv <= stock'[r].qty
         /\ \A r \in Rows \ TouchedRows(m) : stock'[r] = stock[r]
  <1>1. \A r \in Rows : r \in TouchedRows(m) =>
           /\ After(stock[r], m) \in Amounts
           /\ After(stock[r], m).rsv <= After(stock[r], m).qty
    BY AllowedAfter DEF Tables, Booked
  <1>2. stock' = [r \in Rows |->
          IF r \in TouchedRows(m) THEN After(stock[r], m) ELSE stock[r]]
    BY DEF Booked
  <1>. QED
    BY <1>1, <1>2 DEF Tables

(* The entry a posting appends is one of the ledger's.                     *)
LEMMA BookedLedger ==
  ASSUME NEW m \in Movements, Tables, Booked(m)
  PROVE  /\ ledger' \in Seq(LedgerEntries)
         /\ Len(ledger') = Len(ledger) + 1
         /\ \A n \in 1 .. Len(ledger) : ledger'[n] = ledger[n]
         /\ ledger'[Len(ledger) + 1] =
              LedgerEntry(m, stock[AggregateRow(m)])
  <1>1. /\ AggregateRow(m) \in Rows
        /\ AggregateRow(m) \in TouchedRows(m)
    BY MovementFields DEF TouchedRows
  <1>2. stock[AggregateRow(m)] \in Amounts
    BY <1>1 DEF Tables
  <1>3. Allowed(stock[AggregateRow(m)], m)
    BY <1>1 DEF Booked
  <1>4. After(stock[AggregateRow(m)], m) \in Amounts
    BY <1>2, <1>3, AllowedAfter
  <1>5. LedgerEntry(m, stock[AggregateRow(m)]) \in LedgerEntries
    BY <1>2, <1>4 DEF LedgerEntry, LedgerEntries
  <1>6. ledger \in Seq(LedgerEntries)
    BY DEF Tables
  <1>7. ledger' = Append(ledger, LedgerEntry(m, stock[AggregateRow(m)]))
    BY DEF Booked
  <1>. QED
    BY <1>5, <1>6, <1>7, AppendProperties

(* The properties of the ledger, over one posting.                         *)
LEMMA BookedReserved ==
  ASSUME NEW m \in Movements, Tables, ReservedCovered, Booked(m)
  PROVE  ReservedCovered'
  <1> SUFFICES ASSUME NEW r \in Rows PROVE stock'[r].rsv <= stock'[r].qty
    BY DEF ReservedCovered
  <1>1. CASE r \in TouchedRows(m)
    BY <1>1, BookedStock
  <1>2. CASE r \notin TouchedRows(m)
    BY <1>2, BookedStock DEF ReservedCovered
  <1>. QED
    BY <1>1, <1>2

LEMMA BookedKeys ==
  ASSUME NEW m \in Movements, Tables, KeyPostedOnce, Booked(m)
  PROVE  KeyPostedOnce'
  <1> DEFINE last == Len(ledger) + 1
  <1>0. Len(ledger) \in Nat /\ DOMAIN ledger = 1 .. Len(ledger)
    BY DEF Tables
  <1>1. DOMAIN ledger' = 1 .. last
    BY <1>0, BookedLedger
  <1>a. ledger'[last] = LedgerEntry(m, stock[AggregateRow(m)])
    BY BookedLedger
  <1>2. ledger'[last].movement = m
    BY <1>a DEF LedgerEntry
  <1>3. \A n \in 1 .. Len(ledger) : ledger'[n] = ledger[n]
    BY BookedLedger
  <1>4. \A n \in 1 .. Len(ledger) :
          ledger[n].movement.key = m.key => m.key = NoKey
    BY <1>0 DEF Booked, PostedKeys
  <1> SUFFICES ASSUME NEW j \in 1 .. last, NEW k \in 1 .. last,
                      ledger'[j].movement.key = ledger'[k].movement.key,
                      ledger'[j].movement.key # NoKey
               PROVE  j = k
    BY <1>1 DEF KeyPostedOnce
  <1>5. CASE j = last /\ k # last
    <2>1. k \in 1 .. Len(ledger)
      BY <1>0, <1>5
    <2>. QED
      BY <2>1, <1>2, <1>3, <1>4, <1>5
  <1>6. CASE j # last /\ k = last
    <2>1. j \in 1 .. Len(ledger)
      BY <1>0, <1>6
    <2>. QED
      BY <2>1, <1>2, <1>3, <1>4, <1>6
  <1>7. CASE j # last /\ k # last
    <2>1. j \in 1 .. Len(ledger) /\ k \in 1 .. Len(ledger)
      BY <1>0, <1>7
    <2>. QED
      BY <2>1, <1>0, <1>3 DEF KeyPostedOnce
  <1>. QED
    BY <1>5, <1>6, <1>7
-----------------------------------------------------------------------------
(* An aggregate row that a movement touches is its aggregate row.          *)
LEMMA TouchedAggregate ==
  ASSUME NEW m \in Movements, NEW r \in Rows, r.batch = NoBatch,
         r # AggregateRow(m)
  PROVE  r \notin TouchedRows(m)
  <1>1. CASE m.batch = NoBatch
    BY <1>1 DEF TouchedRows, AggregateRow, BatchRow
  <1>2. CASE m.batch # NoBatch
    BY <1>2 DEF TouchedRows, AggregateRow, BatchRow
  <1>. QED
    BY <1>1, <1>2

(* A posting keeps the trail unbroken: the new entry starts at the         *)
(* balance, where the last entry of the row ended, and ends at the new     *)
(* balance.                                                                *)
LEMMA BookedTrail ==
  ASSUME NEW m \in Movements, Tables, TrailUnbroken, Booked(m)
  PROVE  TrailUnbroken'
  <1> DEFINE R == AggregateRow(m)
  <1>0. PICK N \in Nat : N = Len(ledger)
    BY DEF Tables
  <1>1. /\ N \in Nat
        /\ DOMAIN ledger = 1 .. N
        /\ \A n \in 1 .. N : ledger[n] \in LedgerEntries
    BY <1>0 DEF Tables
  <1>2. /\ Len(ledger') = N + 1
        /\ DOMAIN ledger' = 1 .. N + 1
        /\ \A n \in 1 .. N : ledger'[n] = ledger[n]
    BY <1>0, <1>1, BookedLedger
  <1>3. ledger'[N + 1] = LedgerEntry(m, stock[R])
    BY <1>0, BookedLedger
  <1>4. /\ ledger'[N + 1].movement = m
        /\ ledger'[N + 1].before = stock[R]
        /\ ledger'[N + 1].after = After(stock[R], m)
    BY <1>3 DEF LedgerEntry
  <1>5. R \in Rows /\ R.batch = NoBatch /\ R \in TouchedRows(m)
    BY MovementFields DEF TouchedRows, AggregateRow
  <1>6. stock'[R] = After(stock[R], m)
    BY <1>5, BookedStock
  <1>7. \A r \in Rows : r.batch = NoBatch /\ r # R => stock'[r] = stock[r]
    BY TouchedAggregate, BookedStock
  <1>8. \A n \in 1 .. N : /\ AggregateRow(ledger[n].movement) \in Rows
                          /\ AggregateRow(ledger[n].movement).batch = NoBatch
    BY <1>1, MovementFields DEF LedgerEntries, AggregateRow
  <1>9. \A n \in 1 .. N : Earlier(n)' = Earlier(n)
    BY <1>2, <1>1 DEF Earlier, IsEntryOf
  <1>10. Earlier(N + 1)' =
           {k \in 1 .. N : AggregateRow(ledger[k].movement) = R}
    <2>1. AggregateRow(ledger'[N + 1].movement) = R
      BY <1>4
    <2>2. (N + 1) - 1 = N
      BY <1>1
    <2>3. Earlier(N + 1)' =
            {k \in 1 .. (N + 1) - 1 : AggregateRow(ledger'[k].movement) = R}
      BY <2>1 DEF Earlier, IsEntryOf
    <2>. QED
      BY <1>2, <2>2, <2>3
  <1>11. ASSUME NEW n \in 1 .. N
         PROVE  /\ Earlier(n)' = {} => ledger'[n].before = Zero
                /\ \A k \in Earlier(n)' :
                     (\A j \in Earlier(n)' : j <= k) =>
                       ledger'[n].before = ledger'[k].after
    <2>1. \A k \in Earlier(n) : k \in 1 .. N
      BY <1>1 DEF Earlier
    <2>2. /\ Earlier(n) = {} => ledger[n].before = Zero
          /\ \A k \in Earlier(n) :
               (\A j \in Earlier(n) : j <= k) =>
                 ledger[n].before = ledger[k].after
      BY <1>1 DEF TrailUnbroken
    <2>3. Earlier(n)' = Earlier(n) /\ ledger'[n] = ledger[n]
      BY <1>2, <1>9
    <2>4. \A k \in Earlier(n) : ledger'[k] = ledger[k]
      BY <1>2, <2>1
    <2>. QED
      BY <2>2, <2>3, <2>4
  <1>12. ASSUME NEW n \in 1 .. N, Later(n)' = {}
         PROVE  stock'[AggregateRow(ledger[n].movement)] = ledger[n].after
    <2>1. AggregateRow(ledger[n].movement) # R
      <3> SUFFICES ASSUME AggregateRow(ledger[n].movement) = R PROVE FALSE
        OBVIOUS
      <3>1. N + 1 \in Later(n)'
        BY <1>1, <1>2, <1>4 DEF Later, IsEntryOf
      <3>. QED
        BY <3>1, <1>12
    <2>2. Later(n) \subseteq Later(n)'
      BY <1>1, <1>2 DEF Later, IsEntryOf
    <2>3. stock[AggregateRow(ledger[n].movement)] = ledger[n].after
      BY <1>1, <1>12, <2>2 DEF TrailUnbroken
    <2>. QED
      BY <1>7, <1>8, <2>1, <2>3
  <1>13. Earlier(N + 1)' = {} => ledger'[N + 1].before = Zero
    <2> SUFFICES ASSUME Earlier(N + 1)' = {} PROVE stock[R] = Zero
      BY <1>4
    <2>1. Unwritten(R)
      BY <1>1, <1>5, <1>10 DEF Unwritten, IsEntryOf
    <2>. QED
      BY <1>5, <2>1 DEF TrailUnbroken
  <1>14. ASSUME NEW k \in Earlier(N + 1)',
                \A j \in Earlier(N + 1)' : j <= k
         PROVE  ledger'[N + 1].before = ledger'[k].after
    <2>1. k \in 1 .. N /\ AggregateRow(ledger[k].movement) = R
      BY <1>10, <1>14 DEF IsEntryOf
    <2>2. Later(k) = {}
      BY <1>1, <1>10, <1>14, <2>1 DEF Later, IsEntryOf
    <2>3. stock[R] = ledger[k].after
      BY <1>1, <2>1, <2>2 DEF TrailUnbroken
    <2>. QED
      BY <1>2, <1>4, <2>1, <2>3
  <1>15. ASSUME NEW r \in Rows, Unwritten(r)' PROVE stock'[r] = Zero
    <2>1. r # R
      BY <1>1, <1>2, <1>4, <1>15 DEF Unwritten, IsEntryOf
    <2>2. Unwritten(r)
      BY <1>1, <1>2, <1>15 DEF Unwritten, IsEntryOf
    <2>. QED
      BY <1>7, <2>1, <2>2 DEF TrailUnbroken, Unwritten
  <1>16. ASSUME NEW n \in DOMAIN ledger'
         PROVE  /\ Earlier(n)' = {} => ledger'[n].before = Zero
                /\ \A k \in Earlier(n)' :
                     (\A j \in Earlier(n)' : j <= k) =>
                       ledger'[n].before = ledger'[k].after
                /\ Later(n)' = {} =>
                     stock'[AggregateRow(ledger'[n].movement)] = ledger'[n].after
    <2>1. CASE n \in 1 .. N
      BY <1>2, <1>11, <1>12, <2>1
    <2>2. CASE n = N + 1
      BY <1>4, <1>6, <1>13, <1>14, <2>2
    <2>. QED
      BY <1>1, <1>2, <2>1, <2>2
  <1>. QED
    BY <1>15, <1>16 DEF TrailUnbroken

-----------------------------------------------------------------------------
(* Sums over finite sets.  SumFunctionOnSet adds in an order of its own;   *)
(* what follows, by induction on the size of the set, is that the order    *)
(* does not matter.  The induction is that of the least counterexample:    *)
(* every non-empty set of naturals has a least element.                    *)
LEMMA LeastNatural ==
  ASSUME NEW T \in SUBSET Nat, T # {}
  PROVE  \E x \in T : \A y \in T : x <= y
<1> DEFINE R == {ss \in Nat \X Nat : ss[1] < ss[2]}
<1>1. IsWellFoundedOn(R, Nat)
  BY NatLessThanWellFounded DEF OpToRel
<1> HIDE DEF R
<1>2. PICK x \in T : \A y \in T : <<y, x>> \notin R
  BY <1>1, WFMin
<1>3. \A y \in T : ~(y < x)
  BY <1>2 DEF R
<1> QED
  BY <1>3

LEMMA SetInduction ==
  ASSUME NEW S, IsFiniteSet(S), NEW T,
         \A s \in SUBSET S : (\A r \in SUBSET s : r # s => r \in T) => s \in T
  PROVE  \A s \in SUBSET S : s \in T
<1> SUFFICES ASSUME NEW b \in SUBSET S, b \notin T PROVE FALSE
  OBVIOUS
<1>1. PICK B : B = {s \in SUBSET S : s \notin T}
  OBVIOUS
<1>2. \A s \in SUBSET S : IsFiniteSet(s) /\ Cardinality(s) \in Nat
  BY FS_Subset, FS_CardinalityType
<1>3. PICK N : N = {Cardinality(s) : s \in B}
  OBVIOUS
<1>4. N \in SUBSET Nat /\ N # {}
  BY <1>1, <1>2, <1>3
<1>7. PICK n \in N : \A k \in N : n <= k
  BY <1>4, LeastNatural
<1>5. PICK s \in B : \A r \in B : Cardinality(s) <= Cardinality(r)
  BY <1>3, <1>7
<1>6. ASSUME NEW r \in SUBSET s, r # s
      PROVE  r \in T
  <2>1. IsFiniteSet(s) /\ r \in SUBSET S
    BY <1>1, <1>2, <1>5
  <2>2. Cardinality(r) <= Cardinality(s) /\ Cardinality(r) # Cardinality(s)
    BY <1>6, <2>1, FS_Subset
  <2>3. Cardinality(r) \in Nat /\ Cardinality(s) \in Nat
    BY <1>1, <1>2, <1>5, <2>1
  <2>4. ~(Cardinality(s) <= Cardinality(r))
    BY <2>2, <2>3
  <2> QED
    BY <1>1, <1>5, <2>1, <2>4
<1> QED
  BY <1>1, <1>5, <1>6

Pick(s) == CHOOSE x \in s : TRUE

(* g sums f over the subsets of S.                                         *)
Sums(f, S, g) ==
  g = [s \in SUBSET S |-> IF s = {} THEN 0 ELSE f[Pick(s)] + g[s \ {Pick(s)}]]

LEMMA PickIn == \A s : s # {} => Pick(s) \in s
  BY DEF Pick

LEMMA SumsAgree ==
  ASSUME NEW e, NEW f, NEW R, NEW S, NEW g, NEW h, Sums(e, R, g), Sums(f, S, h),
         NEW t, t \subseteq R, t \subseteq S, IsFiniteSet(t), \A x \in t : e[x] = f[x]
  PROVE  g[t] = h[t]
<1>1. PICK T : T = {s \in SUBSET t : g[s] = h[s]}
  OBVIOUS
<1>2. ASSUME NEW s \in SUBSET t, \A r \in SUBSET s : r # s => r \in T
      PROVE  s \in T
  <2>1. s \in SUBSET R /\ s \in SUBSET S
    OBVIOUS
  <2>2. CASE s = {}
    BY <1>1, <2>1, <2>2 DEF Sums
  <2>3. CASE s # {}
    <3>1. PICK p : p = Pick(s) /\ p \in s
      BY <2>3, PickIn
    <3>2. g[s] = e[p] + g[s \ {p}] /\ h[s] = f[p] + h[s \ {p}]
      BY <2>1, <2>3, <3>1 DEF Sums
    <3>3. g[s \ {p}] = h[s \ {p}]
      BY <1>1, <1>2, <3>1
    <3> QED
      BY <1>1, <3>1, <3>2, <3>3
  <2> QED
    BY <2>2, <2>3
<1>3. \A s \in SUBSET t : s \in T
  BY <1>2, SetInduction
<1> QED
  BY <1>1, <1>3

LEMMA SumsExist ==
  ASSUME NEW S, IsFiniteSet(S), NEW f
  PROVE  \E g : Sums(f, S, g)
<1>1. PICK T : T = {s \in SUBSET S : \E g : Sums(f, s, g)}
  OBVIOUS
<1>2. ASSUME NEW s \in SUBSET S, \A r \in SUBSET s : r # s => r \in T
      PROVE  \E g : Sums(f, s, g)
  <2>1. PICK v : v = [r \in SUBSET s |-> (CHOOSE g : Sums(f, r, g))[r]]
    OBVIOUS
  <2>2. PICK g : g = [r \in SUBSET s |->
                        IF r = {} THEN 0 ELSE f[Pick(r)] + v[r \ {Pick(r)}]]
    OBVIOUS
  <2>3. ASSUME NEW r \in SUBSET s, r # s
        PROVE  v[r] = IF r = {} THEN 0 ELSE f[Pick(r)] + v[r \ {Pick(r)}]
    <3>1. PICK h : h = CHOOSE x : Sums(f, r, x)
      OBVIOUS
    <3>2. Sums(f, r, h) /\ v[r] = h[r]
      BY <1>1, <1>2, <2>1, <2>3, <3>1
    <3>3. CASE r = {}
      BY <3>2, <3>3 DEF Sums
    <3>4. CASE r # {}
      <4>1. PICK p : p = Pick(r) /\ p \in r
        BY <3>4, PickIn
      <4>2. h[r] = f[p] + h[r \ {p}]
        BY <3>2, <3>4, <4>1 DEF Sums
      <4>3. PICK k : k = CHOOSE x : Sums(f, r \ {p}, x)
        OBVIOUS
      <4>4. Sums(f, r \ {p}, k) /\ v[r \ {p}] = k[r \ {p}]
        <5>1. r \ {p} \in SUBSET s /\ r \ {p} # s
          BY <2>3, <4>1
        <5> QED
          BY <1>1, <1>2, <2>1, <4>3, <5>1
      <4>5. IsFiniteSet(r \ {p})
        BY FS_Subset
      <4>6. h[r \ {p}] = k[r \ {p}]
        BY <3>2, <4>4, <4>5, SumsAgree
      <4> QED
        BY <3>2, <3>4, <4>1, <4>2, <4>4, <4>6
    <3> QED
      BY <3>3, <3>4
  <2>4. \A r \in SUBSET s : r # {} => v[r \ {Pick(r)}] = g[r \ {Pick(r)}]
    <3> SUFFICES ASSUME NEW r \in SUBSET s, r # {}
                 PROVE  v[r \ {Pick(r)}] = g[r \ {Pick(r)}]
      OBVIOUS
    <3>1. PICK q : q = r \ {Pick(r)}
      OBVIOUS
    <3>2. q \in SUBSET s /\ q # s
      BY <3>1, PickIn
    <3> QED
      BY <2>2, <2>3, <3>1, <3>2
  <2>5. g = [r \in SUBSET s |->
              IF r = {} THEN 0 ELSE f[Pick(r)] + g[r \ {Pick(r)}]]
    BY <2>2, <2>4
  <2> QED
    BY <2>5 DEF Sums
<1>3. \A s \in SUBSET S : s \in T
  BY <1>1, <1>2, SetInduction
<1> QED
  BY <1>1, <1>3

LEMMA SumIs ==
  ASSUME NEW S, IsFiniteSet(S), NEW f
  PROVE  \E g : Sums(f, S, g) /\ SumFunctionOnSet(f, S) = g[S]
<1>1. PICK h : h = CHOOSE g : Sums(f, S, g)
  OBVIOUS
<1>2. Sums(f, S, h)
  BY <1>1, SumsExist
<1>3. SumFunctionOnSet(f, S) = h[S]
  BY <1>1 DEF SumFunctionOnSet, FoldFunctionOnSet, MapThenFoldSet, Sums, Pick
<1> QED
  BY <1>2, <1>3

(* The order in which the elements are added does not matter.              *)
LEMMA SumsTake ==
  ASSUME NEW S, IsFiniteSet(S), NEW f, NEW g, Sums(f, S, g),
         \A x \in S : f[x] \in Int
  PROVE  \A s \in SUBSET S : g[s] \in Int /\ \A x \in s : g[s] = f[x] + g[s \ {x}]
<1>1. PICK T : T = {s \in SUBSET S :
                      g[s] \in Int /\ \A x \in s : g[s] = f[x] + g[s \ {x}]}
  OBVIOUS
<1>2. ASSUME NEW s \in SUBSET S, \A r \in SUBSET s : r # s => r \in T
      PROVE  s \in T
  <2>1. CASE s = {}
    BY <1>1, <2>1 DEF Sums
  <2>2. CASE s # {}
    <3>1. PICK p : p = Pick(s) /\ p \in s
      BY <2>2, PickIn
    <3>2. g[s] = f[p] + g[s \ {p}] /\ f[p] \in Int
      BY <2>2, <3>1 DEF Sums
    <3>3. \A r \in SUBSET s : r # s =>
            g[r] \in Int /\ \A x \in r : g[r] = f[x] + g[r \ {x}]
      BY <1>1, <1>2
    <3>4. s \ {p} \in SUBSET s /\ s \ {p} # s
      BY <3>1
    <3>5. g[s] \in Int
      BY <3>2, <3>3, <3>4
    <3>6. ASSUME NEW x \in s, x # p
          PROVE  g[s] = f[x] + g[s \ {x}]
      <4>1. PICK q : q = s \ {p, x}
        OBVIOUS
      <4>2. /\ (s \ {p}) \ {x} = q /\ (s \ {x}) \ {p} = q
            /\ s \ {x} \in SUBSET s /\ s \ {x} # s
            /\ q \in SUBSET s /\ q # s
        BY <3>1, <3>6, <4>1
      <4>3. g[s \ {p}] = f[x] + g[q]
        BY <3>3, <3>4, <3>6, <4>2
      <4>4. g[s \ {x}] = f[p] + g[q]
        <5>1. p \in s \ {x}
          BY <3>1, <3>6
        <5>2. g[s \ {x}] = f[p] + g[(s \ {x}) \ {p}]
          BY <3>3, <4>2, <5>1
        <5> QED
          BY <4>2, <5>2
      <4>5. g[q] \in Int /\ f[x] \in Int /\ g[s \ {p}] \in Int /\ g[s \ {x}] \in Int
        BY <3>3, <3>4, <4>2
      <4> QED
        BY <3>2, <4>3, <4>4, <4>5
    <3>7. \A x \in s : g[s] = f[x] + g[s \ {x}]
      BY <3>1, <3>2, <3>6
    <3> QED
      BY <1>1, <3>5, <3>7
  <2> QED
    BY <2>1, <2>2
<1>3. \A s \in SUBSET S : s \in T
  BY <1>2, SetInduction
<1> QED
  BY <1>1, <1>3

(* What is used of sums elsewhere.                                         *)
LEMMA SumEmpty == \A f : SumFunctionOnSet(f, {}) = 0
<1> SUFFICES ASSUME NEW f PROVE SumFunctionOnSet(f, {}) = 0
  OBVIOUS
<1>1. PICK g : Sums(f, {}, g) /\ SumFunctionOnSet(f, {}) = g[{}]
  BY SumIs, FS_EmptySet
<1> QED
  BY <1>1 DEF Sums

LEMMA SumSame ==
  ASSUME NEW S, IsFiniteSet(S), NEW f, NEW h, \A x \in S : f[x] = h[x]
  PROVE  SumFunctionOnSet(f, S) = SumFunctionOnSet(h, S)
<1>1. PICK g : Sums(f, S, g) /\ SumFunctionOnSet(f, S) = g[S]
  BY SumIs
<1>2. PICK k : Sums(h, S, k) /\ SumFunctionOnSet(h, S) = k[S]
  BY SumIs
<1> QED
  BY <1>1, <1>2, SumsAgree

LEMMA SumTake ==
  ASSUME NEW S, IsFiniteSet(S), NEW f, \A x \in S : f[x] \in Int
  PROVE  /\ SumFunctionOnSet(f, S) \in Int
         /\ \A x \in S : SumFunctionOnSet(f, S) = f[x] + SumFunctionOnSet(f, S \ {x})
<1>1. PICK g : Sums(f, S, g) /\ SumFunctionOnSet(f, S) = g[S]
  BY SumIs
<1>2. g[S] \in Int /\ \A x \in S : g[S] = f[x] + g[S \ {x}]
  <2>0. Sums(f, S, g) /\ \A x \in S : f[x] \in Int
    BY <1>1
  <2>1. \A s \in SUBSET S : g[s] \in Int /\ \A x \in s : g[s] = f[x] + g[s \ {x}]
    <3> SUFFICES ASSUME NEW s \in SUBSET S
                 PROVE  g[s] \in Int /\ \A x \in s : g[s] = f[x] + g[s \ {x}]
      OBVIOUS
    <3>1. g[s] \in Int
      BY <2>0, SumsTake
    <3>2. ASSUME NEW x \in s PROVE g[s] = f[x] + g[s \ {x}]
      BY <2>0, SumsTake
    <3> QED
      BY <3>1, <3>2
  <2> QED
    BY <2>1
<1>3. ASSUME NEW x \in S
      PROVE  SumFunctionOnSet(f, S \ {x}) = g[S \ {x}]
  <2>1. IsFiniteSet(S \ {x})
    BY FS_Subset
  <2>2. PICK k : Sums(f, S \ {x}, k) /\ SumFunctionOnSet(f, S \ {x}) = k[S \ {x}]
    BY <2>1, SumIs
  <2> QED
    BY <1>1, <2>1, <2>2, SumsAgree
<1> QED
  BY <1>1, <1>2, <1>3

LEMMA SumChange ==
  ASSUME NEW S, IsFiniteSet(S), NEW x \in S, NEW f, NEW h,
         \A y \in S : f[y] \in Int /\ h[y] \in Int,
         \A y \in S \ {x} : f[y] = h[y]
  PROVE  /\ SumFunctionOnSet(f, S) \in Int
         /\ SumFunctionOnSet(h, S) = SumFunctionOnSet(f, S) - f[x] + h[x]
<1>1. IsFiniteSet(S \ {x})
  BY FS_Subset
<1>2. SumFunctionOnSet(f, S \ {x}) = SumFunctionOnSet(h, S \ {x})
  BY <1>1, SumSame
<1>3. SumFunctionOnSet(f, S \ {x}) \in Int
  BY <1>1, SumTake
<1>4. /\ SumFunctionOnSet(f, S) = f[x] + SumFunctionOnSet(f, S \ {x})
      /\ SumFunctionOnSet(f, S) \in Int
  BY SumTake
<1>5. SumFunctionOnSet(h, S) = h[x] + SumFunctionOnSet(h, S \ {x})
  BY SumTake
<1> QED
  BY <1>2, <1>3, <1>4, <1>5

LEMMA SumAdd ==
  ASSUME NEW S, IsFiniteSet(S), NEW x, x \notin S, NEW f, NEW h,
         \A y \in S : f[y] \in Int /\ h[y] = f[y], h[x] \in Int
  PROVE  /\ SumFunctionOnSet(f, S) \in Int
         /\ SumFunctionOnSet(h, S \cup {x}) = SumFunctionOnSet(f, S) + h[x]
<1>1. PICK T : T = S \cup {x}
  OBVIOUS
<1>2. IsFiniteSet(T) /\ x \in T /\ T \ {x} = S /\ \A y \in T : h[y] \in Int
  BY <1>1, FS_AddElement
<1>3. SumFunctionOnSet(h, T) = h[x] + SumFunctionOnSet(h, T \ {x})
  BY <1>2, SumTake
<1>4. SumFunctionOnSet(h, S) = SumFunctionOnSet(f, S)
  BY SumSame
<1>5. SumFunctionOnSet(f, S) \in Int
  BY SumTake
<1>6. SumFunctionOnSet(h, T) = h[x] + SumFunctionOnSet(f, S)
  BY <1>2, <1>3, <1>4
<1> QED
  BY <1>1, <1>5, <1>6

LEMMA SumZero ==
  ASSUME NEW S, IsFiniteSet(S), NEW f, \A x \in S : f[x] = 0
  PROVE  SumFunctionOnSet(f, S) = 0
<1>1. PICK g : Sums(f, S, g) /\ SumFunctionOnSet(f, S) = g[S]
  BY SumIs
<1>2. PICK z : z = [s \in SUBSET S |-> 0]
  OBVIOUS
<1>3. \A s \in SUBSET S : s # {} => f[Pick(s)] = 0
  BY PickIn
<1>4. Sums(f, S, z)
  BY <1>2, <1>3 DEF Sums
<1> QED
  BY <1>1, <1>2, <1>4, SumsAgree

-----------------------------------------------------------------------------
(* Batches.  Each of the two amounts of a balance adds up, by itself.      *)
Fields == {"qty", "rsv"}

StoreRow(i, p) == [item |-> i, place |-> p, batch |-> NoBatch]

Batchless(i, p) ==
  {n \in DOMAIN ledger :
     IsEntryOf(n, StoreRow(i, p)) /\ ledger[n].movement.batch = NoBatch}

OfRows(field) == [r \in Rows |-> stock[r][field]]

OfEntries(field) == [n \in DOMAIN ledger |-> ledger[n].movement[field]]

AddsUp(field, i, p) ==
  stock[StoreRow(i, p)][field] =
    SumFunctionOnSet(OfRows(field), BatchRowsOf(i, p))
    + SumFunctionOnSet(OfEntries(field), Batchless(i, p))

LEMMA BatchRowsFinite ==
  ASSUME NEW i \in Items, NEW p \in Places
  PROVE  /\ BatchRowsOf(i, p) \subseteq Rows
         /\ IsFiniteSet(BatchRowsOf(i, p))
  <1>1. PICK T : T = {[item |-> i, place |-> p, batch |-> b] : b \in Batches}
    OBVIOUS
  <1>2. IsFiniteSet(T)
    <2>1. IsFiniteSet(Batches)
      BY MovementAssumption DEF MovementAssumption
    <2>2. PICK f : f = [b \in Batches |-> [item |-> i, place |-> p, batch |-> b]]
      OBVIOUS
    <2>3. T = {f[b] : b \in Batches}
      BY <1>1, <2>2
    <2>4. f \in Surjection(Batches, T)
      BY <2>2, <2>3 DEF Surjection
    <2>. QED
      BY <2>1, <2>4, FS_Surjection
  <1>3. BatchRowsOf(i, p) \subseteq T
    BY <1>1 DEF BatchRowsOf, Rows, BatchRefs
  <1>. QED
    BY <1>2, <1>3, FS_Subset DEF BatchRowsOf

LEMMA BatchlessFinite ==
  ASSUME Tables, NEW i, NEW p
  PROVE  Batchless(i, p) \subseteq DOMAIN ledger /\ IsFiniteSet(Batchless(i, p))
  <1>1. PICK N \in Nat : DOMAIN ledger = 1 .. N
    BY DEF Tables
  <1>2. IsFiniteSet(1 .. N)
    BY FS_Interval
  <1>. QED
    BY <1>1, <1>2, FS_Subset DEF Batchless

(* The sums of the property are these.                                     *)
LEMMA RowsSum ==
  ASSUME NEW field, NEW rs \in SUBSET Rows, IsFiniteSet(rs)
  PROVE  SumOver(field, rs) = SumFunctionOnSet(OfRows(field), rs)
  <1> DEFINE P(g) == g = [s \in SUBSET rs |->
                            IF s = {} THEN 0
                            ELSE stock[Pick(s)][field] + g[s \ {Pick(s)}]]
  <1>1. PICK h : h = CHOOSE g : P(g)
    OBVIOUS
  <1>2. PICK f : f = OfRows(field)
    OBVIOUS
  <1>3. ASSUME NEW g
        PROVE  P(g) <=> Sums(f, rs, g)
    <2>1. \A s \in SUBSET rs : s # {} => f[Pick(s)] = stock[Pick(s)][field]
      BY <1>2, PickIn DEF OfRows
    <2>. QED
      BY <2>1 DEF Sums
  <1>4. \E g : Sums(f, rs, g)
    BY SumsExist
  <1>5. P(h)
    BY <1>1, <1>3, <1>4
  <1>6. SumOver(field, rs) = h[rs]
    BY <1>1 DEF SumOver, MapThenSumSet, MapThenFoldSet, Pick
  <1>7. Sums(f, rs, h)
    BY <1>3, <1>5
  <1>8. PICK g : Sums(f, rs, g) /\ SumFunctionOnSet(f, rs) = g[rs]
    BY SumIs
  <1>. QED
    BY <1>2, <1>6, <1>7, <1>8, SumsAgree

LEMMA EntriesSum ==
  ASSUME Tables, NEW field, NEW i, NEW p
  PROVE  BookedWithoutBatch(field, i, p) =
           SumFunctionOnSet(OfEntries(field), Batchless(i, p))
  <1>0. PICK ns : ns = Batchless(i, p)
    OBVIOUS
  <1>a. ns \subseteq DOMAIN ledger /\ IsFiniteSet(ns)
    BY <1>0, BatchlessFinite
  <1> DEFINE P(g) == g = [s \in SUBSET ns |->
                            IF s = {} THEN 0
                            ELSE ledger[Pick(s)].movement[field] + g[s \ {Pick(s)}]]
  <1>1. PICK h : h = CHOOSE g : P(g)
    OBVIOUS
  <1>2. PICK f : f = OfEntries(field)
    OBVIOUS
  <1>3. ASSUME NEW g
        PROVE  P(g) <=> Sums(f, ns, g)
    <2>1. \A s \in SUBSET ns : s # {} => f[Pick(s)] = ledger[Pick(s)].movement[field]
      BY <1>a, <1>2, PickIn DEF OfEntries
    <2>. QED
      BY <2>1 DEF Sums
  <1>4. \E g : Sums(f, ns, g)
    BY <1>a, SumsExist
  <1>5. P(h)
    BY <1>1, <1>3, <1>4
  <1>6. BookedWithoutBatch(field, i, p) = h[ns]
    BY <1>0, <1>1
    DEF BookedWithoutBatch, MapThenSumSet, MapThenFoldSet, Pick, Batchless,
        StoreRow
  <1>7. Sums(f, ns, h)
    BY <1>3, <1>5
  <1>8. PICK g : Sums(f, ns, g) /\ SumFunctionOnSet(f, ns) = g[ns]
    BY <1>a, SumIs
  <1>. QED
    BY <1>0, <1>2, <1>6, <1>7, <1>8, <1>a, SumsAgree

(* One delta is written into the row of the store and either into the row  *)
(* of a batch or into an entry without a batch.                            *)
LEMMA BookedAddsUp ==
  ASSUME NEW m \in Movements, Tables, Booked(m), NEW field \in Fields,
         NEW i \in Items, NEW p \in Places, AddsUp(field, i, p)
  PROVE  AddsUp(field, i, p)'
  <1>1. PICK R, B, W, x : /\ R = StoreRow(i, p) /\ B = BatchRowsOf(i, p)
                          /\ W = Batchless(i, p) /\ x = BatchRow(m)
    OBVIOUS
  <1>2. PICK sb, sc, lb, lc : /\ sb = OfRows(field) /\ sc = OfRows(field)'
                              /\ lb = OfEntries(field) /\ lc = OfEntries(field)'
    OBVIOUS
  <1>3. PICK N \in Nat : N = Len(ledger) /\ DOMAIN ledger = 1 .. N
    BY DEF Tables
  <1>4. /\ DOMAIN ledger' = 1 .. N + 1
        /\ \A n \in 1 .. N : ledger'[n] = ledger[n]
        /\ ledger'[N + 1].movement = m
        /\ \A n \in 1 .. N : ledger[n].movement \in Movements
    <2>1. ledger' \in Seq(LedgerEntries) /\ Len(ledger') = N + 1
          /\ ledger'[N + 1] = LedgerEntry(m, stock[AggregateRow(m)])
          /\ \A n \in 1 .. N : ledger'[n] = ledger[n]
      BY <1>3, BookedLedger
    <2>2. \A n \in 1 .. N : ledger[n] \in LedgerEntries
      BY <1>3 DEF Tables
    <2>. QED
      BY <2>1, <2>2 DEF LedgerEntry, LedgerEntries
  <1>5. /\ R \in Rows /\ R.item = i /\ R.place = p /\ R.batch = NoBatch
        /\ \A r \in B : /\ r.item = i /\ r.place = p /\ r.batch # NoBatch
                        /\ r \in Rows
        /\ IsFiniteSet(B) /\ W \subseteq 1 .. N /\ IsFiniteSet(W)
    BY <1>1, <1>3, BatchRowsFinite, BatchlessFinite
    DEF StoreRow, Rows, BatchRefs, BatchRowsOf
  <1>6. m[field] \in Int /\ m \in MovementInputs
    BY MovementFields DEF Fields
  <1>7. \A r \in Rows : stock[r][field] \in Nat /\ stock'[r][field] \in Nat
    BY BookedStock DEF Tables, Amounts, Fields
  <1>8. \A r \in TouchedRows(m) : stock'[r][field] = stock[r][field] + m[field]
    <2> SUFFICES ASSUME NEW r \in TouchedRows(m)
                 PROVE  stock'[r][field] = stock[r][field] + m[field]
      OBVIOUS
    <2>1. r \in Rows
      BY MovementFields
    <2>2. stock'[r] = After(stock[r], m)
      BY <2>1, BookedStock
    <2>3. CASE field = "qty"
      BY <2>2, <2>3 DEF After
    <2>4. CASE field = "rsv"
      BY <2>2, <2>4 DEF After
    <2>. QED
      BY <2>3, <2>4 DEF Fields
  <1>9. \A r \in Rows : /\ sb[r] = stock[r][field] /\ sc[r] = stock'[r][field]
                        /\ r \notin TouchedRows(m) => sc[r] = sb[r]
    BY <1>2, BookedStock DEF OfRows
  <1>10. /\ \A n \in 1 .. N : lb[n] = ledger[n].movement[field] /\ lc[n] = lb[n]
                              /\ lb[n] \in Int
         /\ lc[N + 1] = m[field]
    <2>1. \A n \in 1 .. N : ledger[n].movement[field] \in Int
      BY <1>4, MovementFields DEF Fields
    <2>. QED
      BY <1>2, <1>3, <1>4, <2>1 DEF OfEntries
  <1>11. /\ BatchRowsOf(i, p)' = B /\ StoreRow(i, p)' = R
         /\ stock[R][field] = SumFunctionOnSet(sb, B) + SumFunctionOnSet(lb, W)
    BY <1>1, <1>2 DEF BatchRowsOf, StoreRow, AddsUp
  <1>12. PICK V : V = Batchless(i, p)'
    OBVIOUS
  <1>13. V = W \cup (IF AggregateRow(m) = R /\ m.batch = NoBatch
                        THEN {N + 1} ELSE {})
    BY <1>1, <1>3, <1>4, <1>12 DEF Batchless, IsEntryOf
  <1>14. /\ SumFunctionOnSet(sb, B) \in Int /\ SumFunctionOnSet(lb, W) \in Int
         /\ SumFunctionOnSet(lc, W) = SumFunctionOnSet(lb, W)
    <2>1. \A r \in B : sb[r] \in Int
      BY <1>5, <1>7, <1>9
    <2>2. \A n \in W : lb[n] \in Int /\ lc[n] = lb[n]
      BY <1>5, <1>10
    <2>. QED
      BY <1>5, <2>1, <2>2, SumTake, SumSame
  <1>15. CASE AggregateRow(m) # R
    <2>1. R \notin TouchedRows(m) /\ \A r \in B : r \notin TouchedRows(m)
      <3>1. m.item # i \/ m.place # p
        BY <1>1, <1>15 DEF AggregateRow, StoreRow
      <3>. QED
        BY <1>5, <3>1
        DEF TouchedRows, AggregateRow, BatchRow
    <2>2. stock'[R][field] = stock[R][field]
      BY <1>5, <1>9, <2>1
    <2>3. SumFunctionOnSet(sc, B) = SumFunctionOnSet(sb, B)
      BY <1>5, <1>9, <2>1, SumSame
    <2>4. V = W
      BY <1>13, <1>15
    <2>. QED
      BY <1>2, <1>11, <1>12, <1>14, <2>2, <2>3, <2>4 DEF AddsUp
  <1>16. CASE AggregateRow(m) = R /\ m.batch = NoBatch
    <2>1. TouchedRows(m) = {R}
      BY <1>16 DEF TouchedRows, BatchRow, AggregateRow
    <2>2. stock'[R][field] = stock[R][field] + m[field]
      BY <1>8, <2>1
    <2>3. SumFunctionOnSet(sc, B) = SumFunctionOnSet(sb, B)
      BY <1>5, <1>9, <2>1, SumSame
    <2>4. V = W \cup {N + 1} /\ N + 1 \notin W
      BY <1>3, <1>5, <1>13, <1>16
    <2>5. SumFunctionOnSet(lc, V) = SumFunctionOnSet(lb, W) + m[field]
      <3>1. \A n \in W : lb[n] \in Int /\ lc[n] = lb[n]
        BY <1>5, <1>10
      <3>2. lc[N + 1] \in Int
        BY <1>6, <1>10
      <3>3. SumFunctionOnSet(lc, W \cup {N + 1}) = SumFunctionOnSet(lb, W) + lc[N + 1]
        <4>1. IsFiniteSet(W) /\ N + 1 \notin W
          BY <1>5, <2>4
        <4>. QED
          BY ONLY <3>1, <3>2, <4>1, SumAdd
      <3>. QED
        BY <1>10, <2>4, <3>3
    <2>6. stock'[R][field] = SumFunctionOnSet(sc, B) + SumFunctionOnSet(lc, V)
      BY <1>6, <1>11, <1>14, <2>2, <2>3, <2>5
    <2>. QED
      BY <1>2, <1>11, <1>12, <2>6 DEF AddsUp
  <1>17. CASE AggregateRow(m) = R /\ m.batch # NoBatch
    <2>1. /\ TouchedRows(m) = {R, x} /\ x \in B
      <3>1. m.item = i /\ m.place = p
        BY <1>1, <1>17 DEF AggregateRow, StoreRow
      <3>2. x \in Rows
        BY <1>1, MovementFields
      <3>. QED
        BY <1>1, <1>17, <3>1, <3>2
        DEF TouchedRows, BatchRow, BatchRowsOf
    <2>2. stock'[R][field] = stock[R][field] + m[field]
      BY <1>8, <2>1
    <2>3. sc[x] = sb[x] + m[field] /\ sb[x] \in Int
      BY <1>5, <1>7, <1>8, <1>9, <2>1
    <2>4. \A r \in B \ {x} : sc[r] = sb[r]
      BY <1>5, <1>9, <2>1
    <2>5. \A r \in B : sb[r] \in Int /\ sc[r] \in Int
      BY <1>5, <1>7, <1>9
    <2>6. SumFunctionOnSet(sc, B) = SumFunctionOnSet(sb, B) - sb[x] + sc[x]
      BY <1>5, <2>1, <2>4, <2>5, SumChange
    <2>7. SumFunctionOnSet(sc, B) = SumFunctionOnSet(sb, B) + m[field]
      BY <1>6, <1>14, <2>3, <2>6
    <2>8. V = W
      BY <1>13, <1>17
    <2>9. stock'[R][field] = SumFunctionOnSet(sc, B) + SumFunctionOnSet(lc, V)
      BY <1>6, <1>11, <1>14, <2>2, <2>7, <2>8
    <2>. QED
      BY <1>2, <1>11, <1>12, <2>9 DEF AddsUp
  <1>. QED
    BY <1>15, <1>16, <1>17

AllAddUp == \A field \in Fields, i \in Items, p \in Places : AddsUp(field, i, p)

LEMMA AllAddUpIsBatchesAddUp ==
  ASSUME Tables, AllAddUp
  PROVE  BatchesAddUp
  <1> SUFFICES ASSUME NEW i \in Items, NEW p \in Places, NEW field \in Fields
               PROVE  stock[StoreRow(i, p)][field] =
                        SumOver(field, BatchRowsOf(i, p))
                        + BookedWithoutBatch(field, i, p)
    BY DEF BatchesAddUp, Fields, StoreRow
  <1>. QED
    BY BatchRowsFinite, RowsSum, EntriesSum DEF AllAddUp, AddsUp

-----------------------------------------------------------------------------
(* What holds of the tables whichever specification writes them.           *)
TablesInv ==
  /\ Tables
  /\ ReservedCovered
  /\ KeyPostedOnce
  /\ TrailUnbroken
  /\ AllAddUp

LEMMA TablesInit ==
  ASSUME stock = [r \in Rows |-> Zero], ledger = <<>>
  PROVE  TablesInv
  <1>1. Tables
    BY DEF Tables, Zero, Amounts
  <1>2. ReservedCovered /\ KeyPostedOnce
    BY DEF ReservedCovered, KeyPostedOnce, Zero
  <1>3. TrailUnbroken
    BY DEF TrailUnbroken, Unwritten
  <1>4. ASSUME NEW field \in Fields, NEW i \in Items, NEW p \in Places
        PROVE  AddsUp(field, i, p)
    <2>1. PICK B, f : B = BatchRowsOf(i, p) /\ f = OfRows(field)
      OBVIOUS
    <2>2. Batchless(i, p) = {} /\ stock[StoreRow(i, p)][field] = 0
          /\ \A r \in B : f[r] = 0
      BY <2>1
      DEF Batchless, StoreRow, Rows, BatchRefs, OfRows,
          BatchRowsOf, Zero, Fields
    <2>3. SumFunctionOnSet(f, B) = 0
      BY <2>1, <2>2, BatchRowsFinite, SumZero
    <2>. QED
      BY <2>1, <2>2, <2>3, SumEmpty DEF AddsUp
  <1>. QED
    BY <1>1, <1>2, <1>3, <1>4 DEF TablesInv, AllAddUp

LEMMA TablesStep ==
  ASSUME TablesInv,
         (\E m \in Movements : Booked(m)) \/ UNCHANGED <<stock, ledger>>
  PROVE  TablesInv'
  <1>1. ASSUME NEW m \in Movements, Booked(m)
        PROVE  TablesInv'
    <2>1. Tables'
      BY <1>1, BookedStock, BookedLedger DEF TablesInv, Tables
    <2>2. ReservedCovered' /\ KeyPostedOnce' /\ TrailUnbroken'
      BY <1>1, BookedReserved, BookedKeys, BookedTrail DEF TablesInv
    <2>3. AllAddUp'
      BY <1>1, BookedAddsUp DEF TablesInv, AllAddUp
    <2>. QED
      BY <2>1, <2>2, <2>3 DEF TablesInv
  <1>2. CASE UNCHANGED <<stock, ledger>>
    <2>1. Tables' /\ ReservedCovered' /\ KeyPostedOnce'
      BY <1>2
      DEF TablesInv, Tables, ReservedCovered, KeyPostedOnce
    <2>2. TrailUnbroken'
      BY <1>2 DEF TablesInv, TrailUnbroken, Earlier, Later,
                  Unwritten, IsEntryOf
    <2>3. AllAddUp'
      BY <1>2 DEF TablesInv, AllAddUp, AddsUp, OfRows, OfEntries, Batchless,
                  BatchRowsOf, StoreRow, IsEntryOf
    <2>. QED
      BY <2>1, <2>2, <2>3 DEF TablesInv
  <1>. QED
    BY <1>1, <1>2

-----------------------------------------------------------------------------
(* The atomic ledger, while its catalogue is edited.  Its operators on     *)
(* movements are those of this module.                                     *)
LEMMA LedgerRows ==
  /\ Ledger!Rows = Rows
  /\ Ledger!Zero = Zero
  /\ Ledger!Amounts = Amounts
  /\ Ledger!Movements = Movements
  /\ \A m : /\ Ledger!AggregateRow(m) = AggregateRow(m)
            /\ Ledger!TouchedRows(m) = TouchedRows(m)
  <1>1. Ledger!Movements = Movements
    BY DEF Movements, Ledger!Movements, MovementInputs, Ledger!MovementInputs,
           ValidMovement, Ledger!ValidMovement, BatchRefs, Ledger!BatchRefs,
           KeyRefs, Ledger!KeyRefs, PositiveTypes, Ledger!PositiveTypes,
           NegativeTypes, Ledger!NegativeTypes
  <1>. QED
    BY <1>1
    DEF Rows, Ledger!Rows, BatchRefs, Ledger!BatchRefs, Zero, Ledger!Zero, Amounts,
        Ledger!Amounts, AggregateRow, Ledger!AggregateRow, TouchedRows,
        Ledger!TouchedRows, BatchRow, Ledger!BatchRow

LEMMA LedgerInit == Ledger!Init => TablesInv /\ tracked \in SUBSET Items
  BY TablesInit, LedgerRows, TxAssumption DEF Ledger!Init, TxAssumption

LEMMA LedgerBooks == Ledger!Posting => \E m \in Movements : Booked(m)
  <1>1. Ledger!PostedKeys(ledger) = PostedKeys(ledger)
    BY DEF Ledger!PostedKeys, PostedKeys
  <1>2. \A a, m : /\ Ledger!Allowed(a, m) = Allowed(a, m)
                  /\ Ledger!After(a, m) = After(a, m)
                  /\ Ledger!LedgerEntry(m, a) = LedgerEntry(m, a)
    BY DEF Ledger!Allowed, Allowed, Ledger!After, After, Ledger!LedgerEntry,
           LedgerEntry
  <1>. QED
    BY <1>1, <1>2, LedgerRows DEF Ledger!Posting, Ledger!Post, Booked

LEMMA LedgerStep ==
  [Ledger!Next]_(Ledger!vars) =>
    (\E m \in Movements : Booked(m)) \/ UNCHANGED <<stock, ledger>>
  BY LedgerBooks DEF Ledger!Next, Ledger!UpdateItem, Ledger!vars

LEMMA LedgerTablesInv == Ledger!Spec => []TablesInv
  <1>1. TablesInv /\ [Ledger!Next]_(Ledger!vars) => TablesInv'
    BY LedgerStep, TablesStep
  <1>. QED
    BY <1>1, LedgerInit, PTL DEF Ledger!Spec

(* Every state of the ledger has its type.                                 *)
THEOREM LedgerTypeCorrect == Ledger!Spec => []Ledger!TypeOK
  <1>1. tracked \in SUBSET Items /\ [Ledger!Next]_(Ledger!vars)
          => (tracked \in SUBSET Items)'
    BY
    DEF Ledger!Next, Ledger!Posting, Ledger!Post, Ledger!UpdateItem, Ledger!vars
  <1>2. Ledger!LedgerEntries = LedgerEntries
    BY LedgerRows DEF LedgerEntries, Ledger!LedgerEntries
  <1>3. TablesInv /\ tracked \in SUBSET Items => Ledger!TypeOK
    BY <1>2, LedgerRows DEF TablesInv, Tables, Ledger!TypeOK
  <1>. QED
    BY <1>1, <1>3, LedgerInit, LedgerTablesInv, PTL DEF Ledger!Spec

(* No balance row ever has more reserved than it has on hand.              *)
THEOREM LedgerReservedCovered == Ledger!Spec => []ReservedCovered
  <1>1. TablesInv => ReservedCovered
    BY DEF TablesInv
  <1>. QED
    BY <1>1, LedgerTablesInv, PTL

(* No idempotency key is posted twice.                                     *)
THEOREM LedgerKeyPostedOnce == Ledger!Spec => []KeyPostedOnce
  <1>1. TablesInv => KeyPostedOnce
    BY DEF TablesInv
  <1>. QED
    BY <1>1, LedgerTablesInv, PTL

(* The entries of each balance are an unbroken trail that ends at it       *)
(* (insertLedgerEntry, with updateBalance).                                *)
THEOREM LedgerTrailUnbroken == Ledger!Spec => []TrailUnbroken
  <1>1. TablesInv => TrailUnbroken
    BY DEF TablesInv
  <1>. QED
    BY <1>1, LedgerTablesInv, PTL

(* What an item has at a place is what its batches have there and what was *)
(* booked there without a batch, however often the item is switched to     *)
(* batch tracking and back (postMovementWithClient writes both balances).  *)
THEOREM LedgerBatchesAddUp == Ledger!Spec => []BatchesAddUp
  <1>1. TablesInv => BatchesAddUp
    BY AllAddUpIsBatchesAddUp DEF TablesInv
  <1>. QED
    BY <1>1, LedgerTablesInv, PTL

-----------------------------------------------------------------------------
(* The same of the committed tables of the transactions, through the       *)
(* refinement; none of it mentions the catalogue.                          *)
LEMMA SameRows ==
  /\ Rows = Atomic!Rows
  /\ Zero = Atomic!Zero
  /\ Movements = Atomic!Movements
  /\ \A m : /\ AggregateRow(m) = Atomic!AggregateRow(m)
            /\ TouchedRows(m) = Atomic!TouchedRows(m)
  <1>1. Movements = Atomic!Movements
    BY DEF Movements, Atomic!Movements, MovementInputs,
           Atomic!MovementInputs, ValidMovement, Atomic!ValidMovement,
           BatchRefs, Atomic!BatchRefs, KeyRefs, Atomic!KeyRefs,
           PositiveTypes, Atomic!PositiveTypes, NegativeTypes,
           Atomic!NegativeTypes
  <1>. QED
    BY <1>1 DEF Rows, Atomic!Rows, BatchRefs, Atomic!BatchRefs,
           Zero, Atomic!Zero, AggregateRow, Atomic!AggregateRow,
           TouchedRows, Atomic!TouchedRows, BatchRow, Atomic!BatchRow

LEMMA AtomicBooks == Atomic!Posting => \E m \in Movements : Booked(m)
  <1>1. PostedKeys(ledger) = Atomic!PostedKeys(ledger)
    BY DEF PostedKeys, Atomic!PostedKeys
  <1>2. \A a, m : /\ Allowed(a, m) = Atomic!Allowed(a, m)
                  /\ After(a, m) = Atomic!After(a, m)
                  /\ LedgerEntry(m, a) = Atomic!LedgerEntry(m, a)
    BY DEF Allowed, Atomic!Allowed, After, Atomic!After,
           LedgerEntry, Atomic!LedgerEntry
  <1>. QED
    BY <1>1, <1>2, SameRows DEF Atomic!Posting, Atomic!Post, Booked

LEMMA TxTablesInv == Spec => []TablesInv
  <1>1. Atomic!Init => TablesInv
    BY SameRows, TablesInit DEF Atomic!Init
  <1>2. TablesInv /\ [Atomic!Posting]_(Atomic!vars) => TablesInv'
    BY AtomicBooks, TablesStep DEF Atomic!vars
  <1>. QED
    BY <1>1, <1>2, TxSerializable, PTL DEF Serializable, Atomic!FixedCatalogSpec

(* The entries of each balance are an unbroken trail that ends at it, also *)
(* when the requests that wrote them were interleaved: the transactions    *)
(* have what is proved of the atomic ledger they implement.                *)
THEOREM TxTrailUnbroken == Spec => []TrailUnbroken
  <1>1. TablesInv => TrailUnbroken
    BY DEF TablesInv
  <1>. QED
    BY <1>1, TxTablesInv, PTL

(* The committed tables have what else is proved of the atomic ledger: no  *)
(* balance with more reserved than on hand, no key twice, and batches that *)
(* add up to the balance of the item.                                      *)
THEOREM TxBalancesHold ==
  Spec => [](ReservedCovered /\ KeyPostedOnce /\ BatchesAddUp)
  <1>1. TablesInv => ReservedCovered /\ KeyPostedOnce /\ BatchesAddUp
    BY AllAddUpIsBatchesAddUp DEF TablesInv
  <1>. QED
    BY <1>1, TxTablesInv, PTL
=============================================================================
