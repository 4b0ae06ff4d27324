----------------------- MODULE StockReservation_proofs -----------------------
(***************************************************************************)
(* Proofs about StockReservation, for any callers and quantities and with  *)
(* a crash anywhere: its type invariant, that no row claims a fulfilment   *)
(* the ledger did not issue, that retries issue once, and what holds until *)
(* operations in one reservation overlap or stop half way: row, ledger and *)
(* balance agree, and what is closed stays closed.                         *)
(*                                                                         *)
(* None of this is inductive: a row is written from a call that may have   *)
(* read it long before.  IInv says of every call, and of every fulfilment  *)
(* key in the ledger, how far what was issued covers it; RetryInv, QuietInv*)
(* and HeldInv extend it for the other theorems.                           *)
(***************************************************************************)
EXTENDS StockReservation, Functions, FiniteSetTheorems, WellFoundedInduction,
        TLAPS

(* A reservation row owes nothing just when it is closed.                  *)
Consistent(s) ==
  /\ s.fulfilled + s.released <= s.quantity
  /\ s.fulfilled + s.released = s.quantity <=>
       s.status \notin {"ACTIVE", "PARTIALLY_FULFILLED"}

(* A call's movement never adds stock, only a fulfilment issues any, and   *)
(* only a creation reserves.                                               *)
Shape(r, key, qty, rsv, save) ==
  /\ qty <= 0
  /\ key[1] # "fulfill" => qty = 0
  /\ key[1] = "fulfill" => key[3] = save.fulfilled /\ save.fulfilled + qty >= 0
  /\ key[1] \in {"release", "expire"} => rsv <= 0
  /\ key[1] = "release" => key[3] = save.released
  /\ key[1] = "expire" => save.status = "EXPIRED"
  /\ key[2] = r
  /\ Consistent(save)

CallShape(k) == Shape(k.res, k.key, k.qty, k.rsv, k.save)

(* What a call will claim is issued already, or is issued by the movement  *)
(* it has still to post.                                                   *)
CallCovered(k) ==
  /\ k.step = "post" => k.save.fulfilled + k.qty <= issued[k.res]
  /\ k.step = "save" => k.save.fulfilled <= issued[k.res]

CallsInv ==
  \A c \in Callers : call[c] # Idle => CallShape(call[c]) /\ CallCovered(call[c])

(* A replayed fulfilment stands for at least its target.                   *)
KeysInv == \A k \in keys : k[1] = "fulfill" => k[3] <= issued[k[2]]

RowsInv == \A r \in Stored : Consistent(row[r])

IInv == TypeOK /\ FulfilledWasIssued /\ RowsInv /\ CallsInv /\ KeysInv

-----------------------------------------------------------------------------
(* What an operation has decided when it enters: to create the reservation *)
(* or, from the row it read, to issue or to release a part of it.          *)
Creates(r, key, qty, rsv, save) ==
  /\ Unused(r)
  /\ key = <<"create", r, 0>>
  /\ qty = 0 /\ rsv = save.quantity /\ save.quantity # 0
  /\ save.fulfilled = 0 /\ save.released = 0

Fulfills(r, key, qty, rsv, save) ==
  /\ key = <<"fulfill", r, save.fulfilled>>
  /\ qty = row[r].fulfilled - save.fulfilled /\ rsv = qty
  /\ save.released = row[r].released

Frees(r, key, qty, rsv, save) ==
  /\ \/ key = <<"release", r, save.released>>
     \/ key = <<"expire", r, 0>> /\ save.status = "EXPIRED"
  /\ qty = 0 /\ rsv = row[r].released - save.released
  /\ save.fulfilled = row[r].fulfilled

Decides(r, key, qty, rsv, save) ==
  \/ Creates(r, key, qty, rsv, save)
  \/ /\ row[r] # Absent /\ Open(r)
     /\ save.quantity = row[r].quantity
     /\ Fulfills(r, key, qty, rsv, save) \/ Frees(r, key, qty, rsv, save)

(* The operation c enters.                                                 *)
Enters(c, r, key, qty, rsv, save) ==
  /\ Enter(c, r, key, qty, rsv, save)
  /\ Decides(r, key, qty, rsv, save)
  /\ Shape(r, key, qty, rsv, save)
  /\ call[c] = Idle
  /\ sweep' \in [Callers -> SUBSET Reservations]
  /\ UNCHANGED <<ledgerVars, row, due>>

EntersSome(c, r) ==
  \E key \in Keys, qty \in Int, rsv \in Int, save \in Rows :
    Enters(c, r, key, qty, rsv, save)

(* A stored row is a record of the right type, covered by what was issued. *)
LEMMA StoredRow ==
  ASSUME IInv, NEW r \in Reservations, row[r] # Absent
  PROVE  /\ row[r] \in Rows /\ row[r].fulfilled <= issued[r] /\ Consistent(row[r])
         /\ row[r].quantity \in Nat /\ row[r].fulfilled \in Nat
         /\ row[r].released \in Nat /\ row[r].status \in Statuses
         /\ row[r].expires \in BOOLEAN
<1>1. row[r] \in Rows
  BY DEF IInv, TypeOK
<1>2. row[r].fulfilled <= issued[r] /\ Consistent(row[r])
  BY DEF IInv, FulfilledWasIssued, RowsInv, Stored
<1> QED BY <1>1, <1>2 DEF Rows

LEMMA OpenIsStored ==
  ASSUME NEW r \in Reservations, Open(r)
  PROVE  row[r] # Absent
BY DEF Open, Absent

LEMMA CreateEnters ==
  ASSUME IInv, NEW c \in Callers, NEW r \in Reservations,
         NEW q \in Quantities, NEW e \in BOOLEAN, Create(c, r, q, e)
  PROVE  EntersSome(c, r)
<1>1. PICK save : save = [quantity |-> q, fulfilled |-> 0, released |-> 0,
                          status |-> "ACTIVE", expires |-> e]
  OBVIOUS
<1>2. q \in Nat /\ q # 0
  BY ReservationAssumption
<1>3. /\ save \in Rows /\ save.fulfilled = 0 /\ save.released = 0
      /\ save.quantity = q /\ save.status = "ACTIVE"
  BY <1>1, <1>2 DEF Rows, Statuses
<1>4. PICK key \in Keys : key = <<"create", r, 0>>
  BY DEF Keys
<1>5. Enter(c, r, key, 0, q, save) /\ Unused(r) /\ call[c] = Idle
  BY <1>1, <1>4 DEF Create
<1>6. UNCHANGED <<ledgerVars, row, due>> /\ sweep' \in [Callers -> SUBSET Reservations]
  BY DEF Create, IInv, TypeOK
<1>7. Shape(r, key, 0, q, save)
  BY <1>2, <1>3, <1>4 DEF Shape, Consistent
<1>8. Decides(r, key, 0, q, save)
  BY <1>2, <1>3, <1>4, <1>5 DEF Decides, Creates
<1> QED BY <1>2, <1>3, <1>5, <1>6, <1>7, <1>8 DEF EntersSome, Enters

LEMMA FulfillEnters ==
  ASSUME IInv, NEW c \in Callers, NEW r \in Reservations,
         NEW t \in Quantities, Fulfill(c, r, t)
  PROVE  EntersSome(c, r)
<1>1. PICK old : old = row[r]
  OBVIOUS
<1>2. PICK save : save = [old EXCEPT !.fulfilled = t,
                                     !.status = IF t + old.released = old.quantity
                                                  THEN "FULFILLED"
                                                  ELSE "PARTIALLY_FULFILLED"]
  OBVIOUS
<1>3. t \in Nat /\ Open(r) /\ row[r] # Absent /\ call[c] = Idle
  BY ReservationAssumption, OpenIsStored DEF Fulfill
<1>4. /\ old \in Rows /\ old.fulfilled \in Nat /\ old.released \in Nat
      /\ old.quantity \in Nat
  BY <1>1, <1>3, StoredRow
<1>5. t >= old.fulfilled /\ t <= old.quantity - old.released
  BY <1>1 DEF Fulfill
<1>6. /\ save \in Rows /\ save.fulfilled = t /\ save.released = old.released
      /\ save.quantity = old.quantity
      /\ save.status = IF t + old.released = old.quantity THEN "FULFILLED"
                                                          ELSE "PARTIALLY_FULFILLED"
  BY <1>2, <1>3, <1>4 DEF Rows, Statuses
<1>7. PICK qty \in Int : qty = old.fulfilled - t /\ qty = -Increment(old, t)
  BY <1>3, <1>4 DEF Increment
<1>8. PICK key \in Keys : key = <<"fulfill", r, t>>
  BY <1>3 DEF Keys
<1>9. Enter(c, r, key, qty, qty, save)
  BY <1>1, <1>2, <1>7, <1>8 DEF Fulfill, FulfillKey
<1>10. UNCHANGED <<ledgerVars, row, due>> /\ sweep' \in [Callers -> SUBSET Reservations]
  BY DEF Fulfill, IInv, TypeOK
<1>11. Consistent(save)
  BY <1>3, <1>4, <1>5, <1>6 DEF Consistent
<1>12. Shape(r, key, qty, qty, save)
  BY <1>3, <1>4, <1>5, <1>6, <1>7, <1>8, <1>11 DEF Shape
<1>13. Decides(r, key, qty, qty, save)
  BY <1>1, <1>3, <1>6, <1>7, <1>8 DEF Decides, Fulfills
<1> QED BY <1>3, <1>6, <1>9, <1>10, <1>12, <1>13 DEF EntersSome, Enters

LEMMA ReleaseEnters ==
  ASSUME IInv, NEW c \in Callers, NEW r \in Reservations,
         NEW t \in Quantities, Release(c, r, t)
  PROVE  EntersSome(c, r)
<1>1. PICK old : old = row[r]
  OBVIOUS
<1>2. PICK save : save = [old EXCEPT !.released = t,
                                     !.status = IF old.fulfilled + t = old.quantity
                                                  THEN "RELEASED"
                                                  ELSE "PARTIALLY_FULFILLED"]
  OBVIOUS
<1>3. t \in Nat /\ Open(r) /\ row[r] # Absent /\ call[c] = Idle
  BY ReservationAssumption, OpenIsStored DEF Release
<1>4. /\ old \in Rows /\ old.fulfilled \in Nat /\ old.released \in Nat
      /\ old.quantity \in Nat
  BY <1>1, <1>3, StoredRow
<1>5. t >= old.released /\ t <= old.quantity - old.fulfilled
  BY <1>1 DEF Release
<1>6. /\ save \in Rows /\ save.released = t /\ save.fulfilled = old.fulfilled
      /\ save.quantity = old.quantity
      /\ save.status = IF old.fulfilled + t = old.quantity THEN "RELEASED"
                                                           ELSE "PARTIALLY_FULFILLED"
  BY <1>2, <1>3, <1>4 DEF Rows, Statuses
<1>7. PICK rsv \in Int : rsv = old.released - t
  BY <1>3, <1>4
<1>8. PICK key \in Keys : key = <<"release", r, t>>
  BY <1>3 DEF Keys
<1>9. Enter(c, r, key, 0, rsv, save)
  BY <1>1, <1>2, <1>7, <1>8 DEF Release
<1>10. UNCHANGED <<ledgerVars, row, due>> /\ sweep' \in [Callers -> SUBSET Reservations]
  BY DEF Release, IInv, TypeOK
<1>11. Consistent(save)
  BY <1>3, <1>4, <1>5, <1>6 DEF Consistent
<1>12. Shape(r, key, 0, rsv, save)
  BY <1>3, <1>4, <1>5, <1>6, <1>7, <1>8, <1>11 DEF Shape
<1>13. Decides(r, key, 0, rsv, save)
  BY <1>1, <1>3, <1>6, <1>7, <1>8 DEF Decides, Frees
<1> QED BY <1>3, <1>6, <1>9, <1>10, <1>12, <1>13 DEF EntersSome, Enters

(* Expiring one reservation, alone or in a sweep.                          *)
LEMMA ExpiryEnters ==
  ASSUME IInv, NEW c \in Callers, NEW r \in Reservations,
         Expirable(r), EnterExpiry(c, r), call[c] = Idle,
         sweep' \in [Callers -> SUBSET Reservations],
         UNCHANGED <<ledgerVars, row, due>>
  PROVE  EntersSome(c, r)
<1>1. PICK old : old = row[r]
  OBVIOUS
<1>2. Open(r) /\ row[r] # Absent
  BY OpenIsStored DEF Expirable
<1>3. /\ old \in Rows /\ old.fulfilled \in Nat /\ old.released \in Nat
      /\ old.quantity \in Nat
  BY <1>1, <1>2, StoredRow
<1>4. PICK left \in Nat : left = Remaining(old)
  BY <1>1, <1>3 DEF Remaining, Expirable
<1>5. PICK total \in Nat : total = old.released + left
  BY <1>3, <1>4
<1>6. PICK save : save = [old EXCEPT !.released = total, !.status = "EXPIRED"]
  OBVIOUS
<1>7. /\ save \in Rows /\ save.released = total /\ save.fulfilled = old.fulfilled
      /\ save.quantity = old.quantity /\ save.status = "EXPIRED"
  BY <1>3, <1>6 DEF Rows, Statuses
<1>8. PICK rsv \in Int : rsv = -left /\ rsv <= 0
  BY <1>4
<1>9. PICK key \in Keys : key = <<"expire", r, 0>>
  BY DEF Keys
<1>10. Enter(c, r, key, 0, rsv, save)
  BY <1>1, <1>4, <1>5, <1>6, <1>8, <1>9 DEF EnterExpiry
<1>11. Consistent(save)
  BY <1>3, <1>4, <1>5, <1>7 DEF Consistent, Remaining
<1>12. Shape(r, key, 0, rsv, save)
  BY <1>7, <1>8, <1>9, <1>11 DEF Shape
<1>13. Decides(r, key, 0, rsv, save)
  BY <1>1, <1>2, <1>3, <1>4, <1>5, <1>7, <1>8, <1>9 DEF Decides, Frees
<1> QED BY <1>7, <1>10, <1>12, <1>13 DEF EntersSome, Enters

(* A request enters an operation, or ends its sweep.                       *)
LEMMA RequestEnters ==
  ASSUME IInv, NEW c \in Callers, NEW r \in Reservations, Request(c, r)
  PROVE  \/ EntersSome(c, r)
         \/ /\ sweep' \in [Callers -> SUBSET Reservations]
            /\ UNCHANGED <<ledgerVars, row, due, call, disturbed>>
<1>1. CASE \E q \in Quantities, e \in BOOLEAN : Create(c, r, q, e)
  BY <1>1, CreateEnters
<1>2. CASE \E t \in Quantities : Fulfill(c, r, t)
  BY <1>2, FulfillEnters
<1>3. CASE \E t \in Quantities : Release(c, r, t)
  BY <1>3, ReleaseEnters
<1>4. CASE Expire(c, r)
  <2>1. sweep' \in [Callers -> SUBSET Reservations]
    BY <1>4 DEF Expire, IInv, TypeOK
  <2> QED BY <1>4, <2>1, ExpiryEnters DEF Expire
<1>5. CASE SweepNext(c, r)
  <2>1. sweep' \in [Callers -> SUBSET Reservations]
    BY <1>5 DEF SweepNext, IInv, TypeOK
  <2> QED BY <1>5, <2>1, ExpiryEnters DEF SweepNext
<1> QED BY <1>1, <1>2, <1>3, <1>4, <1>5 DEF Request

(* The request c has when it has entered.                                  *)
LEMMA EnteredCall ==
  ASSUME IInv, NEW c \in Callers, NEW r \in Reservations, NEW key \in Keys,
         NEW qty \in Int, NEW rsv \in Int, NEW save \in Rows,
         Enters(c, r, key, qty, rsv, save)
  PROVE  /\ call' \in [Callers -> Calls \cup {Idle}]
         /\ \A d \in Callers \ {c} : call'[d] = call[d]
         /\ call'[c] \in Calls /\ call'[c] # Idle
         /\ call'[c].step = IF qty = 0 /\ rsv = 0 THEN "save" ELSE "post"
         /\ call'[c].res = r /\ call'[c].key = key /\ call'[c].qty = qty
         /\ call'[c].rsv = rsv /\ call'[c].save = save
<1>1. PICK k : k = [step |-> IF qty = 0 /\ rsv = 0 THEN "save" ELSE "post",
                    res |-> r, key |-> key, qty |-> qty, rsv |-> rsv, save |-> save]
  OBVIOUS
<1>2. /\ k \in Calls /\ k # Idle
      /\ k.step = IF qty = 0 /\ rsv = 0 THEN "save" ELSE "post"
      /\ k.res = r /\ k.key = key /\ k.qty = qty /\ k.rsv = rsv /\ k.save = save
  BY <1>1 DEF Calls, Idle
<1>3. call' = [call EXCEPT ![c] = k] /\ call \in [Callers -> Calls \cup {Idle}]
  BY <1>1 DEF Enters, Enter, IInv, TypeOK
<1> QED BY <1>2, <1>3

LEMMA EnterKeepsInv ==
  ASSUME IInv, NEW c \in Callers, NEW r \in Reservations, EntersSome(c, r)
  PROVE  IInv'
<1>1. PICK key \in Keys, qty \in Int, rsv \in Int, save \in Rows :
        Enters(c, r, key, qty, rsv, save)
  BY DEF EntersSome
<1>2. /\ call' \in [Callers -> Calls \cup {Idle}]
      /\ \A d \in Callers \ {c} : call'[d] = call[d]
      /\ call'[c].step = IF qty = 0 /\ rsv = 0 THEN "save" ELSE "post"
      /\ call'[c].res = r /\ call'[c].key = key /\ call'[c].qty = qty
      /\ call'[c].rsv = rsv /\ call'[c].save = save
  BY <1>1, EnteredCall
<1>3. TypeOK'
  BY <1>1, <1>2 DEF IInv, TypeOK, Enters, Enter, ledgerVars
<1>4. FulfilledWasIssued' /\ RowsInv' /\ KeysInv'
  BY <1>1 DEF IInv, FulfilledWasIssued, RowsInv, KeysInv, Stored, ledgerVars, Enters
<1>5. CallShape(call'[c])
  BY <1>1, <1>2 DEF CallShape, Enters
<1>6. save.fulfilled + qty <= issued[r]
  <2>1. save.fulfilled \in Nat /\ issued[r] \in Nat
    BY DEF IInv, TypeOK, Rows
  <2>2. row[r] # Absent => row[r].fulfilled \in Nat /\ row[r].fulfilled <= issued[r]
    BY StoredRow
  <2> QED BY <1>1, <2>1, <2>2 DEF Enters, Decides, Creates, Fulfills, Frees
<1>7. save.fulfilled \in Nat /\ issued[r] \in Nat
  BY DEF IInv, TypeOK, Rows
<1>8. issued' = issued
  BY <1>1 DEF Enters, ledgerVars
<1>9. CallCovered(call[c])'
  BY <1>2, <1>6, <1>7, <1>8 DEF CallCovered
<1>10. CallsInv'
  BY <1>2, <1>5, <1>8, <1>9 DEF IInv, CallsInv, CallShape, CallCovered
<1> QED BY <1>3, <1>4, <1>10 DEF IInv

LEMMA RequestKeepsInv ==
  ASSUME IInv, NEW c \in Callers, NEW r \in Reservations, Request(c, r)
  PROVE  IInv'
<1>1. CASE /\ sweep' \in [Callers -> SUBSET Reservations]
           /\ UNCHANGED <<ledgerVars, row, due, call, disturbed>>
  BY <1>1 DEF IInv, TypeOK, FulfilledWasIssued, RowsInv, Stored, CallsInv,
              CallCovered, KeysInv, ledgerVars
<1> QED BY <1>1, RequestEnters, EnterKeepsInv

(* A posted movement issues what its call claims; a replayed one stands    *)
(* for what was issued under the same key before.                          *)
LEMMA PostKeepsInv ==
  ASSUME IInv, NEW c \in Callers, Post(c)
  PROVE  IInv'
<1> DEFINE k == call[c]
<1>1. /\ k.step = "post" /\ k \in Calls
      /\ CallShape(k) /\ k.save.fulfilled + k.qty <= issued[k.res]
  <2>1. k.step = "post"
    BY DEF Post
  <2>2. k # Idle
    BY <2>1 DEF Idle
  <2>3. QED
    BY <2>1, <2>2 DEF IInv, TypeOK, CallsInv, CallCovered
<1>2. /\ k.res \in Reservations /\ k.key \in Keys /\ k.qty \in Int
      /\ k.rsv \in Int /\ k.save \in Rows /\ k.save.fulfilled \in Nat
      /\ issued[k.res] \in Nat /\ freed[k.res] \in Nat
  BY <1>1 DEF Calls, Rows, IInv, TypeOK
<1>3. CASE /\ Replayed(k) /\ UNCHANGED <<ledgerVars, sweep>>
           /\ call' = [call EXCEPT ![c].step = "save"]
  <2>1. k.save.fulfilled <= issued[k.res]
    BY <1>1, <1>2, <1>3 DEF CallShape, Shape, Replayed, IInv, KeysInv
  <2>2. /\ call' \in [Callers -> Calls \cup {Idle}]
        /\ \A d \in Callers \ {c} : call'[d] = call[d]
        /\ call'[c] = [k EXCEPT !.step = "save"]
    BY <1>1, <1>3 DEF IInv, TypeOK, Calls
  <2>3. /\ call'[c].step = "save" /\ call'[c].res = k.res
        /\ call'[c].key = k.key /\ call'[c].qty = k.qty
        /\ call'[c].rsv = k.rsv /\ call'[c].save = k.save
    BY <1>1, <2>2 DEF Calls
  <2>4. CallsInv'
    BY <1>1, <1>3, <2>1, <2>2, <2>3
       DEF IInv, CallsInv, CallShape, CallCovered, ledgerVars
  <2>5. TypeOK' /\ FulfilledWasIssued' /\ RowsInv' /\ KeysInv'
    BY <1>3, <2>2 DEF Post, IInv, TypeOK, FulfilledWasIssued, RowsInv, Stored, KeysInv,
                      ledgerVars
  <2>6. QED
    BY <2>4, <2>5 DEF IInv
<1>4. CASE /\ Allowed(k.qty, k.rsv) /\ Book(k) /\ UNCHANGED sweep
           /\ call' = [call EXCEPT ![c].step = "save"]
  <2>1. /\ issued' \in [Reservations -> Nat]
        /\ issued'[k.res] = issued[k.res] - k.qty
        /\ \A r \in Reservations : issued[r] <= issued'[r]
    BY <1>1, <1>2, <1>4 DEF Book, CallShape, Shape, IInv, TypeOK
  <2>2. freed' \in [Reservations -> Nat]
    BY <1>1, <1>2, <1>4 DEF Book, CallShape, Shape, IInv, TypeOK
  <2>3. onHand' \in Nat /\ reserved' \in Nat
    BY <1>2, <1>4 DEF Book, Allowed, IInv, TypeOK
  <2>4. /\ call' \in [Callers -> Calls \cup {Idle}]
        /\ \A d \in Callers \ {c} : call'[d] = call[d]
        /\ call'[c] = [k EXCEPT !.step = "save"]
    BY <1>1, <1>4 DEF IInv, TypeOK, Calls
  <2>5. /\ call'[c].step = "save" /\ call'[c].res = k.res
        /\ call'[c].key = k.key /\ call'[c].qty = k.qty
        /\ call'[c].rsv = k.rsv /\ call'[c].save = k.save
    BY <1>1, <2>4 DEF Calls
  <2>6. TypeOK'
    BY <1>2, <1>4, <2>1, <2>2, <2>3, <2>4 DEF Post, Book, IInv, TypeOK
  <2>7. FulfilledWasIssued'
    <3> SUFFICES ASSUME NEW r \in Reservations, row[r] # Absent
                 PROVE  row[r].fulfilled <= issued'[r]
      BY <1>4 DEF Post, FulfilledWasIssued, RowsInv, Stored
    <3>1. row[r].fulfilled \in Nat /\ row[r].fulfilled <= issued[r]
      BY StoredRow DEF Rows
    <3>2. issued[r] \in Nat /\ issued'[r] \in Nat /\ issued[r] <= issued'[r]
      BY <2>1 DEF IInv, TypeOK
    <3>3. QED
      BY <3>1, <3>2
  <2>8. k.save.fulfilled <= issued'[k.res]
    BY <1>1, <1>2, <2>1
  <2>9. KeysInv'
    <3> SUFFICES ASSUME NEW key \in keys', key[1] = "fulfill"
                 PROVE  key[3] <= issued'[key[2]]
      BY DEF KeysInv
    <3>1. CASE key = k.key
      BY <1>1, <2>8, <3>1 DEF CallShape, Shape
    <3>2. CASE key \in keys
      <4>1. key[2] \in Reservations /\ key[3] \in Nat /\ key[3] <= issued[key[2]]
        BY <3>2 DEF IInv, TypeOK, KeysInv, Keys
      <4>2. issued[key[2]] \in Nat /\ issued'[key[2]] \in Nat
            /\ issued[key[2]] <= issued'[key[2]]
        BY <2>1, <4>1 DEF IInv, TypeOK
      <4>3. QED
        BY <4>1, <4>2
    <3>3. QED
      BY <1>4, <3>1, <3>2 DEF Book
  <2>10. CallsInv'
    <3> SUFFICES ASSUME NEW d \in Callers, call'[d] # Idle
                 PROVE  CallShape(call'[d]) /\ CallCovered(call[d])'
      BY DEF CallsInv
    <3>1. CASE d = c
      BY <1>1, <2>5, <2>8, <3>1 DEF CallShape, Shape, CallCovered
    <3>2. CASE d # c
      <4>1. call'[d] = call[d] /\ CallShape(call[d]) /\ CallCovered(call[d])
        BY <2>4, <3>2 DEF IInv, CallsInv
      <4>2. /\ call[d].res \in Reservations /\ call[d].save.fulfilled \in Nat
            /\ call[d].qty \in Int
        BY <3>2, <4>1 DEF IInv, TypeOK, Calls, Rows
      <4>3. /\ issued[call[d].res] \in Nat /\ issued'[call[d].res] \in Nat
            /\ issued[call[d].res] <= issued'[call[d].res]
        BY <2>1, <4>2 DEF IInv, TypeOK
      <4>4. CallCovered(call[d])'
        BY <4>1, <4>2, <4>3 DEF CallCovered
      <4>5. QED
        BY <4>1, <4>4
    <3>3. QED
      BY <3>1, <3>2
  <2>11. RowsInv'
    BY <1>4 DEF Post, IInv, RowsInv, Stored
  <2> QED BY <2>6, <2>7, <2>9, <2>10, <2>11 DEF IInv
<1>5. CASE /\ call' = [call EXCEPT ![c] = Idle] /\ UNCHANGED ledgerVars
           /\ sweep' = [sweep EXCEPT ![c] = {}]
  BY <1>5 DEF Post, IInv, TypeOK, FulfilledWasIssued, RowsInv, Stored, CallsInv,
              CallCovered, KeysInv, ledgerVars
<1>6. QED
  BY <1>3, <1>4, <1>5 DEF Post

LEMMA SaveKeepsInv ==
  ASSUME IInv, NEW c \in Callers, Save(c)
  PROVE  IInv'
<1> DEFINE k == call[c]
<1>1. k # Idle
  BY DEF Save, Idle
<1>2. /\ k \in Calls /\ k.res \in Reservations /\ k.save \in Rows
      /\ k.save.fulfilled <= issued[k.res]
  BY <1>1 DEF Save, IInv, TypeOK, CallsInv, CallCovered, Calls
<1>3. row' \in [Reservations -> Rows \cup {Absent}]
      /\ \A r \in Reservations : row'[r] = IF r = k.res THEN k.save ELSE row[r]
  BY <1>2 DEF Save, IInv, TypeOK
<1>4. TypeOK'
  BY <1>3 DEF Save, IInv, TypeOK, ledgerVars
<1>5. FulfilledWasIssued'
  BY <1>2, <1>3 DEF Save, IInv, FulfilledWasIssued, RowsInv, Stored, ledgerVars
<1>6. RowsInv'
  <2>1. Consistent(k.save)
    BY <1>1 DEF IInv, CallsInv, CallShape, Shape
  <2> QED BY <1>3, <2>1 DEF IInv, RowsInv, Stored
<1>7. CallsInv' /\ KeysInv'
  BY DEF Save, IInv, TypeOK, CallsInv, CallCovered, KeysInv, ledgerVars
<1> QED
  BY <1>4, <1>5, <1>6, <1>7 DEF IInv

LEMMA CrashKeepsInv ==
  ASSUME IInv, NEW c \in Callers, Crash(c)
  PROVE  IInv'
<1>1. call[c].step = "save" => call[c].res \in Reservations
  BY DEF IInv, TypeOK, Calls, Idle
<1>2. disturbed' \in SUBSET Reservations
  BY <1>1 DEF Crash, IInv, TypeOK
<1>3. TypeOK'
  BY <1>2 DEF Crash, IInv, TypeOK, ledgerVars
<1>4. FulfilledWasIssued' /\ RowsInv' /\ CallsInv' /\ KeysInv'
  BY DEF Crash, IInv, TypeOK, FulfilledWasIssued, RowsInv, Stored, CallsInv,
         CallCovered, KeysInv, ledgerVars
<1>5. QED
  BY <1>3, <1>4 DEF IInv

-----------------------------------------------------------------------------
LEMMA InitInv == Init => IInv
<1> SUFFICES ASSUME Init PROVE IInv
  OBVIOUS
<1>1. TypeOK
  BY DEF Init, TypeOK
<1>2. FulfilledWasIssued /\ RowsInv /\ CallsInv /\ KeysInv
  BY DEF Init, FulfilledWasIssued, RowsInv, Stored, CallsInv, KeysInv
<1>3. QED
  BY <1>1, <1>2 DEF IInv

LEMMA NextKeepsInv == IInv /\ [Next]_vars => IInv'
<1> SUFFICES ASSUME IInv, [Next]_vars PROVE IInv'
  OBVIOUS
<1>1. CASE \E c \in Callers, r \in Reservations : Request(c, r)
  BY <1>1, RequestKeepsInv
<1>2. CASE \E c \in Callers : Continue(c) \/ Crash(c)
  <2> PICK c \in Callers : Continue(c) \/ Crash(c)
    BY <1>2
  <2>1. CASE StartSweep(c)
    BY <2>1 DEF StartSweep, IInv, TypeOK, FulfilledWasIssued, RowsInv, Stored, CallsInv,
                CallCovered, KeysInv, ledgerVars
  <2>2. QED
    BY <2>1, PostKeepsInv, SaveKeepsInv, CrashKeepsInv DEF Continue
<1>3. CASE \E r \in Reservations : Elapse(r)
  BY <1>3 DEF Elapse, IInv, TypeOK, FulfilledWasIssued, RowsInv, Stored, CallsInv,
              CallCovered, KeysInv, ledgerVars, callVars
<1>4. CASE \E qty \in {-1, 1} : OtherMovement(qty)
  BY <1>4 DEF OtherMovement, Allowed, IInv, TypeOK, FulfilledWasIssued, RowsInv, Stored,
              CallsInv, CallCovered, KeysInv, callVars
<1>5. CASE UNCHANGED vars
  BY <1>5 DEF vars, IInv, TypeOK, FulfilledWasIssued, RowsInv, Stored, CallsInv,
              CallCovered, KeysInv
<1>6. QED
  BY <1>1, <1>2, <1>3, <1>4, <1>5 DEF Next, Environment

LEMMA ReservationInvariant == Spec => []IInv
BY InitInv, NextKeepsInv, PTL DEF Spec

(* Whatever the callers, quantities and crashes, the state keeps its type: *)
(* no balance and no total of the ledger goes below zero (Allowed).        *)
THEOREM ReservationTypeCorrect == Spec => []TypeOK
<1>1. IInv => TypeOK
  BY DEF IInv
<1>2. QED
  BY <1>1, ReservationInvariant, PTL

(* However operations overlap and are cut short, a reservation row never   *)
(* claims more fulfilled than the ledger issued for it (fulfillReservation *)
(* posts before it writes, and its key carries the target).                *)
THEOREM ReservationFulfilledWasIssued == Spec => []FulfilledWasIssued
<1>1. IInv => FulfilledWasIssued
  BY DEF IInv
<1>2. QED
  BY <1>1, ReservationInvariant, PTL

-----------------------------------------------------------------------------
(* Retries.  What was issued for a reservation is what its fulfilment keys *)
(* say, as long as they name at most one total.                            *)
Retry(r) ==
  /\ Targets(r) = {} => issued[r] = 0
  /\ \A t \in Nat : Targets(r) = {t} => issued[r] = t

RetryInv == IInv /\ \A r \in Reservations : Retry(r)

LEMMA TargetKeys ==
  ASSUME keys \subseteq Keys, NEW r, NEW t
  PROVE  t \in Targets(r) <=> <<"fulfill", r, t>> \in keys
<1>1. \A k \in keys : k = <<k[1], k[2], k[3]>>
  BY DEF Keys
<1> QED BY <1>1 DEF Targets

LEMMA RetryBooked ==
  ASSUME RetryInv, NEW c \in Callers, call[c].step = "post",
         ~Replayed(call[c]), Book(call[c]), NEW r \in Reservations
  PROVE  Retry(r)'
<1>1. PICK k : k = call[c]
  OBVIOUS
<1>2. k \in Calls /\ CallShape(k) /\ k.save.fulfilled + k.qty <= issued[k.res]
  BY <1>1 DEF RetryInv, IInv, TypeOK, CallsInv, CallCovered, Idle
<1>3. /\ k.res \in Reservations /\ k.key \in Keys /\ k.qty \in Int
      /\ k.save.fulfilled \in Nat /\ k.key[3] \in Nat
      /\ k.key = <<k.key[1], k.key[2], k.key[3]>> /\ k.key[2] = k.res
  BY <1>2 DEF Calls, Rows, Keys, CallShape, Shape
<1>4. issued \in [Reservations -> Nat] /\ keys \subseteq Keys
  BY DEF RetryInv, IInv, TypeOK
<1>5. /\ keys' = keys \cup {k.key} /\ k.key \notin keys
      /\ issued'[r] = IF r = k.res THEN issued[r] - k.qty ELSE issued[r]
  BY <1>1, <1>4 DEF Book, Replayed
<1>6. Retry(r)
  BY DEF RetryInv
<1>7. CASE r # k.res \/ k.key[1] # "fulfill"
  <2>1. Targets(r)' = Targets(r)
    BY <1>3, <1>5, <1>7 DEF Targets
  <2>2. issued'[r] = issued[r]
    BY <1>2, <1>3, <1>4, <1>5, <1>7 DEF CallShape, Shape
  <2> QED BY <1>6, <2>1, <2>2 DEF Retry
<1>8. CASE r = k.res /\ k.key[1] = "fulfill"
  <2>1. Targets(r)' = Targets(r) \cup {k.key[3]}
    BY <1>3, <1>5, <1>8 DEF Targets
  <2>2. k.key[3] \notin Targets(r)
    BY <1>3, <1>4, <1>5, <1>8, TargetKeys
  <2>3. ASSUME NEW t \in Nat, Targets(r)' = {t}
        PROVE  issued'[r] = t
    <3>1. Targets(r) = {} /\ k.key[3] = t
      BY <2>1, <2>2, <2>3
    <3>2. issued[r] = 0 /\ k.save.fulfilled = t
      BY <1>2, <1>6, <1>8, <3>1 DEF Retry, CallShape, Shape
    <3>3. k.save.fulfilled + k.qty >= 0 /\ k.save.fulfilled + k.qty <= 0
      BY <1>2, <1>8, <3>2 DEF CallShape, Shape
    <3> QED BY <1>3, <1>5, <1>8, <3>2, <3>3
  <2> QED BY <2>1, <2>3 DEF Retry
<1> QED BY <1>7, <1>8

LEMMA RetryInductive == RetryInv /\ [Next]_vars => RetryInv'
<1> SUFFICES ASSUME RetryInv, [Next]_vars PROVE RetryInv'
  OBVIOUS
<1>1. IInv'
  BY NextKeepsInv DEF RetryInv
<1>2. CASE UNCHANGED <<keys, issued>>
  BY <1>1, <1>2 DEF RetryInv, Retry, Targets
<1>3. ASSUME NEW c \in Callers, Post(c)
      PROVE  RetryInv'
  BY <1>1, <1>2, <1>3, RetryBooked DEF Post, ledgerVars, RetryInv
<1>4. ASSUME NEW c \in Callers, NEW r \in Reservations, Request(c, r)
      PROVE  UNCHANGED <<keys, issued>>
  BY <1>4, RequestEnters DEF RetryInv, EntersSome, Enters, ledgerVars
<1> QED BY <1>2, <1>3, <1>4 DEF Next, Continue, Environment, StartSweep, Save, Crash,
           Elapse, OtherMovement, ledgerVars, vars

(* However often, however concurrently and with whatever interruptions one *)
(* total is asked for, it is issued once (fulfillReservation, whose key    *)
(* names the target).                                                      *)
THEOREM ReservationRetriesIssueOnce == Spec => []RetriesIssueOnce
<1>1. Init => RetryInv
  <2> SUFFICES ASSUME Init PROVE RetryInv
    OBVIOUS
  <2>1. \A r \in Reservations : Targets(r) = {} /\ issued[r] = 0
    BY DEF Init, Targets
  <2> QED BY <2>1, InitInv DEF RetryInv, Retry
<1>2. RetryInv => RetriesIssueOnce
  BY ReservationAssumption DEF RetryInv, Retry, RetriesIssueOnce
<1> QED BY <1>1, <1>2, RetryInductive, PTL DEF Spec

-----------------------------------------------------------------------------
(* Reservations nobody disturbed.  QuietInv says of such a reservation that*)
(* one operation at most is in it, that its row and the ledger agree until *)
(* that operation has posted, and what the operation will make of them.    *)
In(c, r) == call[c] # Idle /\ call[c].res = r

Agree(r) ==
  /\ row[r] = Absent => issued[r] = 0 /\ freed[r] = 0
  /\ row[r] # Absent => row[r].fulfilled = issued[r] /\ row[r].released = freed[r]

(* What the ledger counts as freed when a call is booked.                  *)
Freeing(k) == IF k.key[1] \in {"release", "expire"} THEN -k.rsv ELSE 0

Expired(r) == <<"expire", r, 0>> \in keys

(* The operation that is in the reservation.                               *)
Under(k, r) ==
  /\ row[r] # Absent => Open(r)
  /\ k.step = "post" =>
       /\ Agree(r) /\ k.key \notin keys
       /\ k.save.fulfilled = issued[r] - k.qty
       /\ k.save.released = freed[r] + Freeing(k)
  /\ k.step = "save" =>
       k.save.fulfilled = issued[r] /\ k.save.released = freed[r]
  /\ Expired(r) => k.step = "save" /\ k.save.status = "EXPIRED"

AtRest(r) == Agree(r) /\ (Expired(r) => row[r] # Absent /\ row[r].status = "EXPIRED")

ReleasesCovered(r) ==
  \A k \in keys : k[1] = "release" /\ k[2] = r => k[3] <= freed[r]

Quiet(r) ==
  /\ \A c, d \in Callers : In(c, r) /\ In(d, r) => c = d
  /\ \A c \in Callers : In(c, r) => Under(call[c], r)
  /\ (\A c \in Callers : ~In(c, r)) => AtRest(r)
  /\ ReleasesCovered(r)

QuietInv == IInv /\ \A r \in Reservations \ disturbed : Quiet(r)

(* What has to do with other reservations leaves this one as it is.        *)
LEMMA QuietFrame ==
  ASSUME NEW r, Quiet(r),
         \A c \in Callers : \/ call'[c] = call[c]
                            \/ ~In(c, r) /\ ~In(c, r)',
         row'[r] = row[r], issued'[r] = issued[r], freed'[r] = freed[r],
         \A k : k[2] = r => (k \in keys' <=> k \in keys),
         \A c \in Callers : In(c, r) => call[c].key[2] = r
  PROVE  Quiet(r)'
<1>1. \A c \in Callers : (In(c, r)' <=> In(c, r)) /\ (In(c, r) => call'[c] = call[c])
  BY DEF In
<1>2. Agree(r)' <=> Agree(r)
  BY DEF Agree
<1>3. Expired(r)' <=> Expired(r)
  <2>1. <<"expire", r, 0>>[2] = r
    OBVIOUS
  <2> QED BY <2>1 DEF Expired
<1>4. AtRest(r)' <=> AtRest(r)
  BY <1>2, <1>3 DEF AtRest
<1>5. ASSUME NEW c \in Callers, In(c, r)'
      PROVE  Under(call[c], r)'
  <2>1. In(c, r) /\ call'[c] = call[c] /\ Under(call[c], r) /\ call[c].key[2] = r
    BY <1>1, <1>5 DEF Quiet
  <2>2. call[c].key \in keys' <=> call[c].key \in keys
    BY <2>1
  <2> QED BY <1>2, <1>3, <2>1, <2>2 DEF Under, Open, Freeing
<1>6. ReleasesCovered(r)'
  BY DEF Quiet, ReleasesCovered
<1>7. \A c, d \in Callers : In(c, r)' /\ In(d, r)' => c = d
  BY <1>1 DEF Quiet
<1>8. (\A c \in Callers : ~In(c, r)') => AtRest(r)'
  BY <1>1, <1>4 DEF Quiet
<1> QED BY <1>5, <1>6, <1>7, <1>8 DEF Quiet

(* A step of the only operation in the reservation.                        *)
LEMMA QuietStep ==
  ASSUME NEW r, NEW c \in Callers,
         \A d \in Callers \ {c} : call'[d] = call[d] /\ ~In(d, r),
         In(c, r)' => Under(call[c], r)',
         ~In(c, r)' => AtRest(r)',
         ReleasesCovered(r)'
  PROVE  Quiet(r)'
<1>1. \A d \in Callers \ {c} : ~In(d, r)'
  BY DEF In
<1>2. \A d, e \in Callers : In(d, r)' /\ In(e, r)' => d = e
  BY <1>1
<1>3. \A d \in Callers : In(d, r)' => Under(call[d], r)'
  BY <1>1
<1>4. (\A d \in Callers : ~In(d, r)') => AtRest(r)'
  OBVIOUS
<1> QED BY <1>2, <1>3, <1>4 DEF Quiet

LEMMA CallKey ==
  ASSUME IInv, NEW c \in Callers, call[c] # Idle
  PROVE  /\ call[c] \in Calls /\ CallShape(call[c]) /\ CallCovered(call[c])
         /\ call[c].res \in Reservations /\ call[c].key \in Keys
         /\ call[c].key[2] = call[c].res /\ call[c].qty \in Int /\ call[c].rsv \in Int
         /\ call[c].save \in Rows /\ call[c].save.fulfilled \in Nat
         /\ call[c].save.released \in Nat /\ call[c].save.quantity \in Nat
         /\ call[c].step \in {"post", "save"}
<1>1. call[c] \in Calls /\ CallShape(call[c]) /\ CallCovered(call[c])
  BY DEF IInv, TypeOK, CallsInv
<1> QED BY <1>1 DEF Calls, Rows, CallShape, Shape

(* Nothing an operation finds to post in a reservation at rest was posted  *)
(* before.                                                                 *)
LEMMA QuietEnter ==
  ASSUME QuietInv, NEW c \in Callers, NEW r \in Reservations, NEW key \in Keys,
         NEW qty \in Int, NEW rsv \in Int, NEW save \in Rows,
         Enters(c, r, key, qty, rsv, save), r \notin disturbed'
  PROVE  Quiet(r)'
<1>1. /\ call'[c].step = IF qty = 0 /\ rsv = 0 THEN "save" ELSE "post"
      /\ call'[c].res = r /\ call'[c].key = key /\ call'[c].qty = qty
      /\ call'[c].rsv = rsv /\ call'[c].save = save /\ call'[c] # Idle
      /\ \A d \in Callers \ {c} : call'[d] = call[d]
  BY EnteredCall DEF QuietInv
<1>2. r \notin disturbed /\ \A d \in Callers : ~In(d, r)
  BY DEF Enters, Enter, Busy, In
<1>3. AtRest(r) /\ ReleasesCovered(r)
  BY <1>2 DEF QuietInv, Quiet
<1>4. UNCHANGED <<keys, issued, freed, row>>
  BY DEF Enters, ledgerVars
<1>5. /\ issued[r] \in Nat /\ freed[r] \in Nat
      /\ save.fulfilled \in Nat /\ save.released \in Nat /\ save.quantity \in Nat
  BY DEF QuietInv, IInv, TypeOK, Rows
<1>6. /\ row[r] = Absent \/ Open(r)
      /\ save.fulfilled = issued[r] - qty
      /\ save.released = freed[r] + (IF key[1] \in {"release", "expire"} THEN -rsv ELSE 0)
  <2>1. CASE Creates(r, key, qty, rsv, save)
    BY <1>3, <1>5, <2>1 DEF Creates, Unused, AtRest, Agree
  <2>2. CASE /\ row[r] # Absent /\ Open(r)
             /\ Fulfills(r, key, qty, rsv, save) \/ Frees(r, key, qty, rsv, save)
    BY <1>3, <1>5, <2>2 DEF Fulfills, Frees, AtRest, Agree
  <2> QED BY <2>1, <2>2 DEF Enters, Decides
<1>7. ~Expired(r)
  <2>1. CASE Unused(r)
    <3>1. <<"expire", r, 0>>[2] = r
      OBVIOUS
    <3> QED BY <2>1, <3>1 DEF Unused, Expired
  <2>2. CASE Open(r)
    BY <1>3, <2>2 DEF AtRest, Open
  <2> QED BY <2>1, <2>2 DEF Enters, Decides, Creates
<1>8. ASSUME ~(qty = 0 /\ rsv = 0)
      PROVE  key \notin keys
  <2>1. CASE Creates(r, key, qty, rsv, save)
    BY <2>1 DEF Creates, Unused
  <2>2. CASE Fulfills(r, key, qty, rsv, save)
    <3>1. key \in keys => save.fulfilled <= issued[r]
      BY <2>2 DEF Fulfills, QuietInv, IInv, KeysInv
    <3> QED BY <1>5, <1>6, <1>8, <2>2, <3>1 DEF Fulfills, Enters, Shape
  <2>3. CASE Frees(r, key, qty, rsv, save) /\ key[1] = "release"
    <3>1. key \in keys => save.released <= freed[r]
      BY <1>3, <2>3 DEF Frees, ReleasesCovered
    <3> QED BY <1>5, <1>6, <1>8, <2>3, <3>1 DEF Frees, Enters, Shape
  <2>4. CASE key = <<"expire", r, 0>>
    BY <1>7, <2>4 DEF Expired
  <2> QED BY <2>1, <2>2, <2>3, <2>4 DEF Enters, Decides, Frees
<1>9. Under(call[c], r)'
  <2>1. Agree(r)' /\ ~Expired(r)'
    BY <1>3, <1>4, <1>7 DEF AtRest, Agree, Expired
  <2>2. row'[r] # Absent => Open(r)'
    BY <1>4, <1>6 DEF Open
  <2>3. Freeing(call'[c]) = IF key[1] \in {"release", "expire"} THEN -rsv ELSE 0
    BY <1>1 DEF Freeing
  <2>4. /\ call'[c].step = "post" => ~(qty = 0 /\ rsv = 0)
        /\ call'[c].step = "save" => qty = 0 /\ rsv = 0
    BY <1>1
  <2>5. qty = 0 /\ rsv = 0 => save.fulfilled = issued[r] /\ save.released = freed[r]
    BY <1>5, <1>6
  <2> QED BY <1>1, <1>4, <1>6, <1>8, <2>1, <2>2, <2>3, <2>4, <2>5 DEF Under, Freeing
<1>10. ReleasesCovered(r)'
  BY <1>3, <1>4 DEF ReleasesCovered
<1>11. In(c, r)' /\ \A d \in Callers \ {c} : call'[d] = call[d] /\ ~In(d, r)
  BY <1>1, <1>2 DEF In
<1> QED BY <1>9, <1>10, <1>11, QuietStep

LEMMA QuietPost ==
  ASSUME QuietInv, NEW c \in Callers, Post(c), NEW r \in Reservations \ disturbed,
         In(c, r)
  PROVE  Quiet(r)'
<1>1. PICK k : k = call[c]
  OBVIOUS
<1>2. /\ k.step = "post" /\ k \in Calls /\ CallShape(k) /\ k.res = r /\ k.key \in Keys
      /\ k.key[2] = r /\ k.qty \in Int /\ k.rsv \in Int
      /\ k.save.fulfilled \in Nat /\ k.save.released \in Nat
  BY <1>1, CallKey DEF Post, In, QuietInv
<1>3. /\ Under(k, r) /\ ReleasesCovered(r)
      /\ \A d \in Callers \ {c} : ~In(d, r)
  BY <1>1 DEF QuietInv, Quiet
<1>4. k.key \notin keys /\ Agree(r) /\ ~Expired(r) /\ (row[r] # Absent => Open(r))
      /\ k.save.fulfilled = issued[r] - k.qty
      /\ k.save.released = freed[r] + Freeing(k)
  BY <1>2, <1>3 DEF Under
<1>5. /\ issued \in [Reservations -> Nat] /\ freed \in [Reservations -> Nat]
      /\ call \in [Callers -> Calls \cup {Idle}]
  BY DEF QuietInv, IInv, TypeOK
<1>6. CASE /\ Book(k) /\ call' = [call EXCEPT ![c].step = "save"] /\ row' = row
  <2>1. PICK q : q = [k EXCEPT !.step = "save"]
    OBVIOUS
  <2>2. q.step = "save" /\ q.save = k.save /\ q.res = r /\ q # Idle /\ q.key = k.key
    BY <1>2, <2>1 DEF Calls, Idle
  <2>3. call'[c] = q /\ \A d \in Callers \ {c} : call'[d] = call[d]
    BY <1>1, <1>5, <1>6, <2>1
  <2>4. /\ issued'[r] = issued[r] - k.qty /\ freed'[r] = freed[r] + Freeing(k)
        /\ keys' = keys \cup {k.key}
    BY <1>2, <1>5, <1>6 DEF Book, Freeing
  <2>5. Freeing(k) >= 0 /\ Freeing(k) \in Int
    BY <1>2 DEF Freeing, CallShape, Shape
  <2>6. ReleasesCovered(r)'
    <3> SUFFICES ASSUME NEW x \in keys', x[1] = "release", x[2] = r
                 PROVE  x[3] <= freed'[r]
      BY DEF ReleasesCovered
    <3>1. CASE x \in keys
      <4>1. x[3] \in Nat
        BY <3>1 DEF QuietInv, IInv, TypeOK, Keys
      <4> QED BY <1>3, <1>5, <2>4, <2>5, <3>1, <4>1 DEF ReleasesCovered
    <3>2. CASE x = k.key
      BY <1>2, <1>4, <2>4, <3>2 DEF CallShape, Shape
    <3> QED BY <2>4, <3>1, <3>2
  <2>7. Expired(r)' => k.save.status = "EXPIRED"
    BY <1>2, <1>4, <2>4 DEF Expired, CallShape, Shape
  <2>8. Under(call[c], r)'
    <3>1. row'[r] # Absent => Open(r)'
      BY <1>4, <1>6 DEF Open
    <3> QED BY <1>4, <2>2, <2>3, <2>4, <2>7, <3>1 DEF Under
  <2>9. In(c, r)'
    BY <2>2, <2>3 DEF In
  <2> QED BY <1>3, <2>3, <2>6, <2>8, <2>9, QuietStep
<1>7. CASE /\ call' = [call EXCEPT ![c] = Idle] /\ UNCHANGED ledgerVars /\ row' = row
  <2>1. call'[c] = Idle /\ \A d \in Callers \ {c} : call'[d] = call[d]
    BY <1>5, <1>7
  <2>2. AtRest(r)' /\ ReleasesCovered(r)'
    BY <1>3, <1>4, <1>7 DEF AtRest, Agree, Expired, ReleasesCovered, ledgerVars
  <2>3. ~In(c, r)'
    BY <2>1 DEF In
  <2> QED BY <1>3, <2>1, <2>2, <2>3, QuietStep
<1> QED BY <1>1, <1>4, <1>6, <1>7 DEF Post, Replayed

LEMMA QuietSave ==
  ASSUME QuietInv, NEW c \in Callers, Save(c), NEW r \in Reservations \ disturbed,
         In(c, r)
  PROVE  Quiet(r)'
<1>1. PICK k : k = call[c]
  OBVIOUS
<1>2. k.step = "save" /\ k.res = r /\ k.save \in Rows
  BY <1>1, CallKey DEF Save, In, QuietInv
<1>3. /\ Under(k, r) /\ ReleasesCovered(r)
      /\ \A d \in Callers \ {c} : ~In(d, r)
  BY <1>1 DEF QuietInv, Quiet
<1>4. /\ row' = [row EXCEPT ![r] = k.save]
      /\ call' = [call EXCEPT ![c] = Idle]
      /\ UNCHANGED ledgerVars
  BY <1>1, <1>2 DEF Save
<1>5. row'[r] = k.save /\ k.save # Absent
  BY <1>2, <1>4 DEF QuietInv, IInv, TypeOK, Rows, Statuses, Absent
<1>6. call'[c] = Idle /\ \A d \in Callers \ {c} : call'[d] = call[d]
  BY <1>4 DEF QuietInv, IInv, TypeOK
<1>7. AtRest(r)' /\ ReleasesCovered(r)'
  BY <1>2, <1>3, <1>4, <1>5
     DEF Under, AtRest, Agree, Expired, ReleasesCovered, ledgerVars
<1>8. ~In(c, r)'
  BY <1>6 DEF In
<1> QED BY <1>3, <1>6, <1>7, <1>8, QuietStep

(* A crash between the movement and the row disturbs the reservation.      *)
LEMMA QuietCrash ==
  ASSUME QuietInv, NEW c \in Callers, Crash(c), NEW r \in Reservations \ disturbed',
         In(c, r)
  PROVE  Quiet(r)'
<1>1. r \notin disturbed /\ call[c].step = "post"
  BY CallKey DEF Crash, In, QuietInv
<1>2. /\ Under(call[c], r) /\ ReleasesCovered(r)
      /\ \A d \in Callers \ {c} : ~In(d, r)
  BY <1>1 DEF QuietInv, Quiet
<1>3. /\ call'[c] = Idle /\ \A d \in Callers \ {c} : call'[d] = call[d]
      /\ UNCHANGED ledgerVars /\ row' = row
  BY DEF Crash, QuietInv, IInv, TypeOK
<1>4. AtRest(r)' /\ ReleasesCovered(r)'
  BY <1>1, <1>2, <1>3
     DEF Under, AtRest, Agree, Expired, ReleasesCovered, ledgerVars
<1>5. ~In(c, r)'
  BY <1>3 DEF In
<1> QED BY <1>2, <1>3, <1>4, <1>5, QuietStep

(* A step of an operation in some other reservation, or in none.           *)
LEMMA QuietElsewhere ==
  ASSUME QuietInv, NEW c \in Callers, Continue(c) \/ Crash(c),
         NEW r \in Reservations \ disturbed, ~In(c, r)
  PROVE  Quiet(r)'
<1>1. /\ \A d \in Callers \ {c} : call'[d] = call[d]
      /\ ~In(c, r)'
  <2>1. CASE StartSweep(c)
    BY <2>1 DEF StartSweep, In
  <2>2. CASE Post(c)
    <3>1. call[c] # Idle
      BY <2>2 DEF Post, Idle
    <3>2. PICK q : q = [call[c] EXCEPT !.step = "save"]
      OBVIOUS
    <3>3. q.res = call[c].res /\ q.res # r
      BY <3>1, <3>2, CallKey DEF In, QuietInv, Calls
    <3>4. call' = [call EXCEPT ![c] = q] \/ call' = [call EXCEPT ![c] = Idle]
      BY <2>2, <3>2 DEF Post
    <3> QED BY <3>3, <3>4 DEF In, QuietInv, IInv, TypeOK
  <2>3. CASE Save(c)
    BY <2>3 DEF Save, In, QuietInv, IInv, TypeOK
  <2>4. CASE Crash(c)
    BY <2>4 DEF Crash, In, QuietInv, IInv, TypeOK
  <2> QED BY <2>1, <2>2, <2>3, <2>4 DEF Continue
<1>2. /\ row'[r] = row[r] /\ issued'[r] = issued[r] /\ freed'[r] = freed[r]
      /\ \A k : k[2] = r => (k \in keys' <=> k \in keys)
  <2>1. CASE StartSweep(c) \/ Crash(c)
    BY <2>1 DEF StartSweep, Crash, ledgerVars
  <2>2. CASE Post(c)
    <3>1. call[c] # Idle
      BY <2>2 DEF Post, Idle
    <3>2. call[c].res # r /\ call[c].key[2] # r
      BY <3>1, CallKey DEF In, QuietInv
    <3> QED BY <2>2, <3>2 DEF Post, Book, ledgerVars, QuietInv, IInv, TypeOK
  <2>3. CASE Save(c)
    <3>1. call[c].res # r
      BY <2>3 DEF Save, In, Idle
    <3> QED BY <2>3, <3>1 DEF Save, ledgerVars, QuietInv, IInv, TypeOK
  <2> QED BY <2>1, <2>2, <2>3 DEF Continue
<1>3. Quiet(r) /\ \A d \in Callers : In(d, r) => call[d].key[2] = r
  BY CallKey DEF QuietInv, In
<1>4. \A d \in Callers : call'[d] = call[d] \/ (~In(d, r) /\ ~In(d, r)')
  BY <1>1
<1> QED BY <1>2, <1>3, <1>4, QuietFrame

LEMMA QuietInductive == QuietInv /\ [Next]_vars => QuietInv'
<1> SUFFICES ASSUME QuietInv, [Next]_vars,
                    NEW r \in Reservations, r \notin disturbed'
             PROVE  Quiet(r)'
  BY NextKeepsInv DEF QuietInv
<1>1. disturbed \subseteq disturbed' => r \notin disturbed /\ Quiet(r)
  BY DEF QuietInv
<1>2. \A d \in Callers : In(d, r) => call[d].key[2] = r
  BY CallKey DEF QuietInv, In
<1>3. CASE UNCHANGED <<call, row, keys, issued, freed, disturbed>>
  BY <1>1, <1>2, <1>3, QuietFrame
<1>4. ASSUME NEW c \in Callers, NEW a \in Reservations, EntersSome(c, a)
      PROVE  Quiet(r)'
  <2>1. PICK key \in Keys, qty \in Int, rsv \in Int, save \in Rows :
          Enters(c, a, key, qty, rsv, save)
    BY <1>4 DEF EntersSome
  <2>2. CASE a = r
    BY <2>1, <2>2, QuietEnter
  <2>3. CASE a # r
    <3>1. /\ \A d \in Callers \ {c} : call'[d] = call[d]
          /\ call'[c].res = a
      BY <2>1, EnteredCall DEF QuietInv
    <3>2. /\ ~In(c, r) /\ ~In(c, r)'
          /\ UNCHANGED <<row, keys, issued, freed>> /\ disturbed \subseteq disturbed'
      BY <2>1, <2>3, <3>1 DEF Enters, Enter, In, ledgerVars
    <3> QED BY <1>1, <1>2, <3>1, <3>2, QuietFrame
  <2> QED BY <2>2, <2>3
<1>5. ASSUME NEW c \in Callers, Continue(c) \/ Crash(c)
      PROVE  Quiet(r)'
  <2>1. r \notin disturbed
    BY <1>5 DEF Continue, StartSweep, Post, Save, Crash
  <2>2. In(c, r) => ~StartSweep(c)
    BY DEF In, StartSweep
  <2> QED BY <1>5, <2>1, <2>2, QuietElsewhere, QuietPost, QuietSave, QuietCrash
          DEF Continue
<1>6. ASSUME NEW c \in Callers, NEW a \in Reservations, Request(c, a)
      PROVE  Quiet(r)'
  BY <1>3, <1>4, <1>6, RequestEnters DEF QuietInv, ledgerVars
<1>7. CASE Environment
  BY <1>3, <1>7 DEF Environment, Elapse, OtherMovement, ledgerVars, callVars
<1>8. CASE UNCHANGED vars
  BY <1>3, <1>8 DEF vars
<1> QED BY <1>5, <1>6, <1>7, <1>8 DEF Next

LEMMA QuietInitially == Init => QuietInv
<1> SUFFICES ASSUME Init PROVE QuietInv
  OBVIOUS
<1>1. \A r \in Reservations : AtRest(r) /\ ReleasesCovered(r)
  BY DEF Init, AtRest, Agree, Expired, ReleasesCovered
<1>2. \A c \in Callers, r \in Reservations : ~In(c, r)
  BY DEF Init, In
<1> QED BY <1>1, <1>2, InitInv DEF QuietInv, Quiet

LEMMA QuietInvariant == Spec => []QuietInv
BY QuietInitially, QuietInductive, PTL DEF Spec

(* The row and the ledger agree about an undisturbed reservation no        *)
(* operation is in: what was posted was written, and what was not posted   *)
(* was not.                                                                *)
THEOREM ReservationLedgerMatchesRow == Spec => []LedgerMatchesRow
<1>1. QuietInv => LedgerMatchesRow
  BY DEF QuietInv, Quiet, AtRest, Agree, LedgerMatchesRow, Stored, Busy, In
<1> QED BY <1>1, QuietInvariant, PTL

(* requireOpenReservation: what is closed stays as it is, until operations *)
(* on it overlap.                                                          *)
THEOREM ReservationClosedStaysClosed == Spec => ClosedStaysClosed
<1>1. ASSUME QuietInv, [Next]_vars, NEW r \in Stored \ disturbed,
             row[r].status \in {"FULFILLED", "RELEASED", "EXPIRED"}
      PROVE  row'[r] = row[r]
  <2>1. r \in Reservations /\ row[r] # Absent /\ ~Open(r) /\ Quiet(r)
    BY <1>1 DEF Stored, Open, QuietInv
  <2>2. \A c \in Callers : ~In(c, r)
    BY <2>1 DEF Quiet, Under
  <2>3. ASSUME NEW c \in Callers, Save(c)
        PROVE  row'[r] = row[r]
    BY <1>1, <2>1, <2>2, <2>3 DEF Save, In, Idle, QuietInv, IInv, TypeOK
  <2>4. ASSUME NEW c \in Callers, NEW a \in Reservations, Request(c, a)
        PROVE  row' = row
    BY <1>1, <2>4, RequestEnters DEF EntersSome, Enters, QuietInv
  <2> QED BY <1>1, <2>3, <2>4 DEF Next, Continue, Environment, StartSweep, Post,
             Crash, Elapse, OtherMovement, vars
<1>2. QuietInv /\ [Next]_vars =>
        [\A r \in Stored \ disturbed :
           row[r].status \in {"FULFILLED", "RELEASED", "EXPIRED"} =>
             row'[r] = row[r]]_row
  BY <1>1
<1> QED BY <1>2, QuietInvariant, PTL DEF Spec, ClosedStaysClosed

-----------------------------------------------------------------------------
(* Sums over finite sets.  SumFunctionOnSet adds in an order of its own;   *)
(* what follows, by induction on the size of the set, is that the order    *)
(* does not matter.  The induction is that of the least counterexample:    *)
(* every non-empty set of naturals has a least element.                    *)
LEMMA LeastNatural ==
  ASSUME NEW T \in SUBSET Nat, T # {}
  PROVE  \E x \in T : \A y \in T : x <= y
<1> DEFINE R == {ss \in Nat \X Nat : ss[1] < ss[2]}
<1>1. IsWellFoundedOn(R, Nat)
  BY NatLessThanWellFounded DEF OpToRel
<1> HIDE DEF R
<1>2. PICK x \in T : \A y \in T : <<y, x>> \notin R
  BY <1>1, WFMin
<1>3. \A y \in T : ~(y < x)
  BY <1>2 DEF R
<1> QED
  BY <1>3

LEMMA SetInduction ==
  ASSUME NEW S, IsFiniteSet(S), NEW T,
         \A s \in SUBSET S : (\A r \in SUBSET s : r # s => r \in T) => s \in T
  PROVE  \A s \in SUBSET S : s \in T
<1> SUFFICES ASSUME NEW b \in SUBSET S, b \notin T PROVE FALSE
  OBVIOUS
<1>1. PICK B : B = {s \in SUBSET S : s \notin T}
  OBVIOUS
<1>2. \A s \in SUBSET S : IsFiniteSet(s) /\ Cardinality(s) \in Nat
  BY FS_Subset, FS_CardinalityType
<1>3. PICK N : N = {Cardinality(s) : s \in B}
  OBVIOUS
<1>4. N \in SUBSET Nat /\ N # {}
  BY <1>1, <1>2, <1>3
<1>7. PICK n \in N : \A k \in N : n <= k
  BY <1>4, LeastNatural
<1>5. PICK s \in B : \A r \in B : Cardinality(s) <= Cardinality(r)
  BY <1>3, <1>7
<1>6. ASSUME NEW r \in SUBSET s, r # s
      PROVE  r \in T
  <2>1. IsFiniteSet(s) /\ r \in SUBSET S
    BY <1>1, <1>2, <1>5
  <2>2. Cardinality(r) <= Cardinality(s) /\ Cardinality(r) # Cardinality(s)
    BY <1>6, <2>1, FS_Subset
  <2>3. Cardinality(r) \in Nat /\ Cardinality(s) \in Nat
    BY <1>1, <1>2, <1>5, <2>1
  <2>4. ~(Cardinality(s) <= Cardinality(r))
    BY <2>2, <2>3
  <2> QED
    BY <1>1, <1>5, <2>1, <2>4
<1> QED
  BY <1>1, <1>5, <1>6

Pick(s) == CHOOSE x \in s : TRUE

(* g sums f over the subsets of S.                                         *)
Sums(f, S, g) ==
  g = [s \in SUBSET S |-> IF s = {} THEN 0 ELSE f[Pick(s)] + g[s \ {Pick(s)}]]

LEMMA PickIn == \A s : s # {} => Pick(s) \in s
  BY DEF Pick

LEMMA SumsAgree ==
  ASSUME NEW e, NEW f, NEW R, NEW S, NEW g, NEW h, Sums(e, R, g), Sums(f, S, h),
         NEW t, t \subseteq R, t \subseteq S, IsFiniteSet(t), \A x \in t : e[x] = f[x]
  PROVE  g[t] = h[t]
<1>1. PICK T : T = {s \in SUBSET t : g[s] = h[s]}
  OBVIOUS
<1>2. ASSUME NEW s \in SUBSET t, \A r \in SUBSET s : r # s => r \in T
      PROVE  s \in T
  <2>1. s \in SUBSET R /\ s \in SUBSET S
    OBVIOUS
  <2>2. CASE s = {}
    BY <1>1, <2>1, <2>2 DEF Sums
  <2>3. CASE s # {}
    <3>1. PICK p : p = Pick(s) /\ p \in s
      BY <2>3, PickIn
    <3>2. g[s] = e[p] + g[s \ {p}] /\ h[s] = f[p] + h[s \ {p}]
      BY <2>1, <2>3, <3>1 DEF Sums
    <3>3. g[s \ {p}] = h[s \ {p}]
      BY <1>1, <1>2, <3>1
    <3> QED
      BY <1>1, <3>1, <3>2, <3>3
  <2> QED
    BY <2>2, <2>3
<1>3. \A s \in SUBSET t : s \in T
  BY <1>2, SetInduction
<1> QED
  BY <1>1, <1>3

LEMMA SumsExist ==
  ASSUME NEW S, IsFiniteSet(S), NEW f
  PROVE  \E g : Sums(f, S, g)
<1>1. PICK T : T = {s \in SUBSET S : \E g : Sums(f, s, g)}
  OBVIOUS
<1>2. ASSUME NEW s \in SUBSET S, \A r \in SUBSET s : r # s => r \in T
      PROVE  \E g : Sums(f, s, g)
  <2>1. PICK v : v = [r \in SUBSET s |-> (CHOOSE g : Sums(f, r, g))[r]]
    OBVIOUS
  <2>2. PICK g : g = [r \in SUBSET s |->
                        IF r = {} THEN 0 ELSE f[Pick(r)] + v[r \ {Pick(r)}]]
    OBVIOUS
  <2>3. ASSUME NEW r \in SUBSET s, r # s
        PROVE  v[r] = IF r = {} THEN 0 ELSE f[Pick(r)] + v[r \ {Pick(r)}]
    <3>1. PICK h : h = CHOOSE x : Sums(f, r, x)
      OBVIOUS
    <3>2. Sums(f, r, h) /\ v[r] = h[r]
      BY <1>1, <1>2, <2>1, <2>3, <3>1
    <3>3. CASE r = {}
      BY <3>2, <3>3 DEF Sums
    <3>4. CASE r # {}
      <4>1. PICK p : p = Pick(r) /\ p \in r
        BY <3>4, PickIn
      <4>2. h[r] = f[p] + h[r \ {p}]
        BY <3>2, <3>4, <4>1 DEF Sums
      <4>3. PICK k : k = CHOOSE x : Sums(f, r \ {p}, x)
        OBVIOUS
      <4>4. Sums(f, r \ {p}, k) /\ v[r \ {p}] = k[r \ {p}]
        <5>1. r \ {p} \in SUBSET s /\ r \ {p} # s
          BY <2>3, <4>1
        <5> QED
          BY <1>1, <1>2, <2>1, <4>3, <5>1
      <4>5. IsFiniteSet(r \ {p})
        BY FS_Subset
      <4>6. h[r \ {p}] = k[r \ {p}]
        BY <3>2, <4>4, <4>5, SumsAgree
      <4> QED
        BY <3>2, <3>4, <4>1, <4>2, <4>4, <4>6
    <3> QED
      BY <3>3, <3>4
  <2>4. \A r \in SUBSET s : r # {} => v[r \ {Pick(r)}] = g[r \ {Pick(r)}]
    <3> SUFFICES ASSUME NEW r \in SUBSET s, r # {}
                 PROVE  v[r \ {Pick(r)}] = g[r \ {Pick(r)}]
      OBVIOUS
    <3>1. PICK q : q = r \ {Pick(r)}
      OBVIOUS
    <3>2. q \in SUBSET s /\ q # s
      BY <3>1, PickIn
    <3> QED
      BY <2>2, <2>3, <3>1, <3>2
  <2>5. g = [r \in SUBSET s |->
              IF r = {} THEN 0 ELSE f[Pick(r)] + g[r \ {Pick(r)}]]
    BY <2>2, <2>4
  <2> QED
    BY <2>5 DEF Sums
<1>3. \A s \in SUBSET S : s \in T
  BY <1>1, <1>2, SetInduction
<1> QED
  BY <1>1, <1>3

LEMMA SumIs ==
  ASSUME NEW S, IsFiniteSet(S), NEW f
  PROVE  \E g : Sums(f, S, g) /\ SumFunctionOnSet(f, S) = g[S]
<1>1. PICK h : h = CHOOSE g : Sums(f, S, g)
  OBVIOUS
<1>2. Sums(f, S, h)
  BY <1>1, SumsExist
<1>3. SumFunctionOnSet(f, S) = h[S]
  BY <1>1 DEF SumFunctionOnSet, FoldFunctionOnSet, MapThenFoldSet, Sums, Pick
<1> QED
  BY <1>2, <1>3

(* The order in which the elements are added does not matter.              *)
LEMMA SumsTake ==
  ASSUME NEW S, IsFiniteSet(S), NEW f, NEW g, Sums(f, S, g),
         \A x \in S : f[x] \in Int
  PROVE  \A s \in SUBSET S : g[s] \in Int /\ \A x \in s : g[s] = f[x] + g[s \ {x}]
<1>1. PICK T : T = {s \in SUBSET S :
                      g[s] \in Int /\ \A x \in s : g[s] = f[x] + g[s \ {x}]}
  OBVIOUS
<1>2. ASSUME NEW s \in SUBSET S, \A r \in SUBSET s : r # s => r \in T
      PROVE  s \in T
  <2>1. CASE s = {}
    BY <1>1, <2>1 DEF Sums
  <2>2. CASE s # {}
    <3>1. PICK p : p = Pick(s) /\ p \in s
      BY <2>2, PickIn
    <3>2. g[s] = f[p] + g[s \ {p}] /\ f[p] \in Int
      BY <2>2, <3>1 DEF Sums
    <3>3. \A r \in SUBSET s : r # s =>
            g[r] \in Int /\ \A x \in r : g[r] = f[x] + g[r \ {x}]
      BY <1>1, <1>2
    <3>4. s \ {p} \in SUBSET s /\ s \ {p} # s
      BY <3>1
    <3>5. g[s] \in Int
      BY <3>2, <3>3, <3>4
    <3>6. ASSUME NEW x \in s, x # p
          PROVE  g[s] = f[x] + g[s \ {x}]
      <4>1. PICK q : q = s \ {p, x}
        OBVIOUS
      <4>2. /\ (s \ {p}) \ {x} = q /\ (s \ {x}) \ {p} = q
            /\ s \ {x} \in SUBSET s /\ s \ {x} # s
            /\ q \in SUBSET s /\ q # s
        BY <3>1, <3>6, <4>1
      <4>3. g[s \ {p}] = f[x] + g[q]
        BY <3>3, <3>4, <3>6, <4>2
      <4>4. g[s \ {x}] = f[p] + g[q]
        <5>1. p \in s \ {x}
          BY <3>1, <3>6
        <5>2. g[s \ {x}] = f[p] + g[(s \ {x}) \ {p}]
          BY <3>3, <4>2, <5>1
        <5> QED
          BY <4>2, <5>2
      <4>5. g[q] \in Int /\ f[x] \in Int /\ g[s \ {p}] \in Int /\ g[s \ {x}] \in Int
        BY <3>3, <3>4, <4>2
      <4> QED
        BY <3>2, <4>3, <4>4, <4>5
    <3>7. \A x \in s : g[s] = f[x] + g[s \ {x}]
      BY <3>1, <3>2, <3>6
    <3> QED
      BY <1>1, <3>5, <3>7
  <2> QED
    BY <2>1, <2>2
<1>3. \A s \in SUBSET S : s \in T
  BY <1>2, SetInduction
<1> QED
  BY <1>1, <1>3

(* What is used of sums elsewhere.                                         *)
LEMMA SumEmpty == \A f : SumFunctionOnSet(f, {}) = 0
<1> SUFFICES ASSUME NEW f PROVE SumFunctionOnSet(f, {}) = 0
  OBVIOUS
<1>1. PICK g : Sums(f, {}, g) /\ SumFunctionOnSet(f, {}) = g[{}]
  BY SumIs, FS_EmptySet
<1> QED
  BY <1>1 DEF Sums

LEMMA SumSame ==
  ASSUME NEW S, IsFiniteSet(S), NEW f, NEW h, \A x \in S : f[x] = h[x]
  PROVE  SumFunctionOnSet(f, S) = SumFunctionOnSet(h, S)
<1>1. PICK g : Sums(f, S, g) /\ SumFunctionOnSet(f, S) = g[S]
  BY SumIs
<1>2. PICK k : Sums(h, S, k) /\ SumFunctionOnSet(h, S) = k[S]
  BY SumIs
<1> QED
  BY <1>1, <1>2, SumsAgree

LEMMA SumTake ==
  ASSUME NEW S, IsFiniteSet(S), NEW f, \A x \in S : f[x] \in Int
  PROVE  /\ SumFunctionOnSet(f, S) \in Int
         /\ \A x \in S : SumFunctionOnSet(f, S) = f[x] + SumFunctionOnSet(f, S \ {x})
<1>1. PICK g : Sums(f, S, g) /\ SumFunctionOnSet(f, S) = g[S]
  BY SumIs
<1>2. g[S] \in Int /\ \A x \in S : g[S] = f[x] + g[S \ {x}]
  <2>0. Sums(f, S, g) /\ \A x \in S : f[x] \in Int
    BY <1>1
  <2>1. \A s \in SUBSET S : g[s] \in Int /\ \A x \in s : g[s] = f[x] + g[s \ {x}]
    <3> SUFFICES ASSUME NEW s \in SUBSET S
                 PROVE  g[s] \in Int /\ \A x \in s : g[s] = f[x] + g[s \ {x}]
      OBVIOUS
    <3>1. g[s] \in Int
      BY <2>0, SumsTake
    <3>2. ASSUME NEW x \in s PROVE g[s] = f[x] + g[s \ {x}]
      BY <2>0, SumsTake
    <3> QED
      BY <3>1, <3>2
  <2> QED
    BY <2>1
<1>3. ASSUME NEW x \in S
      PROVE  SumFunctionOnSet(f, S \ {x}) = g[S \ {x}]
  <2>1. IsFiniteSet(S \ {x})
    BY FS_Subset
  <2>2. PICK k : Sums(f, S \ {x}, k) /\ SumFunctionOnSet(f, S \ {x}) = k[S \ {x}]
    BY <2>1, SumIs
  <2> QED
    BY <1>1, <2>1, <2>2, SumsAgree
<1> QED
  BY <1>1, <1>2, <1>3

-----------------------------------------------------------------------------
(* The balance as a whole.  As long as nothing is disturbed, what it holds *)
(* reserved is the sum, over the reservations whose creation is in the     *)
(* ledger, of their quantity less what was issued and released for them.   *)
Created == {r \in Reservations : <<"create", r, 0>> \in keys}

(* The quantity of a reservation: that of its row or, before the row is    *)
(* written, of the operation that creates it.                              *)
Quantity(r) ==
  IF row[r] # Absent THEN row[r].quantity
  ELSE call[CHOOSE c \in Callers : In(c, r)].save.quantity

Held == [r \in Created |-> Quantity(r) - issued[r] - freed[r]]

(* A creation reserves the quantity of a row that is not there yet, every  *)
(* other operation takes from the reserved what it issues or releases.     *)
Promised(c) ==
  LET k == call[c]
  IN  /\ k.key[1] = "create" =>
           /\ row[k.res] = Absent
           /\ k.key[3] = 0 /\ k.qty = 0
           /\ k.save.quantity # 0 /\ k.rsv = k.save.quantity
           /\ k.step = "save" => k.res \in Created
      /\ k.key[1] # "create" =>
           /\ row[k.res] # Absent
           /\ k.save.quantity = row[k.res].quantity
           /\ k.rsv = k.qty - Freeing(k)

Balanced ==
  /\ IsFiniteSet(Created)
  /\ Stored \subseteq Created
  /\ \A r \in Created \ Stored : Busy(r)
  /\ \A c \in Callers : call[c] # Idle => Promised(c)
  /\ reserved = SumFunctionOnSet(Held, Created)

HeldInv == QuietInv /\ (disturbed = {} => Balanced)

LEMMA QuantityOf ==
  ASSUME NEW r, NEW c \in Callers, Quiet(r), In(c, r), row[r] = Absent
  PROVE  Quantity(r) = call[c].save.quantity
<1>1. \A d \in Callers : In(d, r) <=> d = c
  BY DEF Quiet
<1>2. (CHOOSE d \in Callers : In(d, r)) = c
  BY <1>1
<1> QED
  BY <1>2 DEF Quantity

LEMMA QuantityAfter ==
  ASSUME NEW r, NEW c \in Callers, Quiet(r)', In(c, r)', row'[r] = Absent
  PROVE  Quantity(r)' = call'[c].save.quantity
<1>1. \A d \in Callers : In(d, r)' <=> d = c
  BY DEF Quiet
<1>2. (CHOOSE d \in Callers : In(d, r)') = c
  BY <1>1
<1> QED
  BY <1>2 DEF Quantity

LEMMA HeldTypes ==
  ASSUME QuietInv, disturbed = {}, Balanced
  PROVE  /\ \A r \in Created : Quantity(r) \in Nat /\ Held[r] \in Int
         /\ \A r \in Reservations : issued[r] \in Nat /\ freed[r] \in Nat
<1>1. \A r \in Reservations : issued[r] \in Nat /\ freed[r] \in Nat
  BY DEF QuietInv, IInv, TypeOK
<1>2. ASSUME NEW r \in Created
      PROVE  Quantity(r) \in Nat
  <2>1. r \in Reservations
    BY DEF Created
  <2>2. CASE row[r] # Absent
    BY <2>1, <2>2, StoredRow DEF Quantity, QuietInv
  <2>3. CASE row[r] = Absent
    <3>1. PICK c \in Callers : In(c, r)
      BY <2>1, <2>3 DEF Balanced, Stored, Busy, In
    <3>2. Quantity(r) = call[c].save.quantity
      BY <2>1, <2>3, <3>1, QuantityOf DEF QuietInv
    <3> QED
      BY <3>1, <3>2, CallKey DEF In, QuietInv
  <2> QED
    BY <2>2, <2>3
<1>3. \A r \in Created : Held[r] \in Int
  BY <1>1, <1>2 DEF Held, Created
<1> QED
  BY <1>1, <1>2, <1>3

(* A step that leaves every reservation's part as it was.                  *)
LEMMA HeldSame ==
  ASSUME Balanced, Created' = Created, reserved' = reserved,
         \A r \in Created : Quantity(r)' = Quantity(r),
         issued' = issued, freed' = freed
  PROVE  reserved' = SumFunctionOnSet(Held', Created')
<1>1. \A r \in Created : Held'[r] = Held[r]
  BY DEF Held
<1>2. SumFunctionOnSet(Held', Created) = SumFunctionOnSet(Held, Created)
  BY <1>1, SumSame DEF Balanced
<1> QED
  BY <1>2 DEF Balanced

LEMMA HeldEnter ==
  ASSUME HeldInv, QuietInv', NEW c \in Callers, NEW r \in Reservations, EntersSome(c, r),
         disturbed' = {}
  PROVE  Balanced'
<1>1. PICK key \in Keys, qty \in Int, rsv \in Int, save \in Rows :
        Enters(c, r, key, qty, rsv, save)
  BY DEF EntersSome
<1>2. disturbed = {} /\ ~Busy(r)
  BY <1>1 DEF Enters, Enter
<1>3. Balanced /\ QuietInv
  BY <1>2 DEF HeldInv
<1>4. /\ UNCHANGED <<keys, issued, freed, reserved, row>>
      /\ Created' = Created /\ Stored' = Stored
  BY <1>1 DEF Enters, ledgerVars, Created, Stored
<1>5. /\ call'[c].step = IF qty = 0 /\ rsv = 0 THEN "save" ELSE "post"
      /\ call'[c].res = r /\ call'[c].key = key /\ call'[c].qty = qty
      /\ call'[c].rsv = rsv /\ call'[c].save = save /\ call'[c] # Idle
      /\ \A d \in Callers \ {c} : call'[d] = call[d]
  BY <1>1, <1>3, EnteredCall DEF QuietInv
<1>6. call[c] = Idle
  BY <1>1 DEF Enters
<1>7. Promised(c)'
  <2>1. CASE Creates(r, key, qty, rsv, save)
    BY <1>4, <1>5, <2>1 DEF Creates, Unused, Promised
  <2>2. CASE /\ row[r] # Absent /\ save.quantity = row[r].quantity
             /\ Fulfills(r, key, qty, rsv, save) \/ Frees(r, key, qty, rsv, save)
    BY <1>4, <1>5, <2>2 DEF Fulfills, Frees, Promised, Freeing
  <2> QED
    BY <1>1, <2>1, <2>2 DEF Enters, Decides
<1>8. ASSUME NEW d \in Callers, call'[d] # Idle
      PROVE  Promised(d)'
  <2>1. CASE d = c
    BY <1>7, <2>1
  <2>2. CASE d # c
    <3>1. call'[d] = call[d] /\ Promised(d)
      BY <1>3, <1>5, <1>8, <2>2 DEF Balanced
    <3> QED
      BY <1>4, <3>1 DEF Promised, Freeing
  <2> QED
    BY <2>1, <2>2
<1>9. \A a \in Reservations : Busy(a) => Busy(a)'
  BY <1>5, <1>6 DEF Busy
<1>10. ASSUME NEW a \in Created
       PROVE  Quantity(a)' = Quantity(a)
  <2>1. CASE row[a] # Absent
    BY <1>4, <2>1 DEF Quantity
  <2>2. CASE row[a] = Absent
    <3>1. a \in Reservations /\ Busy(a)
      BY <1>3, <2>2 DEF Balanced, Stored, Created
    <3>2. PICK d \in Callers : In(d, a)
      BY <3>1 DEF Busy, In
    <3>3. d # c /\ call'[d] = call[d] /\ In(d, a)'
      BY <1>5, <1>6, <3>2 DEF In
    <3>4. Quantity(a) = call[d].save.quantity
      BY <1>2, <1>3, <2>2, <3>1, <3>2, QuantityOf DEF QuietInv
    <3>5. Quantity(a)' = call'[d].save.quantity
      <4>1. Quiet(a)' /\ row'[a] = Absent
        BY <1>4, <2>2, <3>1 DEF QuietInv
      <4> QED
        BY <3>3, <4>1, QuantityAfter
    <3> QED
      BY <3>3, <3>4, <3>5
  <2> QED
    BY <2>1, <2>2
<1>11. reserved' = SumFunctionOnSet(Held', Created')
  BY <1>3, <1>4, <1>10, HeldSame
<1> QED
  BY <1>3, <1>4, <1>8, <1>9, <1>11 DEF Balanced, Stored, Created

LEMMA QuantityKept ==
  ASSUME QuietInv, QuietInv', disturbed = {}, disturbed' = {}, NEW a \in Reservations,
         row'[a] = row[a], row[a] # Absent \/ Busy(a),
         row[a] = Absent => \A d \in Callers : In(d, a) =>
                              In(d, a)' /\ call'[d].save = call[d].save
  PROVE  Quantity(a)' = Quantity(a)
<1>1. CASE row[a] # Absent
  BY <1>1 DEF Quantity
<1>2. CASE row[a] = Absent
  <2>1. PICK d \in Callers : In(d, a)
    BY <1>2 DEF Busy, In
  <2>2. In(d, a)' /\ call'[d].save = call[d].save
    BY <1>2, <2>1
  <2>3. Quiet(a) /\ Quiet(a)'
    BY DEF QuietInv
  <2> QED
    BY <1>2, <2>1, <2>2, <2>3, QuantityOf, QuantityAfter
<1> QED
  BY <1>1, <1>2

LEMMA SumChange ==
  ASSUME NEW S, IsFiniteSet(S), NEW x \in S, NEW f, NEW h,
         \A y \in S : f[y] \in Int /\ h[y] \in Int,
         \A y \in S \ {x} : f[y] = h[y]
  PROVE  /\ SumFunctionOnSet(f, S) \in Int
         /\ SumFunctionOnSet(h, S) = SumFunctionOnSet(f, S) - f[x] + h[x]
<1>1. IsFiniteSet(S \ {x})
  BY FS_Subset
<1>2. SumFunctionOnSet(f, S \ {x}) = SumFunctionOnSet(h, S \ {x})
  BY <1>1, SumSame
<1>3. SumFunctionOnSet(f, S \ {x}) \in Int
  BY <1>1, SumTake
<1>4. /\ SumFunctionOnSet(f, S) = f[x] + SumFunctionOnSet(f, S \ {x})
      /\ SumFunctionOnSet(f, S) \in Int
  BY SumTake
<1>5. SumFunctionOnSet(h, S) = h[x] + SumFunctionOnSet(h, S \ {x})
  BY SumTake
<1> QED
  BY <1>2, <1>3, <1>4, <1>5

LEMMA SumAdd ==
  ASSUME NEW S, IsFiniteSet(S), NEW x, x \notin S, NEW f, NEW h,
         \A y \in S : f[y] \in Int /\ h[y] = f[y], h[x] \in Int
  PROVE  /\ SumFunctionOnSet(f, S) \in Int
         /\ SumFunctionOnSet(h, S \cup {x}) = SumFunctionOnSet(f, S) + h[x]
<1>1. PICK T : T = S \cup {x}
  OBVIOUS
<1>2. IsFiniteSet(T) /\ x \in T /\ T \ {x} = S /\ \A y \in T : h[y] \in Int
  BY <1>1, FS_AddElement
<1>3. SumFunctionOnSet(h, T) = h[x] + SumFunctionOnSet(h, T \ {x})
  BY <1>2, SumTake
<1>4. SumFunctionOnSet(h, S) = SumFunctionOnSet(f, S)
  BY SumSame
<1>5. SumFunctionOnSet(f, S) \in Int
  BY SumTake
<1>6. SumFunctionOnSet(h, T) = h[x] + SumFunctionOnSet(f, S)
  BY <1>2, <1>3, <1>4
<1> QED
  BY <1>1, <1>5, <1>6

LEMMA PromisedKept ==
  ASSUME NEW d, Promised(d), call'[d] = call[d],
         row'[call[d].res] = row[call[d].res], Created \subseteq Created'
  PROVE  Promised(d)'
BY DEF Promised, Freeing

LEMMA HeldFrame ==
  ASSUME Balanced, UNCHANGED <<reserved, keys, issued, freed, row, call>>
  PROVE  Balanced'
<1>1. Created' = Created /\ Stored' = Stored
  BY DEF Created, Stored
<1>2. \A r \in Created : Quantity(r)' = Quantity(r)
  BY DEF Quantity, In
<1>3. reserved' = SumFunctionOnSet(Held', Created')
  BY <1>1, <1>2, HeldSame
<1>4. \A c \in Callers : Promised(c)' <=> Promised(c)
  BY <1>1 DEF Promised, Freeing
<1> QED
  BY <1>1, <1>3, <1>4 DEF Balanced, Busy

(* An operation stops before it has posted.                                *)
LEMMA HeldStops ==
  ASSUME QuietInv, QuietInv', disturbed = {}, disturbed' = {}, Balanced,
         NEW c \in Callers, call[c] = Idle \/ call[c].step = "post",
         call' = [call EXCEPT ![c] = Idle], UNCHANGED ledgerVars, row' = row
  PROVE  Balanced'
<1>1. Created' = Created /\ Stored' = Stored /\ UNCHANGED <<reserved, keys, issued, freed>>
  BY DEF Created, Stored, ledgerVars
<1>2. call'[c] = Idle /\ \A d \in Callers \ {c} : call'[d] = call[d]
  BY DEF QuietInv, IInv, TypeOK
<1>3. ASSUME NEW a \in Created \ Stored
      PROVE  ~In(c, a)
  <2> SUFFICES ASSUME In(c, a) PROVE FALSE
    OBVIOUS
  <2>1. a \in Reservations /\ row[a] = Absent /\ <<"create", a, 0>> \in keys
    BY DEF Created, Stored
  <2>2. call[c] # Idle /\ call[c].res = a /\ Under(call[c], a) /\ Promised(c)
    BY <2>1 DEF In, QuietInv, Quiet, Balanced
  <2>3. call[c].key = <<"create", a, 0>>
    <3>1. call[c].key \in Keys /\ call[c].key[2] = a
      BY <2>2, CallKey DEF QuietInv
    <3>2. call[c].key[1] = "create" /\ call[c].key[3] = 0
      BY <2>1, <2>2 DEF Promised
    <3> QED
      BY <3>1, <3>2 DEF Keys
  <2> QED
    BY <2>1, <2>2, <2>3 DEF Under
<1>4. \A a \in Reservations, d \in Callers \ {c} :
        In(d, a) => In(d, a)' /\ call'[d].save = call[d].save
  BY <1>2 DEF In
<1>5. ASSUME NEW a \in Created
      PROVE  Quantity(a)' = Quantity(a)
  <2>1. a \in Reservations /\ (row[a] # Absent \/ Busy(a))
    BY DEF Balanced, Created, Stored
  <2>2. row[a] = Absent => \A d \in Callers : In(d, a) =>
                             In(d, a)' /\ call'[d].save = call[d].save
    BY <1>3, <1>4, <2>1 DEF Stored
  <2> QED
    BY <2>1, <2>2, QuantityKept
<1>6. reserved' = SumFunctionOnSet(Held', Created')
  BY <1>1, <1>5, HeldSame
<1>7. \A d \in Callers : call'[d] # Idle => Promised(d)'
  BY <1>1, <1>2 DEF Balanced, Promised, Freeing
<1>8. ASSUME NEW a \in Created \ Stored
      PROVE  Busy(a)'
  <2>1. PICK d \in Callers : In(d, a)
    BY DEF Balanced, Busy, In
  <2> QED
    BY <1>2, <1>3, <2>1 DEF Busy, In
<1> QED
  BY <1>1, <1>6, <1>7, <1>8 DEF Balanced

LEMMA HeldBook ==
  ASSUME QuietInv, QuietInv', disturbed = {}, disturbed' = {}, Balanced,
         NEW c \in Callers, call[c].step = "post", Book(call[c]),
         call' = [call EXCEPT ![c].step = "save"], row' = row
  PROVE  Balanced'
<1>1. PICK k, r : k = call[c] /\ r = k.res
  OBVIOUS
<1>2. /\ k # Idle /\ k \in Calls /\ r \in Reservations /\ k.key \in Keys /\ k.key[2] = r
      /\ k.qty \in Int /\ k.rsv \in Int /\ k.save.quantity \in Nat
      /\ k.key = <<k.key[1], r, k.key[3]>>
  <2>1. k # Idle
    BY <1>1 DEF Idle
  <2>2. k \in Calls /\ k.res \in Reservations /\ k.key \in Keys /\ k.key[2] = k.res
        /\ k.qty \in Int /\ k.rsv \in Int /\ k.save.quantity \in Nat
    BY <1>1, <2>1, CallKey DEF QuietInv
  <2> QED
    BY <1>1, <2>1, <2>2 DEF Keys
<1>3. In(c, r) /\ Under(k, r) /\ Promised(c) /\ Quiet(r) /\ Quiet(r)'
  BY <1>1, <1>2 DEF In, QuietInv, Quiet, Balanced
<1>4. k.key \notin keys /\ Agree(r)
  BY <1>1, <1>3 DEF Under
<1>5. /\ reserved' = reserved + k.rsv /\ keys' = keys \cup {k.key}
      /\ issued' = [issued EXCEPT ![r] = @ - k.qty]
      /\ freed' = [freed EXCEPT ![r] = @ + Freeing(k)]
  <2>1. k.key[1] \notin {"release", "expire"} => Freeing(k) = 0
    BY DEF Freeing
  <2>2. freed[r] \in Nat
    BY <1>2 DEF QuietInv, IInv, TypeOK
  <2>3. k.key[1] \in {"release", "expire"} => Freeing(k) = -k.rsv
    BY DEF Freeing
  <2>4. (IF k.key[1] \in {"release", "expire"} THEN freed[r] - k.rsv ELSE freed[r])
          = freed[r] + Freeing(k)
    BY <1>2, <2>1, <2>2, <2>3
  <2> QED
    BY <1>1, <2>4 DEF Book
<1>6. /\ call'[c] # Idle /\ call'[c].step = "save" /\ call'[c].res = r
      /\ call'[c].key = k.key /\ call'[c].qty = k.qty /\ call'[c].rsv = k.rsv
      /\ call'[c].save = k.save
      /\ \A d \in Callers \ {c} : call'[d] = call[d]
  <2>1. PICK q : q = [k EXCEPT !.step = "save"]
    OBVIOUS
  <2>2. /\ q # Idle /\ q.step = "save" /\ q.res = r /\ q.key = k.key /\ q.qty = k.qty
        /\ q.rsv = k.rsv /\ q.save = k.save
    BY <1>1, <1>2, <2>1 DEF Calls, Idle
  <2> QED
    BY <1>1, <2>1, <2>2 DEF QuietInv, IInv, TypeOK
<1>7. \A a \in Reservations, d \in Callers :
        In(d, a) => In(d, a)' /\ call'[d].save = call[d].save
  BY <1>1, <1>6 DEF In
<1>8. ASSUME NEW a \in Created
      PROVE  Quantity(a)' = Quantity(a)
  <2>1. a \in Reservations /\ (row[a] # Absent \/ Busy(a))
    BY DEF Balanced, Created, Stored
  <2> QED
    BY <1>7, <2>1, QuantityKept
<1>9. Stored' = Stored /\ \A a \in Reservations : Busy(a) => Busy(a)'
  BY <1>7 DEF Stored, Busy, In
<1>10. /\ \A a \in Created : Quantity(a) \in Nat /\ Held[a] \in Int
       /\ \A a \in Reservations : issued[a] \in Nat /\ freed[a] \in Nat
       /\ issued \in [Reservations -> Nat] /\ freed \in [Reservations -> Nat]
       /\ reserved \in Nat
  BY HeldTypes DEF QuietInv, IInv, TypeOK
<1>11. \A a \in Reservations \ {r} : issued'[a] = issued[a] /\ freed'[a] = freed[a]
  BY <1>5, <1>10
<1>12. CASE k.key[1] = "create"
  <2>1. /\ k.key = <<"create", r, 0>> /\ k.qty = 0 /\ row[r] = Absent
        /\ k.rsv = k.save.quantity /\ Freeing(k) = 0
    BY <1>1, <1>2, <1>3, <1>12 DEF Promised, Freeing
  <2>2. Created' = Created \cup {r} /\ r \notin Created
    BY <1>2, <1>4, <1>5, <2>1 DEF Created
  <2>3. issued'[r] = 0 /\ freed'[r] = 0
    BY <1>2, <1>4, <1>5, <1>10, <2>1 DEF Agree
  <2>4. Quantity(r)' = k.rsv
    <3>1. In(c, r)' /\ row'[r] = Absent
      BY <1>3, <1>7, <1>2, <2>1
    <3> QED
      BY <1>3, <1>6, <2>1, <3>1, QuantityAfter
  <2>5. Held'[r] = k.rsv
    BY <1>2, <2>2, <2>3, <2>4 DEF Held
  <2>6. \A a \in Created : Held'[a] = Held[a]
    BY <1>8, <1>11, <2>2 DEF Held, Created
  <2>7. SumFunctionOnSet(Held', Created \cup {r}) =
          SumFunctionOnSet(Held, Created) + Held'[r]
    <3>1. IsFiniteSet(Created) /\ r \notin Created /\ Held'[r] \in Int
      BY <1>2, <2>2, <2>5 DEF Balanced
    <3>2. \A a \in Created : Held[a] \in Int /\ Held'[a] = Held[a]
      BY <1>10, <2>6
    <3>3. PICK S, f, h : S = Created /\ f = Held /\ h = Held'
      OBVIOUS
    <3>4. /\ IsFiniteSet(S) /\ r \notin S /\ h[r] \in Int
          /\ \A a \in S : f[a] \in Int /\ h[a] = f[a]
      BY <3>1, <3>2, <3>3
    <3>5. SumFunctionOnSet(h, S \cup {r}) = SumFunctionOnSet(f, S) + h[r]
      BY ONLY <3>4, SumAdd
    <3> QED
      BY <3>3, <3>5
  <2>8. reserved' = SumFunctionOnSet(Held', Created')
    BY <1>5, <2>2, <2>5, <2>7 DEF Balanced
  <2>9. \A d \in Callers : call'[d] # Idle => Promised(d)'
    <3> SUFFICES ASSUME NEW d \in Callers, call'[d] # Idle
                 PROVE  Promised(d)'
      OBVIOUS
    <3>1. CASE d = c
      BY <1>1, <1>2, <1>3, <1>6, <1>12, <2>2, <3>1 DEF Promised
    <3>2. CASE d # c
      <4>1. call'[d] = call[d] /\ Promised(d)
        BY <1>6, <3>2 DEF Balanced
      <4> QED
        BY <2>2, <4>1, PromisedKept
    <3> QED
      BY <3>1, <3>2
  <2>10. IsFiniteSet(Created')
    BY <2>2, FS_AddElement DEF Balanced
  <2>11. Busy(r)'
    BY <1>6 DEF Busy
  <2>12. \A a \in Created' \ Stored' : Busy(a)'
    BY <1>9, <2>2, <2>11 DEF Balanced, Created
  <2> QED
    BY <1>9, <2>2, <2>8, <2>9, <2>10, <2>12 DEF Balanced
<1>13. CASE k.key[1] # "create"
  <2>1. k.rsv = k.qty - Freeing(k) /\ row[r] # Absent
    BY <1>1, <1>3, <1>13 DEF Promised
  <2>2. Created' = Created /\ r \in Created
    BY <1>2, <1>5, <1>13, <2>1 DEF Created, Balanced, Stored
  <2>3. Freeing(k) \in Int
    BY <1>2 DEF Freeing
  <2>4. Held'[r] = Held[r] + k.rsv
    <3>1. /\ Held'[r] = Quantity(r)' - issued'[r] - freed'[r]
          /\ Held[r] = Quantity(r) - issued[r] - freed[r]
      BY <2>2 DEF Held
    <3>2. issued'[r] = issued[r] - k.qty /\ freed'[r] = freed[r] + Freeing(k)
      BY <1>2, <1>5, <1>10
    <3>3. Quantity(r)' = Quantity(r) /\ Quantity(r) \in Nat
      BY <1>8, <1>10, <2>2
    <3>4. issued[r] \in Nat /\ freed[r] \in Nat
      BY <1>2, <1>10
    <3> QED
      BY <1>2, <2>1, <2>3, <3>1, <3>2, <3>3, <3>4
  <2>5. \A a \in Created \ {r} : Held'[a] = Held[a]
    BY <1>8, <1>11, <2>2 DEF Held, Created
  <2>6. \A a \in Created : Held'[a] \in Int /\ Held[a] \in Int
    BY <1>2, <1>10, <2>4, <2>5
  <2>7. /\ SumFunctionOnSet(Held, Created) \in Int
        /\ SumFunctionOnSet(Held', Created) =
             SumFunctionOnSet(Held, Created) - Held[r] + Held'[r]
    BY <2>2, <2>5, <2>6, SumChange DEF Balanced
  <2>8. reserved' = SumFunctionOnSet(Held', Created')
    BY <1>2, <1>5, <2>2, <2>4, <2>6, <2>7 DEF Balanced
  <2>9. \A d \in Callers : call'[d] # Idle => Promised(d)'
    <3> SUFFICES ASSUME NEW d \in Callers, call'[d] # Idle
                 PROVE  Promised(d)'
      OBVIOUS
    <3>1. CASE d = c
      BY <1>1, <1>3, <1>6, <1>13, <3>1 DEF Promised, Freeing
    <3>2. CASE d # c
      <4>1. call'[d] = call[d] /\ Promised(d)
        BY <1>6, <3>2 DEF Balanced
      <4> QED
        BY <2>2, <4>1, PromisedKept
    <3> QED
      BY <3>1, <3>2
  <2> QED
    BY <1>9, <2>2, <2>8, <2>9 DEF Balanced, Created
<1> QED
  BY <1>12, <1>13

LEMMA HeldSave ==
  ASSUME QuietInv, QuietInv', disturbed = {}, disturbed' = {}, Balanced,
         NEW c \in Callers, Save(c)
  PROVE  Balanced'
<1>1. PICK k, r : k = call[c] /\ r = k.res
  OBVIOUS
<1>2. /\ k # Idle /\ k.step = "save" /\ r \in Reservations /\ k.key \in Keys
      /\ k.key[2] = r /\ k.save \in Rows /\ k.save # Absent
  <2>1. k.step = "save" /\ k # Idle
    BY <1>1 DEF Save, Idle
  <2>2. k.res \in Reservations /\ k.key \in Keys /\ k.key[2] = k.res /\ k.save \in Rows
    BY <1>1, <2>1, CallKey DEF QuietInv
  <2> QED
    BY <1>1, <2>1, <2>2 DEF Rows, Statuses, Absent
<1>3. In(c, r) /\ Promised(c) /\ Quiet(r)
  BY <1>1, <1>2 DEF In, QuietInv, Balanced
<1>4. \A d \in Callers \ {c} : ~In(d, r)
  BY <1>3 DEF Quiet
<1>5. /\ row'[r] = k.save /\ \A a \in Reservations \ {r} : row'[a] = row[a]
      /\ call'[c] = Idle /\ \A d \in Callers \ {c} : call'[d] = call[d]
      /\ UNCHANGED <<reserved, keys, issued, freed>>
  BY <1>1, <1>2 DEF Save, ledgerVars, QuietInv, IInv, TypeOK
<1>6. r \in Created /\ Created' = Created
  BY <1>1, <1>2, <1>3, <1>5 DEF Promised, Balanced, Stored, Created
<1>7. Stored' = Stored \cup {r}
  BY <1>2, <1>5 DEF Stored
<1>8. ASSUME NEW a \in Created
      PROVE  Quantity(a)' = Quantity(a)
  <2>1. CASE a = r
    <3>1. Quantity(r)' = k.save.quantity
      BY <1>2, <1>5 DEF Quantity
    <3>2. CASE row[r] = Absent
      BY <1>1, <1>3, <2>1, <3>1, <3>2, QuantityOf
    <3>3. CASE row[r] # Absent
      BY <1>1, <1>3, <2>1, <3>1, <3>3 DEF Promised, Quantity
    <3> QED
      BY <3>2, <3>3
  <2>2. CASE a # r
    <3>1. a \in Reservations /\ (row[a] # Absent \/ Busy(a)) /\ row'[a] = row[a]
      BY <1>5, <2>2 DEF Balanced, Created, Stored
    <3>2. \A d \in Callers : In(d, a) => In(d, a)' /\ call'[d].save = call[d].save
      BY <1>1, <1>5, <2>2 DEF In
    <3> QED
      BY <3>1, <3>2, QuantityKept
  <2> QED
    BY <2>1, <2>2
<1>9. reserved' = SumFunctionOnSet(Held', Created')
  BY <1>5, <1>6, <1>8, HeldSame
<1>10. ASSUME NEW d \in Callers, call'[d] # Idle
       PROVE  Promised(d)'
  <2>1. d # c /\ call'[d] = call[d] /\ Promised(d) /\ call[d].res \in Reservations
    BY <1>5, <1>10, CallKey DEF Balanced, QuietInv
  <2>2. row'[call[d].res] = row[call[d].res]
    BY <1>4, <1>5, <1>10, <2>1 DEF In
  <2> QED
    BY <1>6, <2>1, <2>2, PromisedKept
<1>11. ASSUME NEW a \in Created \ Stored, a # r
       PROVE  Busy(a)'
  <2>1. PICK d \in Callers : In(d, a)
    BY <1>11 DEF Balanced, Busy, In
  <2> QED
    BY <1>1, <1>5, <1>11, <2>1 DEF Busy, In
<1> QED
  BY <1>6, <1>7, <1>9, <1>10, <1>11 DEF Balanced

(* While nothing is disturbed, no movement an operation comes to post is a *)
(* replay.                                                                 *)
LEMMA HeldInductive == HeldInv /\ [Next]_vars => HeldInv'
<1> SUFFICES ASSUME HeldInv, [Next]_vars, QuietInv, QuietInv', disturbed' = {}
             PROVE  Balanced'
  BY QuietInductive DEF HeldInv
<1>1. disturbed = {} => Balanced
  BY DEF HeldInv
<1>2. CASE UNCHANGED <<reserved, keys, issued, freed, row, call, disturbed>>
  BY <1>1, <1>2, HeldFrame
<1>3. ASSUME NEW c \in Callers, NEW r \in Reservations, Request(c, r)
      PROVE  Balanced'
  BY <1>2, <1>3, RequestEnters, HeldEnter DEF QuietInv, ledgerVars
<1>4. ASSUME NEW c \in Callers, Post(c)
      PROVE  Balanced'
  <2>1. disturbed = {} /\ row' = row /\ call[c].step = "post"
    BY <1>4 DEF Post
  <2>2. call[c] # Idle
    BY <2>1 DEF Idle
  <2>3. ~Replayed(call[c])
    BY <2>1, <2>2, CallKey DEF QuietInv, Quiet, In, Under, Replayed
  <2> QED
    BY <1>1, <1>4, <2>1, <2>3, HeldBook, HeldStops DEF Post
<1>5. ASSUME NEW c \in Callers, Save(c)
      PROVE  Balanced'
  <2>1. disturbed = {}
    BY <1>5 DEF Save
  <2> QED
    BY <1>1, <1>5, <2>1, HeldSave
<1>6. ASSUME NEW c \in Callers, Crash(c)
      PROVE  Balanced'
  <2>1. disturbed = {} /\ call[c].step # "save"
    BY <1>6 DEF Crash
  <2>2. call[c] = Idle \/ call[c].step = "post"
    BY <2>1, CallKey DEF QuietInv
  <2>3. call' = [call EXCEPT ![c] = Idle] /\ UNCHANGED ledgerVars /\ row' = row
    BY <1>6 DEF Crash
  <2> QED
    BY <1>1, <2>1, <2>2, <2>3, HeldStops
<1>7. ASSUME NEW c \in Callers, StartSweep(c)
      PROVE  Balanced'
  BY <1>2, <1>7 DEF StartSweep, ledgerVars
<1>8. CASE Environment
  BY <1>2, <1>8 DEF Environment, Elapse, OtherMovement, ledgerVars, callVars
<1>9. CASE UNCHANGED vars
  BY <1>2, <1>9 DEF vars
<1> QED
  BY <1>3, <1>4, <1>5, <1>6, <1>7, <1>8, <1>9 DEF Next, Continue

LEMMA HeldInitially == Init => HeldInv
<1> SUFFICES ASSUME Init PROVE HeldInv
  OBVIOUS
<1>1. Created = {} /\ Stored = {} /\ reserved = 0
  BY DEF Init, Created, Stored
<1>2. IsFiniteSet(Created) /\ reserved = SumFunctionOnSet(Held, Created)
  BY <1>1, FS_EmptySet, SumEmpty
<1>3. \A c \in Callers : call[c] = Idle
  BY DEF Init
<1> QED
  BY <1>1, <1>2, <1>3, QuietInitially DEF HeldInv, Balanced

(* The sum the property speaks of is the one the invariant keeps.          *)
LEMMA OutstandingSum ==
  ASSUME IsFiniteSet(Stored)
  PROVE  MapThenSumSet(Outstanding, Stored) =
           SumFunctionOnSet([r \in Stored |-> Outstanding(r)], Stored)
<1> DEFINE f == [r \in Stored |-> Outstanding(r)]
           P(g) == g = [s \in SUBSET Stored |->
                          IF s = {} THEN 0
                          ELSE Outstanding(Pick(s)) + g[s \ {Pick(s)}]]
<1>1. PICK h : h = CHOOSE g : P(g)
  OBVIOUS
<1>2. ASSUME NEW g
      PROVE  P(g) <=> Sums(f, Stored, g)
  <2>1. \A s \in SUBSET Stored : s # {} => f[Pick(s)] = Outstanding(Pick(s))
    BY PickIn
  <2> QED
    BY <2>1 DEF Sums
<1>3. \E g : Sums(f, Stored, g)
  BY SumsExist
<1>4. P(h)
  BY <1>1, <1>2, <1>3
<1>5. MapThenSumSet(Outstanding, Stored) = h[Stored]
  BY <1>1 DEF MapThenSumSet, MapThenFoldSet, Pick
<1>6. Sums(f, Stored, h)
  BY <1>2, <1>4
<1>7. PICK g : Sums(f, Stored, g) /\ SumFunctionOnSet(f, Stored) = g[Stored]
  BY SumIs
<1> QED
  BY <1>5, <1>6, <1>7, SumsAgree

(* As long as no operations overlapped in a reservation and none stopped   *)
(* half way, the balance holds reserved what the open reservations are     *)
(* still owed: creation, fulfilment, release and expiry of different       *)
(* reservations, in any order, with stock competed for.                    *)
THEOREM ReservationReservedIsOutstanding == Spec => []ReservedIsOutstanding
<1>1. HeldInv => ReservedIsOutstanding
  <2> SUFFICES ASSUME HeldInv, disturbed = {}, \A r \in Reservations : ~Busy(r)
               PROVE  /\ reserved = MapThenSumSet(Outstanding, Stored)
                      /\ \A r \in Stored : Outstanding(r) = 0 <=> ~Open(r)
    BY DEF ReservedIsOutstanding
  <2>1. Balanced /\ QuietInv
    BY DEF HeldInv
  <2>2. Created = Stored /\ IsFiniteSet(Stored)
    BY <2>1 DEF Balanced, Created
  <2>3. ASSUME NEW r \in Stored
        PROVE  /\ Held[r] = Outstanding(r)
               /\ Outstanding(r) = 0 <=> ~Open(r)
    <3>1. r \in Reservations /\ row[r] # Absent
      BY DEF Stored
    <3>2. \A c \in Callers : ~In(c, r)
      BY <3>1 DEF Busy, In
    <3>3. Agree(r)
      BY <2>1, <3>1, <3>2 DEF QuietInv, Quiet, AtRest
    <3>4. Held[r] = Outstanding(r)
      BY <2>2, <3>1, <3>3 DEF Held, Quantity, Agree, Outstanding
    <3>5. /\ Consistent(row[r]) /\ row[r].quantity \in Nat /\ row[r].fulfilled \in Nat
          /\ row[r].released \in Nat
      BY <2>1, <3>1, StoredRow DEF QuietInv
    <3>6. Outstanding(r) = 0 <=> ~Open(r)
      BY <3>5 DEF Consistent, Outstanding, Open
    <3> QED
      BY <3>4, <3>6
  <2>4. PICK f : f = [r \in Stored |-> Outstanding(r)]
    OBVIOUS
  <2>5. SumFunctionOnSet(Held, Stored) = SumFunctionOnSet(f, Stored)
    BY <2>2, <2>3, <2>4, SumSame
  <2>6. reserved = MapThenSumSet(Outstanding, Stored)
    BY <2>1, <2>2, <2>4, <2>5, OutstandingSum DEF Balanced
  <2> QED
    BY <2>3, <2>6
<1> QED
  BY <1>1, HeldInitially, HeldInductive, PTL DEF Spec
=============================================================================
