-------------------------- MODULE StockReservation --------------------------
(***************************************************************************)
(* Reservations of stock (InventoryStockReservationService).               *)
(*                                                                         *)
(* A reservation is kept twice: as a row of inventory_stock_reservations   *)
(* and as movements in the stock ledger.  Every operation reads the row,   *)
(* decides from it, posts one movement and then writes the row: three      *)
(* steps in three transactions, with the row neither locked nor compared   *)
(* when it is written.  What StockLedger promises is used here: a movement *)
(* is posted in one step, refused when the balance does not allow it, and  *)
(* answered as a replay when its idempotency key is in the ledger.         *)
(*                                                                         *)
(* All reservations are on one balance row, where they compete for stock;  *)
(* reservations on different rows share nothing.                           *)
(***************************************************************************)
EXTENDS Integers, FiniteSetsExt

CONSTANTS
  Reservations,  \* the UUIDs reservations get
  Callers,       \* requests that run at the same time
  Quantities,    \* the quantities and targets callers ask for
  MaxOnHand      \* bound on the stock of the balance row

ASSUME ReservationAssumption ==
  /\ Quantities \subseteq Nat \ {0}
  /\ MaxOnHand \in Nat

Statuses ==
  {"ACTIVE", "PARTIALLY_FULFILLED", "FULFILLED", "RELEASED", "EXPIRED"}

Rows ==
  [quantity : Nat, fulfilled : Nat, released : Nat, status : Statuses,
   expires : BOOLEAN]

Absent == [status |-> "ABSENT"]

(* The idempotency keys: operation, reservation and target.                *)
Keys == {"create", "fulfill", "release", "expire"} \X Reservations \X Nat

Calls ==
  [step : {"post", "save"}, res : Reservations, key : Keys,
   qty : Int, rsv : Int, save : Rows]

Idle == [step |-> "idle"]

VARIABLES
  onHand, reserved,            \* the balance row
  keys,                        \* the idempotency keys in the ledger
  issued, freed,               \* what the ledger issued and released for each
                               \* reservation: totals by sourceId
  row,                         \* inventory_stock_reservations
  due,                         \* the reservations whose expiresAt has passed
  call,                        \* the operation each caller is in
  sweep,                       \* what is left of each caller's list of
                               \* expired reservations
  disturbed                    \* the reservations two operations were in at
                               \* once, or one stopped between its movement
                               \* and its row

ledgerVars == <<onHand, reserved, keys, issued, freed>>
callVars == <<call, sweep, disturbed>>
vars ==
  <<onHand, reserved, keys, issued, freed, row, due, call, sweep, disturbed>>

Init ==
  /\ onHand = 0 /\ reserved = 0
  /\ keys = {}
  /\ issued = [r \in Reservations |-> 0]
  /\ freed = [r \in Reservations |-> 0]
  /\ row = [r \in Reservations |-> Absent]
  /\ due = {}
  /\ call = [c \in Callers |-> Idle]
  /\ sweep = [c \in Callers |-> {}]
  /\ disturbed = {}

-----------------------------------------------------------------------------
(* Mistake for a mutant: an expired reservation may be worked on.          *)
OpenAfterExpiry(r) ==
  row[r].status \in {"ACTIVE", "PARTIALLY_FULFILLED", "EXPIRED"}

(* requireOpenReservation *)
Open(r) == row[r].status \in {"ACTIVE", "PARTIALLY_FULFILLED"}

Unused(r) ==
  /\ row[r] = Absent
  /\ \A k \in keys : k[2] # r
  /\ \A c \in Callers : call[c] # Idle => call[c].res # r

(* Some operation is in the reservation.                                   *)
Busy(r) == \E c \in Callers : call[c] # Idle /\ call[c].res = r

(* The operation goes on with a movement to post, or with the row to write *)
(* when it has nothing to post.                                            *)
Enter(c, r, key, qty, rsv, save) ==
  /\ call' = [call EXCEPT ![c] =
                [step |-> IF qty = 0 /\ rsv = 0 THEN "save" ELSE "post",
                 res |-> r, key |-> key, qty |-> qty, rsv |-> rsv,
                 save |-> save]]
  /\ disturbed' = IF Busy(r) THEN disturbed \cup {r} ELSE disturbed

(* createReservation up to postMovement, with a fresh UUID.                *)
Create(c, r, quantity, expires) ==
  /\ call[c] = Idle /\ sweep[c] = {}
  /\ Unused(r)
  /\ Enter(c, r, <<"create", r, 0>>, 0, quantity,
           [quantity |-> quantity, fulfilled |-> 0, released |-> 0,
            status |-> "ACTIVE", expires |-> expires])
  /\ UNCHANGED <<ledgerVars, row, due, sweep>>

(* Mistake for a mutant: the key of a fulfilment leaves the target out.    *)
FulfillKeyOnce(r, target) == <<"fulfill", r, 0>>

FulfillKey(r, target) == <<"fulfill", r, target>>

(* Mistake for a mutant: the whole target is issued again.                 *)
WholeTarget(old, target) == target

(* What a fulfilment up to the target has still to issue.                  *)
Increment(old, target) == target - old.fulfilled

(* fulfillReservation: the target is the total to have been issued, and    *)
(* only what the row lacks of it is posted.                                *)
Fulfill(c, r, target) ==
  LET old == row[r]
  IN  /\ call[c] = Idle /\ sweep[c] = {}
      /\ Open(r)
      /\ target >= old.fulfilled
      /\ target <= old.quantity - old.released
      /\ Enter(c, r, FulfillKey(r, target),
               -Increment(old, target), -Increment(old, target),
               [old EXCEPT !.fulfilled = target,
                           !.status = IF target + old.released = old.quantity
                                        THEN "FULFILLED"
                                        ELSE "PARTIALLY_FULFILLED"])
      /\ UNCHANGED <<ledgerVars, row, due, sweep>>

(* releaseReservation: likewise, for the total to have been released.      *)
Release(c, r, target) ==
  LET old == row[r]
  IN  /\ call[c] = Idle /\ sweep[c] = {}
      /\ Open(r)
      /\ target >= old.released
      /\ target <= old.quantity - old.fulfilled
      /\ Enter(c, r, <<"release", r, target>>, 0, old.released - target,
               [old EXCEPT !.released = target,
                           !.status = IF old.fulfilled + target = old.quantity
                                        THEN "RELEASED"
                                        ELSE "PARTIALLY_FULFILLED"])
      /\ UNCHANGED <<ledgerVars, row, due, sweep>>

(* The refusals of expireReservation: a reservation without an expiry date *)
(* is not refused.                                                         *)
Expirable(r) ==
  /\ Open(r)
  /\ row[r].expires => r \in due
  /\ row[r].fulfilled + row[r].released < row[r].quantity

(* Mistake for a mutant: what was fulfilled is released again.             *)
RemainingUnissued(old) == old.quantity - old.released

Remaining(old) == old.quantity - old.fulfilled - old.released

(* What expireReservation posts and then writes.                           *)
EnterExpiry(c, r) ==
  Enter(c, r, <<"expire", r, 0>>, 0, -Remaining(row[r]),
        [row[r] EXCEPT !.released = @ + Remaining(row[r]),
                       !.status = "EXPIRED"])

Expire(c, r) ==
  /\ call[c] = Idle /\ sweep[c] = {}
  /\ Expirable(r)
  /\ EnterExpiry(c, r)
  /\ UNCHANGED <<ledgerVars, row, due, sweep>>

(* expireDueReservations lists the open reservations that are overdue ...  *)
StartSweep(c) ==
  /\ call[c] = Idle /\ sweep[c] = {}
  /\ sweep' = [sweep EXCEPT ![c] = {r \in due : Open(r)}]
  /\ UNCHANGED <<ledgerVars, row, due, call, disturbed>>

(* ... and expires them one after the other, reading each again; the first *)
(* one that is refused ends the sweep.                                     *)
SweepNext(c, r) ==
  /\ call[c] = Idle
  /\ r \in sweep[c]
  /\ \/ /\ Expirable(r)
        /\ EnterExpiry(c, r)
        /\ sweep' = [sweep EXCEPT ![c] = @ \ {r}]
     \/ /\ ~Expirable(r)
        /\ sweep' = [sweep EXCEPT ![c] = {}]
        /\ UNCHANGED <<call, disturbed>>
  /\ UNCHANGED <<ledgerVars, row, due>>

-----------------------------------------------------------------------------
(* The refusals of postMovement, on the balance row.                       *)
Allowed(qty, rsv) ==
  /\ reserved + rsv >= 0
  /\ reserved + rsv <= onHand + qty

(* The ledger entry of a call, counted by what it does to a reservation.   *)
Book(k) ==
  /\ onHand' = onHand + k.qty
  /\ reserved' = reserved + k.rsv
  /\ keys' = keys \cup {k.key}
  /\ issued' = [issued EXCEPT ![k.res] = @ - k.qty]
  /\ freed' = [freed EXCEPT ![k.res] =
                 IF k.key[1] \in {"release", "expire"} THEN @ - k.rsv ELSE @]

(* Mistake for a mutant: the idempotency key is not looked up.             *)
NeverReplayed(k) == FALSE

(* The look-up of the idempotency key in the ledger.                       *)
Replayed(k) == k.key \in keys

(* postMovement: booked, or a replay of what was booked before under the   *)
(* same key, whatever the quantity then was; either way the operation goes *)
(* on.  A refusal ends it, and the sweep it is part of.                    *)
Post(c) ==
  LET k == call[c]
  IN  /\ k.step = "post"
      /\ \/ /\ Replayed(k)
            /\ call' = [call EXCEPT ![c].step = "save"]
            /\ UNCHANGED <<ledgerVars, sweep>>
         \/ /\ ~Replayed(k)
            /\ Allowed(k.qty, k.rsv)
            /\ Book(k)
            /\ call' = [call EXCEPT ![c].step = "save"]
            /\ UNCHANGED sweep
         \/ /\ ~Replayed(k)
            /\ ~Allowed(k.qty, k.rsv)
            /\ call' = [call EXCEPT ![c] = Idle]
            /\ sweep' = [sweep EXCEPT ![c] = {}]
            /\ UNCHANGED ledgerVars
      /\ UNCHANGED <<row, due, disturbed>>

(* The INSERT of a new reservation, or the UPDATE by id, which writes both *)
(* quantities and the status as computed from the row that was read.       *)
Save(c) ==
  /\ call[c].step = "save"
  /\ row' = [row EXCEPT ![call[c].res] = call[c].save]
  /\ call' = [call EXCEPT ![c] = Idle]
  /\ UNCHANGED <<ledgerVars, due, sweep, disturbed>>

(* The process dies: the operation stops where it is, and nothing resumes  *)
(* it at the next start.                                                   *)
Crash(c) ==
  /\ call[c] # Idle \/ sweep[c] # {}
  /\ call' = [call EXCEPT ![c] = Idle]
  /\ sweep' = [sweep EXCEPT ![c] = {}]
  /\ disturbed' = IF call[c].step = "save"
                    THEN disturbed \cup {call[c].res} ELSE disturbed
  /\ UNCHANGED <<ledgerVars, row, due>>

(* Time passes the expiresAt of a reservation.                             *)
Elapse(r) ==
  /\ row[r] # Absent /\ row[r].expires /\ r \notin due
  /\ due' = due \cup {r}
  /\ UNCHANGED <<ledgerVars, row, callVars>>

(* A receipt or an issue of one unit that no reservation has to do with.   *)
OtherMovement(qty) ==
  /\ onHand + qty <= MaxOnHand
  /\ Allowed(qty, 0)
  /\ onHand' = onHand + qty
  /\ UNCHANGED <<reserved, keys, issued, freed, row, due, callVars>>

-----------------------------------------------------------------------------
Request(c, r) ==
  \/ \E q \in Quantities, e \in BOOLEAN : Create(c, r, q, e)
  \/ \E t \in Quantities : Fulfill(c, r, t)
  \/ \E t \in Quantities : Release(c, r, t)
  \/ Expire(c, r)
  \/ SweepNext(c, r)

Environment ==
  \/ \E r \in Reservations : Elapse(r)
  \/ \E qty \in {-1, 1} : OtherMovement(qty)

Continue(c) == StartSweep(c) \/ Post(c) \/ Save(c)

Next ==
  \/ \E c \in Callers, r \in Reservations : Request(c, r)
  \/ \E c \in Callers : Continue(c) \/ Crash(c)
  \/ Environment

Spec == Init /\ [][Next]_vars

-----------------------------------------------------------------------------
TypeOK ==
  /\ onHand \in Nat /\ reserved \in Nat
  /\ keys \in SUBSET Keys
  /\ issued \in [Reservations -> Nat]
  /\ freed \in [Reservations -> Nat]
  /\ row \in [Reservations -> Rows \cup {Absent}]
  /\ due \in SUBSET Reservations
  /\ call \in [Callers -> Calls \cup {Idle}]
  /\ sweep \in [Callers -> SUBSET Reservations]
  /\ disturbed \in SUBSET Reservations

Stored == {r \in Reservations : row[r] # Absent}

(* A reservation never claims to have fulfilled more than the ledger       *)
(* issued for it, whatever operations overlap, get stale answers or are    *)
(* cut short: the movement is posted before the row is written, and a      *)
(* replay stands for a movement of at least the same total.                *)
FulfilledWasIssued == \A r \in Stored : row[r].fulfilled <= issued[r]

Targets(r) == {k[3] : k \in {k \in keys : k[1] = "fulfill" /\ k[2] = r}}

(* A reservation all of whose fulfilments asked for one total got that     *)
(* total issued once, however often and however concurrently it was asked  *)
(* for, and wherever the operations were cut short.                        *)
RetriesIssueOnce ==
  \A r \in Reservations, t \in Quantities :
    Targets(r) = {t} => issued[r] = t

(* The row and the ledger of an undisturbed reservation agree when no      *)
(* operation is in between the two.                                        *)
LedgerMatchesRow ==
  \A r \in Stored \ disturbed :
    ~Busy(r) => row[r].fulfilled = issued[r] /\ row[r].released = freed[r]

Outstanding(r) == row[r].quantity - row[r].fulfilled - row[r].released

(* As long as no reservation was disturbed: what the balance holds         *)
(* reserved is what the open reservations are still owed, and a closed one *)
(* is owed nothing.  Reservations may compete for the same stock, and      *)
(* operations on different ones overlap.                                   *)
ReservedIsOutstanding ==
  disturbed = {} /\ (\A r \in Reservations : ~Busy(r)) =>
    /\ reserved = MapThenSumSet(Outstanding, Stored)
    /\ \A r \in Stored : Outstanding(r) = 0 <=> ~Open(r)

(* A reservation that is FULFILLED, RELEASED or EXPIRED stays as it is     *)
(* (requireOpenReservation), until operations on it overlap.               *)
ClosedStaysClosed ==
  [][\A r \in Stored \ disturbed :
       row[r].status \in {"FULFILLED", "RELEASED", "EXPIRED"} =>
         row'[r] = row[r]]_row
=============================================================================
