--------------------------- MODULE StockTransfer ---------------------------
(***************************************************************************)
(* A transfer of stock from one store to another                           *)
(* (InventoryStockTransferService).                                        *)
(*                                                                         *)
(* Stock is dispatched from the source and received at the destination, in *)
(* any number of requests, each with a target for some of the lines.  A    *)
(* request reads the transfer and then its lines, works through the lines  *)
(* one by one (post the movement, then write the line), reads the lines    *)
(* again and writes the status: every one of these is a transaction of its *)
(* own, and no row is locked or compared when it is written.  What         *)
(* StockLedger promises is used here: a movement is posted in one step,    *)
(* refused when the balance does not allow it, and answered as a replay    *)
(* when its idempotency key is in the ledger.                              *)
(*                                                                         *)
(* One transfer is modelled.  Transfers share nothing but balance rows;    *)
(* what others do to those is OtherMovement.                               *)
(***************************************************************************)
EXTENDS Integers

CONSTANTS
  Lines,         \* the lines of the transfer
  Places,        \* the balance rows stock is taken from
  SourceOf,      \* the row each line takes it from
  Callers,       \* requests that run at the same time
  Orders,        \* the quantities of its lines a transfer is created with
  Requests,      \* what callers ask for: a target for some of the lines
  MaxAvailable,  \* bound on the stock of a balance row
  NoLine         \* "no line"

(* A request names a line once at most (requireUniqueTargets): the target  *)
(* for each line, 0 for a line it does not name.                           *)
Targets == [Lines -> Nat]

ASSUME TransferAssumption ==
  /\ SourceOf \in [Lines -> Places]
  /\ Orders \subseteq [Lines -> Nat \ {0}]
  /\ Requests \subseteq Targets
  /\ MaxAvailable \in Nat
  /\ NoLine \notin Lines

Ops == {"dispatch", "receive"}

Statuses == {"ABSENT", "DRAFT", "DISPATCHED", "RECEIVED", "CANCELLED"}

Steps == {"idle", "readLines", "loop", "save", "status"}

(* The rows that ck_inventory_transfer_item_quantities lets in.            *)
LineRows ==
  {i \in [quantity : Nat, dispatched : Nat, received : Nat] :
     i.received <= i.dispatched /\ i.dispatched <= i.quantity}

NewLine(quantity) == [quantity |-> quantity, dispatched |-> 0, received |-> 0]

NothingSeen == [l \in Lines |-> NewLine(0)]

NoTargets == [l \in Lines |-> 0]

Keys == Ops \X Lines \X Nat

VARIABLES
  status,     \* inventory_stock_transfers.status
  line,       \* inventory_stock_transfer_items
  available,  \* the stock on hand and not reserved of each balance row
  keys,       \* the idempotency keys in the ledger
  posted,     \* what the ledger sent out and took in for each line
  pc,         \* what each request does next
  op,         \* what it was asked for
  todo,       \* the targets it has not worked off
  seen,       \* the lines as it read them, of those it has still to work off
  at,         \* the line it has posted and not written
  next,       \* the status it will write
  disturbed   \* whether requests ever overlapped, or one stopped between its
              \* movement and its line

ledgerVars == <<available, keys, posted>>
tables == <<status, line, available, keys, posted>>
vars == <<status, line, available, keys, posted, pc, op, todo, seen, at, next,
          disturbed>>

Init ==
  /\ status = "ABSENT"
  /\ line = NothingSeen
  /\ available = [p \in Places |-> 0]
  /\ keys = {}
  /\ posted = [o \in Ops |-> [l \in Lines |-> 0]]
  /\ pc = [c \in Callers |-> "idle"]
  /\ op = [c \in Callers |-> "none"]
  /\ todo = [c \in Callers |-> NoTargets]
  /\ seen = [c \in Callers |-> NothingSeen]
  /\ at = [c \in Callers |-> NoLine]
  /\ next = [c \in Callers |-> "none"]
  /\ disturbed = FALSE

-----------------------------------------------------------------------------
Idle(c) == pc[c] = "idle"

(* The request is answered, refused or lost.                               *)
End(c) ==
  /\ pc' = [pc EXCEPT ![c] = "idle"]
  /\ op' = [op EXCEPT ![c] = "none"]
  /\ todo' = [todo EXCEPT ![c] = NoTargets]
  /\ seen' = [seen EXCEPT ![c] = NothingSeen]
  /\ at' = [at EXCEPT ![c] = NoLine]
  /\ next' = [next EXCEPT ![c] = "none"]

(* createTransfer: the transfer and its lines in one transaction.          *)
Create(quantity) ==
  /\ status = "ABSENT"
  /\ status' = "DRAFT"
  /\ line' = [l \in Lines |-> NewLine(quantity[l])]
  /\ UNCHANGED <<ledgerVars, pc, op, todo, seen, at, next, disturbed>>

NoteOverlap == disturbed' = (disturbed \/ \E d \in Callers : ~Idle(d))

(* The statuses a transfer may be dispatched or received in.               *)
Ready(o) ==
  \/ o = "dispatch" /\ status = "DRAFT"
  \/ status = "DISPATCHED"

(* dispatchTransfer and receiveTransfer: the SELECT of the transfer, and   *)
(* the refusal by its status and of a request without targets.             *)
Begin(c, o, targets) ==
  /\ Idle(c)
  /\ Ready(o)
  /\ targets # NoTargets
  /\ pc' = [pc EXCEPT ![c] = "readLines"]
  /\ op' = [op EXCEPT ![c] = o]
  /\ todo' = [todo EXCEPT ![c] = targets]
  /\ NoteOverlap
  /\ UNCHANGED <<tables, seen, at, next>>

(* The SELECT of the lines, of which those the request names matter.       *)
ReadLines(c) ==
  /\ pc[c] = "readLines"
  /\ seen' = [seen EXCEPT ![c] =
                [l \in Lines |-> IF todo[c][l] > 0 THEN line[l] ELSE NewLine(0)]]
  /\ pc' = [pc EXCEPT ![c] = "loop"]
  /\ UNCHANGED <<tables, op, todo, at, next, disturbed>>

-----------------------------------------------------------------------------
(* The column of a line that an operation counts up.                       *)
Done(item, o) == IF o = "dispatch" THEN item.dispatched ELSE item.received

(* How far it may be counted up.                                           *)
Limit(item, o) == IF o = "dispatch" THEN item.quantity ELSE item.dispatched

(* Mistake for a mutant: the column the operation does not count is lost.  *)
CountedForgetful(item, o, target) ==
  IF o = "dispatch" THEN [item EXCEPT !.dispatched = target, !.received = 0]
                    ELSE [item EXCEPT !.received = target]

(* The line as updateTransferItemQuantities writes it: the target, and the *)
(* other column as it was read.                                            *)
Counted(item, o, target) ==
  IF o = "dispatch" THEN [item EXCEPT !.dispatched = target]
                    ELSE [item EXCEPT !.received = target]

(* Mistake for a mutant: the whole target is posted again.                 *)
WholeTarget(item, o, target) == target

(* What is still to be posted.                                             *)
Delta(item, o, target) == target - Done(item, o)

(* Mistake for a mutant: the key leaves the target out.                    *)
KeyOnce(o, l, target) == <<o, l, 0>>

Key(o, l, target) == <<o, l, target>>

(* Mistake for a mutant: the idempotency key is not looked up.             *)
NeverReplayed(key) == FALSE

Replayed(key) == key \in keys

(* The loop goes on to the next line of the request.                       *)
Advance(c, l) ==
  /\ todo' = [todo EXCEPT ![c][l] = 0]
  /\ seen' = [seen EXCEPT ![c][l] = NewLine(0)]

(* The loop reaches a line with a target beyond the limit or below what is *)
(* done: the request is refused, with the lines before it already posted.  *)
RefuseLine(c, l) ==
  /\ pc[c] = "loop"
  /\ todo[c][l] > 0
  /\ \/ todo[c][l] > Limit(seen[c][l], op[c])
     \/ todo[c][l] < Done(seen[c][l], op[c])
  /\ End(c)
  /\ UNCHANGED <<tables, disturbed>>

(* The line is at its target already.                                      *)
SkipLine(c, l) ==
  /\ pc[c] = "loop"
  /\ todo[c][l] > 0
  /\ todo[c][l] = Done(seen[c][l], op[c])
  /\ Advance(c, l)
  /\ UNCHANGED <<tables, pc, op, at, next, disturbed>>

(* The refusal of postMovement that depends on the balance: only stock     *)
(* that is not reserved may leave, any may arrive.                         *)
Allowed(o, p, delta) == o = "dispatch" => available[p] >= delta

(* A TRANSFER_OUT at the source or a TRANSFER_IN at the destination.       *)
Book(o, l, key, delta) ==
  /\ keys' = keys \cup {key}
  /\ posted' = [posted EXCEPT ![o][l] = @ + delta]
  /\ available' = IF o = "dispatch"
                    THEN [available EXCEPT ![SourceOf[l]] = @ - delta]
                    ELSE available

(* postMovement for the line, within its limits: booked, or a replay of    *)
(* what was booked under the same key, whatever the quantity then was; or  *)
(* refused, which ends the request.                                        *)
PostLine(c, l) ==
  LET item   == seen[c][l]
      target == todo[c][l]
      delta  == Delta(item, op[c], target)
      key    == Key(op[c], l, target)
  IN  /\ pc[c] = "loop"
      /\ todo[c][l] > 0
      /\ target > Done(item, op[c])
      /\ target <= Limit(item, op[c])
      /\ \/ /\ Replayed(key) \/ Allowed(op[c], SourceOf[l], delta)
            /\ \/ Replayed(key) /\ UNCHANGED ledgerVars
               \/ ~Replayed(key) /\ Book(op[c], l, key, delta)
            /\ pc' = [pc EXCEPT ![c] = "save"]
            /\ at' = [at EXCEPT ![c] = l]
            /\ UNCHANGED <<op, todo, seen, next>>
         \/ /\ ~Replayed(key)
            /\ ~Allowed(op[c], SourceOf[l], delta)
            /\ End(c)
            /\ UNCHANGED ledgerVars
      /\ UNCHANGED <<status, line, disturbed>>

(* updateTransferItemQuantities: an UPDATE by id.                          *)
SaveLine(c) ==
  LET l == at[c]
  IN  /\ pc[c] = "save"
      /\ line' = [line EXCEPT ![l] = Counted(seen[c][l], op[c], todo[c][l])]
      /\ Advance(c, l)
      /\ pc' = [pc EXCEPT ![c] = "loop"]
      /\ at' = [at EXCEPT ![c] = NoLine]
      /\ UNCHANGED <<status, ledgerVars, op, next, disturbed>>

-----------------------------------------------------------------------------
(* Mistake for a mutant: complete when what was dispatched has arrived.    *)
SentHasArrived == \A l \in Lines : line[l].received = line[l].dispatched

AllReceived == \A l \in Lines : line[l].received = line[l].quantity

(* The lines are read again when the loop is done.  (A dispatch that got   *)
(* this far finds something dispatched: each target is at least one.)      *)
Refresh(c) ==
  /\ pc[c] = "loop"
  /\ todo[c] = NoTargets
  /\ next' = [next EXCEPT ![c] =
                IF op[c] = "receive" /\ AllReceived THEN "RECEIVED"
                                                    ELSE "DISPATCHED"]
  /\ pc' = [pc EXCEPT ![c] = "status"]
  /\ UNCHANGED <<tables, op, todo, seen, at, disturbed>>

(* updateTransferStatus: an UPDATE by id, whatever the status is by now.   *)
WriteStatus(c) ==
  /\ pc[c] = "status"
  /\ status' = next[c]
  /\ End(c)
  /\ UNCHANGED <<line, ledgerVars, disturbed>>

(* cancelTransfer: a transfer that is read as DRAFT will be cancelled,     *)
(* whatever its lines say.                                                 *)
BeginCancel(c) ==
  /\ Idle(c)
  /\ status = "DRAFT"
  /\ pc' = [pc EXCEPT ![c] = "status"]
  /\ next' = [next EXCEPT ![c] = "CANCELLED"]
  /\ NoteOverlap
  /\ UNCHANGED <<tables, op, todo, seen, at>>

(* The process dies or a statement fails: the request stops where it is,   *)
(* and nothing resumes it.                                                 *)
Crash(c) ==
  /\ ~Idle(c)
  /\ disturbed' = (disturbed \/ pc[c] = "save")
  /\ End(c)
  /\ UNCHANGED tables

(* Receipts, issues and reservations of others at the source, by the unit. *)
OtherMovement(p, quantity) ==
  /\ available[p] + quantity \in 0 .. MaxAvailable
  /\ available' = [available EXCEPT ![p] = @ + quantity]
  /\ UNCHANGED <<status, line, keys, posted, pc, op, todo, seen, at, next,
                 disturbed>>

Request(c) ==
  \/ \E o \in Ops, targets \in Requests : Begin(c, o, targets)
  \/ BeginCancel(c)

Continue(c) ==
  \/ ReadLines(c)
  \/ \E l \in Lines : RefuseLine(c, l) \/ SkipLine(c, l) \/ PostLine(c, l)
  \/ SaveLine(c)
  \/ Refresh(c)
  \/ WriteStatus(c)

Next ==
  \/ \E quantity \in Orders : Create(quantity)
  \/ \E c \in Callers : Request(c) \/ Continue(c) \/ Crash(c)
  \/ \E p \in Places, quantity \in {-1, 1} : OtherMovement(p, quantity)

Spec == Init /\ [][Next]_vars

-----------------------------------------------------------------------------
(* The lines always pass ck_inventory_transfer_item_quantities, so that no *)
(* UPDATE fails after its movement was posted.                             *)
TypeOK ==
  /\ status \in Statuses
  /\ line \in [Lines -> LineRows]
  /\ available \in [Places -> Nat]
  /\ keys \in SUBSET Keys
  /\ posted \in [Ops -> [Lines -> Nat]]
  /\ pc \in [Callers -> Steps]
  /\ op \in [Callers -> Ops \cup {"none"}]
  /\ todo \in [Callers -> Targets]
  /\ seen \in [Callers -> [Lines -> LineRows]]
  /\ at \in [Callers -> Lines \cup {NoLine}]
  /\ next \in [Callers -> Statuses \cup {"none"}]
  /\ disturbed \in BOOLEAN

(* A line never claims to have dispatched or received more than the ledger *)
(* sent out or took in for it, whatever requests overlap or stop: the      *)
(* movement is posted before the line is written, and a replay stands for  *)
(* a movement to at least the same target.                                 *)
LinesWerePosted ==
  \A l \in Lines :
    /\ line[l].dispatched <= posted["dispatch"][l]
    /\ line[l].received <= posted["receive"][l]

TargetsOf(o, l) == {k[3] : k \in {k \in keys : k[1] = o /\ k[2] = l}}

(* A line that was only ever asked to be dispatched (or received) up to    *)
(* one target has been dispatched (received) that much, once, however      *)
(* often it was asked for and wherever the requests stopped (the key).     *)
RetriesPostOnce ==
  \A k \in keys : TargetsOf(k[1], k[2]) = {k[3]} => posted[k[1]][k[2]] = k[3]

(* RECEIVED says that all of every line has arrived, and DISPATCHED that   *)
(* stock has left, however requests overlap or stop.                       *)
StatusWasEarned ==
  /\ status = "RECEIVED" =>
       \A l \in Lines : posted["receive"][l] >= line[l].quantity
  /\ status = "DISPATCHED" => \E l \in Lines : posted["dispatch"][l] > 0

(* No more arrives than has left and no more leaves than was asked for, at *)
(* every moment, as long as requests come one after the other and none     *)
(* stops between a movement and its line.                                  *)
NothingFromNothing ==
  ~disturbed =>
    \A l \in Lines :
      /\ posted["receive"][l] <= posted["dispatch"][l]
      /\ posted["dispatch"][l] <= line[l].quantity

(* Under the same condition lines and ledger agree between two requests,   *)
(* also after a request that was refused half-way.                         *)
LinesMatchLedger ==
  (~disturbed /\ \A c \in Callers : Idle(c)) =>
    \A l \in Lines :
      /\ line[l].dispatched = posted["dispatch"][l]
      /\ line[l].received = posted["receive"][l]
=============================================================================
