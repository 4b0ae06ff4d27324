------------------------------ MODULE StockCount ------------------------------
(***************************************************************************)
(* Cycle counts and stock adjustments of one store                         *)
(* (InventoryCycleCountService, InventoryStockAdjustmentService).          *)
(*                                                                         *)
(* Both are documents whose lines correct the stock of a balance row, an   *)
(* adjustment by a quantity given when it is created, a count by the       *)
(* difference between what was counted and what the balance said when the  *)
(* count was created.  A request reads the document, decides, and then     *)
(* posts or writes line by line and writes the status at the end, each in  *)
(* a transaction of its own; no row is locked or compared when it is       *)
(* written.  What StockLedger promises is used here: a movement is posted  *)
(* in one step, refused when the balance does not allow it, and answered   *)
(* as a replay when its idempotency key is in the ledger.                  *)
(*                                                                         *)
(* shelf is what really lies there: what a count finds.  What the          *)
(* documents of Counts and Adjustments have to share with other documents  *)
(* and requests is OtherMovement and OtherCount.                           *)
(***************************************************************************)
EXTENDS Integers

CONSTANTS
  Places,       \* the balance rows of the store
  Counts,       \* the UUIDs cycle counts get
  Adjustments,  \* the UUIDs stock adjustments get
  Deltas,       \* the quantities an adjustment asks for, a line each
  Scopes,       \* the sets of balance rows counts are created for
  Callers,      \* requests that run at the same time
  MaxOnHand     \* bound on the stock of a balance row

ASSUME CountAssumption ==
  /\ Counts \cap Adjustments = {}
  /\ Scopes \subseteq SUBSET Places
  /\ Deltas \subseteq [Places -> Int]
  /\ MaxOnHand \in Nat

Docs == Counts \cup Adjustments

Statuses ==
  {"ABSENT", "DRAFT", "IN_PROGRESS", "COMPLETED", "POSTED", "CANCELLED"}

Quantities == 0 .. MaxOnHand

(* create: the balances are read and the count is not inserted yet;        *)
(* record and post: lines are left to write or post; change: only the      *)
(* status is left to write.                                                *)
Calls ==
  [op : {"create", "record", "post", "change"}, doc : Docs,
   todo : SUBSET Places, val : [Places -> Int], to : Statuses]

Idle == [op |-> "none"]

VARIABLES
  onHand, reserved,  \* the balance rows
  shelf,             \* the stock that is really there
  keys,              \* the idempotency keys in the ledger: document and line
  posted,            \* what the ledger booked for each line
  status,            \* the status of each document
  lines,             \* the balance rows each document has a line for
  system,            \* system_quantity of the lines of counts
  counted,           \* the lines of counts that have a counted_quantity
  otherOpen,         \* whether another count of the store is open
  delta,             \* quantity_delta, and variance_quantity of counted lines
  call,              \* the request each caller is in
  moved,             \* the lines of counts whose balance was changed by
                     \* others since the snapshot
  disturbed          \* the counts two requests were in at the same time

stockVars == <<onHand, reserved, shelf, keys, posted>>
docVars == <<status, lines, system, counted, delta, otherOpen>>
vars == <<onHand, reserved, shelf, keys, posted, status, lines, system, counted,
          delta, otherOpen, call, moved, disturbed>>

Init ==
  /\ onHand \in [Places -> Quantities]
  /\ reserved = [p \in Places |-> 0]
  /\ shelf \in [Places -> Quantities]
  /\ keys = {}
  /\ posted = [d \in Docs |-> [p \in Places |-> 0]]
  /\ status = [d \in Docs |-> "ABSENT"]
  /\ lines = [d \in Docs |-> {}]
  /\ system = [d \in Counts |-> [p \in Places |-> 0]]
  /\ counted = [d \in Counts |-> {}]
  /\ delta = [d \in Docs |-> [p \in Places |-> 0]]
  /\ otherOpen = FALSE
  /\ call = [c \in Callers |-> Idle]
  /\ moved = [d \in Counts |-> {}]
  /\ disturbed = {}

-----------------------------------------------------------------------------
InDoc(c, d) == call[c] # Idle /\ call[c].doc = d

Known(d) == status[d] # "ABSENT" \/ \E c \in Callers : InDoc(c, d)

(* The balance at p is changed by something else than these counts.        *)
NoteMoved(p, except) ==
  moved' = [e \in Counts |->
              IF e \notin except \cup disturbed /\ Known(e)
                THEN moved[e] \cup {p} ELSE moved[e]]

(* What a request carries is of interest for its lines only.               *)
Begin(c, op, d, todo, val, to) ==
  /\ call[c] = Idle
  /\ call' = [call EXCEPT ![c] =
                [op |-> op, doc |-> d, todo |-> todo, to |-> to,
                 val |-> [p \in Places |-> IF p \in todo THEN val[p] ELSE 0]]]

End(c) == call' = [call EXCEPT ![c] = Idle]

(* Two postings of a count do not disturb each other.                      *)
Overlaps(op, d) ==
  /\ d \in Counts
  /\ \E c \in Callers : InDoc(c, d) /\ (op # "post" \/ call[c].op # "post")

(* What moved is of interest for undisturbed counts only.                  *)
NoteOverlap(op, d) ==
  IF Overlaps(op, d)
    THEN /\ disturbed' = disturbed \cup {d}
         /\ moved' = [moved EXCEPT ![d] = {}]
    ELSE UNCHANGED <<disturbed, moved>>

(* A request on a document that exists: it is read, with its lines.        *)
(* Status and lines are two SELECTs; a line written in between might as    *)
(* well have been written before both, for that does not depend on the     *)
(* status any more.                                                        *)
BeginOn(c, op, d, todo, val, to) ==
  /\ Begin(c, op, d, todo, val, to)
  /\ NoteOverlap(op, d)
  /\ UNCHANGED <<stockVars, docVars>>

OpenCount == {"DRAFT", "IN_PROGRESS", "COMPLETED"}

(* uq_inventory_open_cycle_count_store lets the count have this status.    *)
MayHave(d, to) ==
  d \in Counts /\ to \in OpenCount =>
    ~otherOpen /\ \A e \in Counts \ {d} : status[e] \notin OpenCount

-----------------------------------------------------------------------------
(* Mistake for a mutant: the snapshot takes what is available.             *)
SnapshotAvailable == [p \in Places |-> onHand[p] - reserved[p]]

(* listStockBalances, as createCycleCount uses it.                         *)
Snapshot == onHand

(* createCycleCount up to the INSERT, for some of the balance rows (the    *)
(* scope).                                                                 *)
BeginCount(c, d, scope) ==
  /\ ~Known(d)
  /\ scope # {}
  /\ Begin(c, "create", d, scope, Snapshot, "DRAFT")
  /\ UNCHANGED <<stockVars, docVars, moved, disturbed>>

(* The INSERT of the count and its lines, in one transaction.              *)
InsertCount(c) ==
  LET k == call[c]
  IN  /\ k.op = "create"
      /\ End(c)
      /\ IF MayHave(k.doc, k.to)
           THEN /\ status' = [status EXCEPT ![k.doc] = k.to]
                /\ lines' = [lines EXCEPT ![k.doc] = k.todo]
                /\ system' = [system EXCEPT ![k.doc] = k.val]
           ELSE UNCHANGED <<status, lines, system>>
      /\ UNCHANGED <<stockVars, counted, delta, otherOpen, moved, disturbed>>

(* createAdjustment; nobody knows the document before its INSERT.          *)
CreateAdjustment(d, change) ==
  /\ status[d] = "ABSENT"
  /\ status' = [status EXCEPT ![d] = "DRAFT"]
  /\ lines' = [lines EXCEPT ![d] = {p \in Places : change[p] # 0}]
  /\ delta' = [delta EXCEPT ![d] = change]
  /\ lines'[d] # {}
  /\ UNCHANGED <<stockVars, system, counted, otherOpen, call, moved, disturbed>>

(* startCycleCount *)
BeginStart(c, d) ==
  /\ status[d] = "DRAFT"
  /\ BeginOn(c, "change", d, {}, shelf, "IN_PROGRESS")

(* recordCount: what is on the shelf is recorded for some of the lines.    *)
BeginRecord(c, d, which) ==
  /\ status[d] = "IN_PROGRESS"
  /\ which # {} /\ which \subseteq lines[d]
  /\ BeginOn(c, "record", d, which, shelf, "IN_PROGRESS")

(* The UPDATE of one line.                                                 *)
SaveLine(c, p) ==
  LET k == call[c]
  IN  /\ k.op = "record" /\ p \in k.todo
      /\ delta' = [delta EXCEPT ![k.doc][p] = k.val[p] - system[k.doc][p]]
      /\ counted' = [counted EXCEPT ![k.doc] = @ \cup {p}]
      /\ call' = [call EXCEPT ![c] = IF k.todo = {p} THEN Idle
                                     ELSE [k EXCEPT !.todo = @ \ {p}]]
      /\ UNCHANGED <<stockVars, status, lines, system, otherOpen, moved,
                     disturbed>>

(* Mistake for a mutant: one counted line is enough.                       *)
SomeCounted(d) == lines[d] \cap counted[d] # {}

AllCounted(d) == lines[d] \subseteq counted[d]

(* completeCycleCount *)
BeginComplete(c, d) ==
  /\ status[d] = "IN_PROGRESS"
  /\ AllCounted(d)
  /\ BeginOn(c, "change", d, {}, shelf, "COMPLETED")

(* cancelCycleCount, cancelAdjustment *)
BeginCancel(c, d) ==
  /\ status[d] \in IF d \in Counts THEN OpenCount ELSE {"DRAFT"}
  /\ BeginOn(c, "change", d, {}, shelf, "CANCELLED")

(* postCycleCount, postAdjustment: the lines with something to post.       *)
BeginPost(c, d) ==
  /\ status[d] = IF d \in Counts THEN "COMPLETED" ELSE "DRAFT"
  /\ BeginOn(c, "post", d, {p \in lines[d] : delta[d][p] # 0}, delta[d],
             "POSTED")

-----------------------------------------------------------------------------
(* Mistake for a mutant: the idempotency key is not looked up.             *)
NeverReplayed(d, p) == FALSE

(* The look-up of the idempotency key of a line in the ledger.             *)
Replayed(d, p) == <<d, p>> \in keys

(* The refusals of postMovement, on the balance row.                       *)
Allowed(p, qty, rsv) ==
  /\ reserved[p] + rsv >= 0
  /\ reserved[p] + rsv <= onHand[p] + qty

(* The ledger entry of a line.                                             *)
Book(d, p, qty) ==
  /\ onHand' = [onHand EXCEPT ![p] = @ + qty]
  /\ keys' = keys \cup {<<d, p>>}
  /\ posted' = [posted EXCEPT ![d][p] = @ + qty]
  /\ NoteMoved(p, {d})
  /\ UNCHANGED <<reserved, shelf>>

(* Mistake for a mutant: a line that is refused is left out.               *)
PostOrSkip(c, p) ==
  LET k == call[c]
  IN  /\ k.op = "post" /\ p \in k.todo
      /\ call' = [call EXCEPT ![c].todo = @ \ {p}]
      /\ IF Replayed(k.doc, p) \/ ~Allowed(p, k.val[p], 0)
           THEN UNCHANGED <<stockVars, moved>>
           ELSE Book(k.doc, p, k.val[p])
      /\ UNCHANGED <<docVars, disturbed>>

(* postMovement for one line: a replay, or booked.  A refusal is a Stop.   *)
PostLine(c, p) ==
  LET k == call[c]
  IN  /\ k.op = "post" /\ p \in k.todo
      /\ call' = [call EXCEPT ![c].todo = @ \ {p}]
      /\ \/ Replayed(k.doc, p) /\ UNCHANGED <<stockVars, moved>>
         \/ /\ ~Replayed(k.doc, p)
            /\ Allowed(p, k.val[p], 0)
            /\ Book(k.doc, p, k.val[p])
      /\ UNCHANGED <<docVars, disturbed>>

(* The UPDATE of the status by id, whatever the status is by now; it fails *)
(* when it would open a second count.                                      *)
WriteStatus(c) ==
  LET k == call[c]
  IN  /\ k.op = "change" \/ (k.op = "post" /\ k.todo = {})
      /\ End(c)
      /\ status' = IF MayHave(k.doc, k.to)
                     THEN [status EXCEPT ![k.doc] = k.to] ELSE status
      /\ UNCHANGED <<stockVars, lines, system, counted, delta, otherOpen, moved,
                     disturbed>>

(* The request ends early: a movement is refused by its balance or by the  *)
(* catalogue (an inactive item, a batch-tracked one, which these movements *)
(* name no batch for), a statement fails or the process dies.              *)
Stop(c) ==
  /\ call[c] # Idle
  /\ End(c)
  /\ UNCHANGED <<stockVars, docVars, moved, disturbed>>

(* A receipt, an issue, a reservation or a release of one unit by others:  *)
(* freezeStock is stored and looked at by nobody.  What is booked is also  *)
(* put on the shelf or taken from it.                                      *)
OtherMovement(p, qty, rsv) ==
  /\ onHand[p] + qty <= MaxOnHand
  /\ shelf[p] + qty \in Quantities
  /\ Allowed(p, qty, rsv)
  /\ onHand' = [onHand EXCEPT ![p] = @ + qty]
  /\ shelf' = [shelf EXCEPT ![p] = @ + qty]
  /\ reserved' = [reserved EXCEPT ![p] = @ + rsv]
  /\ IF qty = 0 THEN UNCHANGED moved
       ELSE NoteMoved(p, {e \in Counts : status[e] = "POSTED"})
  /\ UNCHANGED <<keys, posted, docVars, call, disturbed>>

(* Another count of the store is created, reopened, posted or cancelled.   *)
OtherCount ==
  /\ \A e \in Counts : status[e] \notin OpenCount
  /\ otherOpen' = ~otherOpen
  /\ UNCHANGED <<stockVars, status, lines, system, counted, delta, call, moved,
                 disturbed>>

-----------------------------------------------------------------------------
CountRequest(c, d) ==
  \/ \E scope \in Scopes : BeginCount(c, d, scope)
  \/ \E which \in SUBSET Places : BeginRecord(c, d, which)
  \/ BeginStart(c, d)
  \/ BeginComplete(c, d)

DocRequest(c, d) == BeginCancel(c, d) \/ BeginPost(c, d)

Continue(c) ==
  \/ InsertCount(c)
  \/ \E p \in Places : SaveLine(c, p) \/ PostLine(c, p)
  \/ WriteStatus(c)
  \/ Stop(c)

Environment ==
  \/ \E p \in Places, one \in {-1, 1} :
       OtherMovement(p, one, 0) \/ OtherMovement(p, 0, one)
  \/ OtherCount

Next ==
  \/ \E d \in Adjustments, change \in Deltas : CreateAdjustment(d, change)
  \/ \E c \in Callers :
       \/ \E d \in Counts : CountRequest(c, d)
       \/ \E d \in Docs : DocRequest(c, d)
       \/ Continue(c)
  \/ Environment

Spec == Init /\ [][Next]_vars

-----------------------------------------------------------------------------
TypeOK ==
  /\ onHand \in [Places -> Nat] /\ reserved \in [Places -> Nat]
  /\ shelf \in [Places -> Nat]
  /\ keys \in SUBSET (Docs \X Places)
  /\ posted \in [Docs -> [Places -> Int]]
  /\ status \in [Docs -> Statuses]
  /\ lines \in [Docs -> SUBSET Places]
  /\ system \in [Counts -> [Places -> Nat]]
  /\ counted \in [Counts -> SUBSET Places]
  /\ delta \in [Docs -> [Places -> Int]]
  /\ otherOpen \in BOOLEAN
  /\ call \in [Callers -> Calls \cup {Idle}]
  /\ moved \in [Counts -> SUBSET Places]
  /\ disturbed \in SUBSET Counts

(* A line of an adjustment is booked with the quantity it was created with *)
(* or not at all, however often the adjustment is posted, by however many  *)
(* requests at once, and wherever they stop (postAdjustment: the key of    *)
(* the movement is the line's).                                            *)
AdjustmentPostsAsWritten ==
  \A d \in Adjustments, p \in Places : posted[d][p] \in {0, delta[d][p]}

(* An adjustment that is POSTED has all of its lines in the ledger: a      *)
(* refused line ends the posting, and the next one takes up the rest.      *)
PostedMeansBooked ==
  \A d \in Adjustments :
    status[d] = "POSTED" => \A p \in lines[d] : posted[d][p] = delta[d][p]

(* A count is COMPLETED or POSTED with every line counted, also when       *)
(* requests overlap and write over each other's status                     *)
(* (completeCycleCount).                                                   *)
CompleteMeansCounted ==
  \A d \in Counts :
    status[d] \in {"COMPLETED", "POSTED"} => lines[d] \subseteq counted[d]

(* A count is POSTED: its balances say what is on the shelf, whatever was  *)
(* wrong before, however often it was posted and wherever a posting        *)
(* stopped (postCycleCount).  Only for balances nobody else moved between  *)
(* the snapshot and the posting and for counts no two requests were in.    *)
CountCorrectsStock ==
  \A d \in Counts \ disturbed :
    status[d] = "POSTED" => \A p \in lines[d] \ moved[d] : onHand[p] = shelf[p]
=============================================================================
