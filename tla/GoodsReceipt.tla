----------------------------- MODULE GoodsReceipt -----------------------------
(***************************************************************************)
(* One purchase order, the goods receipts written against it and the stock *)
(* they book (ProcurementPurchaseOrderService,                             *)
(* ProcurementGoodsReceiptService, ProcurementInventoryPostingService).    *)
(*                                                                         *)
(* A request reads a receipt, the order and the quantities posted so far,  *)
(* each with statements of their own, computes the new cumulative          *)
(* quantities and the new order status from what it read, books stock line *)
(* by line, and writes the absolute results in one transaction.  That      *)
(* transaction locks the rows it writes but compares nothing with what was *)
(* read; only a reversal looks at a quantity again.  A change of the order *)
(* writes the whole row back from the row it read.                         *)
(*                                                                         *)
(* What StockLedger promises is used: a movement is booked in one step and *)
(* answered as a replay when its idempotency key is in the ledger, and     *)
(* refused when the ledger has the key with other data.                    *)
(***************************************************************************)
EXTENDS Integers, FiniteSetsExt

CONSTANTS
  Lines,       \* the items of the purchase order
  Ordered,     \* orderedQuantity of each
  Mapped,      \* the items with an inventory_item_id
  Deliveries,  \* what a receipt may list: for some of Lines, the quantity
               \* received and how much of it was accepted
  Stores,      \* destination stores
  Receipts,    \* the UUIDs receipts get
  Callers,     \* requests that run at the same time
  MaxEdits     \* bound on the edits of receipts

(* validateItemsPresent and validateItemQuantities: a receipt has a line,  *)
(* and no line is empty or accepts more than was received.                 *)
ASSUME GoodsReceiptAssumption ==
  /\ Ordered \in [Lines -> Nat \ {0}]
  /\ Mapped \subseteq Lines
  /\ \A d \in Deliveries :
       /\ DOMAIN d \in (SUBSET Lines) \ {{}}
       /\ \A l \in DOMAIN d :
            d[l].received \in Nat \ {0} /\ d[l].accepted \in 0 .. d[l].received
  /\ MaxEdits \in Nat

VARIABLES
  order,      \* the row of the order: status, and whether acknowledged_at is set
  received,   \* received_quantity of its items
  receipt,    \* the row of each receipt, what it lists, and the edit that wrote
              \* its lines, for every replacement gives them new UUIDs
  booked,     \* the RECEIPT movements in the stock ledger
  call,       \* the request each caller is in
  stale,      \* callers that read what another request has written since
  disturbed,  \* whether one of them has written all the same
  edits,      \* how many edits were saved
  cutOff      \* receipts of which a posting ended after it had booked stock

vars == <<order, received, receipt, booked, call, stale, disturbed, edits, cutOff>>

Receivable == {"ISSUED", "ACKNOWLEDGED", "PARTIALLY_RECEIVED"}

Idle == [op |-> "none"]

Absent == [status |-> "ABSENT"]

Init ==
  /\ order = [status |-> "DRAFT", acknowledged |-> FALSE]
  /\ received = [l \in Lines |-> 0]
  /\ receipt = [r \in Receipts |-> Absent]
  /\ booked = {}
  /\ call = [c \in Callers |-> Idle]
  /\ stale = {}
  /\ disturbed = FALSE
  /\ edits = 0
  /\ cutOff = {}

-----------------------------------------------------------------------------
(* The requests a write makes stale: those on the receipt it writes, and,  *)
(* if it writes the order, those that will write the order from what they  *)
(* have read of it.                                                        *)
WritesOrder(c) == call[c].op \in {"post", "reverse", "change"}

StaleBy(c, r, writesOrder) ==
  {e \in Callers \ {c} :
     \/ call[e].op \in {"post", "edit", "reverse"} /\ call[e].receipt = r
     \/ writesOrder /\ WritesOrder(e) /\ call[e].step # "order"}

(* A request writes its results and ends.                                  *)
Write(c, r, writesOrder) ==
  /\ call' = [call EXCEPT ![c] = Idle]
  /\ disturbed' = (disturbed \/ c \in stale)
  /\ stale' = (stale \cup StaleBy(c, r, writesOrder)) \ {c}

Begin(c, request) ==
  /\ call[c] = Idle
  /\ call' = [call EXCEPT ![c] = request]
  /\ UNCHANGED <<order, received, receipt, booked, stale, disturbed, edits, cutOff>>

Continue(c, request) ==
  /\ call' = [call EXCEPT ![c] = request]
  /\ UNCHANGED <<order, received, receipt, stale, disturbed, edits, cutOff>>

Lists(r, l) == receipt[r].status # "ABSENT" /\ l \in DOMAIN receipt[r].lines

BookedOf(r) == {m \in booked : m.receipt = r}

(* The request ends before it writes: it is refused by a check, a          *)
(* statement or a movement fails, or the process crashes.                  *)
Stop(c) ==
  /\ call[c] # Idle
  /\ call' = [call EXCEPT ![c] = Idle]
  /\ stale' = stale \ {c}
  /\ cutOff' = IF call[c].step = "book" /\ BookedOf(call[c].receipt) # {}
                 THEN cutOff \cup {call[c].receipt} ELSE cutOff
  /\ UNCHANGED <<order, received, receipt, booked, disturbed, edits>>

-----------------------------------------------------------------------------
(* The life cycle of the order: what each request wants to find and what   *)
(* it leaves.                                                              *)
Change ==
  [update |-> [from |-> {"DRAFT"}, to |-> "DRAFT"],
   submit |-> [from |-> {"DRAFT"}, to |-> "PENDING_APPROVAL"],
   approve |-> [from |-> {"PENDING_APPROVAL"}, to |-> "APPROVED"],
   issue |-> [from |-> {"APPROVED"}, to |-> "ISSUED"],
   acknowledge |-> [from |-> {"ISSUED"}, to |-> "ACKNOWLEDGED"],
   markReceived |-> [from |-> Receivable, to |-> "RECEIVED"],
   close |-> [from |-> {"RECEIVED"}, to |-> "CLOSED"],
   cancel |-> [from |-> {"DRAFT", "PENDING_APPROVAL", "APPROVED"} \cup Receivable,
               to |-> "CANCELLED"]]

BeginChange(c, t) ==
  /\ order.status \in Change[t].from
  /\ Begin(c, [op |-> "change", step |-> "save", change |-> t,
               acknowledged |-> order.acknowledged])

(* The whole row is written from the row that was read.                    *)
SaveChange(c) ==
  /\ call[c].op = "change"
  /\ LET t == call[c].change
     IN order' = [status |-> Change[t].to,
                  acknowledged |->
                    call[c].acknowledged \/ t = "acknowledge"]
  /\ Write(c, "none", TRUE)
  /\ UNCHANGED <<received, receipt, booked, edits, cutOff>>

-----------------------------------------------------------------------------
(* aggregatePostedQuantities, or what the item said when it was read if no *)
(* posted receipt lists it.                                                *)
PostedWith(l) == {r \in Receipts : receipt[r].status = "POSTED" /\ Lists(r, l)}

SumOver(l, S) == MapThenSumSet(LAMBDA r : receipt[r].lines[l].received, S)

Cumulative(l, read) ==
  IF PostedWith(l) = {} THEN read[l] ELSE SumOver(l, PostedWith(l))

Delivered(d, l) == IF l \in DOMAIN d THEN d[l].received ELSE 0

(* Receipt quantity exceeds the remaining ordered quantity.                *)
WithinOrder(d, read) ==
  \A l \in DOMAIN d : Cumulative(l, read) + d[l].received <= Ordered[l]

(* create reads the order, then the posted quantities, then inserts.       *)
(* What a request brings along is chosen where it is first looked at.      *)
BeginCreate(c) ==
  /\ \E r \in Receipts : receipt[r] = Absent
  /\ order.status \in Receivable
  /\ Begin(c, [op |-> "create", step |-> "count", read |-> received])

(* Nobody looks at the new receipt before it is there, so that it might as *)
(* well be inserted right after the quantities were read.                  *)
SaveCreate(c, r, d, s) ==
  /\ call[c].op = "create"
  /\ WithinOrder(d, call[c].read)
  /\ receipt[r] = Absent
  /\ receipt' = [receipt EXCEPT ![r] =
                   [status |-> "DRAFT", lines |-> d, edition |-> 0, store |-> s]]
  /\ Write(c, r, FALSE)
  /\ UNCHANGED <<order, received, booked, edits, cutOff>>

(* Mistake for a mutant: a posted receipt may be edited, too.              *)
EditableUnlessReversed(r) == receipt[r].status \in {"DRAFT", "POSTED"}

(* Only draft Goods Receipts can be edited.                                *)
Editable(r) == receipt[r].status = "DRAFT"

BeginEdit(c, r) ==
  /\ Editable(r)
  /\ edits < MaxEdits
  /\ Begin(c, [op |-> "edit", step |-> "order", receipt |-> r,
               status |-> receipt[r].status])

(* The request lists new items, or only changes the header.                *)
ReadOrderForEdit(c, replace) ==
  /\ call[c].op = "edit" /\ call[c].step = "order"
  /\ order.status \in Receivable
  /\ Continue(c, IF replace
                    THEN [op |-> "edit", step |-> "count", receipt |-> call[c].receipt,
                          status |-> call[c].status, read |-> received]
                    ELSE [call[c] EXCEPT !.step = "save"])
  /\ UNCHANGED booked

CountEdit(c, d) ==
  /\ call[c].op = "edit" /\ call[c].step = "count"
  /\ WithinOrder(d, call[c].read)
  /\ Continue(c, [op |-> "edit", step |-> "save", receipt |-> call[c].receipt,
                  status |-> call[c].status, lines |-> d])
  /\ UNCHANGED booked

(* The row is written back with the status it was read with; the lines     *)
(* are deleted and inserted anew.                                          *)
SaveEdit(c, s) ==
  /\ call[c].op = "edit" /\ call[c].step = "save"
  /\ LET r == call[c].receipt
         header == [receipt[r] EXCEPT !.status = call[c].status, !.store = s]
     IN /\ edits < MaxEdits
        /\ edits' = edits + 1
        /\ IF "lines" \in DOMAIN call[c]
             THEN receipt' = [receipt EXCEPT ![r] =
                    [header EXCEPT !.lines = call[c].lines, !.edition = edits']]
             ELSE receipt' = [receipt EXCEPT ![r] = header]
        /\ Write(c, r, FALSE)
  /\ UNCHANGED <<order, received, booked, cutOff>>

-----------------------------------------------------------------------------
(* Mistake for a mutant: an item counts once it is complete.               *)
StatusForComplete(quantity, otherwise) ==
  IF \A l \in Lines : quantity[l] >= Ordered[l] THEN "RECEIVED"
  ELSE IF \E l \in Lines : quantity[l] >= Ordered[l] THEN "PARTIALLY_RECEIVED"
  ELSE otherwise

(* The status of an order with these quantities received.                  *)
StatusFor(quantity, otherwise) ==
  IF \A l \in Lines : quantity[l] >= Ordered[l] THEN "RECEIVED"
  ELSE IF \E l \in Lines : quantity[l] > 0 THEN "PARTIALLY_RECEIVED"
  ELSE otherwise

BeginPost(c, r) ==
  /\ receipt[r].status = "DRAFT"
  /\ Begin(c, [op |-> "post", step |-> "order", receipt |-> r,
               row |-> receipt[r]])

ReadOrderForPost(c) ==
  /\ call[c].op = "post" /\ call[c].step = "order"
  /\ order.status \in Receivable
  /\ Continue(c, [op |-> "post", step |-> "count", receipt |-> call[c].receipt,
                  row |-> call[c].row, status |-> order.status,
                  read |-> received])
  /\ UNCHANGED booked

(* The lines postGoodsReceipt books: mapped ones with an accepted quantity.*)
Stocked(d) == {l \in DOMAIN d \cap Mapped : d[l].accepted > 0}

CountPost(c) ==
  /\ call[c].op = "post" /\ call[c].step = "count"
  /\ WithinOrder(call[c].row.lines, call[c].read)
  /\ LET d == call[c].row.lines
         total == [l \in Lines |->
                     Cumulative(l, call[c].read) + Delivered(d, l)]
     IN Continue(c, [op |-> "post", step |-> "book", receipt |-> call[c].receipt,
                     row |-> call[c].row, todo |-> Stocked(d), total |-> total,
                     to |-> StatusFor(total, call[c].status)])
  /\ UNCHANGED booked

(* Mistake for a mutant: the idempotency key names the receipt only.       *)
WithKeyOfReceipt(r, l, e) == BookedOf(r)

(* The movements with the key procurement-grn:<receipt>:<receipt item>.    *)
WithKey(r, l, e) == {m \in BookedOf(r) : m.line = l /\ m.edition = e}

(* The next line is booked, or answered as a replay.                       *)
Book(c, l) ==
  /\ call[c].op = "post" /\ call[c].step = "book"
  /\ l \in call[c].todo
  /\ LET r == call[c].receipt
         e == call[c].row.edition
         s == call[c].row.store
     IN /\ \A m \in WithKey(r, l, e) : m.store = s
        /\ booked' = IF WithKey(r, l, e) # {} THEN booked
                     ELSE booked \cup
                       {[receipt |-> r, line |-> l, edition |-> e, store |-> s]}
  /\ Continue(c, [call[c] EXCEPT !.todo = @ \ {l}])

(* The row of the receipt is written back from the row that was read; its  *)
(* lines stay what they are now.                                           *)
WriteRow(r, status, store) ==
  receipt' = [receipt EXCEPT ![r].status = status, ![r].store = store]

WriteItems(d, quantity) ==
  received' = [l \in Lines |-> IF l \in DOMAIN d THEN quantity[l] ELSE received[l]]

SavePost(c) ==
  /\ call[c].op = "post" /\ call[c].step = "book" /\ call[c].todo = {}
  /\ WriteItems(call[c].row.lines, call[c].total)
  /\ order' = [order EXCEPT !.status = call[c].to]
  /\ WriteRow(call[c].receipt, "POSTED", call[c].row.store)
  /\ Write(c, call[c].receipt, TRUE)
  /\ UNCHANGED <<booked, edits, cutOff>>

-----------------------------------------------------------------------------
BeginReverse(c, r) ==
  /\ receipt[r].status = "POSTED"
  /\ Begin(c, [op |-> "reverse", step |-> "order", receipt |-> r,
               row |-> receipt[r]])

(* Mistake for a mutant: only what was accepted is taken back.             *)
TakenBackAccepted(d, l) == IF l \in DOMAIN d THEN d[l].accepted ELSE 0

TakenBack(d, l) == Delivered(d, l)

(* The status of the order plays no part.                                  *)
ReadOrderForReverse(c) ==
  /\ call[c].op = "reverse" /\ call[c].step = "order"
  /\ LET d == call[c].row.lines
         rest == [l \in Lines |-> received[l] - TakenBack(d, l)]
     IN /\ \A l \in Lines : rest[l] >= 0
        /\ Continue(c, [op |-> "reverse", step |-> "save",
                        receipt |-> call[c].receipt, row |-> call[c].row,
                        rest |-> rest,
                        to |-> StatusFor(rest, IF order.acknowledged
                                                 THEN "ACKNOWLEDGED"
                                                 ELSE "ISSUED")])
  /\ UNCHANGED booked

(* The items are locked and still have what is taken back; nothing is      *)
(* booked.                                                                 *)
SaveReverse(c) ==
  /\ call[c].op = "reverse" /\ call[c].step = "save"
  /\ LET d == call[c].row.lines
     IN /\ \A l \in DOMAIN d : received[l] >= d[l].received
        /\ WriteItems(d, call[c].rest)
  /\ order' = [order EXCEPT !.status = call[c].to]
  /\ WriteRow(call[c].receipt, "REVERSED", call[c].row.store)
  /\ Write(c, call[c].receipt, TRUE)
  /\ UNCHANGED <<booked, edits, cutOff>>

-----------------------------------------------------------------------------
OrderStep(c) == (\E t \in DOMAIN Change : BeginChange(c, t)) \/ SaveChange(c)

CreateStep(c) ==
  \/ BeginCreate(c)
  \/ \E r \in Receipts, d \in Deliveries, s \in Stores : SaveCreate(c, r, d, s)

EditStep(c) ==
  \/ \E r \in Receipts : BeginEdit(c, r)
  \/ \E replace \in BOOLEAN : ReadOrderForEdit(c, replace)
  \/ \E d \in Deliveries : CountEdit(c, d)
  \/ \E s \in Stores : SaveEdit(c, s)

PostStep(c) ==
  \/ \E r \in Receipts : BeginPost(c, r)
  \/ ReadOrderForPost(c)
  \/ CountPost(c)
  \/ \E l \in Lines : Book(c, l)
  \/ SavePost(c)

ReverseStep(c) ==
  \/ \E r \in Receipts : BeginReverse(c, r)
  \/ ReadOrderForReverse(c)
  \/ SaveReverse(c)

Next ==
  \E c \in Callers :
    OrderStep(c) \/ CreateStep(c) \/ EditStep(c) \/ PostStep(c)
      \/ ReverseStep(c) \/ Stop(c)

Spec == Init /\ [][Next]_vars

-----------------------------------------------------------------------------
Listed(r) == receipt[r].lines

Posted == {r \in Receipts : receipt[r].status = "POSTED"}

(* Unless a request wrote over what it had not read, the received quantity *)
(* of an item is what the posted receipts list of it, and never more than  *)
(* was ordered: whichever requests ran at the same time, wherever they     *)
(* were cut off, and however often receipts were posted and reversed.      *)
ReceivedAddsUp ==
  ~disturbed =>
    \A l \in Lines :
      /\ received[l] = SumOver(l, {r \in Posted : Lists(r, l)})
      /\ received[l] <= Ordered[l]

(* Under the same condition the status of the order can be relied on:      *)
(* before anything is received it does not say so, a partial receipt is    *)
(* not hidden, and a complete one is not called partial.                   *)
OrderFollowsReceipts ==
  ~disturbed =>
    /\ order.status \notin {"PARTIALLY_RECEIVED", "RECEIVED", "CLOSED", "CANCELLED"}
         => \A l \in Lines : received[l] = 0
    /\ order.status = "PARTIALLY_RECEIVED"
         => /\ \E l \in Lines : received[l] > 0
            /\ \E l \in Lines : received[l] < Ordered[l]

(* What was accepted of a posted receipt is in the ledger, for the lines   *)
(* it has and the store it names, also when it took several attempts.      *)
PostedIsBooked ==
  ~disturbed =>
    \A r \in Posted : \A l \in Stocked(Listed(r)) :
      [receipt |-> r, line |-> l, edition |-> receipt[r].edition,
       store |-> receipt[r].store] \in booked

(* Stock is in the ledger only for lines of a receipt that is or was       *)
(* posted, or is being posted.  A posting that was cut off is the          *)
(* exception: the stock it booked stays, and if the receipt is edited      *)
(* before the next attempt, it is booked again under another key.          *)
BookedIsPosted ==
  ~disturbed =>
    \A m \in booked :
      \/ m.receipt \in cutOff
      \/ /\ receipt[m.receipt].status \in {"POSTED", "REVERSED"}
         /\ m.edition = receipt[m.receipt].edition
         /\ m.line \in Stocked(Listed(m.receipt))
      \/ \E c \in Callers :
           /\ call[c].op = "post"
           /\ call[c].receipt = m.receipt
           /\ call[c].row.edition = m.edition

(* The stock of a reversed receipt has left the ledger again               *)
(* (PROCUREMENT_FULFILMENT_CERTIFICATION.md: "Inventory posting reversal:  *)
(* VERIFIED").                                                             *)
ReversalTakesStockBack ==
  \A r \in Receipts : receipt[r].status = "REVERSED" => BookedOf(r) = {}
=============================================================================
