-------------------------- MODULE StockCount_proofs --------------------------
(***************************************************************************)
(* Proofs about StockCount: its type invariant, that adjustments are       *)
(* booked as they were written, all of a POSTED one, that a count is not   *)
(* COMPLETED or POSTED before every line is counted, and that a count      *)
(* nothing came between leaves in the balance what was on the shelf.       *)
(*                                                                         *)
(* A request writes the status it decided on before, from a document it    *)
(* read before.  CallInv says what is still true of the document when it   *)
(* does; it rests on what never changes back: the lines of a document and  *)
(* the quantities of an adjustment are written once, a counted line stays  *)
(* counted and a key stays in the ledger.                                  *)
(***************************************************************************)
EXTENDS StockCount, TLAPS

(* What is booked for the lines of an adjustment: its key says all.        *)
BookedInv ==
  \A d \in Adjustments, p \in Places :
    posted[d][p] = IF <<d, p>> \in keys THEN delta[d][p] ELSE 0

AllBooked(d, ps) == \A p \in ps : <<d, p>> \in keys

(* A document nobody has inserted has no lines and no keys.                *)
AbsentInv ==
  \A d \in Docs :
    status[d] = "ABSENT" => /\ lines[d] = {}
                            /\ \A p \in Places : <<d, p>> \notin keys

StatusInv ==
  /\ CompleteMeansCounted
  /\ \A d \in Adjustments : status[d] = "POSTED" => AllBooked(d, lines[d])
  /\ \A d \in Adjustments : status[d] # "COMPLETED"

(* What holds of a document while a request is in it.                      *)
Own(k) ==
  /\ k.op = "create" => k.doc \in Counts /\ status[k.doc] = "ABSENT"
                        /\ k.to = "DRAFT" /\ \A p \in Places : k.val[p] \in Nat
  /\ k.op # "create" => status[k.doc] # "ABSENT"
  /\ k.op = "record" => k.doc \in Counts /\ k.to = "IN_PROGRESS"
                        /\ k.todo \subseteq lines[k.doc]
  /\ k.op = "change" =>
       /\ k.to \in {"IN_PROGRESS", "COMPLETED", "CANCELLED"}
       /\ k.to # "CANCELLED" => k.doc \in Counts
       /\ k.to = "COMPLETED" => lines[k.doc] \subseteq counted[k.doc]
  /\ k.op = "post" =>
       /\ k.to = "POSTED"
       /\ k.doc \in Counts => lines[k.doc] \subseteq counted[k.doc]
       /\ k.doc \in Adjustments =>
            /\ AllBooked(k.doc, lines[k.doc] \ k.todo)
            /\ \A p \in k.todo : k.val[p] = delta[k.doc][p]

CallsInv == \A c \in Callers : call[c] # Idle => Own(call[c])

(* No two requests create one document.                                    *)
CreateInv ==
  \A c, d \in Callers :
    call[c] # Idle /\ call[d] # Idle /\ c # d /\ call[c].op = "create" =>
      call[c].doc # call[d].doc

(* Every line of an adjustment has something to post.                      *)
LinesInv ==
  \A d \in Adjustments : \A p \in lines[d] : delta[d][p] # 0

IInv ==
  /\ TypeOK /\ BookedInv /\ AbsentInv /\ StatusInv /\ CallsInv /\ CreateInv
  /\ LinesInv

-----------------------------------------------------------------------------
(* What a request knows of its document stays true while others act: the   *)
(* document stays inserted (or not inserted), its lines and an             *)
(* adjustment's quantities stay, counted lines and keys only grow.         *)
LEMMA OwnKept ==
  ASSUME IInv, NEW k \in Calls, Own(k),
         status[k.doc] = "ABSENT" <=> status'[k.doc] = "ABSENT",
         lines'[k.doc] = lines[k.doc],
         k.doc \in Counts => counted[k.doc] \subseteq counted'[k.doc],
         k.doc \in Adjustments => delta'[k.doc] = delta[k.doc],
         keys \subseteq keys'
  PROVE  Own(k)'
BY DEF Own, AllBooked

(* A request begins: it knows what Own says, and creates no document that  *)
(* another one is in.                                                      *)
LEMMA BeginKeeps ==
  ASSUME IInv, NEW c \in Callers, NEW op, NEW d \in Docs,
         NEW todo \in SUBSET Places, NEW val \in [Places -> Int],
         NEW to \in Statuses, NEW k \in Calls,
         k = [op |-> op, doc |-> d, todo |-> todo, to |-> to,
              val |-> [p \in Places |-> IF p \in todo THEN val[p] ELSE 0]],
         Begin(c, op, d, todo, val, to),
         UNCHANGED <<stockVars, docVars>>,
         moved' \in [Counts -> SUBSET Places], disturbed' \in SUBSET Counts,
         Own(k),
         op = "create" => ~Known(d)
  PROVE  IInv'
<1>1. /\ call' \in [Callers -> Calls \cup {Idle}]
      /\ call'[c] = k
      /\ \A e \in Callers \ {c} : call'[e] = call[e]
  BY DEF Begin, IInv, TypeOK
<1>2. TypeOK'
  BY <1>1 DEF IInv, TypeOK, stockVars, docVars
<1>3. BookedInv' /\ AbsentInv' /\ StatusInv' /\ LinesInv'
  BY DEF IInv, BookedInv, AbsentInv, StatusInv, CompleteMeansCounted, AllBooked,
         LinesInv, stockVars, docVars
<1>4. CallsInv'
  <2> SUFFICES ASSUME NEW e \in Callers, call'[e] # Idle
               PROVE  Own(call[e])'
    BY DEF CallsInv
  <2>1. PICK l \in Calls : l = call'[e]
    BY <1>1
  <2>2. Own(l)
    BY <1>1, <2>1 DEF IInv, CallsInv
  <2>3. Own(l)'
    BY <2>2 DEF Own, AllBooked, stockVars, docVars
  <2>4. QED
    BY <2>1, <2>3
<1>5. CreateInv'
  <2>1. k.op = op /\ k.doc = d
    OBVIOUS
  <2>2. \A e \in Callers \ {c} : call[e] # Idle /\ op = "create" => call[e].doc # d
    BY DEF Known, InDoc
  <2>3. \A e \in Callers \ {c} :
          call[e] # Idle /\ call[e].op = "create" /\ op # "create" =>
            call[e].doc # d
    BY <2>1 DEF Own, IInv, CallsInv
  <2>4. \A e \in Callers \ {c} :
          call[e] # Idle /\ call[e].op = "create" => call[e].doc # d
    BY <2>2, <2>3
  <2>5. QED
    BY <1>1, <2>1, <2>2, <2>4 DEF IInv, CreateInv
<1>6. QED
  BY <1>2, <1>3, <1>4, <1>5 DEF IInv

(* A request ends with nothing written.                                    *)
LEMMA EndKeeps ==
  ASSUME IInv, NEW c \in Callers, End(c),
         UNCHANGED <<stockVars, docVars, moved, disturbed>>
  PROVE  IInv'
<1>1. /\ call' \in [Callers -> Calls \cup {Idle}]
      /\ \A e \in Callers : call'[e] # Idle => call'[e] = call[e]
  BY DEF End, IInv, TypeOK
<1>2. TypeOK'
  BY <1>1 DEF IInv, TypeOK, stockVars, docVars
<1>3. BookedInv' /\ AbsentInv' /\ StatusInv' /\ LinesInv'
  BY DEF IInv, BookedInv, AbsentInv, StatusInv, CompleteMeansCounted, AllBooked,
         LinesInv, stockVars, docVars
<1>4. CallsInv'
  BY <1>1 DEF IInv, CallsInv, Own, AllBooked, stockVars, docVars
<1>5. CreateInv'
  BY <1>1 DEF IInv, CreateInv
<1>6. QED
  BY <1>2, <1>3, <1>4, <1>5 DEF IInv

-----------------------------------------------------------------------------
LEMMA BeginCountKeeps ==
  ASSUME IInv, NEW c \in Callers, NEW d \in Counts, NEW scope \in Scopes,
         BeginCount(c, d, scope)
  PROVE  IInv'
<1>1. scope \in SUBSET Places /\ d \in Docs
  BY CountAssumption DEF Docs
<1>2. onHand \in [Places -> Nat] /\ onHand \in [Places -> Int]
  BY DEF IInv, TypeOK
<1> DEFINE v == [p \in Places |-> IF p \in scope THEN onHand[p] ELSE 0]
<1>3. PICK val \in [Places -> Int] : val = v
  <2>1. v \in [Places -> Int]
    BY <1>2
  <2> HIDE DEF v
  <2>2. QED
    BY <2>1
<1>4. \A p \in Places : val[p] \in Nat
  BY <1>2, <1>3
<1>5. PICK k \in Calls :
        k = [op |-> "create", doc |-> d, todo |-> scope, to |-> "DRAFT",
             val |-> val]
  BY <1>1 DEF Calls, Statuses
<1>6. Own(k)
  BY <1>4, <1>5 DEF Own, BeginCount, Known
<1>7. /\ Begin(c, "create", d, scope, onHand, "DRAFT") /\ ~Known(d)
      /\ UNCHANGED <<stockVars, docVars, moved, disturbed>>
  BY DEF BeginCount, Snapshot
<1>8. moved' \in [Counts -> SUBSET Places] /\ disturbed' \in SUBSET Counts
  BY <1>7 DEF IInv, TypeOK
<1>9. "DRAFT" \in Statuses
  BY DEF Statuses
<1>10. QED
  BY <1>1, <1>2, <1>3, <1>5, <1>6, <1>7, <1>8, <1>9, BeginKeeps

(* A request on a document, which knows what Own says of any call that     *)
(* carries what this one does.                                             *)
LEMMA BeginOnKeeps ==
  ASSUME IInv, NEW c \in Callers, NEW op \in {"record", "post", "change"},
         NEW d \in Docs, NEW todo \in SUBSET Places, NEW val \in [Places -> Int],
         NEW to \in Statuses,
         BeginOn(c, op, d, todo, val, to),
         \A k \in Calls :
           /\ k.op = op /\ k.doc = d /\ k.todo = todo /\ k.to = to
           /\ \A p \in todo : k.val[p] = val[p]
           => Own(k)
  PROVE  IInv'
<1> DEFINE v == [p \in Places |-> IF p \in todo THEN val[p] ELSE 0]
           k == [op |-> op, doc |-> d, todo |-> todo, to |-> to, val |-> v]
<1>1. v \in [Places -> Int]
  OBVIOUS
<1>2. \A p \in todo : v[p] = val[p]
  OBVIOUS
<1> HIDE DEF v
<1>3. /\ k \in Calls /\ k.op = op /\ k.doc = d /\ k.todo = todo /\ k.to = to
      /\ \A p \in todo : k.val[p] = val[p]
  BY <1>1, <1>2 DEF Calls
<1>4. k = [op |-> op, doc |-> d, todo |-> todo, to |-> to,
           val |-> [p \in Places |-> IF p \in todo THEN val[p] ELSE 0]]
  BY DEF v
<1> HIDE DEF k
<1>5. Own(k)
  BY <1>3
<1>6. moved' \in [Counts -> SUBSET Places] /\ disturbed' \in SUBSET Counts
  BY DEF BeginOn, NoteOverlap, Overlaps, IInv, TypeOK
<1>7. op # "create" /\ Begin(c, op, d, todo, val, to)
      /\ UNCHANGED <<stockVars, docVars>>
  BY DEF BeginOn
<1>8. QED
  BY <1>3, <1>4, <1>5, <1>6, <1>7, BeginKeeps

(* Requests that only write the status.                                    *)
LEMMA BeginChangeKeeps ==
  ASSUME IInv, NEW c \in Callers, NEW d \in Docs,
         NEW to \in {"IN_PROGRESS", "COMPLETED", "CANCELLED"},
         BeginOn(c, "change", d, {}, shelf, to), status[d] # "ABSENT",
         to # "CANCELLED" => d \in Counts,
         to = "COMPLETED" => lines[d] \subseteq counted[d]
  PROVE  IInv'
<1>1. PICK val \in [Places -> Int] : val = shelf
  BY DEF IInv, TypeOK
<1>2. to \in Statuses /\ {} \in SUBSET Places
  BY DEF Statuses
<1>3. \A k \in Calls :
        k.op = "change" /\ k.doc = d /\ k.todo = {} /\ k.to = to => Own(k)
  BY DEF Own
<1>4. QED
  BY <1>1, <1>2, <1>3, BeginOnKeeps

LEMMA BeginRecordKeeps ==
  ASSUME IInv, NEW c \in Callers, NEW d \in Counts, NEW which \in SUBSET Places,
         BeginRecord(c, d, which)
  PROVE  IInv'
<1>1. PICK val \in [Places -> Int] : val = shelf
  BY DEF IInv, TypeOK
<1>2. "IN_PROGRESS" \in Statuses /\ d \in Docs
  BY DEF Statuses, Docs
<1>3. \A k \in Calls :
        /\ k.op = "record" /\ k.doc = d /\ k.todo = which
        /\ k.to = "IN_PROGRESS"
        => Own(k)
  BY DEF Own, BeginRecord
<1>4. BeginOn(c, "record", d, which, val, "IN_PROGRESS")
  BY <1>1 DEF BeginRecord
<1>5. QED
  BY <1>2, <1>3, <1>4, BeginOnKeeps

LEMMA BeginPostKeeps ==
  ASSUME IInv, NEW c \in Callers, NEW d \in Docs, BeginPost(c, d)
  PROVE  IInv'
<1>1. PICK val \in [Places -> Int] : val = delta[d]
  BY DEF IInv, TypeOK
<1>2. PICK todo \in SUBSET Places : todo = {p \in lines[d] : delta[d][p] # 0}
  BY DEF IInv, TypeOK
<1>3. "POSTED" \in Statuses
  BY DEF Statuses
<1>4. status[d] # "ABSENT"
  BY DEF BeginPost
<1>5. d \in Counts => lines[d] \subseteq counted[d]
  BY DEF BeginPost, IInv, StatusInv, CompleteMeansCounted
<1>6. d \in Adjustments => lines[d] \ todo = {}
  BY <1>2 DEF IInv, LinesInv
<1>7. \A k \in Calls :
        /\ k.op = "post" /\ k.doc = d /\ k.todo = todo /\ k.to = "POSTED"
        /\ \A p \in todo : k.val[p] = val[p]
        => Own(k)
  BY <1>1, <1>4, <1>5, <1>6 DEF Own, AllBooked
<1>8. BeginOn(c, "post", d, todo, val, "POSTED")
  BY <1>1, <1>2 DEF BeginPost
<1>9. QED
  BY <1>3, <1>7, <1>8, BeginOnKeeps

LEMMA RequestKeeps ==
  ASSUME IInv, NEW c \in Callers,
         \/ \E d \in Counts : CountRequest(c, d)
         \/ \E d \in Docs : DocRequest(c, d)
  PROVE  IInv'
<1>1. ASSUME NEW d \in Counts, CountRequest(c, d) PROVE IInv'
  <2>1. CASE BeginStart(c, d)
    BY <2>1, BeginChangeKeeps DEF BeginStart, Docs
  <2>2. CASE BeginComplete(c, d)
    BY <2>2, BeginChangeKeeps DEF BeginComplete, AllCounted, Docs
  <2>3. QED
    BY <1>1, <2>1, <2>2, BeginCountKeeps, BeginRecordKeeps DEF CountRequest
<1>2. ASSUME NEW d \in Docs, DocRequest(c, d) PROVE IInv'
  <2>1. CASE BeginCancel(c, d)
    <3>1. status[d] # "ABSENT"
      BY <2>1 DEF BeginCancel, OpenCount
    <3>2. QED
      BY <2>1, <3>1, BeginChangeKeeps DEF BeginCancel
  <2>2. QED
    BY <1>2, <2>1, BeginPostKeeps DEF DocRequest
<1>3. QED
  BY <1>1, <1>2

-----------------------------------------------------------------------------
(* The document of a request that ends is changed: what the others know of *)
(* theirs is kept (OwnKept), and there is no new call.                     *)
LEMMA EndedCalls ==
  ASSUME IInv, NEW c \in Callers, End(c),
         \A k \in Calls :
           (\E e \in Callers \ {c} : call[e] = k) /\ Own(k) => Own(k)'
  PROVE  /\ call' \in [Callers -> Calls \cup {Idle}]
         /\ CallsInv' /\ CreateInv'
<1>1. /\ call' \in [Callers -> Calls \cup {Idle}]
      /\ call'[c] = Idle
      /\ \A e \in Callers \ {c} : call'[e] = call[e]
  BY DEF End, IInv, TypeOK
<1>2. CallsInv'
  <2> SUFFICES ASSUME NEW e \in Callers, call'[e] # Idle
               PROVE  Own(call[e])'
    BY DEF CallsInv
  <2>1. PICK k \in Calls : k = call'[e] /\ k = call[e] /\ e # c
    BY <1>1
  <2>2. Own(k)
    BY <2>1 DEF IInv, CallsInv
  <2>3. Own(k)'
    BY <2>1, <2>2
  <2>4. QED
    BY <2>1, <2>3
<1>3. CreateInv'
  BY <1>1 DEF IInv, CreateInv
<1>4. QED
  BY <1>1, <1>2, <1>3

LEMMA InsertCountKeeps ==
  ASSUME IInv, NEW c \in Callers, InsertCount(c)
  PROVE  IInv'
<1>1. call[c] # Idle /\ call[c] \in Calls
  BY DEF InsertCount, Idle, IInv, TypeOK
<1>2. PICK k \in Calls : k = call[c]
  BY <1>1
<1>3. /\ k.doc \in Counts /\ k.doc \in Docs /\ k.doc \notin Adjustments
      /\ status[k.doc] = "ABSENT" /\ k.to = "DRAFT" /\ k.todo \in SUBSET Places
      /\ k.val \in [Places -> Int] /\ \A p \in Places : k.val[p] \in Nat
  BY <1>1, <1>2, CountAssumption DEF InsertCount, IInv, CallsInv, Own, Calls, Docs
<1>4. CASE ~MayHave(k.doc, k.to)
  <2>1. UNCHANGED <<stockVars, docVars, moved, disturbed>>
    BY <1>2, <1>4 DEF InsertCount, docVars
  <2>2. QED
    BY <2>1, EndKeeps DEF InsertCount
<1>5. CASE MayHave(k.doc, k.to)
  <2>1. /\ status' = [status EXCEPT ![k.doc] = "DRAFT"]
        /\ lines' = [lines EXCEPT ![k.doc] = k.todo]
        /\ system' = [system EXCEPT ![k.doc] = k.val]
        /\ UNCHANGED <<stockVars, counted, delta, otherOpen, moved, disturbed>>
        /\ End(c)
    BY <1>2, <1>3, <1>5 DEF InsertCount
  <2>2. ASSUME NEW l \in Calls, Own(l), \E e \in Callers \ {c} : call[e] = l
        PROVE  Own(l)'
    <3>1. PICK e \in Callers \ {c} : call[e] = l
      BY <2>2
    <3>2. l # Idle
      BY <2>2 DEF Calls, Idle
    <3>3. l.doc # k.doc
      BY <1>1, <1>2, <3>1, <3>2 DEF IInv, CreateInv, InsertCount
    <3>4. l.doc \in Docs
      BY DEF Calls
    <3>5. status'[l.doc] = status[l.doc] /\ lines'[l.doc] = lines[l.doc]
      BY <2>1, <3>3, <3>4 DEF IInv, TypeOK
    <3>6. QED
      BY <2>1, <2>2, <3>5, OwnKept DEF stockVars
  <2>3. call' \in [Callers -> Calls \cup {Idle}] /\ CallsInv' /\ CreateInv'
    BY <2>1, <2>2, EndedCalls
  <2>4. k.val \in [Places -> Nat]
    BY <1>3
  <2>5. TypeOK'
    BY <1>3, <2>1, <2>3, <2>4 DEF IInv, TypeOK, Statuses, stockVars
  <2>6. BookedInv' /\ LinesInv'
    BY <1>3, <2>1 DEF IInv, TypeOK, BookedInv, LinesInv, stockVars, Docs
  <2>7. AbsentInv'
    BY <1>3, <2>1 DEF IInv, TypeOK, AbsentInv, stockVars
  <2>8. StatusInv'
    BY <1>3, <2>1
       DEF IInv, TypeOK, StatusInv, CompleteMeansCounted, AllBooked, stockVars, Docs
  <2>9. QED
    BY <2>3, <2>5, <2>6, <2>7, <2>8 DEF IInv
<1>6. QED
  BY <1>4, <1>5

LEMMA CreateAdjustmentKeeps ==
  ASSUME IInv, NEW d \in Adjustments, NEW change \in Deltas,
         CreateAdjustment(d, change)
  PROVE  IInv'
<1>1. /\ d \in Docs /\ d \notin Counts
      /\ change \in [Places -> Int]
  BY CountAssumption DEF Docs
<1>2. PICK ps \in SUBSET Places : ps = {p \in Places : change[p] # 0}
  OBVIOUS
<1>3. /\ status[d] = "ABSENT"
      /\ status' = [status EXCEPT ![d] = "DRAFT"]
      /\ lines' = [lines EXCEPT ![d] = ps]
      /\ delta' = [delta EXCEPT ![d] = change]
      /\ UNCHANGED <<stockVars, system, counted, otherOpen, call, moved, disturbed>>
  BY <1>2 DEF CreateAdjustment
<1>4. TypeOK'
  BY <1>1, <1>3 DEF IInv, TypeOK, Statuses, stockVars
<1>5. BookedInv'
  BY <1>1, <1>3 DEF IInv, TypeOK, BookedInv, AbsentInv, stockVars, Docs
<1>6. LinesInv'
  BY <1>1, <1>2, <1>3 DEF IInv, TypeOK, LinesInv, Docs
<1>7. AbsentInv'
  BY <1>1, <1>3 DEF IInv, TypeOK, AbsentInv, stockVars
<1>8. StatusInv'
  BY <1>1, <1>3
     DEF IInv, TypeOK, StatusInv, CompleteMeansCounted, AllBooked, stockVars, Docs
<1>9. CallsInv'
  <2> SUFFICES ASSUME NEW e \in Callers, call'[e] # Idle
               PROVE  Own(call[e])'
    BY DEF CallsInv
  <2>1. PICK l \in Calls : l = call[e] /\ l = call'[e]
    BY <1>3 DEF IInv, TypeOK
  <2>2. Own(l)
    BY <1>3, <2>1 DEF IInv, CallsInv
  <2>3. l.doc # d
    BY <1>1, <1>3, <2>2 DEF Own
  <2>4. l.doc \in Docs
    BY DEF Calls
  <2>5. /\ status'[l.doc] = status[l.doc] /\ lines'[l.doc] = lines[l.doc]
        /\ delta'[l.doc] = delta[l.doc]
    BY <1>3, <2>3, <2>4 DEF IInv, TypeOK
  <2>6. Own(l)'
    BY <1>3, <2>2, <2>5, OwnKept DEF stockVars
  <2>7. QED
    BY <2>1, <2>6
<1>10. CreateInv'
  BY <1>3 DEF IInv, CreateInv
<1>11. QED
  BY <1>4, <1>5, <1>6, <1>7, <1>8, <1>9, <1>10 DEF IInv

-----------------------------------------------------------------------------
(* A request goes on to its next line, or ends.                            *)
LEMMA NextLineCalls ==
  ASSUME IInv, NEW c \in Callers, NEW k \in Calls, k = call[c], NEW p \in Places,
         NEW next \in Calls \cup {Idle}, call' = [call EXCEPT ![c] = next],
         next # Idle => /\ next.op = k.op /\ next.op # "create" /\ next.doc = k.doc
                        /\ Own(next)',
         \A l \in Calls : Own(l) => Own(l)'
  PROVE  /\ call' \in [Callers -> Calls \cup {Idle}]
         /\ CallsInv' /\ CreateInv'
<1>1. /\ call' \in [Callers -> Calls \cup {Idle}]
      /\ call'[c] = next
      /\ \A e \in Callers \ {c} : call'[e] = call[e]
  BY DEF IInv, TypeOK
<1>2. k # Idle
  BY DEF Calls, Idle
<1>3. CallsInv'
  <2> SUFFICES ASSUME NEW e \in Callers, call'[e] # Idle
               PROVE  Own(call[e])'
    BY DEF CallsInv
  <2>1. CASE e = c
    <3>1. next # Idle /\ next = call'[e]
      BY <1>1, <2>1
    <3>2. Own(next)'
      BY <3>1
    <3>3. QED
      BY <3>1, <3>2
  <2>2. CASE e # c
    <3>1. PICK l \in Calls : l = call[e] /\ l = call'[e]
      BY <1>1, <2>2 DEF IInv, TypeOK
    <3>2. Own(l)
      BY <1>1, <2>2, <3>1 DEF IInv, CallsInv
    <3>3. Own(l)'
      BY <3>2
    <3>4. QED
      BY <3>1, <3>3
  <2>3. QED
    BY <2>1, <2>2
<1>4. CreateInv'
  BY <1>1, <1>2 DEF IInv, CreateInv
<1>5. QED
  BY <1>1, <1>3, <1>4

LEMMA SaveLineKeeps ==
  ASSUME IInv, NEW c \in Callers, NEW p \in Places, SaveLine(c, p)
  PROVE  IInv'
<1>1. call[c] # Idle /\ call[c] \in Calls
  BY DEF SaveLine, Idle, IInv, TypeOK
<1>2. PICK k \in Calls : k = call[c]
  BY <1>1
<1>3. /\ k.op = "record" /\ Own(k) /\ k.doc \in Counts /\ k.doc \notin Adjustments
      /\ k.val[p] \in Int /\ system[k.doc][p] \in Int
      /\ k.todo \in SUBSET Places
  <2>1. k.op = "record" /\ Own(k)
    BY <1>1, <1>2 DEF SaveLine, IInv, CallsInv
  <2>2. k.doc \in Counts /\ k.doc \notin Adjustments
    BY <2>1, CountAssumption DEF Own
  <2>3. k.val \in [Places -> Int] /\ k.todo \in SUBSET Places
    BY DEF Calls
  <2>4. system[k.doc] \in [Places -> Nat]
    BY <2>2 DEF IInv, TypeOK
  <2>5. QED
    BY <2>1, <2>2, <2>3, <2>4
<1>4. PICK v \in Int : v = k.val[p] - system[k.doc][p]
  BY <1>3
<1>5. /\ delta' = [delta EXCEPT ![k.doc][p] = v]
      /\ counted' = [counted EXCEPT ![k.doc] = @ \cup {p}]
      /\ call' = [call EXCEPT ![c] = IF k.todo = {p} THEN Idle
                                     ELSE [k EXCEPT !.todo = @ \ {p}]]
      /\ UNCHANGED <<stockVars, status, lines, system, otherOpen, moved, disturbed>>
  BY <1>2, <1>4 DEF SaveLine
<1>6. /\ \A d \in Adjustments : delta'[d] = delta[d]
      /\ delta' \in [Docs -> [Places -> Int]]
      /\ \A d \in Counts : counted[d] \subseteq counted'[d]
      /\ counted' \in [Counts -> SUBSET Places]
  BY <1>3, <1>5 DEF IInv, TypeOK, Docs
<1>7. \A l \in Calls : Own(l) => Own(l)'
  BY <1>5, <1>6, OwnKept DEF Docs, stockVars
<1>8. PICK next \in Calls \cup {Idle} :
        next = IF k.todo = {p} THEN Idle ELSE [k EXCEPT !.todo = @ \ {p}]
  BY DEF Calls
<1>9. next # Idle => /\ next.op = k.op /\ next.doc = k.doc /\ next.to = k.to
                     /\ next.todo \subseteq k.todo
  BY <1>8 DEF Calls
<1>10. next # Idle => Own(next)
  BY <1>3, <1>9 DEF Own
<1>11. next # Idle => Own(next)'
  BY <1>7, <1>10
<1>12. call' \in [Callers -> Calls \cup {Idle}] /\ CallsInv' /\ CreateInv'
  BY <1>2, <1>3, <1>5, <1>7, <1>8, <1>9, <1>11, NextLineCalls
<1>13. TypeOK'
  BY <1>5, <1>6, <1>12 DEF IInv, TypeOK, stockVars
<1>14. BookedInv' /\ LinesInv' /\ AbsentInv'
  BY <1>5, <1>6 DEF IInv, BookedInv, LinesInv, AbsentInv, stockVars
<1>15. StatusInv'
  BY <1>5, <1>6 DEF IInv, StatusInv, CompleteMeansCounted, AllBooked, stockVars
<1>16. QED
  BY <1>12, <1>13, <1>14, <1>15 DEF IInv

LEMMA PostLineKeeps ==
  ASSUME IInv, NEW c \in Callers, NEW p \in Places, PostLine(c, p)
  PROVE  IInv'
<1>1. call[c] # Idle /\ call[c] \in Calls
  BY DEF PostLine, Idle, IInv, TypeOK
<1>2. PICK k \in Calls : k = call[c]
  BY <1>1
<1>3. /\ k.op = "post" /\ Own(k) /\ k.doc \in Docs /\ p \in k.todo
      /\ k.val[p] \in Int /\ k.todo \in SUBSET Places
  BY <1>1, <1>2 DEF PostLine, IInv, CallsInv, Calls
<1>4. PICK qty \in Int : qty = k.val[p]
  BY <1>3
<1>5. PICK next \in Calls : next = [k EXCEPT !.todo = @ \ {p}]
  BY DEF Calls
<1>6. /\ next.op = k.op /\ next.doc = k.doc /\ next.to = k.to
      /\ next.val = k.val /\ next.todo = k.todo \ {p}
  BY <1>5 DEF Calls
<1>7. /\ call' = [call EXCEPT ![c] = next]
      /\ UNCHANGED <<docVars, disturbed>>
  BY <1>2, <1>5 DEF PostLine, IInv, TypeOK
<1>8. \/ Replayed(k.doc, p) /\ UNCHANGED <<stockVars, moved>>
      \/ ~Replayed(k.doc, p) /\ Allowed(p, qty, 0) /\ Book(k.doc, p, qty)
  BY <1>2, <1>4 DEF PostLine
<1>9. /\ keys \subseteq keys' /\ <<k.doc, p>> \in keys'
      /\ keys' \subseteq keys \cup {<<k.doc, p>>}
  BY <1>8 DEF Replayed, Book, stockVars
<1>10. \A l \in Calls : Own(l) => Own(l)'
  BY <1>7, <1>9, OwnKept DEF docVars
<1>11. Own(next)'
  <2>1. Own(k)'
    BY <1>3, <1>10
  <2>2. k.doc \in Adjustments =>
          \A r \in lines'[k.doc] \ (k.todo \ {p}) : <<k.doc, r>> \in keys'
    BY <1>3, <1>7, <1>9, <2>1 DEF Own, AllBooked, docVars
  <2>3. QED
    BY <1>3, <1>6, <2>1, <2>2 DEF Own, AllBooked
<1>12. call' \in [Callers -> Calls \cup {Idle}] /\ CallsInv' /\ CreateInv'
  <2>1. next # Idle => /\ next.op = k.op /\ next.op # "create" /\ next.doc = k.doc
                       /\ Own(next)'
    BY <1>3, <1>6, <1>11
  <2>2. next \in Calls \cup {Idle}
    BY <1>5
  <2>3. QED
    BY <1>2, <1>7, <1>10, <2>1, <2>2, NextLineCalls
<1>13. /\ posted' \in [Docs -> [Places -> Int]]
       /\ onHand' \in [Places -> Nat] /\ keys' \in SUBSET (Docs \X Places)
       /\ moved' \in [Counts -> SUBSET Places]
       /\ UNCHANGED <<reserved, shelf>>
  <2>1. CASE UNCHANGED <<stockVars, moved>>
    BY <2>1 DEF IInv, TypeOK, stockVars
  <2>2. CASE Allowed(p, qty, 0) /\ Book(k.doc, p, qty)
    <3>1. onHand[p] + qty \in Nat
      BY <2>2 DEF Allowed, IInv, TypeOK
    <3>2. PICK sum \in Nat : sum = onHand[p] + qty
      BY <3>1
    <3>3. onHand' = [onHand EXCEPT ![p] = sum]
      BY <2>2, <3>2 DEF Book
    <3>4. onHand' \in [Places -> Nat]
      BY <3>3 DEF IInv, TypeOK
    <3>5. PICK total \in Int : total = posted[k.doc][p] + qty
      BY <1>3 DEF IInv, TypeOK
    <3>6. posted' = [posted EXCEPT ![k.doc][p] = total]
      BY <2>2, <3>5 DEF Book
    <3>7. posted' \in [Docs -> [Places -> Int]]
      BY <1>3, <3>6 DEF IInv, TypeOK
    <3>8. moved' \in [Counts -> SUBSET Places]
      BY <2>2 DEF Book, NoteMoved, IInv, TypeOK
    <3>9. keys' \in SUBSET (Docs \X Places)
      BY <1>3, <2>2 DEF Book, IInv, TypeOK
    <3>10. QED
      BY <2>2, <3>4, <3>7, <3>8, <3>9 DEF Book
  <2>3. QED
    BY <1>8, <2>1, <2>2
<1>14. TypeOK'
  BY <1>7, <1>12, <1>13 DEF IInv, TypeOK, docVars
<1>15. BookedInv'
  <2>1. CASE UNCHANGED <<stockVars, moved>>
    BY <1>7, <2>1 DEF IInv, BookedInv, stockVars, docVars
  <2>2. CASE ~Replayed(k.doc, p) /\ Book(k.doc, p, qty)
    <3> SUFFICES ASSUME NEW d \in Adjustments, NEW r \in Places
                 PROVE  posted'[d][r] = IF <<d, r>> \in keys' THEN delta[d][r] ELSE 0
      BY <1>7 DEF BookedInv, docVars
    <3>1. posted[d][r] = IF <<d, r>> \in keys THEN delta[d][r] ELSE 0
      BY DEF IInv, BookedInv
    <3>2. CASE d = k.doc /\ r = p
      <4>1. qty = delta[d][r] /\ posted[d][r] = 0
        BY <1>3, <1>4, <2>2, <3>1, <3>2 DEF Own, Replayed
      <4>2. posted'[d][r] = posted[d][r] + qty
        BY <1>3, <2>2, <3>2 DEF Book, IInv, TypeOK
      <4>3. QED
        BY <1>9, <3>2, <4>1, <4>2
    <3>3. CASE d # k.doc \/ r # p
      <4>1. d \in Docs
        BY DEF Docs
      <4>2. posted'[d][r] = posted[d][r]
        BY <1>3, <2>2, <3>3, <4>1 DEF Book, IInv, TypeOK
      <4>3. <<d, r>> \in keys' <=> <<d, r>> \in keys
        BY <1>9, <3>3
      <4>4. QED
        BY <3>1, <4>2, <4>3
    <3>4. QED
      BY <3>2, <3>3
  <2>3. QED
    BY <1>8, <2>1, <2>2
<1>16. LinesInv'
  BY <1>7 DEF IInv, LinesInv, docVars
<1>17. AbsentInv'
  BY <1>3, <1>7, <1>9 DEF Own, IInv, AbsentInv, docVars
<1>18. StatusInv'
  BY <1>7, <1>9 DEF IInv, StatusInv, CompleteMeansCounted, AllBooked, docVars
<1>19. QED
  BY <1>12, <1>14, <1>15, <1>16, <1>17, <1>18 DEF IInv

(* The status a request decided on is right whenever it is written.        *)
LEMMA WriteStatusKeeps ==
  ASSUME IInv, NEW c \in Callers, WriteStatus(c)
  PROVE  IInv'
<1>1. call[c] # Idle /\ call[c] \in Calls
  BY DEF WriteStatus, Idle, IInv, TypeOK
<1>2. PICK k \in Calls : k = call[c]
  BY <1>1
<1>3. /\ k.doc \in Docs /\ k.to \in Statuses /\ Own(k)
      /\ k.op = "change" \/ (k.op = "post" /\ k.todo = {})
      /\ status[k.doc] # "ABSENT" /\ k.to # "ABSENT"
  BY <1>1, <1>2 DEF WriteStatus, IInv, CallsInv, Calls, Own
<1>4. CASE ~MayHave(k.doc, k.to)
  <2>1. UNCHANGED <<stockVars, docVars, moved, disturbed>>
    BY <1>2, <1>4 DEF WriteStatus, docVars
  <2>2. QED
    BY <2>1, EndKeeps DEF WriteStatus
<1>5. CASE MayHave(k.doc, k.to)
  <2>1. /\ status' = [status EXCEPT ![k.doc] = k.to]
        /\ UNCHANGED <<stockVars, lines, system, counted, delta, otherOpen, moved,
                       disturbed>>
        /\ End(c)
    BY <1>2, <1>5 DEF WriteStatus
  <2>2. /\ status' \in [Docs -> Statuses]
        /\ \A d \in Docs : status'[d] = IF d = k.doc THEN k.to ELSE status[d]
    BY <1>3, <2>1 DEF IInv, TypeOK
  <2>3. ASSUME NEW l \in Calls, Own(l) PROVE Own(l)'
    <3>1. l.doc \in Docs
      BY DEF Calls
    <3>2. status[l.doc] = "ABSENT" <=> status'[l.doc] = "ABSENT"
      BY <1>3, <2>2, <3>1
    <3>3. QED
      BY <2>1, <2>3, <3>2, OwnKept DEF stockVars
  <2>4. call' \in [Callers -> Calls \cup {Idle}] /\ CallsInv' /\ CreateInv'
    BY <2>1, <2>3, EndedCalls
  <2>5. TypeOK'
    BY <2>1, <2>2, <2>4 DEF IInv, TypeOK, stockVars
  <2>6. BookedInv' /\ LinesInv'
    BY <2>1 DEF IInv, BookedInv, LinesInv, stockVars
  <2>7. AbsentInv'
    BY <1>3, <2>1, <2>2 DEF IInv, AbsentInv, stockVars
  <2>8. CompleteMeansCounted'
    <3>1. k.doc \in Counts /\ k.to \in {"COMPLETED", "POSTED"} =>
            lines[k.doc] \subseteq counted[k.doc]
      BY <1>3 DEF Own
    <3>2. QED
      BY <2>1, <2>2, <3>1 DEF IInv, StatusInv, CompleteMeansCounted, Docs
  <2>9. \A d \in Adjustments :
          /\ status'[d] = "POSTED" => AllBooked(d, lines[d])
          /\ status'[d] # "COMPLETED"
    <3>1. k.doc \in Adjustments =>
            /\ k.to = "POSTED" => AllBooked(k.doc, lines[k.doc])
            /\ k.to # "COMPLETED"
      BY <1>3, CountAssumption DEF Own, AllBooked
    <3>2. QED
      BY <2>2, <3>1 DEF IInv, StatusInv, Docs
  <2>10. StatusInv'
    BY <2>1, <2>8, <2>9 DEF StatusInv, AllBooked, stockVars
  <2>11. QED
    BY <2>4, <2>5, <2>6, <2>7, <2>10 DEF IInv
<1>6. QED
  BY <1>4, <1>5

(* What other documents and requests do leaves these documents alone.      *)
LEMMA EnvironmentKeeps ==
  ASSUME IInv, Environment
  PROVE  IInv'
<1>1. ASSUME NEW p \in Places, NEW qty \in Int, NEW rsv \in Int,
             OtherMovement(p, qty, rsv)
      PROVE  IInv'
  <2>1. PICK n \in Nat : n = onHand[p] + qty
    BY <1>1 DEF OtherMovement, Allowed, IInv, TypeOK
  <2>2. PICK m \in Nat : m = reserved[p] + rsv
    BY <1>1 DEF OtherMovement, Allowed, IInv, TypeOK
  <2>3. PICK s \in Nat : s = shelf[p] + qty
    BY <1>1, CountAssumption DEF OtherMovement, Quantities
  <2>4. /\ onHand' = [onHand EXCEPT ![p] = n]
        /\ reserved' = [reserved EXCEPT ![p] = m]
        /\ shelf' = [shelf EXCEPT ![p] = s]
        /\ UNCHANGED <<keys, posted, docVars, call, disturbed>>
    BY <1>1, <2>1, <2>2, <2>3 DEF OtherMovement
  <2>5. moved' \in [Counts -> SUBSET Places]
    BY <1>1 DEF OtherMovement, NoteMoved, IInv, TypeOK
  <2>6. TypeOK'
    BY <2>4, <2>5 DEF IInv, TypeOK, docVars
  <2>7. QED
    BY <2>4, <2>6
       DEF IInv, BookedInv, AbsentInv, StatusInv, CompleteMeansCounted, AllBooked,
           CallsInv, Own, CreateInv, LinesInv, docVars
<1>2. CASE OtherCount
  <2>1. TypeOK'
    BY <1>2 DEF OtherCount, IInv, TypeOK, stockVars
  <2>2. QED
    BY <1>2, <2>1
       DEF OtherCount, IInv, BookedInv, AbsentInv, StatusInv, CompleteMeansCounted,
           AllBooked, CallsInv, Own, CreateInv, LinesInv, stockVars
<1>3. QED
  BY <1>1, <1>2 DEF Environment

-----------------------------------------------------------------------------
LEMMA InitInv == Init => IInv
<1> SUFFICES ASSUME Init PROVE IInv
  OBVIOUS
<1>1. /\ onHand \in [Places -> Nat] /\ shelf \in [Places -> Nat]
  BY CountAssumption DEF Init, Quantities
<1>2. TypeOK
  <2>1. /\ reserved \in [Places -> Nat] /\ keys \in SUBSET (Docs \X Places)
        /\ posted \in [Docs -> [Places -> Int]]
        /\ delta \in [Docs -> [Places -> Int]]
        /\ system \in [Counts -> [Places -> Nat]]
    BY DEF Init
  <2>2. /\ status \in [Docs -> Statuses] /\ lines \in [Docs -> SUBSET Places]
        /\ counted \in [Counts -> SUBSET Places]
        /\ moved \in [Counts -> SUBSET Places] /\ disturbed \in SUBSET Counts
        /\ otherOpen \in BOOLEAN /\ call \in [Callers -> Calls \cup {Idle}]
    BY DEF Init, Statuses
  <2>3. QED
    BY <1>1, <2>1, <2>2 DEF TypeOK
<1>3. BookedInv /\ AbsentInv /\ LinesInv
  BY DEF Init, BookedInv, AbsentInv, LinesInv, Docs
<1>4. StatusInv
  BY DEF Init, StatusInv, CompleteMeansCounted, Docs
<1>5. CallsInv /\ CreateInv
  BY DEF Init, CallsInv, CreateInv
<1>6. QED
  BY <1>2, <1>3, <1>4, <1>5 DEF IInv

LEMMA NextKeepsInv == IInv /\ [Next]_vars => IInv'
<1> SUFFICES ASSUME IInv, [Next]_vars PROVE IInv'
  OBVIOUS
<1>1. CASE \E d \in Adjustments, change \in Deltas : CreateAdjustment(d, change)
  BY <1>1, CreateAdjustmentKeeps
<1>2. ASSUME NEW c \in Callers,
             \/ \E d \in Counts : CountRequest(c, d)
             \/ \E d \in Docs : DocRequest(c, d)
      PROVE  IInv'
  BY <1>2, RequestKeeps
<1>3. ASSUME NEW c \in Callers, Continue(c) PROVE IInv'
  <2>1. CASE Stop(c)
    BY <2>1, EndKeeps DEF Stop
  <2>2. QED
    BY <1>3, <2>1, InsertCountKeeps, SaveLineKeeps, PostLineKeeps,
       WriteStatusKeeps DEF Continue
<1>4. CASE Environment
  BY <1>4, EnvironmentKeeps
<1>5. CASE UNCHANGED vars
  BY <1>5 DEF vars, IInv, TypeOK, BookedInv, AbsentInv, StatusInv,
              CompleteMeansCounted, AllBooked, CallsInv, Own, CreateInv, LinesInv
<1>6. QED
  BY <1>1, <1>2, <1>3, <1>4, <1>5 DEF Next

LEMMA CountInvariant == Spec => []IInv
BY InitInv, NextKeepsInv, PTL DEF Spec

(* Whatever the documents, callers and crashes, the state keeps its type:  *)
(* no balance goes below zero (Allowed).                                   *)
THEOREM CountTypeCorrect == Spec => []TypeOK
<1>1. IInv => TypeOK
  BY DEF IInv
<1>2. QED
  BY <1>1, CountInvariant, PTL

(* However often and by however many requests an adjustment is posted, a   *)
(* line is booked as it was written or not at all (postAdjustment: the key *)
(* is the line's, and the quantity is never written again).                *)
THEOREM CountAdjustmentPostsAsWritten == Spec => []AdjustmentPostsAsWritten
<1>1. IInv => AdjustmentPostsAsWritten
  BY DEF IInv, BookedInv, AdjustmentPostsAsWritten
<1>2. QED
  BY <1>1, CountInvariant, PTL

(* A POSTED adjustment has all of its lines in the ledger, as written.     *)
THEOREM CountPostedMeansBooked == Spec => []PostedMeansBooked
<1>1. IInv => PostedMeansBooked
  BY DEF IInv, TypeOK, BookedInv, StatusInv, AllBooked, PostedMeansBooked, Docs
<1>2. QED
  BY <1>1, CountInvariant, PTL

(* No count is COMPLETED or POSTED with a line that is not counted,        *)
(* whatever overlaps (completeCycleCount checks, and no line is uncounted  *)
(* again).                                                                 *)
THEOREM CountCompleteMeansCounted == Spec => []CompleteMeansCounted
<1>1. IInv => CompleteMeansCounted
  BY DEF IInv, StatusInv
<1>2. QED
  BY <1>1, CountInvariant, PTL

-----------------------------------------------------------------------------
(* CountCorrectsStock speaks of the end of a count only.  FineInv follows  *)
(* an undisturbed count from its snapshot on: what the balance says, what  *)
(* was booked and what lies on the shelf fit together line by line, and    *)
(* what each request carries was read at the status its count still has.   *)

(* Two requests are in a count at the same time only to post it.           *)
Solo(d) ==
  \A c, e \in Callers :
    InDoc(c, d) /\ InDoc(e, d) /\ c # e =>
      call[c].op = "post" /\ call[e].op = "post"

(* What a request on an undisturbed count carries.                         *)
Right(k) ==
  /\ k.op = "create" => \A p \in k.todo \ moved[k.doc] : k.val[p] = onHand[p]
  /\ k.op = "record" =>
       /\ status[k.doc] = "IN_PROGRESS"
       /\ \A p \in k.todo \ moved[k.doc] : k.val[p] = shelf[p]
  /\ k.op = "change" =>
       /\ status[k.doc] \in OpenCount
       /\ k.to = "IN_PROGRESS" => status[k.doc] = "DRAFT"
  /\ k.op = "post" =>
       /\ status[k.doc] \in {"COMPLETED", "POSTED"}
       /\ \A p \in k.todo : /\ p \in lines[k.doc] /\ delta[k.doc][p] # 0
                            /\ k.val[p] = delta[k.doc][p]
       /\ \A p \in lines[k.doc] \ k.todo :
            delta[k.doc][p] # 0 => <<k.doc, p>> \in keys

(* A line whose balance nobody else has changed since the snapshot.        *)
LineFine(d, p) ==
  /\ status[d] = "POSTED" => onHand[p] = shelf[p]
  /\ status[d] # "POSTED" =>
       /\ onHand[p] = system[d][p] + posted[d][p]
       /\ p \in counted[d] => delta[d][p] = shelf[p] - system[d][p]

(* Nothing is booked before the count is COMPLETED; then a line is booked  *)
(* with its variance, and all of them when the count is POSTED.            *)
BooksFine(d) ==
  /\ status[d] \in {"ABSENT", "DRAFT", "IN_PROGRESS"} =>
       \A p \in Places : <<d, p>> \notin keys
  /\ \A p \in Places :
       posted[d][p] = IF <<d, p>> \in keys THEN delta[d][p] ELSE 0
  /\ status[d] = "POSTED" =>
       \A p \in lines[d] : delta[d][p] # 0 => <<d, p>> \in keys

Fine(d) ==
  /\ Solo(d)
  /\ status[d] = "ABSENT" => counted[d] = {}
  /\ BooksFine(d)
  /\ \A p \in lines[d] \ moved[d] : LineFine(d, p)
  /\ \A c \in Callers : InDoc(c, d) => Right(call[c])

FineInv == \A d \in Counts \ disturbed : Fine(d)

LEMMA FineInit == Init => FineInv
BY DEF Init, FineInv, Fine, Solo, InDoc, BooksFine, Docs

(* A count a step has nothing to do with: its rows stay, no request on it  *)
(* begins or goes on, and a balance that changes was noted as moved, or    *)
(* changes with the shelf after the count is POSTED.                       *)
LEMMA FineKept ==
  ASSUME IInv, IInv', NEW d \in Counts, Fine(d),
         status'[d] = status[d], lines'[d] = lines[d], system'[d] = system[d],
         counted'[d] = counted[d], delta'[d] = delta[d], posted'[d] = posted[d],
         \A p \in Places : <<d, p>> \in keys' <=> <<d, p>> \in keys,
         moved[d] \subseteq moved'[d],
         \A c \in Callers : InDoc(c, d)' => call'[c] = call[c],
         \A p \in Places :
           \/ p \in moved'[d]
           \/ onHand'[p] = onHand[p] /\ shelf'[p] = shelf[p]
           \/ ~Known(d)
           \/ status[d] = "POSTED"
              /\ \E n \in Int : onHand'[p] = onHand[p] + n /\ shelf'[p] = shelf[p] + n
  PROVE  Fine(d)'
<1> d \in Docs
  BY DEF Docs
<1>1. \A p \in Places : /\ onHand[p] \in Nat /\ shelf[p] \in Nat
                        /\ onHand'[p] \in Nat /\ shelf'[p] \in Nat
  BY DEF IInv, TypeOK
<1>2. lines[d] \subseteq Places
  BY DEF IInv, TypeOK
<1>3. ASSUME NEW c \in Callers, InDoc(c, d)'
      PROVE  InDoc(c, d)
  BY <1>3 DEF InDoc
<1>4. Solo(d)'
  BY <1>3 DEF Fine, Solo
<1>5. BooksFine(d)' /\ (status'[d] = "ABSENT" => counted'[d] = {})
  BY <1>2 DEF Fine, BooksFine
<1>6. ASSUME NEW p \in lines'[d] \ moved'[d]
      PROVE  LineFine(d, p)'
  <2>1. p \in lines[d] \ moved[d] /\ p \in Places /\ LineFine(d, p)
    BY <1>2, <1>6 DEF Fine
  <2>2. Known(d)
    BY <2>1 DEF IInv, AbsentInv, Known
  <2>3. CASE onHand'[p] = onHand[p] /\ shelf'[p] = shelf[p]
    BY <2>1, <2>3 DEF LineFine
  <2>4. ASSUME status[d] = "POSTED", NEW n \in Int,
               onHand'[p] = onHand[p] + n, shelf'[p] = shelf[p] + n
        PROVE  LineFine(d, p)'
    BY <2>1, <2>4 DEF LineFine
  <2> QED
    BY <1>6, <2>1, <2>2, <2>3, <2>4
<1>7. ASSUME NEW c \in Callers, InDoc(c, d)'
      PROVE  Right(call[c])'
  <2>1. PICK k \in Calls : k = call'[c] /\ k = call[c] /\ k.doc = d
    BY <1>7 DEF InDoc, IInv, TypeOK
  <2>2. Right(k) /\ Known(d) /\ k.todo \subseteq Places
    BY <1>3, <1>7, <2>1 DEF Fine, Known, Calls
  <2>3. k.op = "create" => status[d] = "ABSENT"
    BY <1>3, <1>7, <2>1 DEF IInv, CallsInv, Own, InDoc
  <2>4. k.op \in {"create", "record"} =>
          \A p \in k.todo \ moved'[d] :
            onHand'[p] = onHand[p] /\ shelf'[p] = shelf[p]
    BY <2>1, <2>2, <2>3 DEF Right
  <2>5. Right(k)'
    BY <1>2, <2>1, <2>2, <2>4 DEF Right
  <2> QED
    BY <2>1, <2>5
<1> QED
  BY <1>4, <1>5, <1>6, <1>7 DEF Fine

LEMMA FineBegin ==
  ASSUME IInv, IInv', FineInv, NEW c \in Callers, NEW op, NEW e \in Docs,
         NEW todo \in SUBSET Places, NEW val, NEW to,
         Begin(c, op, e, todo, val, to),
         UNCHANGED <<stockVars, docVars>>, disturbed \subseteq disturbed',
         \A d \in Counts \ disturbed' : moved'[d] = moved[d],
         e \in Counts \ disturbed' =>
           /\ \A f \in Callers : InDoc(f, e) => op = "post" /\ call[f].op = "post"
           /\ \A k : /\ k.op = op /\ k.doc = e /\ k.todo = todo /\ k.to = to
                     /\ \A p \in todo : k.val[p] = val[p]
                     => Right(k)
  PROVE  FineInv'
<1> DEFINE v == [p \in Places |-> IF p \in todo THEN val[p] ELSE 0]
           new == [op |-> op, doc |-> e, todo |-> todo, to |-> to, val |-> v]
<1>1. PICK k : k = new
  OBVIOUS
<1>2. /\ k.op = op /\ k.doc = e /\ k.todo = todo /\ k.to = to
      /\ \A p \in todo : k.val[p] = val[p]
  BY <1>1
<1>3. /\ call[c] = Idle /\ call'[c] = k
      /\ \A f \in Callers \ {c} : call'[f] = call[f]
  BY <1>1 DEF Begin, IInv, TypeOK
<1>4. SUFFICES ASSUME NEW d \in Counts \ disturbed' PROVE Fine(d)'
  BY DEF FineInv
<1>5. Fine(d) /\ moved'[d] = moved[d] /\ d \in Docs
  BY DEF FineInv, Docs
<1>6. /\ UNCHANGED <<onHand, shelf, keys, posted, status, lines, system, counted,
                     delta>>
  BY DEF stockVars, docVars
<1>7. CASE d # e
  <2>1. \A f \in Callers : InDoc(f, d)' => call'[f] = call[f]
    BY <1>2, <1>3, <1>7 DEF InDoc
  <2> QED
    BY <1>5, <1>6, <2>1, FineKept
<1>8. CASE d = e
  <2>1. \A f \in Callers \ {c} : InDoc(f, d)' => InDoc(f, d)
    BY <1>3 DEF InDoc
  <2>2. \A f \in Callers \ {c} : InDoc(f, d) => op = "post" /\ call[f].op = "post"
    BY <1>8
  <2>3. Solo(d)'
    BY <1>2, <1>3, <1>5, <2>1, <2>2 DEF Fine, Solo
  <2>4. Right(k)
    BY <1>2, <1>8
  <2>5. ASSUME NEW l, l.doc = d, Right(l)
        PROVE  Right(l)'
    BY <1>5, <1>6, <2>5 DEF Right
  <2>6. ASSUME NEW f \in Callers, InDoc(f, d)'
        PROVE  Right(call[f])'
    <3>1. PICK l : l = call'[f]
      OBVIOUS
    <3>2. l.doc = d /\ Right(l)
      BY <1>2, <1>3, <1>5, <1>8, <2>1, <2>4, <2>6, <3>1 DEF Fine, InDoc
    <3>3. Right(l)'
      BY <2>5, <3>2
    <3> QED
      BY <3>1, <3>3
  <2>7. BooksFine(d)' /\ (status'[d] = "ABSENT" => counted'[d] = {})
    BY <1>5, <1>6 DEF Fine, BooksFine
  <2>8. \A p \in lines'[d] \ moved'[d] : LineFine(d, p)'
    BY <1>5, <1>6 DEF Fine, LineFine
  <2> QED
    BY <2>3, <2>6, <2>7, <2>8 DEF Fine
<1> QED
  BY <1>7, <1>8

LEMMA FineBeginOn ==
  ASSUME IInv, IInv', FineInv, NEW c \in Callers,
         NEW op \in {"record", "post", "change"}, NEW e \in Docs,
         NEW todo \in SUBSET Places, NEW val, NEW to,
         BeginOn(c, op, e, todo, val, to),
         e \in Counts =>
           \A k : /\ k.op = op /\ k.doc = e /\ k.todo = todo /\ k.to = to
                  /\ \A p \in todo : k.val[p] = val[p]
                  => Right(k)
  PROVE  FineInv'
<1>1. Begin(c, op, e, todo, val, to) /\ UNCHANGED <<stockVars, docVars>>
  BY DEF BeginOn
<1>2. disturbed \subseteq disturbed'
  BY DEF BeginOn, NoteOverlap
<1>3. \A d \in Counts \ disturbed' : moved'[d] = moved[d]
  BY DEF BeginOn, NoteOverlap, IInv, TypeOK
<1>4. e \in Counts \ disturbed' =>
        \A f \in Callers : InDoc(f, e) => op = "post" /\ call[f].op = "post"
  BY DEF BeginOn, NoteOverlap, Overlaps
<1> QED
  BY <1>1, <1>2, <1>3, <1>4, FineBegin

LEMMA FineRequest ==
  ASSUME IInv, IInv', FineInv, NEW c \in Callers,
         \/ \E d \in Counts : CountRequest(c, d)
         \/ \E d \in Docs : DocRequest(c, d)
  PROVE  FineInv'
<1>1. ASSUME NEW d \in Counts, NEW scope \in Scopes, BeginCount(c, d, scope)
      PROVE  FineInv'
  <2>1. /\ Begin(c, "create", d, scope, onHand, "DRAFT") /\ ~Known(d)
        /\ UNCHANGED <<stockVars, docVars, moved, disturbed>>
    BY <1>1 DEF BeginCount, Snapshot
  <2>2. scope \in SUBSET Places /\ d \in Docs
    BY CountAssumption DEF Docs
  <2>3. \A f \in Callers : ~InDoc(f, d)
    BY <2>1 DEF Known
  <2>4. \A k : /\ k.op = "create" /\ k.doc = d /\ k.todo = scope /\ k.to = "DRAFT"
               /\ \A p \in scope : k.val[p] = onHand[p]
               => Right(k)
    BY DEF Right
  <2>5. disturbed \subseteq disturbed' /\ \A e \in Counts : moved'[e] = moved[e]
    BY <2>1
  <2> QED
    BY <2>1, <2>2, <2>3, <2>4, <2>5, FineBegin
<1>2. ASSUME NEW d \in Counts, NEW which \in SUBSET Places,
             BeginRecord(c, d, which)
      PROVE  FineInv'
  <2>1. \A k : /\ k.op = "record" /\ k.doc = d /\ k.todo = which
               /\ k.to = "IN_PROGRESS" /\ \A p \in which : k.val[p] = shelf[p]
               => Right(k)
    BY <1>2 DEF BeginRecord, Right
  <2>2. d \in Docs /\ BeginOn(c, "record", d, which, shelf, "IN_PROGRESS")
    BY <1>2 DEF BeginRecord, Docs
  <2> QED
    BY <2>1, <2>2, FineBeginOn
<1>3. ASSUME NEW d \in Docs, NEW to, BeginOn(c, "change", d, {}, shelf, to),
             d \in Counts =>
               /\ status[d] \in OpenCount
               /\ to = "IN_PROGRESS" => status[d] = "DRAFT"
      PROVE  FineInv'
  <2>1. d \in Counts =>
          \A k : /\ k.op = "change" /\ k.doc = d /\ k.todo = {} /\ k.to = to
                 /\ \A p \in {} : k.val[p] = shelf[p]
                 => Right(k)
    BY <1>3 DEF Right
  <2> QED
    BY <1>3, <2>1, FineBeginOn
<1>4. ASSUME NEW d \in Docs, BeginPost(c, d)
      PROVE  FineInv'
  <2>1. PICK todo \in SUBSET Places : todo = {p \in lines[d] : delta[d][p] # 0}
    BY DEF IInv, TypeOK
  <2>2. d \in Counts =>
          \A k : /\ k.op = "post" /\ k.doc = d /\ k.todo = todo /\ k.to = "POSTED"
                 /\ \A p \in todo : k.val[p] = delta[d][p]
                 => Right(k)
    BY <1>4, <2>1 DEF BeginPost, Right
  <2>3. BeginOn(c, "post", d, todo, delta[d], "POSTED")
    BY <1>4, <2>1 DEF BeginPost
  <2> QED
    BY <2>2, <2>3, FineBeginOn
<1>5. ASSUME NEW d \in Counts, BeginStart(c, d) \/ BeginComplete(c, d)
      PROVE  FineInv'
  BY <1>3, <1>5 DEF BeginStart, BeginComplete, OpenCount, Docs
<1>6. ASSUME NEW d \in Docs, BeginCancel(c, d)
      PROVE  FineInv'
  BY <1>3, <1>6 DEF BeginCancel
<1> QED
  BY <1>1, <1>2, <1>4, <1>5, <1>6 DEF CountRequest, DocRequest

(* A step of a request that leaves the balances alone, seen from a count   *)
(* it is not in.                                                           *)
LEMMA FineElsewhere ==
  ASSUME IInv, IInv', NEW d \in Counts, Fine(d), NEW c \in Callers, ~InDoc(c, d),
         \A f \in Callers \ {c} : call'[f] = call[f],
         call'[c] # Idle => call'[c].doc = call[c].doc /\ call[c] # Idle,
         UNCHANGED <<stockVars, moved>>,
         status'[d] = status[d], lines'[d] = lines[d], system'[d] = system[d],
         counted'[d] = counted[d], delta'[d] = delta[d]
  PROVE  Fine(d)'
<1>1. \A f \in Callers : InDoc(f, d)' => call'[f] = call[f]
  BY DEF InDoc
<1>2. UNCHANGED <<onHand, shelf, keys, posted, moved>>
  BY DEF stockVars
<1> QED
  BY <1>1, <1>2, FineKept

LEMMA FineStop ==
  ASSUME IInv, IInv', FineInv, NEW c \in Callers, End(c),
         UNCHANGED <<stockVars, docVars, moved, disturbed>>
  PROVE  FineInv'
<1> SUFFICES ASSUME NEW d \in Counts \ disturbed' PROVE Fine(d)'
  BY DEF FineInv
<1>1. Fine(d)
  BY DEF FineInv
<1>2. \A f \in Callers : InDoc(f, d)' => call'[f] = call[f]
  BY DEF End, InDoc, IInv, TypeOK
<1>3. UNCHANGED <<onHand, shelf, keys, posted, status, lines, system, counted, delta,
                  moved>>
  BY DEF stockVars, docVars
<1> QED
  BY <1>1, <1>2, <1>3, FineKept

LEMMA FineInsert ==
  ASSUME IInv, IInv', FineInv, NEW c \in Callers, InsertCount(c)
  PROVE  FineInv'
<1>1. PICK k \in Calls : k = call[c] /\ k # Idle /\ k.op = "create"
  BY DEF InsertCount, Idle, IInv, TypeOK
<1>2. CASE ~MayHave(k.doc, k.to)
  BY <1>1, <1>2, FineStop DEF InsertCount, docVars
<1>3. CASE MayHave(k.doc, k.to)
  <2>1. /\ status' = [status EXCEPT ![k.doc] = k.to]
        /\ lines' = [lines EXCEPT ![k.doc] = k.todo]
        /\ system' = [system EXCEPT ![k.doc] = k.val]
        /\ UNCHANGED <<stockVars, counted, delta, moved, disturbed>>
        /\ call'[c] = Idle /\ \A f \in Callers \ {c} : call'[f] = call[f]
    BY <1>1, <1>3 DEF InsertCount, End, IInv, TypeOK
  <2>2. /\ k.doc \in Counts /\ k.doc \in Docs /\ k.to = "DRAFT"
        /\ status[k.doc] = "ABSENT"
    BY <1>1 DEF IInv, CallsInv, Own, Docs
  <2> SUFFICES ASSUME NEW d \in Counts \ disturbed' PROVE Fine(d)'
    BY DEF FineInv
  <2>3. Fine(d) /\ d \in Docs
    BY <2>1 DEF FineInv, Docs
  <2>4. CASE d # k.doc
    <3>1. /\ status'[d] = status[d] /\ lines'[d] = lines[d]
          /\ system'[d] = system[d]
      BY <2>1, <2>2, <2>3, <2>4 DEF IInv, TypeOK
    <3> QED
      BY <1>1, <2>1, <2>3, <2>4, <3>1, FineElsewhere DEF InDoc
  <2>5. CASE d = k.doc
    <3>1. /\ status'[d] = "DRAFT" /\ lines'[d] = k.todo /\ system'[d] = k.val
          /\ counted'[d] = {} /\ delta' = delta
          /\ UNCHANGED <<onHand, shelf, keys, posted, moved>>
      BY <2>1, <2>2, <2>3, <2>5 DEF IInv, TypeOK, Fine, stockVars
    <3>2. \A f \in Callers : ~InDoc(f, d)'
      BY <1>1, <2>1, <2>5 DEF InDoc, IInv, CreateInv
    <3>3. BooksFine(d)'
      BY <2>2, <2>3, <2>5, <3>1 DEF Fine, BooksFine
    <3>4. ASSUME NEW p \in lines'[d] \ moved'[d]
          PROVE  LineFine(d, p)'
      <4>1. p \in k.todo \ moved[d] /\ p \in Places
        BY <3>1, <3>4 DEF Calls
      <4>2. Right(k)
        BY <1>1, <2>3, <2>5 DEF Fine, InDoc
      <4>3. k.val[p] = onHand[p] /\ posted[d][p] = 0 /\ onHand[p] \in Nat
        BY <1>1, <2>2, <2>3, <2>5, <4>1, <4>2
           DEF Right, Fine, BooksFine, IInv, TypeOK
      <4> QED
        BY <3>1, <4>3 DEF LineFine
    <3> QED
      BY <3>1, <3>2, <3>3, <3>4 DEF Fine, Solo
  <2> QED
    BY <2>4, <2>5
<1> QED
  BY <1>2, <1>3

(* The count is IN_PROGRESS and nobody else is in it, so nothing of it is  *)
(* booked and no posting carries the variance that is written anew.        *)
LEMMA FineSave ==
  ASSUME IInv, IInv', FineInv, NEW c \in Callers, NEW q \in Places, SaveLine(c, q)
  PROVE  FineInv'
<1>1. PICK k \in Calls :
        k = call[c] /\ k # Idle /\ k.op = "record" /\ q \in k.todo
  BY DEF SaveLine, Idle, IInv, TypeOK
<1>2. k.doc \in Counts /\ k.doc \in Docs /\ k.todo \subseteq lines[k.doc]
  BY <1>1 DEF IInv, CallsInv, Own, Docs
<1>3. PICK next : next = IF k.todo = {q} THEN Idle ELSE [k EXCEPT !.todo = @ \ {q}]
  OBVIOUS
<1>4. next # Idle => /\ next.op = "record" /\ next.doc = k.doc
                     /\ next.todo \subseteq k.todo /\ next.val = k.val
  BY <1>1, <1>3 DEF Calls
<1>5. PICK v : v = k.val[q] - system[k.doc][q]
  OBVIOUS
<1>6. /\ delta' = [delta EXCEPT ![k.doc][q] = v]
      /\ counted' = [counted EXCEPT ![k.doc] = @ \cup {q}]
      /\ UNCHANGED <<stockVars, status, lines, system, moved, disturbed>>
      /\ call'[c] = next /\ \A f \in Callers \ {c} : call'[f] = call[f]
  BY <1>1, <1>3, <1>5 DEF SaveLine, IInv, TypeOK
<1> SUFFICES ASSUME NEW d \in Counts \ disturbed' PROVE Fine(d)'
  BY DEF FineInv
<1>7. Fine(d) /\ d \in Docs
  BY <1>6 DEF FineInv, Docs
<1>8. CASE d # k.doc
  <2>1. counted'[d] = counted[d] /\ delta'[d] = delta[d]
    BY <1>2, <1>6, <1>7, <1>8 DEF IInv, TypeOK
  <2> QED
    BY <1>1, <1>4, <1>6, <1>7, <1>8, <2>1, FineElsewhere DEF InDoc
<1>9. CASE d = k.doc
  <2>1. /\ counted'[d] = counted[d] \cup {q}
        /\ \A p \in Places : delta'[d][p] = IF p = q THEN v ELSE delta[d][p]
        /\ UNCHANGED <<onHand, shelf, keys, posted, status, lines, system, moved>>
    BY <1>2, <1>6, <1>9 DEF IInv, TypeOK, stockVars
  <2>2. Right(k) /\ InDoc(c, d)
    BY <1>1, <1>7, <1>9 DEF Fine, InDoc
  <2>3. status[d] = "IN_PROGRESS" /\ \A p \in Places : <<d, p>> \notin keys
    BY <1>1, <1>7, <1>9, <2>2 DEF Right, Fine, BooksFine
  <2>4. BooksFine(d)'
    BY <1>7, <2>1, <2>3 DEF Fine, BooksFine
  <2>5. \A f \in Callers \ {c} : ~InDoc(f, d)
    BY <1>1, <1>7, <2>2 DEF Fine, Solo
  <2>6. \A f \in Callers : InDoc(f, d)' => f = c /\ next # Idle
    BY <1>6, <2>5 DEF InDoc
  <2>7. ASSUME next # Idle PROVE Right(next)'
    <3>1. \A p \in next.todo \ moved[d] : next.val[p] = shelf[p]
      BY <1>1, <1>4, <1>9, <2>2, <2>7 DEF Right
    <3> QED
      BY <1>4, <1>9, <2>1, <2>3, <2>7, <3>1 DEF Right
  <2>8. \A f \in Callers : InDoc(f, d)' => Right(call[f])'
    BY <1>6, <2>6, <2>7
  <2>9. ASSUME NEW p \in lines'[d] \ moved'[d]
        PROVE  LineFine(d, p)'
    <3>1. p \in lines[d] \ moved[d] /\ p \in Places
      BY <1>7, <2>1, <2>9 DEF IInv, TypeOK
    <3>2. LineFine(d, p)
      BY <1>7, <3>1 DEF Fine
    <3>3. p \in counted'[d] => delta'[d][p] = shelf[p] - system[d][p]
      <4>1. CASE p = q
        <5>1. k.val[q] = shelf[q]
          BY <1>1, <1>9, <2>2, <3>1, <4>1 DEF Right
        <5> QED
          BY <1>5, <1>9, <2>1, <3>1, <4>1, <5>1
      <4>2. CASE p # q
        BY <2>1, <2>3, <3>1, <3>2, <4>2 DEF LineFine
      <4> QED
        BY <4>1, <4>2
    <3> QED
      BY <2>1, <2>3, <3>2, <3>3 DEF LineFine
  <2>10. Solo(d)'
    BY <2>6 DEF Solo
  <2> QED
    BY <2>1, <2>3, <2>4, <2>8, <2>9, <2>10 DEF Fine
<1> QED
  BY <1>8, <1>9

LEMMA FinePost ==
  ASSUME IInv, IInv', FineInv, NEW c \in Callers, NEW q \in Places, PostLine(c, q)
  PROVE  FineInv'
<1>1. PICK k \in Calls :
        k = call[c] /\ k # Idle /\ k.op = "post" /\ q \in k.todo
  BY DEF PostLine, Idle, IInv, TypeOK
<1>2. k.doc \in Docs
  BY DEF Calls
<1>3. PICK next : next = [k EXCEPT !.todo = @ \ {q}]
  OBVIOUS
<1>4. /\ next.op = "post" /\ next.doc = k.doc /\ next.val = k.val
      /\ next.todo = k.todo \ {q}
  BY <1>1, <1>3 DEF Calls
<1>5. /\ call'[c] = next /\ \A f \in Callers \ {c} : call'[f] = call[f]
      /\ UNCHANGED <<docVars, disturbed>>
      /\ \/ <<k.doc, q>> \in keys /\ UNCHANGED <<stockVars, moved>>
         \/ <<k.doc, q>> \notin keys /\ Book(k.doc, q, k.val[q])
  BY <1>1, <1>3 DEF PostLine, Replayed, IInv, TypeOK
<1>6. keys' = keys \cup {<<k.doc, q>>} /\ shelf' = shelf
  BY <1>5 DEF Book, stockVars
<1> SUFFICES ASSUME NEW d \in Counts \ disturbed' PROVE Fine(d)'
  BY DEF FineInv
<1>7. Fine(d) /\ d \in Docs
  BY <1>5 DEF FineInv, Docs
<1>8. UNCHANGED <<status, lines, system, counted, delta>>
  BY <1>5 DEF docVars
<1>9. CASE d # k.doc
  <2>1. \A f \in Callers : InDoc(f, d)' => call'[f] = call[f]
    BY <1>4, <1>5, <1>9 DEF InDoc
  <2>2. CASE UNCHANGED <<stockVars, moved>>
    BY <1>7, <1>8, <2>1, <2>2, FineKept DEF stockVars
  <2>3. CASE Book(k.doc, q, k.val[q])
    <3>1. /\ posted'[d] = posted[d]
          /\ \A p \in Places : <<d, p>> \in keys' <=> <<d, p>> \in keys
          /\ \A p \in Places \ {q} : onHand'[p] = onHand[p]
      BY <1>2, <1>6, <1>7, <1>9, <2>3 DEF Book, IInv, TypeOK
    <3>2. moved'[d] = IF Known(d) THEN moved[d] \cup {q} ELSE moved[d]
      BY <1>5, <1>9, <2>3 DEF Book, NoteMoved
    <3>3. \A p \in Places :
            \/ p \in moved'[d]
            \/ onHand'[p] = onHand[p] /\ shelf'[p] = shelf[p]
            \/ ~Known(d)
      BY <1>6, <3>1, <3>2
    <3>4. moved[d] \subseteq moved'[d]
      BY <3>2
    <3> QED
      BY <1>7, <1>8, <2>1, <3>1, <3>3, <3>4, FineKept
  <2> QED
    BY <1>5, <2>2, <2>3
<1>10. CASE d = k.doc
  <2>1. Right(k)
    BY <1>1, <1>7, <1>10 DEF Fine, InDoc
  <2>2. /\ status[d] \in {"COMPLETED", "POSTED"}
        /\ q \in lines[d] /\ delta[d][q] # 0 /\ k.val[q] = delta[d][q]
    BY <1>1, <1>10, <2>1 DEF Right
  <2>3. moved'[d] = moved[d]
    BY <1>5, <1>10 DEF Book, NoteMoved
  <2>4. /\ \A p \in Places \ {q} : /\ posted'[d][p] = posted[d][p]
                                   /\ onHand'[p] = onHand[p]
                                   /\ <<d, p>> \in keys' <=> <<d, p>> \in keys
        /\ <<d, q>> \in keys'
        /\ posted'[d][q] = delta[d][q]
        /\ <<d, q>> \in keys => onHand'[q] = onHand[q] /\ posted'[d][q] = posted[d][q]
        /\ <<d, q>> \notin keys => /\ onHand'[q] = onHand[q] + delta[d][q]
                                   /\ posted[d][q] = 0 /\ status[d] # "POSTED"
    <3>1. posted[d][q] = IF <<d, q>> \in keys THEN delta[d][q] ELSE 0
      BY <1>7 DEF Fine, BooksFine
    <3>2. CASE UNCHANGED <<stockVars, moved>> /\ <<d, q>> \in keys
      BY <3>1, <3>2 DEF stockVars
    <3>3. CASE Book(k.doc, q, k.val[q]) /\ <<d, q>> \notin keys
      <4>1. onHand' = [onHand EXCEPT ![q] = @ + delta[d][q]]
            /\ posted' = [posted EXCEPT ![d][q] = @ + delta[d][q]]
        BY <1>10, <2>2, <3>3 DEF Book
      <4>2. PICK n \in Int : n = delta[d][q]
        BY <1>7 DEF IInv, TypeOK
      <4>3. posted'[d][q] = n
        BY <1>7, <3>1, <3>3, <4>1, <4>2 DEF IInv, TypeOK
      <4>4. \A p \in Places \ {q} : /\ posted'[d][p] = posted[d][p]
                                    /\ onHand'[p] = onHand[p]
        BY <1>7, <4>1 DEF IInv, TypeOK
      <4>5. onHand'[q] = onHand[q] + n
        BY <4>1, <4>2 DEF IInv, TypeOK
      <4>6. status[d] # "POSTED"
        BY <1>7, <2>2, <3>3 DEF Fine, BooksFine
      <4>7. \A p \in Places \ {q} : <<d, p>> \in keys' <=> <<d, p>> \in keys
        BY <1>6, <1>10
      <4> QED
        BY <1>6, <1>10, <3>1, <3>3, <4>2, <4>3, <4>4, <4>5, <4>6, <4>7
    <3> QED
      BY <1>5, <1>10, <3>2, <3>3
  <2>5. lines[d] \subseteq Places
    BY <1>7 DEF IInv, TypeOK
  <2>6. BooksFine(d)' /\ (status'[d] = "ABSENT" => counted'[d] = {})
    <3>1. \A p \in Places :
            posted'[d][p] = IF <<d, p>> \in keys' THEN delta'[d][p] ELSE 0
      BY <1>7, <1>8, <2>4 DEF Fine, BooksFine
    <3> QED
      BY <1>6, <1>7, <1>8, <2>2, <3>1 DEF Fine, BooksFine
  <2>7. ASSUME NEW p \in lines'[d] \ moved'[d]
        PROVE  LineFine(d, p)'
    <3>1. p \in lines[d] \ moved[d] /\ p \in Places /\ LineFine(d, p)
      BY <1>7, <1>8, <2>3, <2>5, <2>7 DEF Fine
    <3>2. CASE onHand'[p] = onHand[p] /\ posted'[d][p] = posted[d][p]
      BY <1>6, <1>8, <3>1, <3>2 DEF LineFine
    <3>3. CASE p = q /\ <<d, q>> \notin keys
      <4>1. /\ onHand[q] = system[d][q] + 0 /\ onHand'[q] = onHand[q] + delta[d][q]
            /\ posted'[d][q] = delta[d][q] /\ status'[d] # "POSTED"
        BY <1>8, <2>4, <3>1, <3>3 DEF LineFine
      <4>2. system[d][q] \in Int /\ delta[d][q] \in Int
        BY <1>7 DEF IInv, TypeOK
      <4>3. onHand'[q] = system'[d][q] + posted'[d][q]
        BY <1>8, <4>1, <4>2
      <4> QED
        BY <1>6, <1>8, <3>1, <3>3, <4>1, <4>3 DEF LineFine
    <3> QED
      BY <2>4, <3>1, <3>2, <3>3
  <2>8. ASSUME NEW l, l.doc = d, l.op = "post", Right(l)
        PROVE  Right(l)'
    BY <1>6, <1>8, <2>8 DEF Right
  <2>9. Right(next)'
    <3>1. Right(k)'
      BY <1>1, <1>10, <2>1, <2>8
    <3>2. <<d, q>> \in keys'
      BY <2>4
    <3> QED
      BY <1>1, <1>4, <1>10, <3>1, <3>2 DEF Right
  <2>10. \A f \in Callers \ {c} : InDoc(f, d)' =>
           InDoc(f, d) /\ call'[f] = call[f] /\ call[f].op = "post"
    BY <1>1, <1>5, <1>7, <1>10 DEF Fine, Solo, InDoc
  <2>11. ASSUME NEW f \in Callers, InDoc(f, d)'
         PROVE  Right(call[f])'
    <3>1. CASE f = c
      BY <1>5, <2>9, <3>1
    <3>2. CASE f # c
      <4>1. PICK l : l = call'[f]
        OBVIOUS
      <4>2. l.doc = d /\ l.op = "post" /\ Right(l)
        BY <1>7, <2>10, <2>11, <3>2, <4>1 DEF Fine, InDoc
      <4>3. Right(l)'
        BY <2>8, <4>2
      <4> QED
        BY <4>1, <4>3
    <3> QED
      BY <3>1, <3>2
  <2>12. Solo(d)'
    BY <1>4, <1>5, <2>10 DEF Solo
  <2> QED
    BY <2>6, <2>7, <2>11, <2>12 DEF Fine
<1> QED
  BY <1>9, <1>10

(* A count that becomes POSTED has every line counted and every variance   *)
(* booked, so its balances have reached the shelf.                         *)
LEMMA FineStatus ==
  ASSUME IInv, IInv', FineInv, NEW c \in Callers, WriteStatus(c)
  PROVE  FineInv'
<1>1. PICK k \in Calls :
        /\ k = call[c] /\ k # Idle
        /\ k.op = "change" \/ (k.op = "post" /\ k.todo = {})
  BY DEF WriteStatus, Idle, IInv, TypeOK
<1>2. CASE ~MayHave(k.doc, k.to)
  BY <1>1, <1>2, FineStop DEF WriteStatus, docVars
<1>3. CASE MayHave(k.doc, k.to)
  <2>1. /\ status' = [status EXCEPT ![k.doc] = k.to]
        /\ UNCHANGED <<stockVars, lines, system, counted, delta, moved, disturbed>>
        /\ call'[c] = Idle /\ \A f \in Callers \ {c} : call'[f] = call[f]
    BY <1>1, <1>3 DEF WriteStatus, End, IInv, TypeOK
  <2>2. k.doc \in Docs /\ Own(k)
    BY <1>1 DEF IInv, CallsInv, Calls
  <2> SUFFICES ASSUME NEW d \in Counts \ disturbed' PROVE Fine(d)'
    BY DEF FineInv
  <2>3. Fine(d) /\ d \in Docs
    BY <2>1 DEF FineInv, Docs
  <2>4. CASE d # k.doc
    <3>1. status'[d] = status[d]
      BY <2>1, <2>2, <2>3, <2>4 DEF IInv, TypeOK
    <3> QED
      BY <1>1, <2>1, <2>3, <2>4, <3>1, FineElsewhere DEF InDoc
  <2>5. CASE d = k.doc
    <3>1. /\ status'[d] = k.to
          /\ UNCHANGED <<onHand, shelf, keys, posted, lines, system, counted, delta,
                         moved>>
      BY <2>1, <2>2, <2>5 DEF IInv, TypeOK, stockVars
    <3>2. Right(k) /\ lines[d] \subseteq Places
      BY <1>1, <2>3, <2>5 DEF Fine, InDoc, IInv, TypeOK
    <3>3. \A f \in Callers : InDoc(f, d)' =>
            /\ f # c /\ InDoc(f, d) /\ call'[f] = call[f]
            /\ k.op = "post" /\ call[f].op = "post"
      BY <1>1, <2>1, <2>3, <2>5 DEF Fine, Solo, InDoc
    <3>4. Solo(d)'
      BY <3>3 DEF Solo
    <3>5. CASE k.op = "change"
      <4>1. /\ k.to \in {"IN_PROGRESS", "COMPLETED", "CANCELLED"}
            /\ status[d] \in OpenCount
            /\ k.to = "IN_PROGRESS" => status[d] = "DRAFT"
        BY <2>2, <2>5, <3>2, <3>5 DEF Own, Right
      <4>2. BooksFine(d)'
        BY <2>3, <3>1, <4>1 DEF Fine, BooksFine
      <4>3. \A p \in lines'[d] \ moved'[d] : LineFine(d, p)'
        BY <2>3, <3>1, <4>1 DEF Fine, LineFine, OpenCount
      <4> QED
        BY <3>1, <3>3, <3>4, <3>5, <4>1, <4>2, <4>3 DEF Fine
    <3>6. CASE k.op = "post"
      <4>1. k.to = "POSTED" /\ k.todo = {} /\ lines[d] \subseteq counted[d]
        BY <1>1, <2>2, <2>5, <3>6 DEF Own
      <4>2. /\ status[d] \in {"COMPLETED", "POSTED"}
            /\ \A p \in lines[d] : delta[d][p] # 0 => <<d, p>> \in keys
        BY <2>5, <3>2, <3>6, <4>1 DEF Right
      <4>3. BooksFine(d)'
        BY <2>3, <3>1, <4>1, <4>2 DEF Fine, BooksFine
      <4>4. ASSUME NEW p \in lines[d] \ moved[d]
            PROVE  onHand[p] = shelf[p]
        <5>1. LineFine(d, p)
          BY <2>3, <4>4 DEF Fine
        <5>2. p \in Places /\ p \in counted[d]
          BY <3>2, <4>1, <4>4
        <5>3. posted[d][p] = IF <<d, p>> \in keys THEN delta[d][p] ELSE 0
          BY <2>3, <5>2 DEF Fine, BooksFine
        <5>4. posted[d][p] = delta[d][p]
          BY <4>2, <4>4, <5>3
        <5>5. /\ onHand[p] \in Nat /\ shelf[p] \in Nat /\ system[d][p] \in Nat
              /\ delta[d][p] \in Int
          BY <2>3, <5>2 DEF IInv, TypeOK
        <5>6. status[d] = "POSTED" \/ delta[d][p] = shelf[p] - system[d][p]
          BY <5>1, <5>2 DEF LineFine
        <5> QED
          BY <5>1, <5>4, <5>5, <5>6 DEF LineFine
      <4>5. \A p \in lines'[d] \ moved'[d] : LineFine(d, p)'
        BY <3>1, <4>1, <4>4 DEF LineFine
      <4>6. ASSUME NEW l, l.doc = d, l.op = "post", Right(l)
            PROVE  Right(l)'
        BY <3>1, <4>1, <4>6 DEF Right
      <4>7. ASSUME NEW f \in Callers, InDoc(f, d)'
            PROVE  Right(call[f])'
        <5>1. PICK l : l = call'[f]
          OBVIOUS
        <5>2. l.doc = d /\ l.op = "post" /\ Right(l)
          BY <2>3, <3>3, <4>7, <5>1 DEF Fine, InDoc
        <5>3. Right(l)'
          BY <4>6, <5>2
        <5> QED
          BY <5>1, <5>3
      <4> QED
        BY <3>1, <3>4, <4>1, <4>3, <4>5, <4>7 DEF Fine
    <3> QED
      BY <1>1, <3>5, <3>6
  <2> QED
    BY <2>4, <2>5
<1> QED
  BY <1>2, <1>3

LEMMA FineEnvironment ==
  ASSUME IInv, IInv', FineInv, Environment
  PROVE  FineInv'
<1> SUFFICES ASSUME NEW d \in Counts \ disturbed' PROVE Fine(d)'
  BY DEF FineInv
<1>1. CASE OtherCount
  <2>1. Fine(d) /\ UNCHANGED <<stockVars, status, lines, system, counted, delta, call,
                               moved>>
    BY <1>1 DEF OtherCount, FineInv
  <2> QED
    BY <2>1, FineKept DEF stockVars
<1>2. ASSUME NEW q \in Places, NEW qty \in {-1, 0, 1}, NEW rsv \in Int,
             OtherMovement(q, qty, rsv)
      PROVE  Fine(d)'
  <2>1. /\ onHand' = [onHand EXCEPT ![q] = @ + qty]
        /\ shelf' = [shelf EXCEPT ![q] = @ + qty]
        /\ UNCHANGED <<keys, posted, status, lines, system, counted, delta, call,
                       disturbed>>
    BY <1>2 DEF OtherMovement, docVars
  <2>2. Fine(d)
    BY <2>1 DEF FineInv
  <2>3. /\ onHand'[q] = onHand[q] + qty /\ shelf'[q] = shelf[q] + qty
        /\ \A p \in Places \ {q} : onHand'[p] = onHand[p] /\ shelf'[p] = shelf[p]
    BY <2>1 DEF IInv, TypeOK
  <2>4. CASE qty = 0
    <3>1. onHand[q] \in Nat /\ shelf[q] \in Nat
      BY DEF IInv, TypeOK
    <3>2. \A p \in Places : onHand'[p] = onHand[p] /\ shelf'[p] = shelf[p]
      BY <2>3, <2>4, <3>1
    <3>3. moved'[d] = moved[d]
      BY <1>2, <2>4 DEF OtherMovement
    <3> QED
      BY <2>1, <2>2, <3>2, <3>3, FineKept
  <2>5. CASE qty # 0
    <3>1. moved'[d] = IF status[d] # "POSTED" /\ Known(d) THEN moved[d] \cup {q}
                                                         ELSE moved[d]
      BY <1>2, <2>1, <2>5 DEF OtherMovement, NoteMoved
    <3>2. moved[d] \subseteq moved'[d] /\ qty \in Int
      BY <3>1
    <3>3. ASSUME NEW p \in Places
          PROVE  \/ p \in moved'[d]
                 \/ onHand'[p] = onHand[p] /\ shelf'[p] = shelf[p]
                 \/ ~Known(d)
                 \/ status[d] = "POSTED"
                    /\ \E n \in Int :
                         onHand'[p] = onHand[p] + n /\ shelf'[p] = shelf[p] + n
      <4>1. CASE p = q
        BY <2>3, <3>1, <3>2, <4>1
      <4>2. CASE p # q
        BY <2>3, <4>2
      <4> QED
        BY <4>1, <4>2
    <3> QED
      BY <2>1, <2>2, <3>2, <3>3, FineKept
  <2> QED
    BY <2>4, <2>5
<1> QED
  BY <1>1, <1>2 DEF Environment

LEMMA FineNext == IInv /\ IInv' /\ FineInv /\ [Next]_vars => FineInv'
<1> SUFFICES ASSUME IInv, IInv', FineInv, [Next]_vars PROVE FineInv'
  OBVIOUS
<1>1. ASSUME NEW e \in Adjustments, NEW change \in Deltas,
             CreateAdjustment(e, change)
      PROVE  FineInv'
  <2> SUFFICES ASSUME NEW d \in Counts \ disturbed' PROVE Fine(d)'
    BY DEF FineInv
  <2>1. d # e /\ d \in Docs /\ e \in Docs
    BY CountAssumption DEF Docs
  <2>2. /\ status'[d] = status[d] /\ lines'[d] = lines[d] /\ delta'[d] = delta[d]
        /\ UNCHANGED <<stockVars, system, counted, call, moved, disturbed>>
    BY <1>1, <2>1 DEF CreateAdjustment, IInv, TypeOK
  <2>3. Fine(d)
    BY <2>2 DEF FineInv
  <2> QED
    BY <2>2, <2>3, FineKept DEF stockVars
<1>2. ASSUME NEW c \in Callers, Stop(c) PROVE FineInv'
  BY <1>2, FineStop DEF Stop
<1>3. CASE UNCHANGED vars
  BY <1>3 DEF vars, FineInv, Fine, Solo, InDoc, BooksFine, LineFine, Right
<1> QED
  BY <1>1, <1>2, <1>3, FineRequest, FineInsert, FineSave, FinePost, FineStatus,
     FineEnvironment DEF Next, Continue

(* A POSTED count has made its balances say what is on the shelf, for the  *)
(* lines nobody else moved since the snapshot and when no two requests     *)
(* were in the count but to post it, whatever was wrong before, however    *)
(* often it was posted and wherever a posting stopped (postCycleCount).    *)
THEOREM CountCountCorrectsStock == Spec => []CountCorrectsStock
<1>1. FineInv => CountCorrectsStock
  BY DEF FineInv, Fine, LineFine, CountCorrectsStock
<1> QED
  BY <1>1, CountInvariant, FineInit, FineNext, PTL DEF Spec
=============================================================================
