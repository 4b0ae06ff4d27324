------------------------- MODULE MaterialDocuments -------------------------
(***************************************************************************)
(* Material issues and material returns, and how they move stock.          *)
(*                                                                         *)
(* Posting a document is one transaction: the document is locked with      *)
(* SELECT FOR UPDATE; a return that names an issue also takes the advisory *)
(* lock of that issue and locks the issue; then each line is posted to the *)
(* ledger, which locks its balance row; then the document becomes POSTED.  *)
(* Cancelling reads the document without a lock and later updates it by id *)
(* whatever it then is.                                                    *)
(***************************************************************************)
EXTENDS AtomicDocuments, SequencesExt

CONSTANTS
  Clients  \* requests that run at the same time

VARIABLES
  pc,    \* the statement each request runs next
  doc,   \* the document it works on
  todo,  \* the lines its transaction has still to post
  read   \* the amounts it read in the balance rows it locked

txVars == <<pc, doc, todo, read>>
vars == <<status, lines, issueOf, stock, received, ledger, pc, doc, todo, read>>

NoDoc == "none"

Init ==
  /\ TablesInit
  /\ pc = [c \in Clients |-> "idle"]
  /\ doc = [c \in Clients |-> NoDoc]
  /\ todo = [c \in Clients |-> <<>>]
  /\ read = [c \in Clients |-> NoLines]

-----------------------------------------------------------------------------
(* Mistake for a mutant: the issue a return names is read, not locked.     *)
OwnDocLock(c) ==
  IF pc[c] \in {"advisory", "issue", "line", "commit"} THEN {doc[c]} ELSE {}

(* Locks.  They are held from the statement that takes them to the end of  *)
(* the transaction.                                                        *)
DocLocks(c) ==
  CASE pc[c] \in {"advisory", "issue"} -> {doc[c]}
    [] pc[c] \in {"line", "commit"} -> {doc[c], issueOf[doc[c]]} \ {NoIssue}
    [] OTHER -> {}

AdvisoryLocks(c) ==
  IF pc[c] \in {"issue", "line", "commit"} THEN {issueOf[doc[c]]} \ {NoIssue}
                                           ELSE {}

(* Mistake for a mutant: balance rows are read without FOR UPDATE.         *)
NoItemLocks(c) == {}

ItemLocks(c) ==
  IF pc[c] \in {"line", "commit"} THEN LinesOf(doc[c]) \ ToSet(todo[c]) ELSE {}

(* Who holds what a request is waiting for.                                *)
Blockers(c) ==
  {e \in Clients \ {c} :
     \/ pc[c] \in {"lock", "cancel"} /\ doc[c] \in DocLocks(e)
     \/ pc[c] = "advisory" /\ issueOf[doc[c]] \in AdvisoryLocks(e)
     \/ pc[c] = "issue" /\ issueOf[doc[c]] \in DocLocks(e)
     \/ pc[c] = "line" /\ Head(todo[c]) \in ItemLocks(e)}

-----------------------------------------------------------------------------
GoTo(c, step) == pc' = [pc EXCEPT ![c] = step]

End(c) ==
  /\ GoTo(c, "idle")
  /\ doc' = [doc EXCEPT ![c] = NoDoc]
  /\ todo' = [todo EXCEPT ![c] = <<>>]
  /\ read' = [read EXCEPT ![c] = NoLines]

(* postMaterialIssue or postMaterialReturn: BEGIN.                         *)
BeginPost(c, d) ==
  /\ pc[c] = "idle"
  /\ status[d] # "ABSENT"
  /\ GoTo(c, "lock")
  /\ doc' = [doc EXCEPT ![c] = d]
  /\ UNCHANGED <<docVars, stockVars, todo, read>>

(* lockMaterialIssueById or lockMaterialReturnById.  The lines come in the *)
(* order of created_at, which is the same for all of a document: any order.*)
LockDoc(c) ==
  LET d == doc[c]
  IN  /\ pc[c] = "lock"
      /\ Blockers(c) = {}
      /\ \/ /\ status[d] = "DRAFT"
            /\ \E order \in SetToSeqs(LinesOf(d)) :
                 todo' = [todo EXCEPT ![c] = order]
            /\ GoTo(c, IF issueOf[d] = NoIssue THEN "line" ELSE "advisory")
            /\ UNCHANGED <<doc, read>>
         \/ /\ status[d] # "DRAFT"
            /\ End(c)
      /\ UNCHANGED <<docVars, stockVars>>

(* acquireLock('inventory-material-return:' + materialIssueId)             *)
LockReturnsOfIssue(c) ==
  /\ pc[c] = "advisory"
  /\ Blockers(c) = {}
  /\ GoTo(c, "issue")
  /\ UNCHANGED <<docVars, stockVars, doc, todo, read>>

(* Mistake for a mutant: the quantities were checked at creation.          *)
LockIssueUnchecked(c) ==
  /\ pc[c] = "issue"
  /\ Blockers(c) = {}
  /\ GoTo(c, "line")
  /\ UNCHANGED <<docVars, stockVars, doc, todo, read>>

(* lockMaterialIssueById of the issue a return names, and the checks.      *)
LockIssue(c) ==
  /\ pc[c] = "issue"
  /\ Blockers(c) = {}
  /\ \/ /\ MayReturn(issueOf[doc[c]], lines[doc[c]])
        /\ GoTo(c, "line")
        /\ UNCHANGED <<doc, todo, read>>
     \/ /\ ~MayReturn(issueOf[doc[c]], lines[doc[c]])
        /\ End(c)
  /\ UNCHANGED <<docVars, stockVars>>

(* postMovement of one line: ISSUE takes the quantity, RECEIPT brings it.  *)
(* The balance row is locked; the amount becomes visible at COMMIT.  A     *)
(* refusal rolls everything back.  The key of a line of a DRAFT is never   *)
(* in the ledger (StatusTellsStock), so no line is a replay.               *)
PostLine(c) ==
  LET i == Head(todo[c])
  IN  /\ pc[c] = "line"
      /\ Blockers(c) = {}
      /\ \/ /\ Movable(doc[c], i)
            /\ todo' = [todo EXCEPT ![c] = Tail(@)]
            /\ read' = [read EXCEPT ![c][i] = stock[i]]
            /\ GoTo(c, IF Len(todo[c]) = 1 THEN "commit" ELSE "line")
            /\ UNCHANGED doc
         \/ /\ ~Movable(doc[c], i)
            /\ End(c)
      /\ UNCHANGED <<docVars, stockVars>>

(* The balances a transaction writes, from the amounts it read.            *)
Written(c) ==
  [i \in Items |-> IF i \in LinesOf(doc[c]) THEN read[c][i] + Moved(doc[c], i)
                                            ELSE stock[i]]

(* Mistake for a mutant: the status is written after the COMMIT, by a      *)
(* statement of its own that may never run.                                *)
CommitWithoutStatus(c) ==
  LET d == doc[c]
  IN  /\ pc[c] = "commit"
      /\ stock' = Written(c)
      /\ ledger' = ledger \cup {<<d, i>> : i \in LinesOf(d)}
      /\ End(c)
      /\ UNCHANGED <<status, lines, issueOf, received>>

(* updateMaterialIssueStatus or updateMaterialReturnStatus, then COMMIT.   *)
Commit(c) ==
  LET d == doc[c]
  IN  /\ pc[c] = "commit"
      /\ stock' = Written(c)
      /\ ledger' = ledger \cup {<<d, i>> : i \in LinesOf(d)}
      /\ status' = [status EXCEPT ![d] = "POSTED"]
      /\ End(c)
      /\ UNCHANGED <<lines, issueOf, received>>

(* The process dies or a statement fails: ROLLBACK.                        *)
Crash(c) ==
  /\ pc[c] # "idle"
  /\ End(c)
  /\ UNCHANGED <<docVars, stockVars>>

(* cancelMaterialIssue or cancelMaterialReturn: the look at the status.    *)
BeginCancel(c, d) ==
  /\ pc[c] = "idle"
  /\ status[d] = "DRAFT"
  /\ GoTo(c, "cancel")
  /\ doc' = [doc EXCEPT ![c] = d]
  /\ UNCHANGED <<docVars, stockVars, todo, read>>

(* UPDATE ... WHERE id = $1, once nobody holds the row.                    *)
Cancel(c) ==
  /\ pc[c] = "cancel"
  /\ Blockers(c) = {}
  /\ status' = [status EXCEPT ![doc[c]] = "CANCELLED"]
  /\ End(c)
  /\ UNCHANGED <<lines, issueOf, stockVars>>

(* Another operation's posting, which waits for the rows as this one does. *)
Receive(i) ==
  /\ \A c \in Clients : i \notin ItemLocks(c)
  /\ Bring(i)
  /\ UNCHANGED txVars

(* Mistake for a mutant: deadlocks are not detected.                       *)
NeverDeadlocked(c) == FALSE

(* A request that waits for one that, in the end, waits for it.            *)
Deadlocked(c) ==
  \E group \in SUBSET Clients :
    /\ c \in group
    /\ \A e \in group : Blockers(e) \cap group # {}

(* PostgreSQL's deadlock detector aborts one of them.                      *)
AbortDeadlock(c) ==
  /\ Deadlocked(c)
  /\ End(c)
  /\ UNCHANGED <<docVars, stockVars>>

-----------------------------------------------------------------------------
Advance(c) ==
  \/ LockDoc(c)
  \/ LockReturnsOfIssue(c)
  \/ LockIssue(c)
  \/ PostLine(c)
  \/ Commit(c)
  \/ Cancel(c)

Environment ==
  \/ Creating /\ UNCHANGED txVars
  \/ \E i \in Items : Receive(i)
  \/ \E c \in Clients : Crash(c)

Next ==
  \/ \E c \in Clients, d \in Docs : BeginPost(c, d) \/ BeginCancel(c, d)
  \/ \E c \in Clients : Advance(c) \/ AbortDeadlock(c)
  \/ Environment

Spec == Init /\ [][Next]_vars

(* The database runs what it was given, grants locks in turn and detects   *)
(* deadlocks.                                                              *)
FairSpec ==
  Spec /\ \A c \in Clients : SF_vars(Advance(c)) /\ WF_vars(AbortDeadlock(c))

-----------------------------------------------------------------------------
TypeOK ==
  /\ status \in [Docs -> Statuses]
  /\ lines \in [Docs -> [Items -> Nat]]
  /\ issueOf \in [Docs -> Issues \cup {NoIssue}]
  /\ stock \in [Items -> Nat]
  /\ received \in [Items -> 0 .. MaxReceived]
  /\ ledger \in SUBSET (Docs \X Items)
  /\ pc \in [Clients -> {"idle", "lock", "advisory", "issue", "line", "commit",
                         "cancel"}]
  /\ doc \in [Clients -> Docs \cup {NoDoc}]
  /\ todo \in [Clients -> Seq(Items)]
  /\ read \in [Clients -> [Items -> Nat]]

InLedger(d) == {i \in Items : <<d, i>> \in ledger}

(* The status of a document tells what it did to the stock: a POSTED one   *)
(* moved every line, a DRAFT moved none, a CANCELLED one all or none (one  *)
(* transaction from the lock of the document to its status).               *)
StatusTellsStock ==
  \A d \in Docs :
    /\ status[d] = "POSTED" => InLedger(d) = LinesOf(d)
    /\ status[d] \in {"ABSENT", "DRAFT"} => InLedger(d) = {}
    /\ InLedger(d) \in {{}, LinesOf(d)}

MovedBy(ds, i) ==
  MapThenSumSet(LAMBDA d : lines[d][i], {d \in ds : <<d, i>> \in ledger})

(* Every balance is what was received, less what issues took, plus what    *)
(* returns brought back: no posting is lost to another on the same row.    *)
StockExplained ==
  \A i \in Items :
    stock[i] = received[i] - MovedBy(Issues, i) + MovedBy(Returns, i)

(* What the POSTED returns of an issue brought back, of any item, is no    *)
(* more than the issue took, and only once it did (the recheck of          *)
(* postMaterialReturn under the advisory lock of the issue).               *)
ReturnedWithinIssued ==
  \A x \in Issues, i \in Items :
    LET back == MovedBy({d \in Returns : issueOf[d] = x /\ status[d] = "POSTED"}, i)
    IN  /\ back <= lines[x][i]
        /\ back > 0 => <<x, i>> \in ledger

(* A posting or cancellation that has begun comes to an end, also when two *)
(* documents lock the same balance rows in opposite orders.                *)
RequestsEnd == \A c \in Clients : pc[c] # "idle" ~> pc[c] = "idle"
=============================================================================
