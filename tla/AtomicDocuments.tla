-------------------------- MODULE AtomicDocuments --------------------------
(***************************************************************************)
(* What material issues and returns promise: posting a document, all its   *)
(* lines together, is one step between the committed tables and the next.  *)
(* MaterialDocuments, in which concurrent transactions do it statement by  *)
(* statement, has the same tables and implements it.                       *)
(*                                                                         *)
(* A line is an item with its bin and batch, which is one balance row; a   *)
(* document has at most one line for each.  What other operations do to    *)
(* stock is one action, Receive.                                           *)
(***************************************************************************)
EXTENDS Integers, FiniteSetsExt

CONSTANTS
  Issues,      \* ids of material issues
  Returns,     \* ids of material returns
  NoIssue,     \* "materialIssueId was not given"
  Items,       \* the balance rows lines refer to
  Forms,       \* the lines documents are created with: for each item a
               \* quantity, 0 for no line
  MaxReceived  \* bound on what is received of each item

ASSUME DocumentAssumption ==
  /\ Issues \cap Returns = {}
  /\ NoIssue \notin Issues \cup Returns
  /\ Forms \subseteq [Items -> Nat]
  /\ \A ls \in Forms : IsFiniteSet({i \in Items : ls[i] > 0})
  /\ MaxReceived \in Nat

Docs == Issues \cup Returns

Statuses == {"ABSENT", "DRAFT", "POSTED", "CANCELLED"}

VARIABLES
  status,    \* of each document
  lines,     \* quantity of each line of a document; 0 where it has none
  issueOf,   \* the issue a return names
  stock,     \* the balance rows
  received,  \* what other operations put there
  ledger     \* the lines that are in the ledger

docVars == <<status, lines, issueOf>>
stockVars == <<stock, received, ledger>>
tableVars == <<docVars, stockVars>>

NoLines == [i \in Items |-> 0]

TablesInit ==
  /\ status = [d \in Docs |-> "ABSENT"]
  /\ lines = [d \in Docs |-> NoLines]
  /\ issueOf = [d \in Docs |-> NoIssue]
  /\ stock = NoLines
  /\ received = NoLines
  /\ ledger = {}

LinesOf(d) == {i \in Items : lines[d][i] > 0}

(* What the POSTED returns of an issue returned of an item                 *)
(* (getPostedMaterialReturnQuantity).                                      *)
AlreadyReturned(x, i) ==
  MapThenSumSet(LAMBDA d : lines[d][i],
                {d \in Returns : issueOf[d] = x /\ status[d] = "POSTED"})

(* A return of these lines may refer to issue x: x is POSTED, has the      *)
(* lines, and what is left of them is enough.                              *)
MayReturn(x, ls) ==
  /\ status[x] = "POSTED"
  /\ \A i \in Items : ls[i] > 0 => AlreadyReturned(x, i) + ls[i] <= lines[x][i]

-----------------------------------------------------------------------------
(* The INSERT of a document and its lines, in one transaction.             *)
Insert(d, ls, x) ==
  /\ status' = [status EXCEPT ![d] = "DRAFT"]
  /\ lines' = [lines EXCEPT ![d] = ls]
  /\ issueOf' = [issueOf EXCEPT ![d] = x]
  /\ UNCHANGED stockVars

CreateIssue(d, ls) ==
  /\ status[d] = "ABSENT"
  /\ ls # NoLines
  /\ Insert(d, ls, NoIssue)

(* What a return is checked against is read before the INSERT; nobody can  *)
(* act on the document in between, since its id is not known yet.          *)
CreateReturn(d, ls, x) ==
  /\ status[d] = "ABSENT"
  /\ ls # NoLines
  /\ x # NoIssue => MayReturn(x, ls)
  /\ Insert(d, ls, x)

Creating ==
  \/ \E d \in Issues, ls \in Forms : CreateIssue(d, ls)
  \/ \E d \in Returns, ls \in Forms, x \in Issues \cup {NoIssue} :
       CreateReturn(d, ls, x)

(* Another operation's posting.                                            *)
Bring(i) ==
  /\ received[i] < MaxReceived
  /\ stock' = [stock EXCEPT ![i] = @ + 1]
  /\ received' = [received EXCEPT ![i] = @ + 1]
  /\ UNCHANGED <<docVars, ledger>>

(* Mistake for a mutant: stock is not looked at when it is issued.         *)
MovableUnlimited(d, i) == TRUE

(* postMovement refuses to take more than there is.                        *)
Movable(d, i) == d \in Issues => lines[d][i] <= stock[i]

Moved(d, i) == IF d \in Issues THEN -lines[d][i] ELSE lines[d][i]

(* postMaterialIssue or postMaterialReturn: a DRAFT, allowed by the issue  *)
(* it names and by the balances as they are, moves each of its lines once. *)
Post(d) ==
  /\ status[d] = "DRAFT"
  /\ issueOf[d] # NoIssue => MayReturn(issueOf[d], lines[d])
  /\ \A i \in LinesOf(d) : Movable(d, i)
  /\ status' = [status EXCEPT ![d] = "POSTED"]
  /\ stock' = [i \in Items |-> IF i \in LinesOf(d) THEN stock[i] + Moved(d, i)
                                                   ELSE stock[i]]
  /\ ledger' = ledger \cup {<<d, i>> : i \in LinesOf(d)}
  /\ UNCHANGED <<lines, issueOf, received>>

(* The UPDATE of cancelMaterialIssue or cancelMaterialReturn, whatever     *)
(* became of the document since it was looked at.                          *)
Withdraw(d) ==
  /\ status[d] # "ABSENT"
  /\ status' = [status EXCEPT ![d] = "CANCELLED"]
  /\ UNCHANGED <<lines, issueOf, stockVars>>

TablesNext ==
  \/ Creating
  \/ \E i \in Items : Bring(i)
  \/ \E d \in Docs : Post(d) \/ Withdraw(d)

(* The committed tables behave as if each posting were one step, allowed   *)
(* by the documents and balances it found, whatever runs beside it.        *)
PostsAtOnce == TablesInit /\ [][TablesNext]_tableVars
=============================================================================
