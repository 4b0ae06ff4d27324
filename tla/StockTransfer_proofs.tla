------------------------ MODULE StockTransfer_proofs ------------------------
(***************************************************************************)
(* Proofs about StockTransfer, for any number of requests and with a crash *)
(* anywhere: its type invariant, with the CHECK on the lines; that lines   *)
(* and status never claim more than the ledger moved; that retries post    *)
(* once; and, until requests overlap or one stops half way, that nothing   *)
(* arrives that did not leave and that lines and ledger agree.             *)
(*                                                                         *)
(* None of this is inductive: a line and a status are written from what a  *)
(* request read or decided long before.  Own says what each request may    *)
(* rely on at each step; it only speaks of totals that the ledger has      *)
(* reached, and those never fall (Grows), so that no other request can     *)
(* take it away.                                                           *)
(***************************************************************************)
EXTENDS StockTransfer, TLAPS

(* What must be so for a status to be written.                             *)
Earned(s) ==
  /\ s = "RECEIVED" =>
       \A l \in Lines : posted["receive"][l] >= line[l].quantity
  /\ s = "DISPATCHED" => \E l \in Lines : posted["dispatch"][l] > 0

(* A line still to be worked off was read with its quantity, and the       *)
(* ledger has reached what it said.                                        *)
Read(c, l) ==
  /\ seen[c][l].quantity = line[l].quantity
  /\ seen[c][l].dispatched <= posted["dispatch"][l]
  /\ seen[c][l].received <= posted["receive"][l]

(* Something has left, or the request is about to send something.          *)
Something(c) ==
  \/ op[c] = "dispatch" /\ \E l \in Lines : todo[c][l] > 0
  \/ \E l \in Lines : posted["dispatch"][l] > 0

(* The line that was posted and is to be written.                          *)
Posted(c, l) ==
  /\ todo[c][l] > Done(seen[c][l], op[c])
  /\ todo[c][l] <= Limit(seen[c][l], op[c])
  /\ todo[c][l] <= posted[op[c]][l]

Own(c) ==
  /\ pc[c] # "idle" => status # "ABSENT"
  /\ pc[c] \in {"readLines", "loop", "save"} => op[c] \in Ops /\ Something(c)
  /\ pc[c] \in {"loop", "save"} =>
       \A l \in Lines : todo[c][l] > 0 => Read(c, l)
  /\ pc[c] = "save" => at[c] \in Lines /\ Posted(c, at[c])
  /\ pc[c] = "status" => next[c] \in Statuses \ {"ABSENT"} /\ Earned(next[c])

(* A replayed movement stands for at least its target.                     *)
KeysInv == \A k \in keys : k[3] <= posted[k[1]][k[2]]

IInv ==
  /\ TypeOK
  /\ LinesWerePosted
  /\ StatusWasEarned
  /\ KeysInv
  /\ \A c \in Callers : Own(c)

(* The totals of the ledger never fall, and the quantity of a line never   *)
(* changes once the transfer is there.                                     *)
Grows ==
  /\ \A o \in Ops, l \in Lines : posted[o][l] <= posted'[o][l]
  /\ status # "ABSENT" =>
       status' # "ABSENT" /\ \A l \in Lines : line'[l].quantity = line[l].quantity

(* No other request moves.                                                 *)
OthersKept(c) ==
  \A e \in Callers \ {c} :
    /\ pc'[e] = pc[e] /\ op'[e] = op[e] /\ todo'[e] = todo[e]
    /\ seen'[e] = seen[e] /\ at'[e] = at[e] /\ next'[e] = next[e]

-----------------------------------------------------------------------------
LEMMA TotalsAreNat ==
  ASSUME TypeOK
  PROVE  \A l \in Lines :
           /\ posted["dispatch"][l] \in Nat /\ posted["receive"][l] \in Nat
           /\ line[l].quantity \in Nat /\ line[l].dispatched \in Nat
           /\ line[l].received \in Nat
BY DEF TypeOK, Ops, LineRows

LEMMA SeenAreNat ==
  ASSUME TypeOK, NEW c \in Callers, NEW l \in Lines
  PROVE  /\ seen[c][l] \in LineRows /\ todo[c][l] \in Nat
         /\ seen[c][l].quantity \in Nat /\ seen[c][l].dispatched \in Nat
         /\ seen[c][l].received \in Nat
BY DEF TypeOK, Targets, LineRows

LEMMA EarnedStays ==
  ASSUME TypeOK, TypeOK', Grows, status # "ABSENT", NEW s, Earned(s)
  PROVE  Earned(s)'
BY TotalsAreNat DEF Earned, Grows, TypeOK, Ops, LineRows

(* What a request relies on stays so while others move.                    *)
LEMMA OwnStays ==
  ASSUME IInv, TypeOK', Grows, NEW c \in Callers, OthersKept(c),
         NEW e \in Callers \ {c}
  PROVE  Own(e)'
<1>1. /\ pc'[e] = pc[e] /\ op'[e] = op[e] /\ todo'[e] = todo[e]
      /\ seen'[e] = seen[e] /\ at'[e] = at[e] /\ next'[e] = next[e]
      /\ Own(e)
  BY DEF OthersKept, IInv
<1>2. \A l \in Lines :
        /\ posted["dispatch"][l] \in Nat /\ posted["receive"][l] \in Nat
        /\ posted'["dispatch"][l] \in Nat /\ posted'["receive"][l] \in Nat
        /\ posted["dispatch"][l] <= posted'["dispatch"][l]
        /\ posted["receive"][l] <= posted'["receive"][l]
  BY DEF IInv, TypeOK, Grows, Ops
<1>3. pc[e] # "idle" => status # "ABSENT" /\ status' # "ABSENT"
                        /\ \A l \in Lines : line'[l].quantity = line[l].quantity
  BY <1>1 DEF Own, Grows
<1>4. pc[e] \in {"readLines", "loop", "save"} => op[e] \in Ops /\ Something(e)'
  BY <1>1, <1>2 DEF Own, Something
<1>5. ASSUME NEW l \in Lines, pc[e] \in {"loop", "save"}, todo[e][l] > 0
      PROVE  Read(e, l)'
  <2>1. Read(e, l)
    BY <1>1, <1>5 DEF Own
  <2>2. seen[e][l].dispatched \in Nat /\ seen[e][l].received \in Nat
    BY SeenAreNat DEF IInv
  <2> QED
    BY <1>1, <1>2, <1>3, <1>5, <2>1, <2>2 DEF Read
<1>6. ASSUME pc[e] = "save"
      PROVE  at[e] \in Lines /\ Posted(e, at[e])'
  <2>1. PICK l \in Lines : l = at[e] /\ Posted(e, l) /\ op[e] \in Ops
    BY <1>1, <1>6 DEF Own
  <2>2. todo[e][l] \in Nat
    BY SeenAreNat DEF IInv
  <2>3. Posted(e, l)'
    BY <1>1, <1>2, <2>1, <2>2 DEF Posted, Ops
  <2> QED
    BY <1>1, <2>1, <2>3
<1>7. pc[e] = "status" => next[e] \in Statuses \ {"ABSENT"} /\ Earned(next[e])'
  <2>1. ASSUME pc[e] = "status" PROVE Earned(next[e])'
    <3>1. PICK s : s = next[e] /\ Earned(s)
      BY <1>1, <2>1 DEF Own
    <3>2. Earned(s)'
      BY <1>3, <2>1, <3>1, EarnedStays DEF IInv
    <3> QED
      BY <1>1, <3>1, <3>2
  <2> QED
    BY <1>1, <2>1 DEF Own
<1> QED
  BY <1>1, <1>3, <1>4, <1>5, <1>6, <1>7 DEF Own

(* A step of request c keeps the invariant when it keeps the types, its    *)
(* own part, and what it writes.                                           *)
LEMMA StepKeeps ==
  ASSUME IInv, NEW c \in Callers, OthersKept(c), TypeOK', Grows, Own(c)',
         line' = line \/ LinesWerePosted',
         (status' = status /\ status # "ABSENT") \/ StatusWasEarned',
         keys' = keys \/ KeysInv'
  PROVE  IInv'
<1>1. \A o \in Ops, l \in Lines :
        /\ posted[o][l] \in Nat /\ posted'[o][l] \in Nat
        /\ posted[o][l] <= posted'[o][l]
  BY DEF IInv, TypeOK, Grows
<1>2. LinesWerePosted'
  <2>1. CASE line' = line
    BY <1>1, <2>1, TotalsAreNat DEF IInv, LinesWerePosted, Ops
  <2> QED
    BY <2>1
<1>3. StatusWasEarned'
  <2>1. CASE status' = status /\ status # "ABSENT"
    BY <2>1, EarnedStays DEF IInv, StatusWasEarned, Earned
  <2> QED
    BY <2>1
<1>4. KeysInv'
  <2>1. CASE keys' = keys
    <3>1. \A k \in keys : k[1] \in Ops /\ k[2] \in Lines /\ k[3] \in Nat
      BY DEF IInv, TypeOK, Keys
    <3> QED
      BY <1>1, <2>1, <3>1 DEF IInv, KeysInv
  <2> QED
    BY <2>1
<1>5. \A e \in Callers : Own(e)'
  BY OwnStays
<1> QED
  BY <1>2, <1>3, <1>4, <1>5 DEF IInv

(* A step that writes no table.                                            *)
LEMMA QuietKeeps ==
  ASSUME IInv, NEW c \in Callers, OthersKept(c), TypeOK', UNCHANGED tables,
         status # "ABSENT", Own(c)'
  PROVE  IInv'
<1>1. Grows
  BY DEF Grows, tables, IInv, TypeOK
<1>2. UNCHANGED <<line, status, keys>>
  BY DEF tables
<1> QED
  BY <1>1, <1>2, StepKeeps

(* The request is over.                                                    *)
LEMMA EndLocals ==
  ASSUME IInv, NEW c \in Callers, End(c)
  PROVE  /\ OthersKept(c) /\ pc'[c] = "idle"
         /\ pc' \in [Callers -> Steps]
         /\ op' \in [Callers -> Ops \cup {"none"}]
         /\ todo' \in [Callers -> Targets]
         /\ seen' \in [Callers -> [Lines -> LineRows]]
         /\ at' \in [Callers -> Lines \cup {NoLine}]
         /\ next' \in [Callers -> Statuses \cup {"none"}]
<1>1. NoTargets \in Targets /\ NothingSeen \in [Lines -> LineRows]
  BY DEF NoTargets, Targets, NothingSeen, NewLine, LineRows
<1> QED
  BY <1>1 DEF IInv, TypeOK, End, OthersKept, Steps

LEMMA EndKeeps ==
  ASSUME IInv, NEW c \in Callers, pc[c] # "idle", End(c), UNCHANGED tables,
         disturbed' \in BOOLEAN
  PROVE  IInv'
<1>1. OthersKept(c) /\ pc'[c] = "idle"
  BY EndLocals
<1>2. TypeOK'
  BY EndLocals DEF IInv, TypeOK, tables
<1>3. Own(c)'
  BY <1>1 DEF Own
<1>4. status # "ABSENT"
  BY DEF IInv, Own
<1> QED
  BY <1>1, <1>2, <1>3, <1>4, QuietKeeps

LEMMA CreateKeeps ==
  ASSUME IInv, NEW quantity \in Orders, Create(quantity)
  PROVE  IInv'
<1>1. \A l \in Lines : quantity[l] \in Nat
  BY TransferAssumption DEF TransferAssumption
<1>2. \A c \in Callers : pc[c] = "idle"
  BY DEF Create, IInv, Own
<1>3. \A c \in Callers : Own(c)'
  BY <1>2 DEF Create, Own
<1>4. line' = [l \in Lines |-> NewLine(quantity[l])] /\ status' = "DRAFT"
      /\ UNCHANGED <<ledgerVars, pc, op, todo, seen, at, next, disturbed>>
  BY DEF Create
<1>5. \A l \in Lines : /\ line'[l] = NewLine(quantity[l])
                       /\ NewLine(quantity[l]) \in LineRows
  BY <1>1, <1>4 DEF NewLine, LineRows
<1>6. line' \in [Lines -> LineRows]
  BY <1>4, <1>5
<1>7. TypeOK'
  BY <1>4, <1>6 DEF IInv, TypeOK, ledgerVars, Statuses
<1>8. LinesWerePosted'
  BY <1>4, <1>5, TotalsAreNat DEF IInv, LinesWerePosted, NewLine, ledgerVars
<1>9. StatusWasEarned' /\ KeysInv'
  BY <1>4 DEF IInv, StatusWasEarned, KeysInv, ledgerVars
<1> QED
  BY <1>3, <1>7, <1>8, <1>9 DEF IInv

LEMMA BeginKeeps ==
  ASSUME IInv, NEW c \in Callers, NEW o \in Ops, NEW targets \in Requests,
         Begin(c, o, targets)
  PROVE  IInv'
<1>1. targets \in Targets
  BY TransferAssumption DEF TransferAssumption
<1>2. /\ pc'[c] = "readLines" /\ op'[c] = o /\ todo'[c] = targets
      /\ OthersKept(c) /\ UNCHANGED tables
  BY DEF Begin, IInv, TypeOK, OthersKept
<1>3. TypeOK'
  BY <1>1 DEF Begin, NoteOverlap, IInv, TypeOK, tables, Steps
<1>4. status \in {"DRAFT", "DISPATCHED"} /\ (o = "receive" => status = "DISPATCHED")
  BY DEF Begin, Ready
<1>5. Something(c)'
  <2>1. CASE o = "dispatch"
    <3>1. \E l \in Lines : targets[l] > 0
      <4>1. ASSUME \A l \in Lines : ~(targets[l] > 0) PROVE FALSE
        <5>1. ASSUME NEW l \in Lines PROVE targets[l] = 0
          BY <1>1, <4>1, <5>1 DEF Targets
        <5> QED
          BY <1>1, <5>1 DEF Begin, Targets, NoTargets
      <4> QED
        BY <4>1
    <3> QED
      BY <1>2, <2>1, <3>1 DEF Something
  <2>2. CASE o = "receive"
    BY <1>2, <1>4, <2>2 DEF Something, IInv, StatusWasEarned, tables
  <2> QED
    BY <2>1, <2>2 DEF Ops
<1>6. Own(c)'
  BY <1>2, <1>4, <1>5 DEF Own, tables
<1> QED
  BY <1>2, <1>3, <1>4, <1>6, QuietKeeps

LEMMA ReadLinesKeeps ==
  ASSUME IInv, NEW c \in Callers, ReadLines(c)
  PROVE  IInv'
<1>1. PICK copy : /\ copy = [l \in Lines |-> IF todo[c][l] > 0 THEN line[l]
                                                         ELSE NewLine(0)]
                  /\ seen' = [seen EXCEPT ![c] = copy]
  BY DEF ReadLines
<1>2. copy \in [Lines -> LineRows]
  BY <1>1 DEF IInv, TypeOK, NewLine, LineRows
<1>3. /\ pc[c] = "readLines" /\ pc'[c] = "loop" /\ seen'[c] = copy
      /\ op'[c] = op[c] /\ todo'[c] = todo[c]
      /\ OthersKept(c) /\ UNCHANGED tables
  BY <1>1 DEF ReadLines, IInv, TypeOK, OthersKept
<1>4. TypeOK'
  BY <1>1, <1>2 DEF ReadLines, IInv, TypeOK, tables, Steps
<1>5. Own(c) /\ status # "ABSENT"
  BY <1>3 DEF IInv, Own
<1>6. op[c] \in Ops /\ Something(c)'
  BY <1>3, <1>5 DEF Own, Something, tables
<1>7. ASSUME NEW l \in Lines, todo[c][l] > 0 PROVE Read(c, l)'
  BY <1>1, <1>3, <1>7 DEF Read, IInv, LinesWerePosted, tables
<1>8. Own(c)'
  BY <1>3, <1>5, <1>6, <1>7 DEF Own, tables
<1> QED
  BY <1>3, <1>4, <1>5, <1>8, QuietKeeps

LEMMA SkipLineKeeps ==
  ASSUME IInv, NEW c \in Callers, NEW l \in Lines, SkipLine(c, l)
  PROVE  IInv'
<1>1. /\ pc[c] = "loop" /\ pc'[c] = "loop" /\ op'[c] = op[c]
      /\ todo'[c][l] = 0
      /\ \A k \in Lines \ {l} : todo'[c][k] = todo[c][k] /\ seen'[c][k] = seen[c][k]
      /\ OthersKept(c) /\ UNCHANGED tables
  BY DEF SkipLine, Advance, IInv, TypeOK, Targets, OthersKept
<1>2. TypeOK'
  BY DEF SkipLine, Advance, NewLine, LineRows, IInv, TypeOK, Targets, tables, Steps
<1>3. /\ Own(c) /\ status # "ABSENT" /\ op[c] \in Ops /\ Something(c)
      /\ todo[c][l] > 0 /\ Read(c, l) /\ todo[c][l] = Done(seen[c][l], op[c])
  BY <1>1 DEF SkipLine, IInv, Own
<1>4. Something(c)'
  <2>1. CASE op[c] = "dispatch"
    <3>1. /\ todo[c][l] > 0 /\ todo[c][l] = seen[c][l].dispatched
          /\ seen[c][l].dispatched <= posted["dispatch"][l]
      BY <1>3, <2>1 DEF Done, Read
    <3>2. seen[c][l].dispatched \in Nat /\ posted["dispatch"][l] \in Nat
      BY SeenAreNat, TotalsAreNat DEF IInv
    <3>3. posted["dispatch"][l] > 0 /\ posted' = posted
      BY <1>1, <3>1, <3>2 DEF tables
    <3> QED
      BY <3>3 DEF Something
  <2>2. CASE op[c] # "dispatch"
    BY <1>1, <1>3, <2>2 DEF Something, tables
  <2> QED
    BY <2>1, <2>2
<1>5. ASSUME NEW k \in Lines, todo'[c][k] > 0 PROVE Read(c, k)'
  BY <1>1, <1>3, <1>5 DEF Own, Read, tables
<1>6. Own(c)'
  BY <1>1, <1>3, <1>4, <1>5 DEF Own, tables
<1> QED
  BY <1>1, <1>2, <1>3, <1>6, QuietKeeps

(* After a movement, or its replay, the ledger has reached the target.     *)
LEMMA PostLineKeeps ==
  ASSUME IInv, NEW c \in Callers, NEW l \in Lines, PostLine(c, l)
  PROVE  IInv'
<1> DEFINE target == todo[c][l]
           delta == Delta(seen[c][l], op[c], target)
           accepted == \/ Replayed(Key(op[c], l, target))
                       \/ Allowed(op[c], SourceOf[l], delta)
<1>1. CASE ~accepted
  BY <1>1, EndKeeps DEF PostLine, tables, ledgerVars, IInv, TypeOK
<1>2. CASE accepted
  <2>1. pc[c] = "loop" /\ op[c] \in Ops
    BY DEF PostLine, IInv, Own
  <2>2. PICK t \in Nat : t = todo[c][l]
    BY SeenAreNat DEF IInv
  <2>3. t > Done(seen[c][l], op[c]) /\ t <= Limit(seen[c][l], op[c])
    BY <2>2 DEF PostLine
  <2>4. PICK d \in Nat : d = t - Done(seen[c][l], op[c])
    <3>1. Done(seen[c][l], op[c]) \in Nat
      BY SeenAreNat DEF Done, IInv
    <3>2. t - Done(seen[c][l], op[c]) \in Nat
      BY <2>3, <3>1
    <3> QED
      BY <3>2
  <2>5. PICK key \in Keys : key = <<op[c], l, t>>
    BY <2>1 DEF Keys
  <2>6. /\ t = todo[c][l] /\ d = t - Done(seen[c][l], op[c])
        /\ key = <<op[c], l, t>>
        /\ t > Done(seen[c][l], op[c]) /\ t <= Limit(seen[c][l], op[c])
        /\ \/ Replayed(key) /\ UNCHANGED ledgerVars
           \/ ~Replayed(key) /\ Book(op[c], l, key, d)
              /\ Allowed(op[c], SourceOf[l], d)
    BY <1>2, <2>2, <2>3, <2>4, <2>5 DEF PostLine, Delta, Key
  <2>7. /\ pc[c] = "loop" /\ todo[c][l] > 0
        /\ pc' = [pc EXCEPT ![c] = "save"] /\ at' = [at EXCEPT ![c] = l]
        /\ UNCHANGED <<op, todo, seen, next, status, line, disturbed>>
    BY <1>2 DEF PostLine
  <2>8. /\ pc'[c] = "save" /\ at'[c] = l /\ OthersKept(c)
    BY <2>7 DEF IInv, TypeOK, OthersKept
  <2>9. Own(c) /\ status # "ABSENT" /\ op[c] \in Ops /\ Something(c) /\ Read(c, l)
    BY <2>7 DEF IInv, Own
  <2>10. PICK o \in Ops : o = op[c]
    BY <2>9
  <2>11. /\ posted[o][l] \in Nat /\ Done(seen[c][l], o) \in Nat
        /\ Done(seen[c][l], o) <= posted[o][l]
    BY <2>9, SeenAreNat, TotalsAreNat DEF Read, Done, Ops, IInv
  <2>12. /\ posted' \in [Ops -> [Lines -> Nat]]
        /\ \A q \in Ops, k \in Lines : posted[q][k] <= posted'[q][k]
        /\ t <= posted'[o][l]
    <3>1. CASE Replayed(key) /\ UNCHANGED ledgerVars
      <4>1. t <= posted[o][l] /\ posted' = posted
        BY <2>6, <2>10, <3>1 DEF Replayed, IInv, KeysInv, ledgerVars
      <4> QED
        BY <4>1 DEF IInv, TypeOK
    <3>2. CASE Book(op[c], l, key, d)
      <4>1. PICK total \in Nat : total = posted[o][l] + d
        BY <2>11
      <4>2. posted' = [posted EXCEPT ![o][l] = total]
        BY <2>10, <3>2, <4>1 DEF Book
      <4>3. posted'[o][l] = total /\ posted[o][l] <= total /\ t <= total
        BY <2>6, <2>10, <2>11, <4>1, <4>2 DEF IInv, TypeOK
      <4>4. posted' \in [Ops -> [Lines -> Nat]]
        BY <4>2 DEF IInv, TypeOK
      <4>5. ASSUME NEW q \in Ops, NEW k \in Lines
            PROVE  posted[q][k] <= posted'[q][k]
        <5>1. CASE q = o /\ k = l
          BY <4>3, <5>1
        <5>2. CASE ~(q = o /\ k = l)
          <6>1. posted'[q][k] = posted[q][k] /\ posted[q][k] \in Nat
            BY <4>2, <5>2 DEF IInv, TypeOK
          <6> QED
            BY <6>1
        <5> QED
          BY <5>1, <5>2
      <4> QED
        BY <4>3, <4>4, <4>5
    <3> QED
      BY <2>6, <3>1, <3>2
  <2>13. available' \in [Places -> Nat]
    <3>1. CASE UNCHANGED ledgerVars
      BY <3>1 DEF IInv, TypeOK, ledgerVars
    <3>2. CASE Book(op[c], l, key, d) /\ Allowed(op[c], SourceOf[l], d)
      <4>1. SourceOf[l] \in Places
        BY TransferAssumption DEF TransferAssumption
      <4>2. available[SourceOf[l]] \in Nat
        BY <4>1 DEF IInv, TypeOK
      <4>3. CASE op[c] = "dispatch"
        <5>1. PICK left \in Nat : left = available[SourceOf[l]] - d
          BY <3>2, <4>2, <4>3 DEF Allowed
        <5> QED
          BY <3>2, <4>1, <4>3, <5>1 DEF Book, IInv, TypeOK
      <4>4. CASE op[c] # "dispatch"
        BY <3>2, <4>4 DEF Book, IInv, TypeOK
      <4> QED
        BY <4>3, <4>4
    <3> QED
      BY <2>6, <3>1, <3>2
  <2>14. keys' \in SUBSET Keys /\ keys' \subseteq keys \cup {key}
    BY <2>6 DEF Book, IInv, TypeOK, ledgerVars
  <2>15. TypeOK'
    BY <2>7, <2>12, <2>13, <2>14 DEF IInv, TypeOK, Steps
  <2>16. Grows
    BY <2>7, <2>12 DEF Grows
  <2>17. KeysInv'
    <3>1. ASSUME NEW k \in keys' PROVE k[3] <= posted'[k[1]][k[2]]
      <4>1. CASE k = key
        BY <2>6, <2>10, <2>12, <4>1
      <4>2. CASE k \in keys
        <5>1. PICK q \in Ops, m \in Lines, n \in Nat : k = <<q, m, n>>
          BY <4>2 DEF IInv, TypeOK, Keys
        <5>2. n <= posted[q][m]
          BY <4>2, <5>1 DEF IInv, KeysInv
        <5>3. posted[q][m] \in Nat /\ posted'[q][m] \in Nat
              /\ posted[q][m] <= posted'[q][m]
          BY <2>12 DEF IInv, TypeOK
        <5> QED
          BY <5>1, <5>2, <5>3
      <4> QED
        BY <2>14, <4>1, <4>2
    <3> QED
      BY <3>1 DEF KeysInv
  <2>18. Own(c)'
    <3>1. \A k \in Lines :
            /\ posted["dispatch"][k] \in Nat /\ posted["receive"][k] \in Nat
            /\ posted'["dispatch"][k] \in Nat /\ posted'["receive"][k] \in Nat
            /\ posted["dispatch"][k] <= posted'["dispatch"][k]
            /\ posted["receive"][k] <= posted'["receive"][k]
      BY <2>12 DEF IInv, TypeOK, Ops
    <3>2. Something(c)'
      BY <2>7, <2>9, <3>1 DEF Something
    <3>3. ASSUME NEW k \in Lines, todo[c][k] > 0 PROVE Read(c, k)'
      <4>1. Read(c, k) /\ seen[c][k].dispatched \in Nat /\ seen[c][k].received \in Nat
        BY <2>7, <2>9, <3>3, SeenAreNat DEF Own, IInv
      <4> QED
        BY <2>7, <3>1, <4>1 DEF Read
    <3>4. Posted(c, l)'
      BY <2>6, <2>7, <2>10, <2>12 DEF Posted
    <3> QED
      BY <2>7, <2>8, <2>9, <3>2, <3>3, <3>4 DEF Own
  <2> QED
    BY <2>7, <2>8, <2>9, <2>15, <2>16, <2>17, <2>18, StepKeeps
<1> QED
  BY <1>1, <1>2

(* The line that is written is the one that was read, with the target the  *)
(* ledger has reached.                                                     *)
LEMMA SaveLineKeeps ==
  ASSUME IInv, NEW c \in Callers, SaveLine(c)
  PROVE  IInv'
<1>1. pc[c] = "save" /\ Own(c)
  BY DEF SaveLine, IInv
<1>2. PICK l \in Lines : l = at[c] /\ Posted(c, l)
  BY <1>1 DEF Own
<1>3. PICK o \in Ops : o = op[c]
  BY <1>1 DEF Own
<1>4. PICK t \in Nat : t = todo[c][l]
  BY SeenAreNat DEF IInv
<1>5. PICK item \in LineRows : item = seen[c][l]
  BY SeenAreNat DEF IInv
<1>6. /\ item.quantity \in Nat /\ item.dispatched \in Nat /\ item.received \in Nat
      /\ item.received <= item.dispatched /\ item.dispatched <= item.quantity
      /\ item = [quantity |-> item.quantity, dispatched |-> item.dispatched,
                 received |-> item.received]
  BY DEF LineRows
<1>7. t > Done(item, o) /\ t <= Limit(item, o) /\ t <= posted[o][l]
  BY <1>2, <1>3, <1>4, <1>5 DEF Posted
<1>8. t > 0
  BY <1>6, <1>7 DEF Done
<1>9. /\ item.quantity = line[l].quantity
      /\ item.dispatched <= posted["dispatch"][l]
      /\ item.received <= posted["receive"][l]
  BY <1>1, <1>4, <1>5, <1>8 DEF Own, Read
<1>10. PICK new \in LineRows :
         /\ new = Counted(item, o, t)
         /\ new.quantity = line[l].quantity
         /\ new.dispatched <= posted["dispatch"][l]
         /\ new.received <= posted["receive"][l]
  <2>1. CASE o = "dispatch"
    <3>1. Counted(item, o, t) =
            [quantity |-> item.quantity, dispatched |-> t, received |-> item.received]
      BY <1>6, <2>1 DEF Counted
    <3> QED
      BY <1>6, <1>7, <1>9, <2>1, <3>1 DEF Done, Limit, LineRows
  <2>2. CASE o = "receive"
    <3>1. Counted(item, o, t) =
            [quantity |-> item.quantity, dispatched |-> item.dispatched, received |-> t]
      BY <1>6, <2>2 DEF Counted
    <3> QED
      BY <1>6, <1>7, <1>9, <2>2, <3>1 DEF Done, Limit, LineRows
  <2> QED
    BY <2>1, <2>2 DEF Ops
<1>11. /\ line' = [line EXCEPT ![l] = new]
       /\ pc' = [pc EXCEPT ![c] = "loop"] /\ at' = [at EXCEPT ![c] = NoLine]
       /\ todo' = [todo EXCEPT ![c][l] = 0]
       /\ seen' = [seen EXCEPT ![c][l] = NewLine(0)]
       /\ UNCHANGED <<status, ledgerVars, op, next, disturbed>>
  BY <1>2, <1>3, <1>4, <1>5, <1>10 DEF SaveLine, Advance
<1>12. /\ pc'[c] = "loop" /\ OthersKept(c) /\ todo'[c][l] = 0
       /\ \A k \in Lines \ {l} : todo'[c][k] = todo[c][k] /\ seen'[c][k] = seen[c][k]
  BY <1>11 DEF IInv, TypeOK, Targets, OthersKept
<1>13. TypeOK'
  BY <1>11 DEF IInv, TypeOK, NewLine, LineRows, Targets, ledgerVars, Steps
<1>14. \A k \in Lines : line'[k].quantity = line[k].quantity
  BY <1>10, <1>11 DEF IInv, TypeOK
<1>15. Grows
  BY <1>1, <1>11, <1>14 DEF Grows, Own, ledgerVars, IInv, TypeOK
<1>16. LinesWerePosted'
  BY <1>10, <1>11 DEF IInv, TypeOK, LinesWerePosted, ledgerVars
<1>17. Something(c)'
  <2>1. CASE o = "dispatch"
    <3>1. posted["dispatch"][l] > 0
      BY <1>7, <1>8, <2>1, TotalsAreNat DEF IInv
    <3> QED
      BY <1>11, <3>1 DEF Something, ledgerVars
  <2>2. CASE o # "dispatch"
    BY <1>1, <1>3, <1>11, <2>2 DEF Own, Something, ledgerVars
  <2> QED
    BY <2>1, <2>2
<1>18. ASSUME NEW k \in Lines, todo'[c][k] > 0 PROVE Read(c, k)'
  BY <1>1, <1>11, <1>12, <1>14, <1>18 DEF Own, Read, ledgerVars
<1>19. Own(c)'
  BY <1>1, <1>11, <1>12, <1>17, <1>18 DEF Own
<1>20. status # "ABSENT" /\ status' = status /\ keys' = keys
  BY <1>1, <1>11 DEF Own, ledgerVars
<1> QED
  BY <1>12, <1>13, <1>15, <1>16, <1>19, <1>20, StepKeeps

LEMMA RefreshKeeps ==
  ASSUME IInv, NEW c \in Callers, Refresh(c)
  PROVE  IInv'
<1>1. PICK s \in {"RECEIVED", "DISPATCHED"} :
        /\ s = IF op[c] = "receive" /\ AllReceived THEN "RECEIVED" ELSE "DISPATCHED"
        /\ next' = [next EXCEPT ![c] = s]
  BY DEF Refresh
<1>2. /\ pc[c] = "loop" /\ pc'[c] = "status" /\ next'[c] = s
      /\ OthersKept(c) /\ UNCHANGED tables
  BY <1>1 DEF Refresh, IInv, TypeOK, OthersKept
<1>3. TypeOK'
  BY <1>1 DEF Refresh, IInv, TypeOK, tables, Steps, Statuses
<1>4. Own(c) /\ Something(c) /\ status # "ABSENT"
  BY <1>2 DEF IInv, Own
<1>5. \E l \in Lines : posted["dispatch"][l] > 0
  <2>1. ~\E l \in Lines : todo[c][l] > 0
    BY DEF Refresh, NoTargets
  <2> QED
    BY <1>4, <2>1 DEF Something
<1>6. s = "RECEIVED" => \A l \in Lines : posted["receive"][l] >= line[l].quantity
  BY <1>1, TotalsAreNat DEF AllReceived, IInv, LinesWerePosted
<1>7. Earned(s)'
  BY <1>2, <1>5, <1>6 DEF Earned, tables
<1>8. Own(c)'
  BY <1>2, <1>4, <1>7 DEF Own, tables, Statuses, Earned
<1> QED
  BY <1>2, <1>3, <1>4, <1>8, QuietKeeps

LEMMA WriteStatusKeeps ==
  ASSUME IInv, NEW c \in Callers, WriteStatus(c)
  PROVE  IInv'
<1>1. PICK s \in Statuses \ {"ABSENT"} : s = next[c] /\ Earned(s)
  BY DEF WriteStatus, IInv, Own
<1>2. /\ status' = s /\ UNCHANGED <<line, available, keys, posted, disturbed>>
      /\ OthersKept(c) /\ pc'[c] = "idle"
  BY <1>1, EndLocals DEF WriteStatus, ledgerVars
<1>3. TypeOK'
  BY <1>2, EndLocals DEF WriteStatus, IInv, TypeOK
<1>4. Grows
  BY <1>2 DEF Grows, IInv, TypeOK
<1>5. StatusWasEarned'
  BY <1>1, <1>2 DEF StatusWasEarned, Earned
<1>6. Own(c)'
  BY <1>2 DEF Own
<1> QED
  BY <1>2, <1>3, <1>4, <1>5, <1>6, StepKeeps

LEMMA BeginCancelKeeps ==
  ASSUME IInv, NEW c \in Callers, BeginCancel(c)
  PROVE  IInv'
<1>1. /\ pc'[c] = "status" /\ next'[c] = "CANCELLED" /\ status = "DRAFT"
      /\ OthersKept(c) /\ UNCHANGED tables
  BY DEF BeginCancel, IInv, TypeOK, OthersKept
<1>2. TypeOK'
  BY DEF BeginCancel, NoteOverlap, IInv, TypeOK, tables, Steps, Statuses
<1>3. Own(c)'
  BY <1>1 DEF Own, Earned, tables, Statuses
<1> QED
  BY <1>1, <1>2, <1>3, QuietKeeps

LEMMA OtherMovementKeeps ==
  ASSUME IInv, NEW p \in Places, NEW quantity \in {-1, 1},
         OtherMovement(p, quantity)
  PROVE  IInv'
<1>1. PICK left \in Nat : left = available[p] + quantity
  BY TransferAssumption DEF OtherMovement, TransferAssumption
<1>2. TypeOK'
  BY <1>1 DEF OtherMovement, IInv, TypeOK
<1>3. UNCHANGED <<status, line, keys, posted, pc, op, todo, seen, at, next>>
  BY DEF OtherMovement
<1>4. LinesWerePosted' /\ StatusWasEarned' /\ KeysInv'
  BY <1>3 DEF IInv, LinesWerePosted, StatusWasEarned, KeysInv
<1>5. \A c \in Callers : Own(c)'
  BY <1>3 DEF IInv, Own, Something, Read, Posted, Earned
<1> QED
  BY <1>2, <1>4, <1>5 DEF IInv

-----------------------------------------------------------------------------
LEMMA InvInit == Init => IInv
<1> SUFFICES ASSUME Init PROVE IInv
  OBVIOUS
<1>1. NoTargets \in Targets /\ NothingSeen \in [Lines -> LineRows]
  BY DEF NoTargets, Targets, NothingSeen, NewLine, LineRows
<1>2. TypeOK
  BY <1>1 DEF Init, TypeOK, Statuses, Steps
<1>3. LinesWerePosted /\ StatusWasEarned /\ KeysInv
  BY DEF Init, LinesWerePosted, StatusWasEarned, KeysInv, NothingSeen, NewLine, Ops
<1>4. \A c \in Callers : Own(c)
  BY DEF Init, Own
<1> QED
  BY <1>2, <1>3, <1>4 DEF IInv

LEMMA InvNext == IInv /\ [Next]_vars => IInv'
<1> SUFFICES ASSUME IInv, [Next]_vars PROVE IInv'
  OBVIOUS
<1>1. CASE \E quantity \in Orders : Create(quantity)
  BY <1>1, CreateKeeps
<1>2. ASSUME NEW c \in Callers, Request(c) PROVE IInv'
  BY <1>2, BeginKeeps, BeginCancelKeeps DEF Request
<1>3. ASSUME NEW c \in Callers, NEW l \in Lines, RefuseLine(c, l) PROVE IInv'
  BY <1>3, EndKeeps DEF RefuseLine, IInv, TypeOK
<1>4. ASSUME NEW c \in Callers, Continue(c) PROVE IInv'
  BY <1>3, <1>4, ReadLinesKeeps, SkipLineKeeps, PostLineKeeps, SaveLineKeeps,
     RefreshKeeps, WriteStatusKeeps DEF Continue
<1>5. ASSUME NEW c \in Callers, Crash(c) PROVE IInv'
  BY <1>5, EndKeeps DEF Crash, Idle, IInv, TypeOK
<1>6. CASE \E p \in Places, quantity \in {-1, 1} : OtherMovement(p, quantity)
  BY <1>6, OtherMovementKeeps
<1>7. CASE UNCHANGED vars
  BY <1>7 DEF vars, IInv, TypeOK, LinesWerePosted, StatusWasEarned, KeysInv, Own,
              Something, Read, Posted, Earned
<1> QED
  BY <1>1, <1>2, <1>4, <1>5, <1>6, <1>7 DEF Next

LEMMA Invariance == Spec => []IInv
BY InvInit, InvNext, PTL DEF Spec

(* Whatever requests overlap or stop, the lines pass the CHECK of their    *)
(* table (ck_inventory_transfer_item_quantities), so that no UPDATE fails  *)
(* after its movement was posted, and no balance goes below zero.          *)
THEOREM TransferTypeCorrect == Spec => []TypeOK
<1>1. IInv => TypeOK
  BY DEF IInv
<1> QED
  BY <1>1, Invariance, PTL

(* However requests overlap and wherever they stop, a line never claims to *)
(* have dispatched or received more than the ledger moved for it (the      *)
(* movement is posted first, and its key carries the target).              *)
THEOREM TransferLinesWerePosted == Spec => []LinesWerePosted
<1>1. IInv => LinesWerePosted
  BY DEF IInv
<1> QED
  BY <1>1, Invariance, PTL

(* A status of RECEIVED or DISPATCHED is never written without the stock   *)
(* having arrived or left, although it is written from an earlier read     *)
(* (the lines are read again after the loop).                              *)
THEOREM TransferStatusWasEarned == Spec => []StatusWasEarned
<1>1. IInv => StatusWasEarned
  BY DEF IInv
<1> QED
  BY <1>1, Invariance, PTL

-----------------------------------------------------------------------------
(* RetriesPostOnce is about the movements only, but what one of them adds  *)
(* depends on what its request read from the line.  KeyedInv: a count in a *)
(* line, or in what was read of it, is 0 or the target of a movement with  *)
(* a key in the ledger, and so is the target of a line about to be saved.  *)
Marked(o, l, n) == n = 0 \/ <<o, l, n>> \in keys

(* One key, one posting.                                                   *)
Once(o, l) ==
  /\ (\A n \in Nat : <<o, l, n>> \notin keys) => posted[o][l] = 0
  /\ \A n \in Nat :
       (<<o, l, n>> \in keys /\ \A m \in Nat : <<o, l, m>> \in keys => m = n)
         => posted[o][l] = n

KeyedInv ==
  /\ \A o \in Ops, l \in Lines : Marked(o, l, Done(line[l], o)) /\ Once(o, l)
  /\ \A c \in Callers, o \in Ops, l \in Lines : Marked(o, l, Done(seen[c][l], o))
  /\ \A c \in Callers :
       pc[c] = "save" => Marked(op[c], at[c], todo[c][at[c]])

LEMMA DoneOfNew == ASSUME NEW o, NEW q PROVE Done(NewLine(q), o) = 0
BY DEF Done, NewLine

LEMMA KeyedInit == Init => KeyedInv
<1> SUFFICES ASSUME Init PROVE KeyedInv
  OBVIOUS
<1>1. \A o \in Ops, l \in Lines : Marked(o, l, Done(line[l], o)) /\ Once(o, l)
  BY DoneOfNew DEF Init, NothingSeen, Marked, Once
<1>2. \A c \in Callers, o \in Ops, l \in Lines : Marked(o, l, Done(seen[c][l], o))
  BY DoneOfNew DEF Init, NothingSeen, Marked
<1> QED
  BY <1>1, <1>2 DEF Init, KeyedInv

(* A step of request c that posts nothing and writes no line.              *)
LEMMA KeyedKept ==
  ASSUME KeyedInv, UNCHANGED <<line, keys, posted>>, NEW c \in Callers,
         OthersKept(c), pc'[c] # "save",
         \A l \in Lines :
           \/ seen'[c][l] = seen[c][l] \/ seen'[c][l] = line[l]
           \/ seen'[c][l] = NewLine(0)
  PROVE  KeyedInv'
<1>1. ASSUME NEW o \in Ops, NEW l \in Lines
      PROVE  Marked(o, l, Done(line[l], o))' /\ Once(o, l)'
  BY DEF KeyedInv, Marked, Once
<1>2. ASSUME NEW d \in Callers, NEW o \in Ops, NEW l \in Lines
      PROVE  Marked(o, l, Done(seen[d][l], o))'
  <2>1. \/ seen'[d][l] = seen[d][l] \/ seen'[d][l] = line[l]
        \/ seen'[d][l] = NewLine(0)
    BY DEF OthersKept
  <2>2. PICK n : n = Done(seen'[d][l], o)
    OBVIOUS
  <2>3. Marked(o, l, n)
    BY <2>1, <2>2, DoneOfNew DEF KeyedInv, Marked
  <2>4. n = Done(seen[d][l], o)'
    BY <2>2 DEF Done
  <2> QED
    BY <2>3, <2>4 DEF Marked
<1>3. ASSUME NEW d \in Callers, pc'[d] = "save"
      PROVE  Marked(op[d], at[d], todo[d][at[d]])'
  BY <1>3 DEF OthersKept, KeyedInv, Marked
<1> QED
  BY <1>1, <1>2, <1>3 DEF KeyedInv

LEMMA KeyedPost ==
  ASSUME IInv, KeyedInv, NEW c \in Callers, NEW l \in Lines, PostLine(c, l),
         pc'[c] = "save"
  PROVE  KeyedInv'
<1>1. PICK o \in Ops : o = op[c]
  BY DEF PostLine, IInv, Own
<1>2. PICK t \in Nat : t = todo[c][l]
  BY SeenAreNat DEF IInv
<1>3. PICK n \in Nat : n = Done(seen[c][l], o)
  BY SeenAreNat DEF IInv, Done
<1>4. ~End(c) /\ t > 0 /\ t > n
  BY <1>1, <1>2, <1>3 DEF PostLine, End, IInv, TypeOK
<1>5. /\ at' = [at EXCEPT ![c] = l]
      /\ pc' = [pc EXCEPT ![c] = "save"]
      /\ UNCHANGED <<op, todo, seen, line>>
  BY <1>4 DEF PostLine
<1>6. PICK key : key = <<o, l, t>>
  OBVIOUS
<1>7. \/ key \in keys /\ UNCHANGED ledgerVars
      \/ key \notin keys /\ Book(o, l, key, t - n)
  BY <1>1, <1>2, <1>3, <1>4, <1>6 DEF PostLine, Delta, Key, Replayed
<1>8. keys' = keys \cup {key} /\ key \in keys'
  BY <1>7 DEF Book, ledgerVars
<1>9. Marked(o, l, n)
  BY <1>3 DEF KeyedInv
<1>10. ASSUME NEW q \in Ops, NEW k \in Lines
       PROVE  Once(q, k)'
  <2>1. Once(q, k)
    BY DEF KeyedInv
  <2>2. CASE UNCHANGED ledgerVars
    BY <2>1, <2>2 DEF ledgerVars, Once
  <2>3. CASE ~(q = o /\ k = l) /\ Book(o, l, key, t - n)
    <3>1. posted'[q][k] = posted[q][k]
      BY <2>3 DEF Book, IInv, TypeOK
    <3>2. \A m \in Nat : (<<q, k, m>> \in keys') <=> (<<q, k, m>> \in keys)
      BY <1>6, <1>8, <2>3
    <3> QED
      BY <2>1, <3>1, <3>2 DEF Once
  <2>4. CASE q = o /\ k = l /\ key \notin keys /\ Book(o, l, key, t - n)
    <3>1. posted'[o][l] = posted[o][l] + (t - n)
      BY <2>4 DEF Book, IInv, TypeOK
    <3>2. CASE \A m \in Nat : <<o, l, m>> \notin keys
      <4>1. posted[o][l] = 0 /\ n = 0
        BY <1>9, <2>1, <2>4, <3>2 DEF Once, Marked
      <4>2. posted'[o][l] = t
        BY <3>1, <4>1
      <4>3. \A m \in Nat : <<o, l, m>> \in keys' => m = t
        BY <1>6, <1>8, <3>2
      <4> QED
        BY <1>6, <1>8, <2>4, <4>2, <4>3 DEF Once
    <3>3. CASE \E m \in Nat : <<o, l, m>> \in keys
      <4>1. PICK m \in Nat : <<o, l, m>> \in keys
        BY <3>3
      <4>2. m # t /\ <<o, l, m>> \in keys' /\ <<o, l, t>> \in keys'
        BY <1>6, <1>8, <2>4, <4>1
      <4> QED
        BY <2>4, <4>2 DEF Once
    <3> QED
      BY <3>2, <3>3
  <2> QED
    BY <1>7, <2>2, <2>3, <2>4
<1>11. ASSUME NEW q \in Ops, NEW k \in Lines
       PROVE  Marked(q, k, Done(line[k], q))'
  BY <1>5, <1>8 DEF KeyedInv, Marked
<1>12. ASSUME NEW d \in Callers, NEW q \in Ops, NEW k \in Lines
       PROVE  Marked(q, k, Done(seen[d][k], q))'
  BY <1>5, <1>8 DEF KeyedInv, Marked
<1>13. ASSUME NEW d \in Callers, pc'[d] = "save"
       PROVE  Marked(op[d], at[d], todo[d][at[d]])'
  <2>1. CASE d = c
    <3>1. at'[c] = l /\ op'[c] = o /\ todo'[c][l] = t
      BY <1>1, <1>2, <1>5 DEF IInv, TypeOK
    <3> QED
      BY <1>6, <1>8, <2>1, <3>1 DEF Marked
  <2>2. CASE d # c
    BY <1>5, <1>8, <1>13, <2>2 DEF KeyedInv, Marked, IInv, TypeOK
  <2> QED
    BY <2>1, <2>2
<1> QED
  BY <1>10, <1>11, <1>12, <1>13 DEF KeyedInv

LEMMA KeyedSave ==
  ASSUME IInv, KeyedInv, NEW c \in Callers, SaveLine(c)
  PROVE  KeyedInv'
<1>1. PICK l \in Lines : l = at[c]
  BY DEF SaveLine, IInv, Own
<1>2. PICK o \in Ops : o = op[c]
  BY DEF SaveLine, IInv, Own
<1>3. PICK item \in LineRows : item = seen[c][l]
  BY SeenAreNat DEF IInv
<1>4. PICK t \in Nat : t = todo[c][l]
  BY SeenAreNat DEF IInv
<1>5. PICK new : new = Counted(item, o, t)
  OBVIOUS
<1>6. /\ line' = [line EXCEPT ![l] = new]
      /\ seen' = [seen EXCEPT ![c][l] = NewLine(0)]
      /\ pc' = [pc EXCEPT ![c] = "loop"] /\ at' = [at EXCEPT ![c] = NoLine]
      /\ todo' = [todo EXCEPT ![c][l] = 0]
      /\ UNCHANGED <<keys, posted, op>>
  BY <1>1, <1>2, <1>3, <1>4, <1>5 DEF SaveLine, Advance, ledgerVars
<1>7. \A q \in Ops : Done(new, q) = IF q = o THEN t ELSE Done(item, q)
  BY <1>5 DEF Done, Counted, LineRows, Ops
<1>8. Marked(o, l, t)
  BY <1>1, <1>2, <1>4 DEF SaveLine, KeyedInv
<1>9. ASSUME NEW q \in Ops, NEW k \in Lines
      PROVE  Marked(q, k, Done(line[k], q))' /\ Once(q, k)'
  <2>1. Once(q, k)'
    BY <1>6 DEF KeyedInv, Once
  <2>2. CASE k = l
    <3>1. line'[k] = new
      BY <1>6, <2>2 DEF IInv, TypeOK
    <3>2. Marked(q, l, Done(item, q))
      BY <1>3 DEF KeyedInv
    <3>3. Marked(q, l, Done(new, q))
      BY <1>7, <1>8, <3>2
    <3> QED
      BY <1>6, <2>1, <2>2, <3>1, <3>3 DEF Marked, Done
  <2>3. CASE k # l
    BY <1>6, <2>1, <2>3 DEF KeyedInv, Marked, IInv, TypeOK
  <2> QED
    BY <2>2, <2>3
<1>10. ASSUME NEW d \in Callers, NEW q \in Ops, NEW k \in Lines
       PROVE  Marked(q, k, Done(seen[d][k], q))'
  <2>1. CASE d = c /\ k = l
    <3>1. seen'[d][k] = NewLine(0)
      BY <1>6, <2>1 DEF IInv, TypeOK
    <3> QED
      BY <3>1, DoneOfNew DEF Marked, Done
  <2>2. CASE ~(d = c /\ k = l)
    <3>1. seen'[d][k] = seen[d][k]
      BY <1>6, <2>2 DEF IInv, TypeOK
    <3> QED
      BY <1>6, <3>1 DEF KeyedInv, Marked, Done
  <2> QED
    BY <2>1, <2>2
<1>11. ASSUME NEW d \in Callers, pc'[d] = "save"
       PROVE  Marked(op[d], at[d], todo[d][at[d]])'
  <2>1. d # c
    BY <1>6, <1>11 DEF IInv, TypeOK
  <2> QED
    BY <1>6, <1>11, <2>1 DEF KeyedInv, Marked, IInv, TypeOK
<1> QED
  BY <1>9, <1>10, <1>11 DEF KeyedInv

LEMMA KeyedEnd ==
  ASSUME IInv, KeyedInv, NEW c \in Callers, End(c), UNCHANGED <<line, keys, posted>>
  PROVE  KeyedInv'
<1>1. OthersKept(c) /\ pc'[c] = "idle" /\ \A l \in Lines : seen'[c][l] = NewLine(0)
  BY EndLocals DEF End, IInv, TypeOK, NothingSeen
<1> QED
  BY <1>1, KeyedKept

LEMMA KeyedNext == IInv /\ KeyedInv /\ [Next]_vars => KeyedInv'
<1> SUFFICES ASSUME IInv, KeyedInv, [Next]_vars PROVE KeyedInv'
  OBVIOUS
<1>1. ASSUME NEW quantity \in Orders, Create(quantity)
      PROVE  KeyedInv'
  <2>1. UNCHANGED <<keys, posted, pc, op, todo, seen, at>>
    BY <1>1 DEF Create, ledgerVars
  <2>2. ASSUME NEW o \in Ops, NEW l \in Lines
        PROVE  Marked(o, l, Done(line[l], o))' /\ Once(o, l)'
    <3>1. line'[l] = NewLine(quantity[l])
      BY <1>1 DEF Create
    <3>2. Marked(o, l, Done(line[l], o))'
      BY <3>1, DoneOfNew DEF Marked, Done
    <3> QED
      BY <2>1, <3>2 DEF KeyedInv, Once
  <2> QED
    BY <2>1, <2>2 DEF KeyedInv, Marked
<1>2. ASSUME NEW c \in Callers,
             (\E o \in Ops, targets \in Requests : Begin(c, o, targets))
             \/ BeginCancel(c) \/ Refresh(c)
      PROVE  KeyedInv'
  <2>1. /\ OthersKept(c) /\ pc'[c] # "save" /\ seen' = seen
        /\ UNCHANGED <<line, keys, posted>>
    BY <1>2 DEF Begin, BeginCancel, Refresh, tables, OthersKept, IInv, TypeOK
  <2> QED
    BY <2>1, KeyedKept
<1>3. ASSUME NEW c \in Callers, ReadLines(c)
      PROVE  KeyedInv'
  <2>1. /\ OthersKept(c) /\ pc'[c] # "save"
        /\ UNCHANGED <<line, keys, posted>>
    BY <1>3 DEF ReadLines, tables, OthersKept, IInv, TypeOK
  <2>2. \A l \in Lines : seen'[c][l] = line[l] \/ seen'[c][l] = NewLine(0)
    BY <1>3 DEF ReadLines, IInv, TypeOK
  <2> QED
    BY <2>1, <2>2, KeyedKept
<1>4. ASSUME NEW c \in Callers, NEW l \in Lines, SkipLine(c, l)
      PROVE  KeyedInv'
  <2>1. /\ OthersKept(c) /\ pc'[c] # "save"
        /\ UNCHANGED <<line, keys, posted>>
    BY <1>4 DEF SkipLine, Advance, tables, OthersKept, IInv, TypeOK
  <2>2. \A k \in Lines : seen'[c][k] = seen[c][k] \/ seen'[c][k] = NewLine(0)
    BY <1>4 DEF SkipLine, Advance, IInv, TypeOK
  <2> QED
    BY <2>1, <2>2, KeyedKept
<1>5. ASSUME NEW c \in Callers,
             (\E l \in Lines : RefuseLine(c, l)) \/ WriteStatus(c) \/ Crash(c)
      PROVE  KeyedInv'
  BY <1>5, KeyedEnd DEF RefuseLine, WriteStatus, Crash, tables, ledgerVars
<1>6. ASSUME NEW c \in Callers, NEW l \in Lines, PostLine(c, l)
      PROVE  KeyedInv'
  <2>1. CASE pc'[c] = "save"
    BY <1>6, <2>1, KeyedPost
  <2>2. CASE pc'[c] # "save"
    <3>1. End(c) /\ UNCHANGED <<line, keys, posted>>
      BY <1>6, <2>2 DEF PostLine, ledgerVars, IInv, TypeOK
    <3> QED
      BY <3>1, KeyedEnd
  <2> QED
    BY <2>1, <2>2
<1>7. CASE \/ \E p \in Places, quantity \in {-1, 1} : OtherMovement(p, quantity)
           \/ UNCHANGED vars
  BY <1>7 DEF OtherMovement, vars, KeyedInv, Marked, Once
<1> QED
  BY <1>1, <1>2, <1>3, <1>4, <1>5, <1>6, <1>7, KeyedSave
  DEF Next, Request, Continue

LEMMA KeyedInvariance == Spec => []KeyedInv
BY Invariance, KeyedInit, KeyedNext, PTL DEF Spec

(* A line that was only ever asked to be dispatched (received) up to one   *)
(* target has been dispatched (received) that much, once, with any number  *)
(* of retries, overlapping requests and crashes (the key that              *)
(* postMovement gets from the transfer service).                           *)
THEOREM TransferRetriesPostOnce == Spec => []RetriesPostOnce
<1>1. IInv /\ KeyedInv => RetriesPostOnce
  <2> SUFFICES ASSUME IInv, KeyedInv, NEW k \in keys,
                      TargetsOf(k[1], k[2]) = {k[3]}
               PROVE  posted[k[1]][k[2]] = k[3]
    BY DEF RetriesPostOnce
  <2>1. PICK o \in Ops, l \in Lines, n \in Nat : k = <<o, l, n>>
    BY DEF IInv, TypeOK, Keys
  <2>2. ASSUME NEW m \in Nat, <<o, l, m>> \in keys
        PROVE  m = n
    <3>1. PICK j : j = <<o, l, m>>
      OBVIOUS
    <3>2. j \in keys /\ j[1] = k[1] /\ j[2] = k[2] /\ j[3] = m
      BY <2>1, <2>2, <3>1
    <3>3. m \in TargetsOf(k[1], k[2])
      BY <3>2 DEF TargetsOf
    <3> QED
      BY <2>1, <3>3
  <2>3. Once(o, l)
    BY DEF KeyedInv
  <2> QED
    BY <2>1, <2>2, <2>3 DEF Once
<1> QED
  BY <1>1, Invariance, KeyedInvariance, PTL

-----------------------------------------------------------------------------
(* The two properties that hold while nothing is disturbed.  Then at most  *)
(* one request is under way, what it read is what is there, and lines and  *)
(* ledger agree but for the movement it has posted and not written.        *)
Matches(l) == \A o \in Ops : posted[o][l] = Done(line[l], o)

(* The line is behind the ledger by the movement of the request.           *)
Ahead(c, l) ==
  /\ posted[op[c]][l] = todo[c][l]
  /\ \A o \in Ops \ {op[c]} : posted[o][l] = Done(line[l], o)

Alone(c) ==
  /\ \A l \in Lines : ~(pc[c] = "save" /\ at[c] = l) => Matches(l)
  /\ pc[c] \in {"loop", "save"} =>
       \A l \in Lines : todo[c][l] > 0 => seen[c][l] = line[l]
  /\ pc[c] = "save" => Ahead(c, at[c])

AloneInv ==
  ~disturbed =>
    /\ \A c, d \in Callers : ~Idle(c) /\ ~Idle(d) => c = d
    /\ status = "ABSENT" => \A o \in Ops, l \in Lines : posted[o][l] = 0
    /\ (\A c \in Callers : Idle(c)) => \A l \in Lines : Matches(l)
    /\ \A c \in Callers : ~Idle(c) => Alone(c)

LEMMA AloneInit == Init => AloneInv
<1> SUFFICES ASSUME Init PROVE AloneInv
  OBVIOUS
<1>1. \A l \in Lines : Matches(l)
  BY DoneOfNew DEF Init, Matches, NothingSeen
<1> QED
  BY <1>1 DEF Init, AloneInv, Idle

LEMMA AloneBefore ==
  ASSUME AloneInv, ~disturbed, NEW c \in Callers,
         \A d \in Callers \ {c} : Idle(d)
  PROVE  Alone(c)
<1>1. CASE Idle(c)
  <2>1. \A l \in Lines : Matches(l)
    BY <1>1 DEF AloneInv
  <2> QED
    BY <1>1, <2>1 DEF Alone, Idle
<1> QED
  BY <1>1 DEF AloneInv

LEMMA AloneAfter ==
  ASSUME NEW c \in Callers, \A d \in Callers \ {c} : Idle(d), OthersKept(c),
         status' # "ABSENT", Alone(c)'
  PROVE  AloneInv'
<1>1. \A d \in Callers \ {c} : Idle(d)'
  BY DEF OthersKept, Idle
<1>2. Idle(c)' => \A l \in Lines : Matches(l)'
  BY DEF Idle, Alone
<1> QED
  BY <1>1, <1>2 DEF AloneInv

LEMMA AloneBegin ==
  ASSUME IInv, AloneInv, NEW c \in Callers, Request(c), ~disturbed'
  PROVE  AloneInv'
<1>1. /\ \A d \in Callers : Idle(d)
      /\ ~disturbed /\ UNCHANGED tables /\ status # "ABSENT"
      /\ pc'[c] \in {"readLines", "status"} /\ OthersKept(c)
  BY DEF Request, Begin, BeginCancel, NoteOverlap, Ready, OthersKept, IInv, TypeOK
<1>2. \A l \in Lines : Matches(l)
  BY <1>1 DEF AloneInv
<1>3. Alone(c)'
  BY <1>1, <1>2 DEF Alone, Matches, tables
<1> QED
  BY <1>1, <1>3, AloneAfter DEF tables

(* A step that ends the request anywhere but between movement and line.    *)
LEMMA AloneEnd ==
  ASSUME IInv, AloneInv, NEW c \in Callers, ~Idle(c), pc[c] # "save", ~disturbed,
         End(c), UNCHANGED <<line, posted>>, status' # "ABSENT"
  PROVE  AloneInv'
<1>1. /\ OthersKept(c) /\ pc'[c] = "idle"
      /\ \A d \in Callers \ {c} : Idle(d)
  BY EndLocals DEF AloneInv
<1>2. Alone(c)
  BY <1>1, AloneBefore
<1>3. Alone(c)'
  BY <1>1, <1>2 DEF Alone, Matches
<1> QED
  BY <1>1, <1>3, AloneAfter

LEMMA AlonePost ==
  ASSUME IInv, AloneInv, NEW c \in Callers, NEW l \in Lines, PostLine(c, l),
         ~disturbed, pc'[c] = "save"
  PROVE  AloneInv'
<1>1. PICK o \in Ops : o = op[c]
  BY DEF PostLine, IInv, Own
<1>2. PICK t \in Nat : t = todo[c][l]
  BY SeenAreNat DEF IInv
<1>3. PICK n \in Nat : n = Done(seen[c][l], o)
  BY SeenAreNat DEF IInv, Done
<1>4. pc[c] = "loop" /\ ~End(c) /\ t > 0 /\ t > n
  BY <1>1, <1>2, <1>3 DEF PostLine, End, IInv, TypeOK
<1>5. /\ at' = [at EXCEPT ![c] = l]
      /\ pc' = [pc EXCEPT ![c] = "save"]
      /\ UNCHANGED <<op, todo, seen, line, status, next>>
  BY <1>4 DEF PostLine
<1>6. /\ OthersKept(c) /\ status' # "ABSENT"
      /\ \A d \in Callers \ {c} : Idle(d)
      /\ pc'[c] = "save" /\ at'[c] = l
  BY <1>4, <1>5 DEF OthersKept, AloneInv, Idle, IInv, TypeOK, Own
<1>7. Alone(c)
  BY <1>6, AloneBefore
<1>8. \A k \in Lines : Matches(k)
  BY <1>4, <1>7 DEF Alone
<1>9. seen[c][l] = line[l] /\ n = posted[o][l]
  BY <1>2, <1>3, <1>4, <1>7, <1>8 DEF Alone, Matches
<1>10. PICK key : key = <<o, l, t>>
  OBVIOUS
<1>11. key \notin keys
  BY <1>4, <1>9, <1>10 DEF IInv, KeysInv
<1>12. Book(o, l, key, t - n)
  BY <1>1, <1>2, <1>3, <1>4, <1>10, <1>11 DEF PostLine, Delta, Key, Replayed
<1>13. posted' = [posted EXCEPT ![o][l] = @ + (t - n)]
  BY <1>12 DEF Book
<1>14. posted'[o][l] = t
  BY <1>9, <1>13 DEF IInv, TypeOK
<1>15. \A q \in Ops, k \in Lines : ~(q = o /\ k = l) => posted'[q][k] = posted[q][k]
  BY <1>13 DEF IInv, TypeOK
<1>16. Ahead(c, l)'
  BY <1>1, <1>2, <1>5, <1>8, <1>14, <1>15 DEF Ahead, Matches
<1>17. ASSUME NEW k \in Lines, k # l PROVE Matches(k)'
  BY <1>5, <1>8, <1>15, <1>17 DEF Matches
<1>18. \A k \in Lines : todo'[c][k] > 0 => seen'[c][k] = line'[k]
  BY <1>4, <1>5, <1>7 DEF Alone
<1>19. Alone(c)'
  BY <1>6, <1>16, <1>17, <1>18 DEF Alone
<1> QED
  BY <1>6, <1>19, AloneAfter

LEMMA AloneSave ==
  ASSUME IInv, AloneInv, NEW c \in Callers, SaveLine(c), ~disturbed
  PROVE  AloneInv'
<1>1. PICK l \in Lines : l = at[c]
  BY DEF SaveLine, IInv, Own
<1>2. PICK o \in Ops : o = op[c]
  BY DEF SaveLine, IInv, Own
<1>3. PICK item \in LineRows : item = seen[c][l]
  BY SeenAreNat DEF IInv
<1>4. PICK t \in Nat : t = todo[c][l]
  BY SeenAreNat DEF IInv
<1>5. PICK new : new = Counted(item, o, t)
  OBVIOUS
<1>6. /\ line' = [line EXCEPT ![l] = new]
      /\ seen' = [seen EXCEPT ![c][l] = NewLine(0)]
      /\ pc' = [pc EXCEPT ![c] = "loop"] /\ at' = [at EXCEPT ![c] = NoLine]
      /\ todo' = [todo EXCEPT ![c][l] = 0]
      /\ UNCHANGED <<status, posted, op, next>>
  BY <1>1, <1>2, <1>3, <1>4, <1>5 DEF SaveLine, Advance, ledgerVars
<1>7. \A q \in Ops : Done(new, q) = IF q = o THEN t ELSE Done(item, q)
  BY <1>5 DEF Done, Counted, LineRows, Ops
<1>8. pc[c] = "save" /\ Own(c)
  BY DEF SaveLine, IInv
<1>9. /\ OthersKept(c) /\ status' # "ABSENT"
      /\ \A d \in Callers \ {c} : Idle(d)
      /\ pc'[c] = "loop" /\ todo'[c][l] = 0 /\ line'[l] = new
      /\ \A k \in Lines \ {l} : todo'[c][k] = todo[c][k] /\ seen'[c][k] = seen[c][k]
                                 /\ line'[k] = line[k]
  BY <1>6, <1>8 DEF OthersKept, AloneInv, Idle, IInv, TypeOK, Targets, Own
<1>10. Alone(c)
  BY <1>9, AloneBefore
<1>11. Ahead(c, l)
  BY <1>1, <1>8, <1>10 DEF Alone
<1>12. t > 0
  <2>1. t > Done(item, o) /\ Done(item, o) \in Nat
    BY <1>1, <1>2, <1>3, <1>4, <1>8 DEF Own, Posted, Done, LineRows
  <2> QED
    BY <2>1
<1>13. item = line[l]
  BY <1>3, <1>4, <1>8, <1>10, <1>12 DEF Alone
<1>14. Matches(l)'
  BY <1>2, <1>4, <1>6, <1>7, <1>9, <1>11, <1>13 DEF Matches, Ahead
<1>15. ASSUME NEW k \in Lines, k # l PROVE Matches(k)'
  <2>1. Matches(k)
    BY <1>1, <1>10, <1>15 DEF Alone
  <2> QED
    BY <1>6, <1>9, <1>15, <2>1 DEF Matches
<1>16. ASSUME NEW k \in Lines, todo'[c][k] > 0 PROVE seen'[c][k] = line'[k]
  BY <1>8, <1>9, <1>10, <1>16 DEF Alone
<1>17. Alone(c)'
  BY <1>9, <1>14, <1>15, <1>16 DEF Alone
<1> QED
  BY <1>9, <1>17, AloneAfter

(* The other steps of a request: none writes a line or the ledger.         *)
LEMMA AloneQuiet ==
  ASSUME IInv, AloneInv, NEW c \in Callers, ~disturbed,
         \/ ReadLines(c) \/ Refresh(c)
         \/ \E l \in Lines : SkipLine(c, l)
  PROVE  AloneInv'
<1>1. /\ pc[c] \in {"readLines", "loop"} /\ pc'[c] \in {"loop", "status"}
      /\ UNCHANGED <<status, line, posted, op>> /\ OthersKept(c)
  BY DEF ReadLines, Refresh, SkipLine, Advance, tables, OthersKept, IInv, TypeOK
<1>2. status' # "ABSENT" /\ \A d \in Callers \ {c} : Idle(d)
  BY <1>1 DEF IInv, Own, AloneInv, Idle
<1>3. Alone(c)
  BY <1>2, AloneBefore
<1>4. \A l \in Lines : Matches(l)'
  BY <1>1, <1>3 DEF Alone, Matches
<1>5. ASSUME NEW l \in Lines, pc'[c] = "loop", todo'[c][l] > 0
      PROVE  seen'[c][l] = line'[l]
  <2>1. CASE ReadLines(c)
    BY <1>1, <1>5, <2>1 DEF ReadLines, IInv, TypeOK
  <2>2. CASE Refresh(c)
    BY <1>5, <2>2 DEF Refresh, IInv, TypeOK
  <2>3. ASSUME NEW k \in Lines, SkipLine(c, k)
        PROVE  seen'[c][l] = line'[l]
    <3>1. l # k /\ todo'[c][l] = todo[c][l] /\ seen'[c][l] = seen[c][l]
          /\ pc[c] = "loop"
      BY <1>5, <2>3 DEF SkipLine, Advance, IInv, TypeOK, Targets
    <3> QED
      BY <1>1, <1>3, <1>5, <3>1 DEF Alone
  <2> QED
    BY <2>1, <2>2, <2>3
<1>6. Alone(c)'
  BY <1>1, <1>4, <1>5 DEF Alone
<1> QED
  BY <1>1, <1>2, <1>6, AloneAfter

LEMMA AloneNext == IInv /\ AloneInv /\ [Next]_vars => AloneInv'
<1> SUFFICES ASSUME IInv, AloneInv, [Next]_vars, ~disturbed' PROVE AloneInv'
  BY DEF AloneInv
<1>1. ~disturbed
  BY DEF Next, Create, Request, Begin, BeginCancel, NoteOverlap, Continue, ReadLines,
     RefuseLine, SkipLine, PostLine, SaveLine, Refresh, WriteStatus, Crash,
     OtherMovement, vars, IInv, TypeOK
<1>2. ASSUME NEW quantity \in Orders, Create(quantity)
      PROVE  AloneInv'
  <2>1. UNCHANGED <<posted, pc>> /\ status = "ABSENT" /\ status' # "ABSENT"
    BY <1>2 DEF Create, ledgerVars
  <2>2. \A c \in Callers : Idle(c)
    BY <2>1 DEF IInv, Own, Idle
  <2>3. ASSUME NEW l \in Lines PROVE Matches(l)'
    <3>1. line'[l] = NewLine(quantity[l])
      BY <1>2 DEF Create
    <3>2. \A o \in Ops : posted'[o][l] = 0
      BY <1>1, <2>1 DEF AloneInv
    <3> QED
      BY <3>1, <3>2, DoneOfNew DEF Matches
  <2> QED
    BY <2>1, <2>2, <2>3 DEF AloneInv, Idle
<1>3. ASSUME NEW c \in Callers,
             (\E l \in Lines : RefuseLine(c, l)) \/ WriteStatus(c) \/ Crash(c)
      PROVE  AloneInv'
  <2>1. /\ End(c) /\ UNCHANGED <<line, posted>>
        /\ pc[c] # "idle" /\ pc[c] # "save"
    BY <1>3 DEF RefuseLine, WriteStatus, Crash, Idle, tables, ledgerVars
  <2>2. status' # "ABSENT"
    BY <1>3, <2>1 DEF RefuseLine, WriteStatus, Crash, tables, IInv, Own
  <2> QED
    BY <1>1, <2>1, <2>2, AloneEnd DEF Idle
<1>4. ASSUME NEW c \in Callers, NEW l \in Lines, PostLine(c, l)
      PROVE  AloneInv'
  <2>1. CASE pc'[c] = "save"
    BY <1>1, <1>4, <2>1, AlonePost
  <2>2. CASE pc'[c] # "save"
    <3>1. /\ End(c) /\ UNCHANGED <<status, line, posted>> /\ pc[c] = "loop"
      BY <1>4, <2>2 DEF PostLine, ledgerVars, IInv, TypeOK
    <3> QED
      BY <1>1, <3>1, AloneEnd DEF Idle, IInv, Own
  <2> QED
    BY <2>1, <2>2
<1>5. CASE \/ \E p \in Places, quantity \in {-1, 1} : OtherMovement(p, quantity)
           \/ UNCHANGED vars
  <2>1. UNCHANGED <<status, line, posted, pc, op, todo, seen, at, disturbed>>
    BY <1>5 DEF OtherMovement, vars
  <2> QED
    BY <2>1 DEF AloneInv, Idle, Alone, Matches, Ahead
<1> QED
  BY <1>1, <1>2, <1>3, <1>4, <1>5, AloneBegin, AloneSave, AloneQuiet
  DEF Next, Continue

LEMMA AloneInvariance == Spec => []AloneInv
BY Invariance, AloneInit, AloneNext, PTL DEF Spec

(* While requests come one after the other and none stops between a        *)
(* movement and its line, no more arrives than has left, and no more       *)
(* leaves than was asked for, at every moment (dispatchTransfer and        *)
(* receiveTransfer, whose checks read lines that may be old).              *)
THEOREM TransferNothingFromNothing == Spec => []NothingFromNothing
<1>1. IInv /\ AloneInv => NothingFromNothing
  <2> SUFFICES ASSUME IInv, AloneInv, ~disturbed, NEW l \in Lines
               PROVE  /\ posted["receive"][l] <= posted["dispatch"][l]
                      /\ posted["dispatch"][l] <= line[l].quantity
    BY DEF NothingFromNothing
  <2>1. /\ line[l].received <= line[l].dispatched
        /\ line[l].dispatched <= line[l].quantity
        /\ line[l].quantity \in Nat /\ line[l].dispatched \in Nat
        /\ line[l].received \in Nat
    BY DEF IInv, TypeOK, LineRows
  <2>2. CASE Matches(l)
    BY <2>1, <2>2 DEF Matches, Done, Ops
  <2>3. ASSUME NEW c \in Callers, pc[c] = "save", at[c] = l
        PROVE  /\ posted["receive"][l] <= posted["dispatch"][l]
               /\ posted["dispatch"][l] <= line[l].quantity
    <3>1. Alone(c) /\ Own(c)
      BY <2>3 DEF AloneInv, Idle, IInv
    <3>2. PICK t \in Nat : t = todo[c][l]
      BY SeenAreNat DEF IInv
    <3>3. PICK o \in Ops : o = op[c]
      BY <2>3, <3>1 DEF Own
    <3>4. t > Done(seen[c][l], o) /\ t <= Limit(seen[c][l], o)
      BY <2>3, <3>1, <3>2, <3>3 DEF Own, Posted
    <3>5. t > 0
      <4>1. Done(seen[c][l], o) \in Nat
        BY SeenAreNat DEF IInv, Done
      <4> QED
        BY <3>4, <4>1
    <3>6. seen[c][l] = line[l] /\ Ahead(c, l)
      BY <2>3, <3>1, <3>2, <3>5 DEF Alone
    <3>7. posted[o][l] = t /\ \A q \in Ops \ {o} : posted[q][l] = Done(line[l], q)
      BY <3>2, <3>3, <3>6 DEF Ahead
    <3> QED
      BY <2>1, <3>3, <3>4, <3>6, <3>7 DEF Done, Limit, Ops
  <2>4. Matches(l) \/ \E c \in Callers : pc[c] = "save" /\ at[c] = l
    BY DEF AloneInv, Idle, Alone
  <2> QED
    BY <2>2, <2>3, <2>4
<1> QED
  BY <1>1, Invariance, AloneInvariance, PTL

(* Under the same condition lines and ledger agree between two requests,   *)
(* also after one that was refused with some of its lines posted.          *)
THEOREM TransferLinesMatchLedger == Spec => []LinesMatchLedger
<1>1. AloneInv => LinesMatchLedger
  BY DEF AloneInv, LinesMatchLedger, Matches, Done, Ops
<1> QED
  BY <1>1, AloneInvariance, PTL
=============================================================================
