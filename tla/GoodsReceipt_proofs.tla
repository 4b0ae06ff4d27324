------------------------- MODULE GoodsReceipt_proofs -------------------------
(***************************************************************************)
(* Proofs about goods receipts, for any order, deliveries, receipts and    *)
(* requests, with a crash anywhere.                                        *)
(*                                                                         *)
(* None of the invariants is inductive: an order, its quantities and a     *)
(* receipt are written from what a request read or computed long before.   *)
(* Fresh says what that is still worth for a request nobody has made       *)
(* stale; Told says what is true of what requests carry and of the ledger  *)
(* in every history, because a replaced set of lines has a new edition.    *)
(***************************************************************************)
EXTENDS GoodsReceipt, Functions, FiniteSetTheorems, WellFoundedInduction, TLAPS

Rows ==
  [status : {"DRAFT", "POSTED", "REVERSED"}, lines : Deliveries, edition : Nat,
   store : Stores]

Quantities == [Lines -> Nat]

OrderStatuses ==
  Receivable \cup {"DRAFT", "PENDING_APPROVAL", "APPROVED", "RECEIVED", "CLOSED",
                   "CANCELLED"}

(* The fields of a request, by its operation and step.                     *)
Shape(k) ==
  /\ k.op \in {"none", "change", "create", "edit", "post", "reverse"}
  /\ k.op = "none" => k = Idle
  /\ k.op = "change" =>
       /\ k.step = "save" /\ k.change \in DOMAIN Change
       /\ k.acknowledged \in BOOLEAN
  /\ k.op = "create" => k.step = "count" /\ k.read \in Quantities
  /\ k.op \in {"edit", "post", "reverse"} =>
       k.receipt \in Receipts /\ receipt[k.receipt] # Absent
  /\ k.op = "edit" =>
       /\ k.step \in {"order", "count", "save"} /\ k.status = "DRAFT"
       /\ k.step = "order" =>
            k \in [op : {"edit"}, step : {"order"}, receipt : Receipts,
                   status : {"DRAFT"}]
       /\ k.step = "count" => k.read \in Quantities
       /\ k.step = "save" /\ "lines" \in DOMAIN k => k.lines \in Deliveries
  /\ k.op \in {"post", "reverse"} => k.row \in Rows
  /\ k.op = "post" =>
       /\ k.step \in {"order", "count", "book"} /\ k.row.status = "DRAFT"
       /\ k.step = "count" => k.status \in Receivable /\ k.read \in Quantities
       /\ k.step = "book" =>
            k \in [op : {"post"}, step : {"book"}, receipt : Receipts, row : Rows,
                   todo : SUBSET Lines, total : Quantities, to : OrderStatuses]
  /\ k.op = "reverse" =>
       /\ k.step \in {"order", "save"} /\ k.row.status = "POSTED"
       /\ k.step = "save" => k.rest \in Quantities /\ k.to \in OrderStatuses

Types ==
  /\ order \in [status : OrderStatuses, acknowledged : BOOLEAN]
  /\ received \in Quantities
  /\ receipt \in [Receipts -> Rows \cup {Absent}]
  /\ booked \in SUBSET [receipt : Receipts, line : Lines, edition : Nat,
                        store : Stores]
  /\ call = [c \in Callers |-> call[c]]
  /\ \A c \in Callers : Shape(call[c])
  /\ stale \in SUBSET Callers
  /\ disturbed \in BOOLEAN
  /\ edits \in Nat
  /\ cutOff \in SUBSET Receipts
  /\ IsFiniteSet(Posted)

Movement(r, l, e, s) == [receipt |-> r, line |-> l, edition |-> e, store |-> s]

(* The lines of a receipt, of one edition, are the same wherever they are. *)
ToldCall(k) ==
  /\ k.op \in {"post", "reverse"} =>
       /\ k.row.edition <= edits
       /\ k.row.edition = receipt[k.receipt].edition =>
            k.row.lines = receipt[k.receipt].lines
  /\ k.op = "post" /\ k.step = "book" =>
       /\ k.todo \subseteq Stocked(k.row.lines)
       /\ \A l \in Stocked(k.row.lines) \ k.todo :
            Movement(k.receipt, l, k.row.edition, k.row.store) \in booked

Told ==
  /\ \A r \in Receipts : receipt[r] # Absent => receipt[r].edition <= edits
  /\ \A c \in Callers : ToldCall(call[c])
  /\ \A m \in booked :
       /\ receipt[m.receipt] # Absent
       /\ m.edition <= edits
       /\ m.edition = receipt[m.receipt].edition =>
            m.line \in Stocked(Listed(m.receipt))

(* What a request has read or computed, unless another made it stale.      *)
Fresh(k) ==
  /\ k.op = "change" => order.status \in Change[k.change].from
  /\ k.op = "edit" => receipt[k.receipt].status = "DRAFT"
  /\ k.op \in {"post", "reverse"} => receipt[k.receipt] = k.row
  /\ k.op = "post" =>
       /\ k.step = "count" => k.status = order.status /\ k.read = received
       /\ k.step = "book" =>
            /\ \A l \in Lines :
                 /\ k.total[l] = received[l] + Delivered(k.row.lines, l)
                 /\ k.total[l] <= Ordered[l]
            /\ k.to = StatusFor(k.total, order.status)
  /\ k.op = "reverse" /\ k.step = "save" =>
       /\ \A l \in Lines : k.rest[l] = received[l] - Delivered(k.row.lines, l)
       /\ k.to \in {StatusFor(k.rest, "ACKNOWLEDGED"), StatusFor(k.rest, "ISSUED")}

(* What the receipts list of an item, and what the posted ones list of it. *)
Amount(l) == [r \in Receipts |-> receipt[r].lines[l].received]

Listings(l) == SumFunctionOnSet(Amount(l), PostedWith(l))

AddsUp == \A l \in Lines : received[l] = Listings(l) /\ received[l] <= Ordered[l]

(* A movement is that of a posted receipt, or of a posting under way or    *)
(* cut off.                                                                *)
Accounted(m) ==
  \/ m.receipt \in cutOff
  \/ /\ receipt[m.receipt].status \in {"POSTED", "REVERSED"}
     /\ m.edition = receipt[m.receipt].edition
  \/ \E c \in Callers :
       /\ call[c].op = "post" /\ call[c].step = "book"
       /\ call[c].receipt = m.receipt
       /\ call[c].row.edition = m.edition

Undisturbed ==
  /\ \A c \in Callers \ stale : Fresh(call[c])
  /\ \A m \in booked : Accounted(m)
  /\ AddsUp
  /\ OrderFollowsReceipts
  /\ PostedIsBooked

IInv == Types /\ Told /\ (~disturbed => Undisturbed)

-----------------------------------------------------------------------------
(* Sums over finite sets.  SumFunctionOnSet adds in an order of its own;   *)
(* what follows, by induction on the size of the set, is that the order    *)
(* does not matter.  The induction is that of the least counterexample:    *)
(* every non-empty set of naturals has a least element.                    *)
LEMMA LeastNatural ==
  ASSUME NEW T \in SUBSET Nat, T # {}
  PROVE  \E x \in T : \A y \in T : x <= y
<1> DEFINE R == {ss \in Nat \X Nat : ss[1] < ss[2]}
<1>1. IsWellFoundedOn(R, Nat)
  BY NatLessThanWellFounded DEF OpToRel
<1> HIDE DEF R
<1>2. PICK x \in T : \A y \in T : <<y, x>> \notin R
  BY <1>1, WFMin
<1>3. \A y \in T : ~(y < x)
  BY <1>2 DEF R
<1> QED
  BY <1>3

LEMMA SetInduction ==
  ASSUME NEW S, IsFiniteSet(S), NEW T,
         \A s \in SUBSET S : (\A r \in SUBSET s : r # s => r \in T) => s \in T
  PROVE  \A s \in SUBSET S : s \in T
<1> SUFFICES ASSUME NEW b \in SUBSET S, b \notin T PROVE FALSE
  OBVIOUS
<1>1. PICK B : B = {s \in SUBSET S : s \notin T}
  OBVIOUS
<1>2. \A s \in SUBSET S : IsFiniteSet(s) /\ Cardinality(s) \in Nat
  BY FS_Subset, FS_CardinalityType
<1>3. PICK N : N = {Cardinality(s) : s \in B}
  OBVIOUS
<1>4. N \in SUBSET Nat /\ N # {}
  BY <1>1, <1>2, <1>3
<1>7. PICK n \in N : \A k \in N : n <= k
  BY <1>4, LeastNatural
<1>5. PICK s \in B : \A r \in B : Cardinality(s) <= Cardinality(r)
  BY <1>3, <1>7
<1>6. ASSUME NEW r \in SUBSET s, r # s
      PROVE  r \in T
  <2>1. IsFiniteSet(s) /\ r \in SUBSET S
    BY <1>1, <1>2, <1>5
  <2>2. Cardinality(r) <= Cardinality(s) /\ Cardinality(r) # Cardinality(s)
    BY <1>6, <2>1, FS_Subset
  <2>3. Cardinality(r) \in Nat /\ Cardinality(s) \in Nat
    BY <1>1, <1>2, <1>5, <2>1
  <2>4. ~(Cardinality(s) <= Cardinality(r))
    BY <2>2, <2>3
  <2> QED
    BY <1>1, <1>5, <2>1, <2>4
<1> QED
  BY <1>1, <1>5, <1>6

Pick(s) == CHOOSE x \in s : TRUE

(* g sums f over the subsets of S.                                         *)
Sums(f, S, g) ==
  g = [s \in SUBSET S |-> IF s = {} THEN 0 ELSE f[Pick(s)] + g[s \ {Pick(s)}]]

LEMMA PickIn == \A s : s # {} => Pick(s) \in s
  BY DEF Pick

LEMMA SumsAgree ==
  ASSUME NEW e, NEW f, NEW R, NEW S, NEW g, NEW h, Sums(e, R, g), Sums(f, S, h),
         NEW t, t \subseteq R, t \subseteq S, IsFiniteSet(t), \A x \in t : e[x] = f[x]
  PROVE  g[t] = h[t]
<1>1. PICK T : T = {s \in SUBSET t : g[s] = h[s]}
  OBVIOUS
<1>2. ASSUME NEW s \in SUBSET t, \A r \in SUBSET s : r # s => r \in T
      PROVE  s \in T
  <2>1. s \in SUBSET R /\ s \in SUBSET S
    OBVIOUS
  <2>2. CASE s = {}
    BY <1>1, <2>1, <2>2 DEF Sums
  <2>3. CASE s # {}
    <3>1. PICK p : p = Pick(s) /\ p \in s
      BY <2>3, PickIn
    <3>2. g[s] = e[p] + g[s \ {p}] /\ h[s] = f[p] + h[s \ {p}]
      BY <2>1, <2>3, <3>1 DEF Sums
    <3>3. g[s \ {p}] = h[s \ {p}]
      BY <1>1, <1>2, <3>1
    <3> QED
      BY <1>1, <3>1, <3>2, <3>3
  <2> QED
    BY <2>2, <2>3
<1>3. \A s \in SUBSET t : s \in T
  BY <1>2, SetInduction
<1> QED
  BY <1>1, <1>3

LEMMA SumsExist ==
  ASSUME NEW S, IsFiniteSet(S), NEW f
  PROVE  \E g : Sums(f, S, g)
<1>1. PICK T : T = {s \in SUBSET S : \E g : Sums(f, s, g)}
  OBVIOUS
<1>2. ASSUME NEW s \in SUBSET S, \A r \in SUBSET s : r # s => r \in T
      PROVE  \E g : Sums(f, s, g)
  <2>1. PICK v : v = [r \in SUBSET s |-> (CHOOSE g : Sums(f, r, g))[r]]
    OBVIOUS
  <2>2. PICK g : g = [r \in SUBSET s |->
                        IF r = {} THEN 0 ELSE f[Pick(r)] + v[r \ {Pick(r)}]]
    OBVIOUS
  <2>3. ASSUME NEW r \in SUBSET s, r # s
        PROVE  v[r] = IF r = {} THEN 0 ELSE f[Pick(r)] + v[r \ {Pick(r)}]
    <3>1. PICK h : h = CHOOSE x : Sums(f, r, x)
      OBVIOUS
    <3>2. Sums(f, r, h) /\ v[r] = h[r]
      BY <1>1, <1>2, <2>1, <2>3, <3>1
    <3>3. CASE r = {}
      BY <3>2, <3>3 DEF Sums
    <3>4. CASE r # {}
      <4>1. PICK p : p = Pick(r) /\ p \in r
        BY <3>4, PickIn
      <4>2. h[r] = f[p] + h[r \ {p}]
        BY <3>2, <3>4, <4>1 DEF Sums
      <4>3. PICK k : k = CHOOSE x : Sums(f, r \ {p}, x)
        OBVIOUS
      <4>4. Sums(f, r \ {p}, k) /\ v[r \ {p}] = k[r \ {p}]
        <5>1. r \ {p} \in SUBSET s /\ r \ {p} # s
          BY <2>3, <4>1
        <5> QED
          BY <1>1, <1>2, <2>1, <4>3, <5>1
      <4>5. IsFiniteSet(r \ {p})
        BY FS_Subset
      <4>6. h[r \ {p}] = k[r \ {p}]
        BY <3>2, <4>4, <4>5, SumsAgree
      <4> QED
        BY <3>2, <3>4, <4>1, <4>2, <4>4, <4>6
    <3> QED
      BY <3>3, <3>4
  <2>4. \A r \in SUBSET s : r # {} => v[r \ {Pick(r)}] = g[r \ {Pick(r)}]
    <3> SUFFICES ASSUME NEW r \in SUBSET s, r # {}
                 PROVE  v[r \ {Pick(r)}] = g[r \ {Pick(r)}]
      OBVIOUS
    <3>1. PICK q : q = r \ {Pick(r)}
      OBVIOUS
    <3>2. q \in SUBSET s /\ q # s
      BY <3>1, PickIn
    <3> QED
      BY <2>2, <2>3, <3>1, <3>2
  <2>5. g = [r \in SUBSET s |->
              IF r = {} THEN 0 ELSE f[Pick(r)] + g[r \ {Pick(r)}]]
    BY <2>2, <2>4
  <2> QED
    BY <2>5 DEF Sums
<1>3. \A s \in SUBSET S : s \in T
  BY <1>1, <1>2, SetInduction
<1> QED
  BY <1>1, <1>3

LEMMA SumIs ==
  ASSUME NEW S, IsFiniteSet(S), NEW f
  PROVE  \E g : Sums(f, S, g) /\ SumFunctionOnSet(f, S) = g[S]
<1>1. PICK h : h = CHOOSE g : Sums(f, S, g)
  OBVIOUS
<1>2. Sums(f, S, h)
  BY <1>1, SumsExist
<1>3. SumFunctionOnSet(f, S) = h[S]
  BY <1>1 DEF SumFunctionOnSet, FoldFunctionOnSet, MapThenFoldSet, Sums, Pick
<1> QED
  BY <1>2, <1>3

(* The order in which the elements are added does not matter.              *)
LEMMA SumsTake ==
  ASSUME NEW S, IsFiniteSet(S), NEW f, NEW g, Sums(f, S, g),
         \A x \in S : f[x] \in Int
  PROVE  \A s \in SUBSET S : g[s] \in Int /\ \A x \in s : g[s] = f[x] + g[s \ {x}]
<1>1. PICK T : T = {s \in SUBSET S :
                      g[s] \in Int /\ \A x \in s : g[s] = f[x] + g[s \ {x}]}
  OBVIOUS
<1>2. ASSUME NEW s \in SUBSET S, \A r \in SUBSET s : r # s => r \in T
      PROVE  s \in T
  <2>1. CASE s = {}
    BY <1>1, <2>1 DEF Sums
  <2>2. CASE s # {}
    <3>1. PICK p : p = Pick(s) /\ p \in s
      BY <2>2, PickIn
    <3>2. g[s] = f[p] + g[s \ {p}] /\ f[p] \in Int
      BY <2>2, <3>1 DEF Sums
    <3>3. \A r \in SUBSET s : r # s =>
            g[r] \in Int /\ \A x \in r : g[r] = f[x] + g[r \ {x}]
      BY <1>1, <1>2
    <3>4. s \ {p} \in SUBSET s /\ s \ {p} # s
      BY <3>1
    <3>5. g[s] \in Int
      BY <3>2, <3>3, <3>4
    <3>6. ASSUME NEW x \in s, x # p
          PROVE  g[s] = f[x] + g[s \ {x}]
      <4>1. PICK q : q = s \ {p, x}
        OBVIOUS
      <4>2. /\ (s \ {p}) \ {x} = q /\ (s \ {x}) \ {p} = q
            /\ s \ {x} \in SUBSET s /\ s \ {x} # s
            /\ q \in SUBSET s /\ q # s
        BY <3>1, <3>6, <4>1
      <4>3. g[s \ {p}] = f[x] + g[q]
        BY <3>3, <3>4, <3>6, <4>2
      <4>4. g[s \ {x}] = f[p] + g[q]
        <5>1. p \in s \ {x}
          BY <3>1, <3>6
        <5>2. g[s \ {x}] = f[p] + g[(s \ {x}) \ {p}]
          BY <3>3, <4>2, <5>1
        <5> QED
          BY <4>2, <5>2
      <4>5. g[q] \in Int /\ f[x] \in Int /\ g[s \ {p}] \in Int /\ g[s \ {x}] \in Int
        BY <3>3, <3>4, <4>2
      <4> QED
        BY <3>2, <4>3, <4>4, <4>5
    <3>7. \A x \in s : g[s] = f[x] + g[s \ {x}]
      BY <3>1, <3>2, <3>6
    <3> QED
      BY <1>1, <3>5, <3>7
  <2> QED
    BY <2>1, <2>2
<1>3. \A s \in SUBSET S : s \in T
  BY <1>2, SetInduction
<1> QED
  BY <1>1, <1>3

(* What is used of sums elsewhere.                                         *)
LEMMA SumEmpty == \A f : SumFunctionOnSet(f, {}) = 0
<1> SUFFICES ASSUME NEW f PROVE SumFunctionOnSet(f, {}) = 0
  OBVIOUS
<1>1. PICK g : Sums(f, {}, g) /\ SumFunctionOnSet(f, {}) = g[{}]
  BY SumIs, FS_EmptySet
<1> QED
  BY <1>1 DEF Sums

LEMMA SumSame ==
  ASSUME NEW S, IsFiniteSet(S), NEW f, NEW h, \A x \in S : f[x] = h[x]
  PROVE  SumFunctionOnSet(f, S) = SumFunctionOnSet(h, S)
<1>1. PICK g : Sums(f, S, g) /\ SumFunctionOnSet(f, S) = g[S]
  BY SumIs
<1>2. PICK k : Sums(h, S, k) /\ SumFunctionOnSet(h, S) = k[S]
  BY SumIs
<1> QED
  BY <1>1, <1>2, SumsAgree

LEMMA SumTake ==
  ASSUME NEW S, IsFiniteSet(S), NEW f, \A x \in S : f[x] \in Int
  PROVE  /\ SumFunctionOnSet(f, S) \in Int
         /\ \A x \in S : SumFunctionOnSet(f, S) = f[x] + SumFunctionOnSet(f, S \ {x})
<1>1. PICK g : Sums(f, S, g) /\ SumFunctionOnSet(f, S) = g[S]
  BY SumIs
<1>2. g[S] \in Int /\ \A x \in S : g[S] = f[x] + g[S \ {x}]
  <2>0. Sums(f, S, g) /\ \A x \in S : f[x] \in Int
    BY <1>1
  <2>1. \A s \in SUBSET S : g[s] \in Int /\ \A x \in s : g[s] = f[x] + g[s \ {x}]
    <3> SUFFICES ASSUME NEW s \in SUBSET S
                 PROVE  g[s] \in Int /\ \A x \in s : g[s] = f[x] + g[s \ {x}]
      OBVIOUS
    <3>1. g[s] \in Int
      BY <2>0, SumsTake
    <3>2. ASSUME NEW x \in s PROVE g[s] = f[x] + g[s \ {x}]
      BY <2>0, SumsTake
    <3> QED
      BY <3>1, <3>2
  <2> QED
    BY <2>1
<1>3. ASSUME NEW x \in S
      PROVE  SumFunctionOnSet(f, S \ {x}) = g[S \ {x}]
  <2>1. IsFiniteSet(S \ {x})
    BY FS_Subset
  <2>2. PICK k : Sums(f, S \ {x}, k) /\ SumFunctionOnSet(f, S \ {x}) = k[S \ {x}]
    BY <2>1, SumIs
  <2> QED
    BY <1>1, <2>1, <2>2, SumsAgree
<1> QED
  BY <1>1, <1>2, <1>3

LEMMA SumChange ==
  ASSUME NEW S, IsFiniteSet(S), NEW x \in S, NEW f, NEW h,
         \A y \in S : f[y] \in Int /\ h[y] \in Int,
         \A y \in S \ {x} : f[y] = h[y]
  PROVE  /\ SumFunctionOnSet(f, S) \in Int
         /\ SumFunctionOnSet(h, S) = SumFunctionOnSet(f, S) - f[x] + h[x]
<1>1. IsFiniteSet(S \ {x})
  BY FS_Subset
<1>2. SumFunctionOnSet(f, S \ {x}) = SumFunctionOnSet(h, S \ {x})
  BY <1>1, SumSame
<1>3. SumFunctionOnSet(f, S \ {x}) \in Int
  BY <1>1, SumTake
<1>4. /\ SumFunctionOnSet(f, S) = f[x] + SumFunctionOnSet(f, S \ {x})
      /\ SumFunctionOnSet(f, S) \in Int
  BY SumTake
<1>5. SumFunctionOnSet(h, S) = h[x] + SumFunctionOnSet(h, S \ {x})
  BY SumTake
<1> QED
  BY <1>2, <1>3, <1>4, <1>5

LEMMA SumAdd ==
  ASSUME NEW S, IsFiniteSet(S), NEW x, x \notin S, NEW f, NEW h,
         \A y \in S : f[y] \in Int /\ h[y] = f[y], h[x] \in Int
  PROVE  /\ SumFunctionOnSet(f, S) \in Int
         /\ SumFunctionOnSet(h, S \cup {x}) = SumFunctionOnSet(f, S) + h[x]
<1>1. PICK T : T = S \cup {x}
  OBVIOUS
<1>2. IsFiniteSet(T) /\ x \in T /\ T \ {x} = S /\ \A y \in T : h[y] \in Int
  BY <1>1, FS_AddElement
<1>3. SumFunctionOnSet(h, T) = h[x] + SumFunctionOnSet(h, T \ {x})
  BY <1>2, SumTake
<1>4. SumFunctionOnSet(h, S) = SumFunctionOnSet(f, S)
  BY SumSame
<1>5. SumFunctionOnSet(f, S) \in Int
  BY SumTake
<1>6. SumFunctionOnSet(h, T) = h[x] + SumFunctionOnSet(f, S)
  BY <1>2, <1>3, <1>4
<1> QED
  BY <1>1, <1>5, <1>6

LEMMA SumZero ==
  ASSUME NEW S, IsFiniteSet(S), NEW f, \A x \in S : f[x] = 0
  PROVE  SumFunctionOnSet(f, S) = 0
<1>1. PICK g : Sums(f, S, g) /\ SumFunctionOnSet(f, S) = g[S]
  BY SumIs
<1>2. PICK z : z = [s \in SUBSET S |-> 0]
  OBVIOUS
<1>3. \A s \in SUBSET S : s # {} => f[Pick(s)] = 0
  BY PickIn
<1>4. Sums(f, S, z)
  BY <1>2, <1>3 DEF Sums
<1> QED
  BY <1>1, <1>2, <1>4, SumsAgree

LEMMA SumNat ==
  ASSUME NEW S, IsFiniteSet(S), NEW f, \A x \in S : f[x] \in Nat
  PROVE  SumFunctionOnSet(f, S) \in Nat
<1>1. PICK T : T = {s \in SUBSET S : SumFunctionOnSet(f, s) \in Nat}
  OBVIOUS
<1>2. ASSUME NEW s \in SUBSET S, \A r \in SUBSET s : r # s => r \in T
      PROVE  s \in T
  <2>1. CASE s = {}
    BY <1>1, <2>1, SumEmpty
  <2>2. CASE s # {}
    <3>1. PICK x \in s : TRUE
      BY <2>2
    <3>2. IsFiniteSet(s)
      BY FS_Subset
    <3>3. SumFunctionOnSet(f, s) = f[x] + SumFunctionOnSet(f, s \ {x})
      BY <3>1, <3>2, SumTake
    <3>4. s \ {x} \in T
      BY <1>2, <3>1
    <3> QED
      BY <1>1, <3>1, <3>3, <3>4
  <2> QED
    BY <2>1, <2>2
<1>3. \A s \in SUBSET S : s \in T
  BY <1>2, SetInduction
<1> QED
  BY <1>1, <1>3

-----------------------------------------------------------------------------
(* The sum of the model is the one the lemmas are about.                   *)
LEMMA SumOverIs ==
  ASSUME NEW l, NEW S \in SUBSET Receipts, IsFiniteSet(S)
  PROVE  SumOver(l, S) = SumFunctionOnSet(Amount(l), S)
<1> DEFINE P(g) == g = [s \in SUBSET S |->
                          IF s = {} THEN 0
                          ELSE receipt[Pick(s)].lines[l].received
                               + g[s \ {Pick(s)}]]
<1>1. PICK h : h = CHOOSE g : P(g)
  OBVIOUS
<1>2. PICK f : f = Amount(l)
  OBVIOUS
<1>3. ASSUME NEW g
      PROVE  P(g) <=> Sums(f, S, g)
  <2>1. \A s \in SUBSET S : s # {} =>
          f[Pick(s)] = receipt[Pick(s)].lines[l].received
    BY <1>2, PickIn DEF Amount
  <2> QED
    BY <2>1 DEF Sums
<1>4. \E g : Sums(f, S, g)
  BY SumsExist
<1>5. P(h)
  BY <1>1, <1>3, <1>4
<1>6. SumOver(l, S) = h[S]
  BY <1>1 DEF SumOver, MapThenSumSet, MapThenFoldSet, Pick
<1>7. Sums(f, S, h)
  BY <1>3, <1>5
<1>8. PICK g : Sums(f, S, g) /\ SumFunctionOnSet(f, S) = g[S]
  BY SumIs
<1> QED
  BY <1>2, <1>6, <1>7, <1>8, SumsAgree

LEMMA DeliveryFacts ==
  ASSUME NEW d \in Deliveries
  PROVE  /\ DOMAIN d \subseteq Lines /\ DOMAIN d # {}
         /\ \A l \in DOMAIN d : d[l].received \in Nat \ {0} /\ Delivered(d, l) \in Nat
                                /\ Delivered(d, l) = d[l].received
         /\ \A l \in Lines : Delivered(d, l) \in Nat
         /\ \A l \in Lines \ DOMAIN d : Delivered(d, l) = 0
         /\ Stocked(d) \subseteq DOMAIN d
BY GoodsReceiptAssumption DEF GoodsReceiptAssumption, Delivered, Stocked

LEMMA RowFacts ==
  ASSUME Types, NEW r \in Receipts
  PROVE  /\ receipt[r] = Absent \/ receipt[r] \in Rows
         /\ receipt[r] # Absent <=> receipt[r].status # "ABSENT"
         /\ receipt[r] # Absent => receipt[r] \in Rows /\ receipt[r].lines \in Deliveries
<1>1. receipt[r] = Absent \/ receipt[r] \in Rows
  BY DEF Types
<1>2. \A x \in Rows : x.status # "ABSENT" /\ x.lines \in Deliveries
  BY DEF Rows
<1>3. Absent.status = "ABSENT"
  BY DEF Absent
<1> QED
  BY <1>1, <1>2, <1>3

(* The posted receipts that list an item.                                  *)
LEMMA PostedWithFacts ==
  ASSUME Types, NEW l \in Lines
  PROVE  /\ PostedWith(l) = {r \in Posted : Lists(r, l)}
         /\ PostedWith(l) \in SUBSET Receipts
         /\ IsFiniteSet(PostedWith(l))
         /\ \A r \in PostedWith(l) : receipt[r].lines[l].received \in Nat
         /\ SumOver(l, PostedWith(l)) = Listings(l) /\ Listings(l) \in Nat
         /\ PostedWith(l) = {} => Listings(l) = 0
<1>1. PostedWith(l) = {r \in Posted : Lists(r, l)}
  BY DEF PostedWith, Posted
<1>2. PostedWith(l) \in SUBSET Receipts
  BY DEF PostedWith
<1>3. IsFiniteSet(PostedWith(l))
  BY <1>1, FS_Subset DEF Types
<1>4. \A r \in PostedWith(l) : receipt[r].lines[l].received \in Nat
  <2> SUFFICES ASSUME NEW r \in PostedWith(l)
               PROVE  receipt[r].lines[l].received \in Nat
    OBVIOUS
  <2>1. receipt[r].status # "ABSENT" /\ l \in DOMAIN receipt[r].lines
    BY DEF PostedWith, Lists
  <2>2. receipt[r].lines \in Deliveries
    BY <1>2, <2>1, RowFacts
  <2> QED
    BY <2>1, <2>2, DeliveryFacts
<1>5. \A r \in PostedWith(l) : Amount(l)[r] \in Nat
  BY <1>2, <1>4 DEF Amount
<1>6. SumOver(l, PostedWith(l)) = SumFunctionOnSet(Amount(l), PostedWith(l))
  BY <1>2, <1>3, SumOverIs
<1> QED
  BY <1>1, <1>2, <1>3, <1>4, <1>5, <1>6, SumNat, SumEmpty DEF Listings

LEMMA CumulativeNat ==
  ASSUME Types, NEW q \in Quantities, NEW l \in Lines
  PROVE  Cumulative(l, q) \in Nat
<1>1. q[l] \in Nat
  BY DEF Quantities
<1> QED
  BY <1>1, PostedWithFacts DEF Cumulative

(* As long as nothing is disturbed both sources agree.                     *)
LEMMA CumulativeIsReceived ==
  ASSUME Types, AddsUp, NEW l \in Lines
  PROVE  /\ Cumulative(l, received) = received[l]
         /\ received[l] \in Nat /\ received[l] <= Ordered[l]
BY PostedWithFacts DEF Cumulative, AddsUp

(* The sums when no posted receipt changes, when one is posted, and when   *)
(* one is reversed.                                                        *)
LEMMA ListingsKept ==
  ASSUME Types, NEW l \in Lines, Posted' = Posted,
         \A r \in Posted : receipt'[r] # Absent /\ receipt'[r].lines = receipt[r].lines
  PROVE  Listings(l)' = Listings(l)
<1>1. PICK S, T, e, f : /\ S = PostedWith(l) /\ T = PostedWith(l)'
                        /\ e = Amount(l) /\ f = Amount(l)'
  OBVIOUS
<1>2. T = S
  BY <1>1 DEF PostedWith, Posted, Lists
<1>3. S \in SUBSET Receipts /\ IsFiniteSet(S)
  BY <1>1, PostedWithFacts
<1>4. \A r \in S : e[r] = f[r]
  BY <1>1, <1>3 DEF Amount, PostedWith, Posted
<1>5. Listings(l) = SumFunctionOnSet(e, S) /\ Listings(l)' = SumFunctionOnSet(f, T)
  BY <1>1 DEF Listings
<1> QED
  BY <1>2, <1>3, <1>4, <1>5, SumSame

LEMMA ListingsGrow ==
  ASSUME Types, NEW l \in Lines, NEW r \in Receipts, receipt[r].status = "DRAFT",
         receipt' \in [Receipts -> Rows \cup {Absent}],
         \A x \in Receipts : x # r => receipt'[x] = receipt[x],
         receipt'[r].status = "POSTED", receipt'[r].lines = receipt[r].lines
  PROVE  Listings(l)' = Listings(l) + Delivered(receipt[r].lines, l)
<1>1. PICK S, T, e, f : /\ S = PostedWith(l) /\ T = PostedWith(l)'
                        /\ e = Amount(l) /\ f = Amount(l)'
  OBVIOUS
<1>2. /\ r \notin S /\ T = S \cup (IF l \in DOMAIN receipt[r].lines THEN {r} ELSE {})
      /\ S \in SUBSET Receipts /\ IsFiniteSet(S)
  BY <1>1, PostedWithFacts DEF PostedWith, Lists
<1>3. \A x \in S : e[x] = f[x] /\ e[x] \in Nat
  BY <1>1, <1>2, PostedWithFacts DEF Amount
<1>4. receipt[r].lines \in Deliveries
  BY RowFacts
<1>5. Listings(l) = SumFunctionOnSet(e, S) /\ Listings(l)' = SumFunctionOnSet(f, T)
  BY <1>1 DEF Listings
<1>6. CASE l \in DOMAIN receipt[r].lines
  <2>1. f[r] = receipt[r].lines[l].received
    BY <1>1 DEF Amount
  <2>2. f[r] = Delivered(receipt[r].lines, l) /\ f[r] \in Int
    BY <1>4, <1>6, <2>1, DeliveryFacts
  <2>3. SumFunctionOnSet(f, S \cup {r}) = SumFunctionOnSet(e, S) + f[r]
    <3>1. \A x \in S : e[x] \in Int /\ f[x] = e[x]
      BY <1>3
    <3> QED
      BY ONLY <1>2, <2>2, <3>1, SumAdd
  <2> QED
    BY <1>2, <1>5, <1>6, <2>2, <2>3
<1>7. CASE l \notin DOMAIN receipt[r].lines
  <2>1. T = S /\ Delivered(receipt[r].lines, l) = 0
    BY <1>2, <1>4, <1>7, DeliveryFacts
  <2>2. SumFunctionOnSet(f, S) = SumFunctionOnSet(e, S)
    BY <1>2, <1>3, SumSame
  <2> QED
    BY <1>5, <2>1, <2>2, PostedWithFacts
<1> QED
  BY <1>6, <1>7

LEMMA ListingsShrink ==
  ASSUME Types, NEW l \in Lines, NEW r \in Receipts, receipt[r].status = "POSTED",
         receipt' \in [Receipts -> Rows \cup {Absent}],
         \A x \in Receipts : x # r => receipt'[x] = receipt[x],
         receipt'[r].status # "POSTED"
  PROVE  Listings(l)' = Listings(l) - Delivered(receipt[r].lines, l)
<1>1. PICK S, T, e, f : /\ S = PostedWith(l) /\ T = PostedWith(l)'
                        /\ e = Amount(l) /\ f = Amount(l)'
  OBVIOUS
<1>2. /\ T = S \ {r} /\ (r \in S <=> l \in DOMAIN receipt[r].lines)
      /\ S \in SUBSET Receipts /\ IsFiniteSet(S) /\ IsFiniteSet(T)
  <2>1. T = S \ {r} /\ (r \in S <=> l \in DOMAIN receipt[r].lines)
    BY <1>1 DEF PostedWith, Lists
  <2>2. S \in SUBSET Receipts /\ IsFiniteSet(S)
    BY <1>1, PostedWithFacts
  <2> QED
    BY <2>1, <2>2, FS_Subset
<1>3. /\ \A x \in S : e[x] \in Int
      /\ \A x \in T : e[x] = f[x]
  BY <1>1, <1>2, PostedWithFacts DEF Amount
<1>4. receipt[r].lines \in Deliveries
  BY RowFacts
<1>5. Listings(l) = SumFunctionOnSet(e, S) /\ Listings(l)' = SumFunctionOnSet(f, T)
      /\ SumFunctionOnSet(e, T) = SumFunctionOnSet(f, T)
  BY <1>1, <1>2, <1>3, SumSame DEF Listings
<1>6. CASE l \in DOMAIN receipt[r].lines
  <2>1. e[r] = Delivered(receipt[r].lines, l)
    BY <1>1, <1>4, <1>6, DeliveryFacts DEF Amount
  <2>2. /\ SumFunctionOnSet(e, S) = e[r] + SumFunctionOnSet(e, S \ {r})
        /\ e[r] \in Int
    BY <1>2, <1>3, <1>6, SumTake
  <2>3. SumFunctionOnSet(e, T) \in Int
    BY <1>2, <1>3, SumTake
  <2> QED
    BY <1>2, <1>5, <2>1, <2>2, <2>3
<1>7. CASE l \notin DOMAIN receipt[r].lines
  <2>1. T = S /\ Delivered(receipt[r].lines, l) = 0
    BY <1>2, <1>4, <1>7, DeliveryFacts
  <2> QED
    BY <1>5, <2>1, PostedWithFacts
<1> QED
  BY <1>6, <1>7

-----------------------------------------------------------------------------
(* The tables of statuses.                                                 *)
Moved == {"PARTIALLY_RECEIVED", "RECEIVED", "CLOSED", "CANCELLED"}

LEMMA ChangeFacts ==
  ASSUME NEW t \in DOMAIN Change
  PROVE  /\ Change[t].to \in OrderStatuses \ {"PARTIALLY_RECEIVED"}
         /\ Change[t].to \notin Moved => Change[t].from \cap Moved = {}
<1>1. t \in {"update", "submit", "approve", "issue", "acknowledge", "markReceived",
             "close", "cancel"}
  BY DEF Change
<1>2. CASE t \in {"update", "submit", "approve"}
  BY <1>2 DEF Change, OrderStatuses, Receivable, Moved
<1>3. CASE t \in {"issue", "acknowledge", "markReceived"}
  BY <1>3 DEF Change, OrderStatuses, Receivable, Moved
<1>4. CASE t \in {"close", "cancel"}
  BY <1>4 DEF Change, OrderStatuses, Receivable, Moved
<1> QED
  BY <1>1, <1>2, <1>3, <1>4

LEMMA StatusForFacts ==
  ASSUME NEW q, NEW s \in OrderStatuses
  PROVE  StatusFor(q, s) \in OrderStatuses
BY DEF StatusFor, OrderStatuses, Receivable

-----------------------------------------------------------------------------
(* A request takes a step that writes nothing but what it has read.        *)
LEMMA StepKeeps ==
  ASSUME IInv, NEW c \in Callers, NEW k, Shape(k), ToldCall(k),
         c \notin stale /\ ~disturbed => Fresh(k),
         call[c].op = "post" /\ call[c].step = "book" =>
           /\ k.op = "post" /\ k.step = "book"
           /\ k.receipt = call[c].receipt /\ k.row = call[c].row,
         call' = [call EXCEPT ![c] = k],
         UNCHANGED <<order, received, receipt, booked, stale, disturbed, edits, cutOff>>
  PROVE  IInv'
<1>1. /\ call' = [d \in Callers |-> IF d = c THEN k ELSE call[d]]
      /\ \A d \in Callers : call'[d] = IF d = c THEN k ELSE call[d]
  BY DEF IInv, Types
<1>2. \A x : Shape(x) <=> Shape(x)'
  BY DEF Shape
<1>3. \A x : ToldCall(x) <=> ToldCall(x)'
  BY DEF ToldCall
<1>4. \A x : Fresh(x) <=> Fresh(x)'
  BY DEF Fresh
<1>5. Types'
  <2>1. \A d \in Callers : Shape(call[d])'
    BY <1>1, <1>2 DEF IInv, Types
  <2>2. call' = [d \in Callers |-> call'[d]]
    BY <1>1
  <2> QED
    BY <2>1, <2>2 DEF IInv, Types, Posted
<1>6. Told'
  <2>1. \A d \in Callers : ToldCall(call[d])'
    BY <1>1, <1>3 DEF IInv, Told
  <2> QED
    BY <2>1 DEF IInv, Told, Listed
<1>7. ASSUME ~disturbed' PROVE Undisturbed'
  <2>0. Undisturbed /\ ~disturbed
    BY <1>7 DEF IInv
  <2>1. \A d \in Callers \ stale' : Fresh(call[d])'
    BY <1>1, <1>4, <2>0 DEF Undisturbed
  <2>2. ASSUME NEW m \in booked' PROVE Accounted(m)'
    <3>1. Accounted(m) /\ m \in booked
      BY <2>0, <2>2 DEF Undisturbed
    <3>2. ASSUME NEW d \in Callers, call[d].op = "post", call[d].step = "book",
                 call[d].receipt = m.receipt, call[d].row.edition = m.edition
          PROVE  Accounted(m)'
      <4>1. /\ call'[d].op = "post" /\ call'[d].step = "book"
            /\ call'[d].receipt = m.receipt /\ call'[d].row.edition = m.edition
        BY <1>1, <3>2
      <4> QED
        BY <4>1 DEF Accounted
    <3> QED
      BY <3>1, <3>2 DEF Accounted
  <2>3. AddsUp'
    BY <2>0 DEF Undisturbed, AddsUp, Listings, Amount, PostedWith, Lists
  <2>4. OrderFollowsReceipts' /\ PostedIsBooked'
    BY <2>0 DEF Undisturbed, OrderFollowsReceipts, PostedIsBooked, Posted, Listed
  <2> QED
    BY <2>1, <2>2, <2>3, <2>4 DEF Undisturbed
<1> QED
  BY <1>5, <1>6, <1>7 DEF IInv

(* A request ends; what the others carry is what it was.                   *)
LEMMA OthersKept ==
  ASSUME IInv, NEW c \in Callers, call' = [call EXCEPT ![c] = Idle],
         booked' = booked, edits' \in Nat, edits <= edits',
         \A r \in Receipts : receipt[r] # Absent =>
           /\ receipt'[r] # Absent
           /\ \/ receipt'[r].edition > edits
              \/ /\ receipt'[r].edition = receipt[r].edition
                 /\ receipt'[r].lines = receipt[r].lines,
         \A r \in Receipts : receipt'[r] # Absent => receipt'[r].edition <= edits',
         receipt' \in [Receipts -> Rows \cup {Absent}]
  PROVE  /\ call' = [d \in Callers |-> call'[d]]
         /\ call'[c] = Idle /\ \A d \in Callers \ {c} : call'[d] = call[d]
         /\ \A d \in Callers : Shape(call[d])'
         /\ Told'
<1>1. /\ call' = [d \in Callers |-> IF d = c THEN Idle ELSE call[d]]
      /\ \A d \in Callers : call'[d] = IF d = c THEN Idle ELSE call[d]
  BY DEF IInv, Types
<1>2. Idle.op = "none"
  BY DEF Idle
<1>3. \A d \in Callers : Shape(call[d])'
  <2>1. \A x : Shape(x) => Shape(x)'
    BY DEF Shape
  <2>2. Shape(Idle)
    BY <1>2 DEF Shape
  <2> QED
    BY <1>1, <2>1, <2>2 DEF IInv, Types
<1>4. \A d \in Callers : ToldCall(call[d])'
  <2>1. ASSUME NEW x, Shape(x), ToldCall(x) PROVE ToldCall(x)'
    <3>1. CASE x.op \in {"post", "reverse"}
      <4>1. /\ x.row \in Rows /\ x.row.edition \in Nat /\ x.row.edition <= edits
            /\ x.receipt \in Receipts /\ receipt[x.receipt] # Absent
            /\ x.row.edition = receipt[x.receipt].edition =>
                 x.row.lines = receipt[x.receipt].lines
        BY <2>1, <3>1 DEF Shape, ToldCall, Rows
      <4>2. receipt'[x.receipt] \in Rows
        BY <4>1
      <4>3. receipt'[x.receipt].edition \in Nat /\ edits \in Nat
        BY <4>2 DEF Rows, IInv, Types
      <4>4. x.row.edition <= edits'
        BY <4>1, <4>3
      <4>5. x.row.edition = receipt'[x.receipt].edition =>
              x.row.lines = receipt'[x.receipt].lines
        BY <4>1, <4>3
      <4> QED
        BY <2>1, <4>4, <4>5 DEF ToldCall
    <3>2. CASE x.op \notin {"post", "reverse"}
      BY <3>2 DEF ToldCall
    <3> QED
      BY <3>1, <3>2
  <2>2. ToldCall(Idle)'
    BY <1>2 DEF ToldCall
  <2>3. \A d \in Callers : d # c => ToldCall(call[d])'
    BY <1>1, <2>1 DEF IInv, Types, Told
  <2> QED
    BY <1>1, <2>2, <2>3
<1>5. ASSUME NEW m \in booked'
      PROVE  /\ receipt'[m.receipt] # Absent
             /\ m.edition <= edits'
             /\ m.edition = receipt'[m.receipt].edition =>
                  m.line \in Stocked(receipt'[m.receipt].lines)
  <2>1. /\ m \in booked /\ m.receipt \in Receipts /\ m.edition \in Nat
        /\ receipt[m.receipt] # Absent /\ m.edition <= edits
        /\ m.edition = receipt[m.receipt].edition =>
             m.line \in Stocked(receipt[m.receipt].lines)
    BY <1>5 DEF IInv, Types, Told, Listed
  <2>2. receipt'[m.receipt].edition \in Nat /\ edits \in Nat
    BY <2>1 DEF Rows, IInv, Types
  <2> QED
    BY <2>1, <2>2
<1> QED
  BY <1>1, <1>3, <1>4, <1>5 DEF Told, Listed

(* What the requests read, and what they compute from it.                  *)
LEMMA BeginKeeps ==
  ASSUME IInv, NEW c \in Callers,
         \/ \E t \in DOMAIN Change : BeginChange(c, t)
         \/ BeginCreate(c)
         \/ \E r \in Receipts : BeginEdit(c, r)
         \/ \E r \in Receipts : BeginPost(c, r)
         \/ \E r \in Receipts : BeginReverse(c, r)
  PROVE  IInv'
<1>0. Types /\ received \in Quantities
  BY DEF IInv, Types
<1>1. ASSUME NEW k, Shape(k), ToldCall(k), Fresh(k), Begin(c, k) PROVE IInv'
  <2>1. call[c].op = "none"
    BY <1>1 DEF Begin, Idle
  <2> QED
    BY <1>1, <2>1, StepKeeps DEF Begin
<1>2. ASSUME NEW t \in DOMAIN Change, BeginChange(c, t) PROVE IInv'
  <2>1. PICK k : k = [op |-> "change", step |-> "save", change |-> t,
                      acknowledged |-> order.acknowledged]
    OBVIOUS
  <2>2. Shape(k)
    BY <1>0, <2>1 DEF Shape, Types
  <2>3. ToldCall(k) /\ Fresh(k)
    BY <1>2, <2>1 DEF ToldCall, Fresh, BeginChange
  <2> QED
    BY <1>1, <1>2, <2>1, <2>2, <2>3 DEF BeginChange
<1>3. ASSUME BeginCreate(c) PROVE IInv'
  <2>1. PICK k : k = [op |-> "create", step |-> "count", read |-> received]
    OBVIOUS
  <2>2. Shape(k) /\ ToldCall(k) /\ Fresh(k)
    BY <1>0, <2>1 DEF Shape, ToldCall, Fresh
  <2> QED
    BY <1>1, <1>3, <2>1, <2>2 DEF BeginCreate
<1>4. ASSUME NEW r \in Receipts, BeginEdit(c, r) PROVE IInv'
  <2>0. receipt[r].status = "DRAFT" /\ receipt[r] # Absent
    BY <1>4 DEF BeginEdit, Editable, Absent
  <2>1. PICK k : k = [op |-> "edit", step |-> "order", receipt |-> r,
                      status |-> receipt[r].status]
    OBVIOUS
  <2>2. Shape(k)
    BY <2>0, <2>1 DEF Shape
  <2>3. ToldCall(k) /\ Fresh(k)
    BY <2>0, <2>1 DEF ToldCall, Fresh
  <2> QED
    BY <1>1, <1>4, <2>1, <2>2, <2>3 DEF BeginEdit
<1>5. ASSUME NEW r \in Receipts, NEW o \in {"post", "reverse"},
             receipt[r].status = IF o = "post" THEN "DRAFT" ELSE "POSTED",
             Begin(c, [op |-> o, step |-> "order", receipt |-> r, row |-> receipt[r]])
      PROVE  IInv'
  <2>0. receipt[r] # Absent
    BY <1>5 DEF Absent
  <2>1. receipt[r] \in Rows /\ receipt[r].edition <= edits
    BY <1>0, <2>0, RowFacts DEF IInv, Told
  <2>2. PICK k : k = [op |-> o, step |-> "order", receipt |-> r, row |-> receipt[r]]
    OBVIOUS
  <2>3. Shape(k)
    BY <1>5, <2>0, <2>1, <2>2 DEF Shape
  <2>4. ToldCall(k) /\ Fresh(k)
    BY <1>5, <2>1, <2>2 DEF ToldCall, Fresh
  <2> QED
    BY <1>1, <1>5, <2>2, <2>3, <2>4
<1> QED
  BY <1>2, <1>3, <1>4, <1>5 DEF BeginPost, BeginReverse

LEMMA ReadOrderForEditKeeps ==
  ASSUME IInv, NEW c \in Callers, NEW replace \in BOOLEAN, ReadOrderForEdit(c, replace)
  PROVE  IInv'
<1>0. /\ Shape(call[c]) /\ call[c].op = "edit" /\ call[c].step = "order"
      /\ received \in Quantities
      /\ c \notin stale /\ ~disturbed => Fresh(call[c])
  BY DEF ReadOrderForEdit, IInv, Types, Undisturbed
<1>1. call[c] \in [op : {"edit"}, step : {"order"}, receipt : Receipts,
                   status : {"DRAFT"}] /\ receipt[call[c].receipt] # Absent
  BY <1>0 DEF Shape
<1>2. PICK k : k = IF replace
                     THEN [op |-> "edit", step |-> "count",
                           receipt |-> call[c].receipt,
                           status |-> call[c].status, read |-> received]
                     ELSE [call[c] EXCEPT !.step = "save"]
  OBVIOUS
<1>3. /\ k.op = "edit" /\ k.receipt = call[c].receipt /\ k.status = "DRAFT"
      /\ replace => k.step = "count" /\ k.read = received
      /\ ~replace => /\ k.step = "save"
                     /\ "lines" \notin DOMAIN k
  BY <1>1, <1>2
<1>4. Shape(k)
  <2>1. /\ k.op = "edit" /\ k.status = "DRAFT" /\ k.receipt \in Receipts
        /\ receipt[k.receipt] # Absent
    BY <1>1, <1>3
  <2>2. \/ k.step = "count" /\ k.read \in Quantities
        \/ k.step = "save" /\ "lines" \notin DOMAIN k
    BY <1>0, <1>3
  <2>3. CASE k.step = "count" /\ k.read \in Quantities
    BY ONLY <2>1, <2>3 DEF Shape
  <2>4. CASE k.step = "save" /\ "lines" \notin DOMAIN k
    BY ONLY <2>1, <2>4 DEF Shape
  <2> QED
    BY <2>2, <2>3, <2>4
<1>5. ToldCall(k) /\ (c \notin stale /\ ~disturbed => Fresh(k))
  <2>1. k.op = "edit" /\ k.receipt = call[c].receipt
    BY <1>3
  <2>2. ToldCall(k)
    BY ONLY <2>1 DEF ToldCall
  <2>3. Fresh(call[c]) /\ call[c].op = "edit" => Fresh(k)
    BY ONLY <2>1 DEF Fresh
  <2> QED
    BY <1>0, <2>2, <2>3
<1> QED
  BY <1>0, <1>2, <1>4, <1>5, StepKeeps DEF ReadOrderForEdit, Continue

LEMMA CountEditKeeps ==
  ASSUME IInv, NEW c \in Callers, NEW d \in Deliveries, CountEdit(c, d)
  PROVE  IInv'
<1>0. /\ Shape(call[c]) /\ call[c].op = "edit" /\ call[c].step = "count"
      /\ c \notin stale /\ ~disturbed => Fresh(call[c])
  BY DEF CountEdit, IInv, Types, Undisturbed
<1>1. PICK k : k = [op |-> "edit", step |-> "save", receipt |-> call[c].receipt,
                    status |-> call[c].status, lines |-> d]
  OBVIOUS
<1>2. Shape(k)
  BY <1>0, <1>1 DEF Shape
<1>3. ToldCall(k) /\ (c \notin stale /\ ~disturbed => Fresh(k))
  BY <1>0, <1>1 DEF ToldCall, Fresh
<1> QED
  BY <1>0, <1>1, <1>2, <1>3, StepKeeps DEF CountEdit, Continue

LEMMA ReadOrderForPostKeeps ==
  ASSUME IInv, NEW c \in Callers, ReadOrderForPost(c)
  PROVE  IInv'
<1>0. /\ Shape(call[c]) /\ call[c].op = "post" /\ call[c].step = "order"
      /\ ToldCall(call[c]) /\ received \in Quantities /\ order.status \in Receivable
      /\ c \notin stale /\ ~disturbed => Fresh(call[c])
  BY DEF ReadOrderForPost, IInv, Types, Told, Undisturbed
<1>1. PICK k : k = [op |-> "post", step |-> "count", receipt |-> call[c].receipt,
                    row |-> call[c].row, status |-> order.status, read |-> received]
  OBVIOUS
<1>2. Shape(k)
  BY <1>0, <1>1 DEF Shape
<1>3. ToldCall(k) /\ (c \notin stale /\ ~disturbed => Fresh(k))
  BY <1>0, <1>1 DEF ToldCall, Fresh
<1> QED
  BY <1>0, <1>1, <1>2, <1>3, StepKeeps DEF ReadOrderForPost, Continue

LEMMA CountPostKeeps ==
  ASSUME IInv, NEW c \in Callers, CountPost(c)
  PROVE  IInv'
<1>0. /\ Shape(call[c]) /\ call[c].op = "post" /\ call[c].step = "count"
      /\ ToldCall(call[c]) /\ Types
      /\ ~disturbed => Undisturbed
      /\ c \notin stale /\ ~disturbed => Fresh(call[c])
  BY DEF CountPost, IInv, Types, Told, Undisturbed
<1>1. PICK d, q, total :
        /\ d = call[c].row.lines /\ q = call[c].read
        /\ total = [l \in Lines |-> Cumulative(l, q) + Delivered(d, l)]
  OBVIOUS
<1>2. d \in Deliveries /\ q \in Quantities /\ call[c].status \in Receivable
  BY <1>0, <1>1 DEF Shape, Rows
<1>3. total \in Quantities
  BY <1>0, <1>1, <1>2, CumulativeNat, DeliveryFacts DEF Quantities
<1>4. PICK k : k = [op |-> "post", step |-> "book", receipt |-> call[c].receipt,
                    row |-> call[c].row, todo |-> Stocked(d), total |-> total,
                    to |-> StatusFor(total, call[c].status)]
  OBVIOUS
<1>5. Shape(k)
  <2>1. Stocked(d) \subseteq Lines
    BY <1>2, DeliveryFacts
  <2>2. k.to \in OrderStatuses
    BY <1>2, <1>4, StatusForFacts DEF OrderStatuses
  <2> QED
    BY <1>0, <1>3, <1>4, <2>1, <2>2 DEF Shape
<1>6. ToldCall(k)
  BY <1>0, <1>1, <1>4 DEF ToldCall
<1>7. ASSUME c \notin stale, ~disturbed PROVE Fresh(k)
  <2>1. q = received /\ call[c].status = order.status
        /\ receipt[call[c].receipt] = call[c].row
    BY <1>0, <1>1, <1>7 DEF Fresh
  <2>2. ASSUME NEW l \in Lines
        PROVE  total[l] = received[l] + Delivered(d, l) /\ total[l] <= Ordered[l]
    <3>1. /\ Cumulative(l, q) = received[l] /\ received[l] <= Ordered[l]
          /\ received[l] \in Nat
      BY <1>0, <1>7, <2>1, CumulativeIsReceived DEF Undisturbed
    <3>2. total[l] = received[l] + Delivered(d, l)
      BY <1>1, <3>1
    <3>3. CASE l \in DOMAIN d
      <4>1. Cumulative(l, q) + d[l].received <= Ordered[l]
        BY <1>1, <3>3 DEF CountPost, WithinOrder
      <4> QED
        BY <1>2, <3>1, <3>2, <3>3, <4>1, DeliveryFacts
    <3>4. CASE l \notin DOMAIN d
      BY <1>2, <3>1, <3>2, <3>4, DeliveryFacts
    <3> QED
      BY <3>2, <3>3, <3>4
  <2> QED
    BY <1>1, <1>4, <2>1, <2>2 DEF Fresh
<1> QED
  BY <1>0, <1>1, <1>4, <1>5, <1>6, <1>7, StepKeeps DEF CountPost, Continue

LEMMA ReadOrderForReverseKeeps ==
  ASSUME IInv, NEW c \in Callers, ReadOrderForReverse(c)
  PROVE  IInv'
<1>0. /\ Shape(call[c]) /\ call[c].op = "reverse" /\ call[c].step = "order"
      /\ ToldCall(call[c]) /\ Types
      /\ c \notin stale /\ ~disturbed => Fresh(call[c])
  BY DEF ReadOrderForReverse, IInv, Types, Told, Undisturbed
<1>1. PICK d, rest, s :
        /\ d = call[c].row.lines
        /\ rest = [l \in Lines |-> received[l] - TakenBack(d, l)]
        /\ s = IF order.acknowledged THEN "ACKNOWLEDGED" ELSE "ISSUED"
  OBVIOUS
<1>2. d \in Deliveries /\ received \in Quantities
  BY <1>0, <1>1 DEF Shape, Rows, Types
<1>3. \A l \in Lines : rest[l] >= 0 /\ rest[l] = received[l] - Delivered(d, l)
  BY <1>1 DEF ReadOrderForReverse, TakenBack
<1>4. rest \in Quantities
  BY <1>1, <1>2, <1>3, DeliveryFacts DEF Quantities
<1>5. PICK k : k = [op |-> "reverse", step |-> "save", receipt |-> call[c].receipt,
                    row |-> call[c].row, rest |-> rest, to |-> StatusFor(rest, s)]
  OBVIOUS
<1>6. Shape(k)
  <2>1. k.to \in OrderStatuses
    BY <1>1, <1>5, StatusForFacts DEF OrderStatuses, Receivable
  <2> QED
    BY <1>0, <1>4, <1>5, <2>1 DEF Shape
<1>7. ToldCall(k)
  BY <1>0, <1>5 DEF ToldCall
<1>8. c \notin stale /\ ~disturbed => Fresh(k)
  BY <1>0, <1>1, <1>3, <1>5 DEF Fresh
<1> QED
  BY <1>0, <1>1, <1>5, <1>6, <1>7, <1>8, StepKeeps DEF ReadOrderForReverse, Continue


(* A line is booked: by a fresh posting or a stale one, as a new movement  *)
(* or a replay.                                                            *)
LEMMA BookKeeps ==
  ASSUME IInv, NEW c \in Callers, NEW l \in Lines, Book(c, l)
  PROVE  IInv'
<1>0. /\ Shape(call[c]) /\ call[c].op = "post" /\ call[c].step = "book"
      /\ ToldCall(call[c]) /\ Types /\ Told
      /\ l \in call[c].todo
      /\ c \notin stale /\ ~disturbed => Fresh(call[c])
  BY DEF Book, IInv, Types, Told, Undisturbed
<1>1. /\ call[c] \in [op : {"post"}, step : {"book"}, receipt : Receipts, row : Rows,
                      todo : SUBSET Lines, total : Quantities, to : OrderStatuses]
      /\ receipt[call[c].receipt] # Absent /\ call[c].row.status = "DRAFT"
  BY <1>0 DEF Shape
<1>2. PICK r, e, s : /\ r = call[c].receipt /\ e = call[c].row.edition
                     /\ s = call[c].row.store
  OBVIOUS
<1>3. PICK k, n : k = [call[c] EXCEPT !.todo = @ \ {l}] /\ n = Movement(r, l, e, s)
  OBVIOUS
<1>4. /\ k \in [op : {"post"}, step : {"book"}, receipt : Receipts, row : Rows,
                todo : SUBSET Lines, total : Quantities, to : OrderStatuses]
      /\ k.receipt = r /\ k.row = call[c].row /\ k.todo = call[c].todo \ {l}
      /\ k.total = call[c].total /\ k.to = call[c].to
  BY <1>1, <1>2, <1>3
<1>5. /\ r \in Receipts /\ receipt[r] # Absent /\ e \in Nat /\ s \in Stores
      /\ e <= edits /\ l \in Stocked(call[c].row.lines)
      /\ e = receipt[r].edition => call[c].row.lines = receipt[r].lines
  BY <1>0, <1>1, <1>2 DEF ToldCall, Rows
<1>6. /\ booked' \in {booked, booked \cup {n}}
      /\ n \in booked'
  <2>1. /\ \A m \in WithKey(r, l, e) : m.store = s
        /\ booked' = IF WithKey(r, l, e) # {} THEN booked ELSE booked \cup {n}
    BY <1>2, <1>3 DEF Book, Movement
  <2>2. CASE WithKey(r, l, e) # {}
    <3>1. PICK m \in booked : m.receipt = r /\ m.line = l /\ m.edition = e /\ m.store = s
      BY <2>1, <2>2 DEF WithKey, BookedOf
    <3>2. m \in [receipt : Receipts, line : Lines, edition : Nat, store : Stores]
      BY <1>0, <3>1 DEF Types
    <3>3. m = n
      BY <1>3, <3>1, <3>2 DEF Movement
    <3> QED
      BY <2>1, <2>2, <3>1, <3>3
  <2> QED
    BY <2>1, <2>2
<1>7. /\ booked \subseteq booked' /\ \A m \in booked' : m \in booked \/ m = n
      /\ n \in [receipt : Receipts, line : Lines, edition : Nat, store : Stores]
      /\ n.receipt = r /\ n.line = l /\ n.edition = e
  BY <1>3, <1>5, <1>6 DEF Movement
<1>8. /\ call' = [d \in Callers |-> IF d = c THEN k ELSE call[d]]
      /\ \A d \in Callers : call'[d] = IF d = c THEN k ELSE call[d]
      /\ UNCHANGED <<order, received, receipt, stale, disturbed, edits, cutOff>>
  BY <1>0, <1>3 DEF Book, Continue, Types
<1>9. Types'
  <2>1. \A x : Shape(x) => Shape(x)'
    BY <1>8 DEF Shape
  <2>2. Shape(k)
    BY <1>1, <1>2, <1>4 DEF Shape
  <2>3. \A d \in Callers : Shape(call[d])'
    BY <1>0, <1>8, <2>1, <2>2 DEF Types
  <2>4. call' = [d \in Callers |-> call'[d]]
    BY <1>8
  <2> QED
    BY <1>0, <1>7, <1>8, <2>3, <2>4 DEF Types, Posted
<1>10. Told'
  <2>1. ASSUME NEW x, ToldCall(x) PROVE ToldCall(x)'
    BY <1>7, <1>8, <2>1 DEF ToldCall
  <2>2. ToldCall(k)'
    <3>1. /\ k.row.edition <= edits'
          /\ k.row.edition = receipt'[k.receipt].edition =>
               k.row.lines = receipt'[k.receipt].lines
      BY <1>2, <1>4, <1>5, <1>8
    <3>2. k.todo \subseteq Stocked(k.row.lines)
      BY <1>0, <1>4 DEF ToldCall
    <3>3. ASSUME NEW i \in Stocked(k.row.lines) \ k.todo
          PROVE  Movement(k.receipt, i, k.row.edition, k.row.store) \in booked'
      <4>1. CASE i = l
        BY <1>2, <1>3, <1>4, <1>6, <4>1
      <4>2. CASE i # l
        BY <1>0, <1>2, <1>4, <1>7, <4>2 DEF ToldCall
      <4> QED
        BY <4>1, <4>2
    <3> QED
      BY <3>1, <3>2, <3>3 DEF ToldCall
  <2>3. \A d \in Callers : ToldCall(call[d])'
    BY <1>0, <1>8, <2>1, <2>2 DEF Told
  <2>4. ASSUME NEW m \in booked'
        PROVE  /\ receipt'[m.receipt] # Absent
               /\ m.edition <= edits'
               /\ m.edition = receipt'[m.receipt].edition =>
                    m.line \in Stocked(receipt'[m.receipt].lines)
    <3>1. CASE m \in booked
      BY <1>0, <1>8, <3>1 DEF Told, Listed
    <3>2. CASE m = n
      BY <1>5, <1>7, <1>8, <3>2
    <3> QED
      BY <1>7, <3>1, <3>2
  <2> QED
    BY <1>0, <1>8, <2>3, <2>4 DEF Told, Listed
<1>11. ASSUME ~disturbed' PROVE Undisturbed'
  <2>0. Undisturbed /\ ~disturbed
    BY <1>8, <1>11 DEF IInv
  <2>1. \A d \in Callers \ stale' : Fresh(call[d])'
    <3>1. \A x : Fresh(x) => Fresh(x)'
      BY <1>8 DEF Fresh
    <3>2. Fresh(call[c]) => Fresh(k)
      <4>1. k.op = "post" /\ k.step = "book" /\ k.receipt = call[c].receipt
        BY <1>2, <1>4
      <4> QED
        BY <1>0, <1>4, <4>1 DEF Fresh
    <3> QED
      BY <1>8, <2>0, <3>1, <3>2 DEF Undisturbed
  <2>2. ASSUME NEW m \in booked' PROVE Accounted(m)'
    <3>0. /\ call'[c].op = "post" /\ call'[c].step = "book" /\ call'[c].receipt = r
          /\ call'[c].row.edition = e
      BY <1>2, <1>4, <1>8
    <3>1. CASE m = n
      BY <1>7, <3>0, <3>1 DEF Accounted
    <3>2. CASE m \in booked
      <4>1. Accounted(m)
        BY <2>0, <3>2 DEF Undisturbed
      <4>2. ASSUME NEW d \in Callers, call[d].op = "post", call[d].step = "book",
                   call[d].receipt = m.receipt, call[d].row.edition = m.edition
            PROVE  Accounted(m)'
        <5>1. /\ call'[d].op = "post" /\ call'[d].step = "book"
              /\ call'[d].receipt = m.receipt /\ call'[d].row.edition = m.edition
          BY <1>2, <1>8, <3>0, <4>2
        <5> QED
          BY <5>1 DEF Accounted
      <4> QED
        BY <1>8, <4>1, <4>2 DEF Accounted
    <3> QED
      BY <1>7, <3>1, <3>2
  <2>3. AddsUp'
    BY <1>8, <2>0 DEF Undisturbed, AddsUp, Listings, Amount, PostedWith, Lists
  <2>4. OrderFollowsReceipts'
    BY <1>8, <2>0 DEF Undisturbed, OrderFollowsReceipts
  <2>5. PostedIsBooked'
    BY <1>7, <1>8, <2>0 DEF Undisturbed, PostedIsBooked, Posted, Listed
  <2> QED
    BY <2>1, <2>2, <2>3, <2>4, <2>5 DEF Undisturbed
<1> QED
  BY <1>9, <1>10, <1>11 DEF IInv

-----------------------------------------------------------------------------
(* What a write leaves of what the others have read: whoever is not made   *)
(* stale by it is on another receipt, and has not read the order if the    *)
(* order was written.                                                      *)
LEMMA WriteFresh ==
  ASSUME IInv, Undisturbed, NEW c \in Callers, NEW r, NEW w \in BOOLEAN,
         Write(c, r, w),
         call'[c] = Idle, \A d \in Callers \ {c} : call'[d] = call[d],
         \A x \in Receipts : x # r => receipt'[x] = receipt[x],
         ~w => UNCHANGED <<order, received>>
  PROVE  \A d \in Callers \ stale' : Fresh(call[d])'
<1> SUFFICES ASSUME NEW d \in Callers \ stale'
             PROVE  Fresh(call[d])'
  OBVIOUS
<1>1. CASE d = c
  BY <1>1 DEF Fresh, Idle
<1>2. CASE d # c
  <2>1. PICK k : k = call[d]
    OBVIOUS
  <2>2. call'[d] = k
    BY <1>2, <2>1
  <2>3. Fresh(k) /\ Shape(k)
    BY <1>2, <2>1 DEF Undisturbed, IInv, Types, Write
  <2>4. /\ k.op \in {"post", "edit", "reverse"} => k.receipt # r
        /\ w /\ k.op \in {"post", "reverse", "change"} => k.step = "order"
    BY <1>2, <2>1 DEF Write, StaleBy, WritesOrder
  <2>5. k.op \in {"post", "edit", "reverse"} =>
          receipt'[k.receipt] = receipt[k.receipt]
    BY <2>3, <2>4 DEF Shape
  <2>6. Fresh(k)'
    <3>1. CASE ~w
      BY <2>3, <2>5, <3>1 DEF Fresh
    <3>2. CASE w
      BY <2>3, <2>4, <2>5, <3>2 DEF Fresh, Shape
    <3> QED
      BY <3>1, <3>2
  <2> QED
    BY <2>1, <2>2, <2>6
<1> QED
  BY <1>1, <1>2

(* A movement stays accounted for when a request ends by writing.          *)
LEMMA WriteAccounted ==
  ASSUME IInv, Undisturbed, NEW c \in Callers,
         \A d \in Callers \ {c} : call'[d] = call[d],
         booked' = booked, cutOff' = cutOff,
         \A x \in Receipts : receipt[x].status \in {"POSTED", "REVERSED"} =>
           /\ receipt'[x].status \in {"POSTED", "REVERSED"}
           /\ receipt'[x].edition = receipt[x].edition,
         call[c].op = "post" =>
           /\ receipt'[call[c].receipt].status = "POSTED"
           /\ receipt'[call[c].receipt].edition = call[c].row.edition
  PROVE  \A m \in booked' : Accounted(m)'
<1> SUFFICES ASSUME NEW m \in booked
             PROVE  Accounted(m)'
  OBVIOUS
<1>1. Accounted(m) /\ m.receipt \in Receipts
  BY DEF Undisturbed, IInv, Types
<1>2. CASE m.receipt \in cutOff
  BY <1>2 DEF Accounted
<1>3. CASE /\ receipt[m.receipt].status \in {"POSTED", "REVERSED"}
           /\ m.edition = receipt[m.receipt].edition
  BY <1>1, <1>3 DEF Accounted
<1>4. ASSUME NEW d \in Callers, call[d].op = "post", call[d].step = "book",
             call[d].receipt = m.receipt, call[d].row.edition = m.edition
      PROVE  Accounted(m)'
  <2>1. CASE d = c
    <3>1. /\ receipt'[m.receipt].status = "POSTED"
          /\ m.edition = receipt'[m.receipt].edition
      BY <1>4, <2>1
    <3> QED
      BY <3>1 DEF Accounted
  <2>2. CASE d # c
    <3>1. /\ call'[d].op = "post" /\ call'[d].step = "book"
          /\ call'[d].receipt = m.receipt /\ call'[d].row.edition = m.edition
      BY <1>4, <2>2
    <3> QED
      BY <3>1 DEF Accounted
  <2> QED
    BY <2>1, <2>2
<1> QED
  BY <1>1, <1>2, <1>3, <1>4 DEF Accounted

(* What is left to show of a request that writes: what it does to the      *)
(* receipt, and, if it was not stale, to the sums and the status.          *)
LEMMA WriteKeeps ==
  ASSUME IInv, NEW c \in Callers, NEW r, NEW w \in BOOLEAN, Write(c, r, w),
         booked' = booked, cutOff' = cutOff, edits' \in Nat, edits <= edits',
         order' \in [status : OrderStatuses, acknowledged : BOOLEAN],
         received' \in Quantities,
         receipt' \in [Receipts -> Rows \cup {Absent}],
         \A x \in Receipts : x # r => receipt'[x] = receipt[x],
         r \in Receipts /\ receipt[r] # Absent =>
           /\ receipt'[r] # Absent
           /\ \/ receipt'[r].edition > edits
              \/ /\ receipt'[r].edition = receipt[r].edition
                 /\ receipt'[r].lines = receipt[r].lines,
         r \in Receipts /\ receipt'[r] # Absent => receipt'[r].edition <= edits',
         ~w => UNCHANGED <<order, received>>,
         ~disturbed /\ c \notin stale /\ Undisturbed =>
           /\ AddsUp' /\ OrderFollowsReceipts' /\ PostedIsBooked'
           /\ \A x \in Receipts : receipt[x].status \in {"POSTED", "REVERSED"} =>
                /\ receipt'[x].status \in {"POSTED", "REVERSED"}
                /\ receipt'[x].edition = receipt[x].edition
           /\ call[c].op = "post" =>
                /\ receipt'[call[c].receipt].status = "POSTED"
                /\ receipt'[call[c].receipt].edition = call[c].row.edition
  PROVE  IInv'
<1>1. Types /\ Told /\ edits \in Nat
  BY DEF IInv, Types
<1>2. \A x \in Receipts : receipt'[x] # Absent => receipt'[x].edition <= edits'
  <2> SUFFICES ASSUME NEW x \in Receipts, receipt'[x] # Absent
               PROVE  receipt'[x].edition <= edits'
    OBVIOUS
  <2>1. CASE x = r
    BY <2>1
  <2>2. CASE x # r
    <3>1. receipt'[x] = receipt[x] /\ receipt[x].edition <= edits
      BY <1>1, <2>2 DEF Told
    <3>2. receipt'[x].edition \in Nat
      BY DEF Rows
    <3> QED
      BY <1>1, <3>1, <3>2
  <2> QED
    BY <2>1, <2>2
<1>3. \A x \in Receipts : receipt[x] # Absent =>
        /\ receipt'[x] # Absent
        /\ \/ receipt'[x].edition > edits
           \/ /\ receipt'[x].edition = receipt[x].edition
              /\ receipt'[x].lines = receipt[x].lines
  OBVIOUS
<1>4. call' = [call EXCEPT ![c] = Idle]
  BY DEF Write
<1>5. /\ call' = [d \in Callers |-> call'[d]]
      /\ call'[c] = Idle /\ \A d \in Callers \ {c} : call'[d] = call[d]
      /\ \A d \in Callers : Shape(call[d])'
      /\ Told'
  BY <1>2, <1>3, <1>4, OthersKept
<1>6. Types'
  <2>1. stale' \in SUBSET Callers /\ disturbed' \in BOOLEAN
    BY <1>1 DEF Types, Write, StaleBy
  <2>2. Posted' \in SUBSET (Posted \cup {r})
    BY DEF Posted
  <2>3. IsFiniteSet(Posted \cup {r})
    BY <1>1, FS_AddElement DEF Types
  <2>4. IsFiniteSet(Posted')
    BY <2>2, <2>3, FS_Subset
  <2> QED
    BY <1>1, <1>5, <2>1, <2>4 DEF Types
<1>7. ASSUME ~disturbed' PROVE Undisturbed'
  <2>1. ~disturbed /\ c \notin stale /\ Undisturbed
    BY <1>7 DEF Write, IInv
  <2>2. \A d \in Callers \ stale' : Fresh(call[d])'
    BY <1>5, <2>1, WriteFresh
  <2>3. \A m \in booked' : Accounted(m)'
    BY <1>5, <2>1, WriteAccounted
  <2> QED
    BY <2>1, <2>2, <2>3 DEF Undisturbed
<1> QED
  BY <1>5, <1>6, <1>7 DEF IInv

LEMMA SaveChangeKeeps ==
  ASSUME IInv, NEW c \in Callers, SaveChange(c)
  PROVE  IInv'
<1>0. /\ Types /\ Told /\ Shape(call[c]) /\ call[c].op = "change"
      /\ c \notin stale /\ Undisturbed => Fresh(call[c])
  BY DEF SaveChange, IInv, Types, Undisturbed
<1>1. PICK t \in DOMAIN Change : t = call[c].change
  BY <1>0 DEF Shape
<1>2. /\ order' = [status |-> Change[t].to,
                   acknowledged |-> call[c].acknowledged \/ t = "acknowledge"]
      /\ UNCHANGED <<received, receipt, booked, edits, cutOff>>
      /\ Write(c, "none", TRUE)
  BY <1>1 DEF SaveChange
<1>3. order' \in [status : OrderStatuses, acknowledged : BOOLEAN]
  <2>1. (call[c].acknowledged \/ t = "acknowledge") \in BOOLEAN
    OBVIOUS
  <2> QED
    BY <1>2, <2>1, ChangeFacts
<1>4. ASSUME ~disturbed, c \notin stale, Undisturbed
      PROVE  AddsUp' /\ OrderFollowsReceipts' /\ PostedIsBooked'
  <2>1. AddsUp'
    BY <1>2, <1>4 DEF Undisturbed, AddsUp, Listings, Amount, PostedWith, Lists
  <2>2. order.status \in Change[t].from
    BY <1>0, <1>1, <1>4 DEF Fresh
  <2>3. OrderFollowsReceipts'
    <3>1. order'.status # "PARTIALLY_RECEIVED"
      BY <1>2, ChangeFacts
    <3>2. order'.status \notin Moved => order.status \notin Moved
      BY <1>2, <2>2, ChangeFacts
    <3> QED
      BY <1>2, <1>4, <3>1, <3>2 DEF OrderFollowsReceipts, Undisturbed, Moved
  <2>4. PostedIsBooked'
    BY <1>2, <1>4 DEF Undisturbed, PostedIsBooked, Posted, Listed
  <2> QED
    BY <2>1, <2>3, <2>4
<1>5. \A x \in Receipts : receipt[x] # Absent => receipt[x].edition <= edits
  BY <1>0 DEF Told
<1>6. /\ received' \in Quantities /\ receipt' \in [Receipts -> Rows \cup {Absent}]
      /\ edits' \in Nat /\ edits <= edits'
  BY <1>0, <1>2 DEF Types
<1>7. PICK r : r = "none"
  OBVIOUS
<1> QED
  BY <1>0, <1>2, <1>3, <1>4, <1>5, <1>6, <1>7, WriteKeeps

LEMMA SaveCreateKeeps ==
  ASSUME IInv, NEW c \in Callers, NEW r \in Receipts, NEW d \in Deliveries,
         NEW s \in Stores, SaveCreate(c, r, d, s)
  PROVE  IInv'
<1>0. /\ Types /\ call[c].op = "create" /\ receipt[r] = Absent
      /\ receipt[r].status = "ABSENT"
  BY DEF SaveCreate, IInv, Absent
<1>1. PICK row : row = [status |-> "DRAFT", lines |-> d, edition |-> 0, store |-> s]
  OBVIOUS
<1>2. /\ receipt' = [receipt EXCEPT ![r] = row]
      /\ UNCHANGED <<order, received, booked, edits, cutOff>>
      /\ Write(c, r, FALSE)
  BY <1>1 DEF SaveCreate
<1>3. row \in Rows /\ row.status = "DRAFT" /\ row.edition = 0
  BY <1>1 DEF Rows
<1>4. /\ receipt' \in [Receipts -> Rows \cup {Absent}] /\ receipt'[r] = row
      /\ \A x \in Receipts : x # r => receipt'[x] = receipt[x]
  BY <1>0, <1>2, <1>3 DEF Types
<1>5. Posted' = Posted /\ \A x \in Posted : x # r /\ receipt'[x] = receipt[x]
  BY <1>0, <1>3, <1>4 DEF Posted
<1>6. ASSUME ~disturbed, c \notin stale, Undisturbed
      PROVE  AddsUp' /\ OrderFollowsReceipts' /\ PostedIsBooked'
  <2>1. \A l \in Lines : Listings(l)' = Listings(l)
    <3>1. \A x \in Posted : receipt'[x] # Absent
                            /\ receipt'[x].lines = receipt[x].lines
      BY <1>5 DEF Posted, Absent
    <3> QED
      BY <1>0, <1>5, <3>1, ListingsKept
  <2>2. AddsUp'
    BY <1>2, <1>6, <2>1 DEF Undisturbed, AddsUp
  <2>3. OrderFollowsReceipts'
    BY <1>2, <1>6 DEF Undisturbed, OrderFollowsReceipts
  <2>4. PostedIsBooked'
    BY <1>2, <1>5, <1>6 DEF Undisturbed, PostedIsBooked, Listed
  <2> QED
    BY <2>2, <2>3, <2>4
<1>7. /\ edits' \in Nat /\ edits <= edits' /\ 0 <= edits'
      /\ order' \in [status : OrderStatuses, acknowledged : BOOLEAN]
      /\ received' \in Quantities
  BY <1>0, <1>2 DEF Types
<1>8. \A x \in Receipts : receipt[x].status \in {"POSTED", "REVERSED"} =>
        receipt'[x] = receipt[x]
  BY <1>0, <1>4
<1> QED
  BY <1>0, <1>2, <1>3, <1>4, <1>6, <1>7, <1>8, WriteKeeps

LEMMA SaveEditKeeps ==
  ASSUME IInv, NEW c \in Callers, NEW s \in Stores, SaveEdit(c, s)
  PROVE  IInv'
<1>0. /\ Types /\ Told /\ Shape(call[c])
      /\ call[c].op = "edit" /\ call[c].step = "save"
      /\ c \notin stale /\ Undisturbed => Fresh(call[c])
  BY DEF SaveEdit, IInv, Types, Undisturbed
<1>1. PICK r \in Receipts : r = call[c].receipt
  BY <1>0 DEF Shape
<1>2. /\ receipt[r] \in Rows /\ receipt[r] # Absent /\ call[c].status = "DRAFT"
      /\ "lines" \in DOMAIN call[c] => call[c].lines \in Deliveries
  BY <1>0, <1>1, RowFacts DEF Shape
<1>3. PICK row : row =
        IF "lines" \in DOMAIN call[c]
          THEN [[receipt[r] EXCEPT !.status = call[c].status, !.store = s]
                  EXCEPT !.lines = call[c].lines, !.edition = edits']
          ELSE [receipt[r] EXCEPT !.status = call[c].status, !.store = s]
  OBVIOUS
<1>4. /\ receipt' = [receipt EXCEPT ![r] = row]
      /\ UNCHANGED <<order, received, booked, cutOff>>
      /\ edits' = edits + 1 /\ Write(c, r, FALSE)
  BY <1>1, <1>3 DEF SaveEdit
<1>5. edits \in Nat /\ edits' \in Nat /\ edits' > edits
  BY <1>0, <1>4 DEF Types
<1>6. /\ row \in Rows /\ row.status = "DRAFT"
      /\ \/ row.edition = edits'
         \/ row.edition = receipt[r].edition /\ row.lines = receipt[r].lines
  BY <1>2, <1>3, <1>5 DEF Rows
<1>7. /\ receipt' \in [Receipts -> Rows \cup {Absent}] /\ receipt'[r] = row
      /\ \A x \in Receipts : x # r => receipt'[x] = receipt[x]
  BY <1>0, <1>4, <1>6 DEF Types
<1>8. row # Absent /\ row.edition <= edits'
  <2>1. receipt[r].edition <= edits /\ receipt[r].edition \in Nat
    BY <1>0, <1>2 DEF Told, Rows
  <2> QED
    BY <1>5, <1>6, <2>1 DEF Absent
<1>9. ASSUME ~disturbed, c \notin stale, Undisturbed
      PROVE  /\ AddsUp' /\ OrderFollowsReceipts' /\ PostedIsBooked'
             /\ receipt[r].status = "DRAFT"
  <2>0. receipt[r].status = "DRAFT"
    BY <1>0, <1>1, <1>9 DEF Fresh
  <2>1. Posted' = Posted /\ \A x \in Posted : receipt'[x] = receipt[x]
    BY <1>6, <1>7, <2>0 DEF Posted
  <2>2. \A l \in Lines : Listings(l)' = Listings(l)
    <3>1. \A x \in Posted : receipt'[x] # Absent
                            /\ receipt'[x].lines = receipt[x].lines
      BY <2>1 DEF Posted, Absent
    <3> QED
      BY <1>0, <2>1, <3>1, ListingsKept
  <2>3. AddsUp'
    BY <1>4, <1>9, <2>2 DEF Undisturbed, AddsUp
  <2>4. OrderFollowsReceipts'
    BY <1>4, <1>9 DEF Undisturbed, OrderFollowsReceipts
  <2>5. PostedIsBooked'
    BY <1>4, <1>9, <2>1 DEF Undisturbed, PostedIsBooked, Listed
  <2> QED
    BY <2>0, <2>3, <2>4, <2>5
<1>10. /\ order' \in [status : OrderStatuses, acknowledged : BOOLEAN]
       /\ received' \in Quantities
  BY <1>0, <1>4 DEF Types
<1>11. receipt[r].status = "DRAFT" =>
         \A x \in Receipts : receipt[x].status \in {"POSTED", "REVERSED"} =>
           receipt'[x] = receipt[x]
  BY <1>7
<1>12. /\ receipt'[r] # Absent /\ receipt'[r].edition <= edits'
       /\ \/ receipt'[r].edition > edits
          \/ /\ receipt'[r].edition = receipt[r].edition
             /\ receipt'[r].lines = receipt[r].lines
  BY <1>5, <1>6, <1>7, <1>8
<1>13. ~disturbed /\ c \notin stale /\ Undisturbed =>
         /\ AddsUp' /\ OrderFollowsReceipts' /\ PostedIsBooked'
         /\ \A x \in Receipts : receipt[x].status \in {"POSTED", "REVERSED"} =>
              /\ receipt'[x].status \in {"POSTED", "REVERSED"}
              /\ receipt'[x].edition = receipt[x].edition
         /\ call[c].op = "post" =>
              /\ receipt'[call[c].receipt].status = "POSTED"
              /\ receipt'[call[c].receipt].edition = call[c].row.edition
  BY <1>0, <1>9, <1>11
<1>14. Write(c, r, FALSE) /\ booked' = booked /\ cutOff' = cutOff
       /\ UNCHANGED <<order, received>>
  BY <1>4
<1>15. edits' \in Nat /\ edits <= edits'
  BY <1>5
<1>16. r \in Receipts
  BY <1>1
<1> QED
  BY ONLY IInv, c \in Callers, <1>7, <1>10, <1>12, <1>13, <1>14, <1>15, <1>16, WriteKeeps, ZenonT(60)

LEMMA SavePostKeeps ==
  ASSUME IInv, NEW c \in Callers, SavePost(c)
  PROVE  IInv'
<1>0. /\ Types /\ Told /\ Shape(call[c]) /\ ToldCall(call[c])
      /\ call[c].op = "post" /\ call[c].step = "book" /\ call[c].todo = {}
      /\ c \notin stale /\ Undisturbed => Fresh(call[c])
  BY DEF SavePost, IInv, Types, Told, Undisturbed
<1>1. PICK r, d, q, row :
        /\ r = call[c].receipt /\ d = call[c].row.lines /\ q = call[c].total
        /\ row = [receipt[r] EXCEPT !.status = "POSTED", !.store = call[c].row.store]
  OBVIOUS
<1>2. /\ r \in Receipts /\ receipt[r] # Absent /\ receipt[r] \in Rows
      /\ d \in Deliveries /\ q \in Quantities /\ call[c].to \in OrderStatuses
      /\ call[c].row \in Rows /\ call[c].row.status = "DRAFT"
  <2>1. r \in Receipts /\ receipt[r] # Absent /\ call[c].row \in Rows
        /\ call[c].row.status = "DRAFT"
        /\ q \in Quantities /\ call[c].to \in OrderStatuses
    BY <1>0, <1>1 DEF Shape
  <2> QED
    BY <1>0, <1>1, <2>1, RowFacts DEF Rows
<1>3. /\ receipt' = [receipt EXCEPT ![r] = row]
      /\ order' = [order EXCEPT !.status = call[c].to]
      /\ received' = [l \in Lines |-> IF l \in DOMAIN d THEN q[l] ELSE received[l]]
      /\ UNCHANGED <<booked, edits, cutOff>>
  BY <1>0, <1>1, <1>2 DEF SavePost, WriteRow, WriteItems, Types
<1>4. Write(c, r, TRUE)
  BY <1>1 DEF SavePost
<1>5. /\ row \in Rows /\ row.status = "POSTED" /\ row.store = call[c].row.store
      /\ row.edition = receipt[r].edition /\ row.lines = receipt[r].lines
      /\ row # Absent
  BY <1>1, <1>2 DEF Rows, Absent
<1>6. /\ receipt' \in [Receipts -> Rows \cup {Absent}] /\ receipt'[r] = row
      /\ \A x \in Receipts : x # r => receipt'[x] = receipt[x]
  BY <1>0, <1>2, <1>3, <1>5 DEF Types
<1>7. /\ order' \in [status : OrderStatuses, acknowledged : BOOLEAN]
      /\ order'.status = call[c].to
      /\ received' \in Quantities
  BY <1>0, <1>2, <1>3 DEF Types, Quantities
<1>8. ASSUME ~disturbed, c \notin stale, Undisturbed
      PROVE  /\ AddsUp' /\ OrderFollowsReceipts' /\ PostedIsBooked'
             /\ receipt[r] = call[c].row
  <2>1. /\ receipt[r] = call[c].row /\ call[c].to = StatusFor(q, order.status)
        /\ \A l \in Lines : q[l] = received[l] + Delivered(d, l) /\ q[l] <= Ordered[l]
    BY <1>0, <1>1, <1>8 DEF Fresh
  <2>2. \A l \in Lines : received'[l] = q[l]
    <3> SUFFICES ASSUME NEW l \in Lines PROVE received'[l] = q[l]
      OBVIOUS
    <3>1. l \notin DOMAIN d => Delivered(d, l) = 0
      BY <1>2, DeliveryFacts
    <3>2. received[l] \in Nat
      BY <1>0 DEF Types, Quantities
    <3> QED
      BY <1>3, <2>1, <3>1, <3>2
  <2>3. AddsUp'
    <3>1. \A l \in Lines : Listings(l)' = Listings(l) + Delivered(d, l)
      <4>1. /\ receipt[r].status = "DRAFT" /\ receipt'[r].status = "POSTED"
            /\ receipt'[r].lines = receipt[r].lines /\ receipt[r].lines = d
        BY <1>1, <1>2, <1>5, <1>6, <2>1
      <4> QED
        BY <1>0, <1>2, <1>6, <4>1, ListingsGrow
    <3>2. \A l \in Lines : received[l] = Listings(l)
      BY <1>8 DEF Undisturbed, AddsUp
    <3> QED
      BY <2>1, <2>2, <3>1, <3>2 DEF AddsUp
  <2>4. OrderFollowsReceipts'
    <3>1. PICK l \in Lines : q[l] > 0
      <4>1. PICK l \in Lines : l \in DOMAIN d
        BY <1>2, DeliveryFacts
      <4>2. Delivered(d, l) \in Nat \ {0} /\ received[l] \in Nat
        BY <1>0, <1>2, <4>1, DeliveryFacts DEF Types, Quantities
      <4> QED
        BY <2>1, <4>2
    <3>2. CASE \A i \in Lines : q[i] >= Ordered[i]
      <4>1. order'.status = "RECEIVED"
        BY <1>7, <2>1, <3>2 DEF StatusFor
      <4> QED
        BY <4>1 DEF OrderFollowsReceipts
    <3>3. CASE ~(\A i \in Lines : q[i] >= Ordered[i])
      <4>1. order'.status = "PARTIALLY_RECEIVED"
        BY <1>7, <2>1, <3>1, <3>3 DEF StatusFor
      <4>2. PICK i \in Lines : ~(q[i] >= Ordered[i])
        BY <3>3
      <4>3. q[i] \in Int /\ Ordered[i] \in Int
        BY <1>2, GoodsReceiptAssumption DEF Quantities, GoodsReceiptAssumption
      <4>4. received'[i] < Ordered[i] /\ received'[l] > 0
        BY <2>2, <3>1, <4>2, <4>3
      <4> QED
        BY <4>1, <4>4 DEF OrderFollowsReceipts
    <3> QED
      BY <3>2, <3>3
  <2>5. PostedIsBooked'
    <3> SUFFICES ASSUME NEW x \in Posted', NEW l \in Stocked(receipt'[x].lines)
                 PROVE  Movement(x, l, receipt'[x].edition, receipt'[x].store) \in booked
      BY <1>3 DEF PostedIsBooked, Listed, Movement
    <3>1. CASE x = r
      <4>1. l \in Stocked(call[c].row.lines)
        BY <1>5, <1>6, <2>1, <3>1
      <4>2. Movement(r, l, call[c].row.edition, call[c].row.store) \in booked
        BY <1>0, <1>1, <4>1 DEF ToldCall
      <4> QED
        BY <1>5, <1>6, <2>1, <3>1, <4>2
    <3>2. CASE x # r
      <4>1. x \in Posted /\ receipt'[x] = receipt[x]
        BY <1>6, <3>2 DEF Posted
      <4> QED
        BY <1>8, <4>1 DEF Undisturbed, PostedIsBooked, Listed, Movement
    <3> QED
      BY <3>1, <3>2
  <2> QED
    BY <2>1, <2>3, <2>4, <2>5
<1>9. receipt[r] = call[c].row =>
        /\ \A x \in Receipts : receipt[x].status \in {"POSTED", "REVERSED"} =>
             /\ receipt'[x].status \in {"POSTED", "REVERSED"}
             /\ receipt'[x].edition = receipt[x].edition
        /\ call[c].op = "post" =>
             /\ receipt'[call[c].receipt].status = "POSTED"
             /\ receipt'[call[c].receipt].edition = call[c].row.edition
  BY <1>1, <1>5, <1>6
<1>10. edits' \in Nat /\ edits <= edits' /\ row.edition <= edits'
  BY <1>0, <1>2, <1>3, <1>5 DEF Types, Told
<1>11. /\ r \in Receipts /\ receipt'[r] # Absent /\ receipt'[r].edition <= edits'
       /\ receipt'[r].edition = receipt[r].edition
       /\ receipt'[r].lines = receipt[r].lines
  BY <1>2, <1>5, <1>6, <1>10
<1>12. booked' = booked /\ cutOff' = cutOff
  BY <1>3
<1>13. ~disturbed /\ c \notin stale /\ Undisturbed =>
         /\ AddsUp' /\ OrderFollowsReceipts' /\ PostedIsBooked'
         /\ \A x \in Receipts : receipt[x].status \in {"POSTED", "REVERSED"} =>
              /\ receipt'[x].status \in {"POSTED", "REVERSED"}
              /\ receipt'[x].edition = receipt[x].edition
         /\ call[c].op = "post" =>
              /\ receipt'[call[c].receipt].status = "POSTED"
              /\ receipt'[call[c].receipt].edition = call[c].row.edition
  BY <1>8, <1>9
<1> QED
  BY ONLY IInv, c \in Callers, <1>4, <1>6, <1>7, <1>10, <1>11, <1>12, <1>13,
          WriteKeeps, ZenonT(60)

LEMMA SaveReverseKeeps ==
  ASSUME IInv, NEW c \in Callers, SaveReverse(c)
  PROVE  IInv'
<1>0. /\ Types /\ Told /\ Shape(call[c])
      /\ call[c].op = "reverse" /\ call[c].step = "save"
      /\ c \notin stale /\ Undisturbed => Fresh(call[c])
  BY DEF SaveReverse, IInv, Types, Undisturbed
<1>1. PICK r, d, q, row :
        /\ r = call[c].receipt /\ d = call[c].row.lines /\ q = call[c].rest
        /\ row = [receipt[r] EXCEPT !.status = "REVERSED", !.store = call[c].row.store]
  OBVIOUS
<1>2. /\ r \in Receipts /\ receipt[r] # Absent /\ receipt[r] \in Rows
      /\ d \in Deliveries /\ q \in Quantities /\ call[c].to \in OrderStatuses
      /\ call[c].row \in Rows /\ call[c].row.status = "POSTED"
  <2>1. r \in Receipts /\ receipt[r] # Absent /\ call[c].row \in Rows
        /\ call[c].row.status = "POSTED"
        /\ q \in Quantities /\ call[c].to \in OrderStatuses
    BY <1>0, <1>1 DEF Shape
  <2> QED
    BY <1>0, <1>1, <2>1, RowFacts DEF Rows
<1>3. /\ receipt' = [receipt EXCEPT ![r] = row]
      /\ order' = [order EXCEPT !.status = call[c].to]
      /\ received' = [l \in Lines |-> IF l \in DOMAIN d THEN q[l] ELSE received[l]]
      /\ UNCHANGED <<booked, edits, cutOff>>
  BY <1>0, <1>1, <1>2 DEF SaveReverse, WriteRow, WriteItems, Types
<1>4. Write(c, r, TRUE)
  BY <1>1 DEF SaveReverse
<1>5. /\ row \in Rows /\ row.status = "REVERSED"
      /\ row.edition = receipt[r].edition /\ row.lines = receipt[r].lines
      /\ row # Absent
  BY <1>1, <1>2 DEF Rows, Absent
<1>6. /\ receipt' \in [Receipts -> Rows \cup {Absent}] /\ receipt'[r] = row
      /\ \A x \in Receipts : x # r => receipt'[x] = receipt[x]
  BY <1>0, <1>2, <1>3, <1>5 DEF Types
<1>7. /\ order' \in [status : OrderStatuses, acknowledged : BOOLEAN]
      /\ order'.status = call[c].to
      /\ received' \in Quantities
  BY <1>0, <1>2, <1>3 DEF Types, Quantities
<1>8. ASSUME ~disturbed, c \notin stale, Undisturbed
      PROVE  AddsUp' /\ OrderFollowsReceipts' /\ PostedIsBooked'
  <2>1. /\ receipt[r] = call[c].row
        /\ call[c].to \in {StatusFor(q, "ACKNOWLEDGED"), StatusFor(q, "ISSUED")}
        /\ \A l \in Lines : q[l] = received[l] - Delivered(d, l)
    BY <1>0, <1>1, <1>8 DEF Fresh
  <2>2. \A l \in Lines : received'[l] = q[l] /\ q[l] \in Nat /\ q[l] <= Ordered[l]
    <3> SUFFICES ASSUME NEW l \in Lines
                 PROVE  received'[l] = q[l] /\ q[l] \in Nat /\ q[l] <= Ordered[l]
      OBVIOUS
    <3>1. Delivered(d, l) \in Nat /\ (l \notin DOMAIN d => Delivered(d, l) = 0)
      BY <1>2, DeliveryFacts
    <3>2. received[l] \in Nat /\ q[l] \in Nat /\ Ordered[l] \in Nat
      BY <1>0, <1>2, GoodsReceiptAssumption
         DEF Types, Quantities, GoodsReceiptAssumption
    <3>3. received[l] <= Ordered[l]
      BY <1>8 DEF Undisturbed, AddsUp
    <3> QED
      BY <1>3, <2>1, <3>1, <3>2, <3>3
  <2>3. AddsUp'
    <3>1. \A l \in Lines : Listings(l)' = Listings(l) - Delivered(d, l)
      <4>1. receipt[r].status = "POSTED" /\ receipt'[r].status # "POSTED"
            /\ receipt[r].lines = d
        BY <1>1, <1>2, <1>5, <1>6, <2>1
      <4> QED
        BY <1>0, <1>2, <1>6, <4>1, ListingsShrink
    <3>2. \A l \in Lines : received[l] = Listings(l)
      BY <1>8 DEF Undisturbed, AddsUp
    <3> QED
      BY <2>1, <2>2, <3>1, <3>2 DEF AddsUp
  <2>4. OrderFollowsReceipts'
    <3>1. CASE \A i \in Lines : q[i] >= Ordered[i]
      <4>1. order'.status = "RECEIVED"
        BY <1>7, <2>1, <3>1 DEF StatusFor
      <4> QED
        BY <4>1 DEF OrderFollowsReceipts
    <3>2. CASE ~(\A i \in Lines : q[i] >= Ordered[i]) /\ \E i \in Lines : q[i] > 0
      <4>1. order'.status = "PARTIALLY_RECEIVED"
        BY <1>7, <2>1, <3>2 DEF StatusFor
      <4>2. PICK i \in Lines : ~(q[i] >= Ordered[i])
        BY <3>2
      <4>3. q[i] \in Int /\ Ordered[i] \in Int
        BY <2>2, GoodsReceiptAssumption DEF GoodsReceiptAssumption
      <4>4. received'[i] < Ordered[i] /\ \E l \in Lines : received'[l] > 0
        BY <2>2, <3>2, <4>2, <4>3
      <4> QED
        BY <4>1, <4>4 DEF OrderFollowsReceipts
    <3>3. CASE ~(\A i \in Lines : q[i] >= Ordered[i]) /\ ~(\E i \in Lines : q[i] > 0)
      <4>1. order'.status \in {"ACKNOWLEDGED", "ISSUED"}
        BY <1>7, <2>1, <3>3 DEF StatusFor
      <4>2. \A l \in Lines : received'[l] = 0
        BY <2>2, <3>3
      <4> QED
        BY <4>1, <4>2 DEF OrderFollowsReceipts
    <3> QED
      BY <3>1, <3>2, <3>3
  <2>5. PostedIsBooked'
    <3>1. \A x \in Posted' : x \in Posted /\ receipt'[x] = receipt[x]
      BY <1>5, <1>6 DEF Posted
    <3> QED
      BY <1>3, <1>8, <3>1 DEF Undisturbed, PostedIsBooked, Listed
  <2> QED
    BY <2>3, <2>4, <2>5
<1>9. \A x \in Receipts : receipt[x].status \in {"POSTED", "REVERSED"} =>
        /\ receipt'[x].status \in {"POSTED", "REVERSED"}
        /\ receipt'[x].edition = receipt[x].edition
  BY <1>5, <1>6
<1>10. edits' \in Nat /\ edits <= edits' /\ row.edition <= edits'
  BY <1>0, <1>2, <1>3, <1>5 DEF Types, Told
<1>11. /\ r \in Receipts /\ receipt'[r] # Absent /\ receipt'[r].edition <= edits'
       /\ receipt'[r].edition = receipt[r].edition
       /\ receipt'[r].lines = receipt[r].lines
  BY <1>2, <1>5, <1>6, <1>10
<1>12. booked' = booked /\ cutOff' = cutOff
  BY <1>3
<1>13. ~disturbed /\ c \notin stale /\ Undisturbed =>
         /\ AddsUp' /\ OrderFollowsReceipts' /\ PostedIsBooked'
         /\ \A x \in Receipts : receipt[x].status \in {"POSTED", "REVERSED"} =>
              /\ receipt'[x].status \in {"POSTED", "REVERSED"}
              /\ receipt'[x].edition = receipt[x].edition
         /\ call[c].op = "post" =>
              /\ receipt'[call[c].receipt].status = "POSTED"
              /\ receipt'[call[c].receipt].edition = call[c].row.edition
  BY <1>0, <1>8, <1>9
<1> QED
  BY ONLY IInv, c \in Callers, <1>4, <1>6, <1>7, <1>10, <1>11, <1>12, <1>13,
          WriteKeeps, ZenonT(60)

(* A request ends without writing.  A posting that has booked stock leaves *)
(* its receipt among those cut off.                                        *)
LEMMA StopKeeps ==
  ASSUME IInv, NEW c \in Callers, Stop(c)
  PROVE  IInv'
<1>0. /\ Types /\ Told /\ Shape(call[c])
      /\ call' = [call EXCEPT ![c] = Idle]
      /\ stale' = stale \ {c}
      /\ cutOff' = IF call[c].step = "book" /\ BookedOf(call[c].receipt) # {}
                     THEN cutOff \cup {call[c].receipt} ELSE cutOff
      /\ UNCHANGED <<order, received, receipt, booked, disturbed, edits>>
  BY DEF Stop, IInv, Types
<1>1. /\ call' = [d \in Callers |-> call'[d]]
      /\ call'[c] = Idle /\ \A d \in Callers \ {c} : call'[d] = call[d]
      /\ \A d \in Callers : Shape(call[d])'
      /\ Told'
  BY <1>0, OthersKept DEF Types, Told
<1>2. call[c].step = "book" => call[c].op = "post" /\ call[c].receipt \in Receipts
  <2>1. call[c].op # "none"
    BY <1>0 DEF Shape, Stop
  <2> QED
    BY <1>0, <2>1 DEF Shape
<1>3. cutOff' \in SUBSET Receipts /\ cutOff \subseteq cutOff'
  BY <1>0, <1>2 DEF Types
<1>4. Types'
  BY <1>0, <1>1, <1>3 DEF Types, Posted
<1>5. ASSUME ~disturbed' PROVE Undisturbed'
  <2>0. Undisturbed /\ ~disturbed
    BY <1>0, <1>5 DEF IInv
  <2>1. \A d \in Callers \ stale' : Fresh(call[d])'
    <3>1. \A x : Fresh(x) => Fresh(x)'
      BY <1>0 DEF Fresh
    <3>2. Fresh(Idle)
      BY DEF Fresh, Idle
    <3> QED
      BY <1>0, <1>1, <2>0, <3>1, <3>2 DEF Undisturbed
  <2>2. ASSUME NEW m \in booked' PROVE Accounted(m)'
    <3>1. m \in booked /\ Accounted(m)
      BY <1>0, <2>0, <2>2 DEF Undisturbed
    <3>2. ASSUME NEW d \in Callers, call[d].op = "post", call[d].step = "book",
                 call[d].receipt = m.receipt, call[d].row.edition = m.edition
          PROVE  Accounted(m)'
      <4>1. CASE d = c
        <5>1. m \in BookedOf(call[c].receipt)
          BY <3>1, <3>2, <4>1 DEF BookedOf
        <5>2. m.receipt \in cutOff'
          BY <1>0, <3>2, <4>1, <5>1
        <5> QED
          BY <5>2 DEF Accounted
      <4>2. CASE d # c
        <5>1. /\ call'[d].op = "post" /\ call'[d].step = "book"
              /\ call'[d].receipt = m.receipt /\ call'[d].row.edition = m.edition
          BY <1>1, <3>2, <4>2
        <5> QED
          BY <5>1 DEF Accounted
      <4> QED
        BY <4>1, <4>2
    <3> QED
      BY <1>0, <1>3, <3>1, <3>2 DEF Accounted
  <2>3. AddsUp'
    BY <1>0, <2>0 DEF Undisturbed, AddsUp, Listings, Amount, PostedWith, Lists
  <2>4. OrderFollowsReceipts' /\ PostedIsBooked'
    BY <1>0, <2>0 DEF Undisturbed, OrderFollowsReceipts, PostedIsBooked, Posted, Listed
  <2> QED
    BY <2>1, <2>2, <2>3, <2>4 DEF Undisturbed
<1> QED
  BY <1>1, <1>4, <1>5 DEF IInv

-----------------------------------------------------------------------------
LEMMA InvInit == Init => IInv
<1> SUFFICES ASSUME Init PROVE IInv
  OBVIOUS
<1>1. \A r \in Receipts : receipt[r] = Absent /\ receipt[r].status = "ABSENT"
  BY DEF Init, Absent
<1>2. \A c \in Callers : call[c] = Idle /\ call[c].op = "none"
  BY DEF Init, Idle
<1>3. Posted = {} /\ \A l : PostedWith(l) = {}
  BY <1>1 DEF Posted, PostedWith
<1>4. Types
  <2>1. order \in [status : OrderStatuses, acknowledged : BOOLEAN]
    BY DEF Init, OrderStatuses
  <2>2. \A c \in Callers : Shape(call[c])
    BY <1>2 DEF Shape
  <2>3. IsFiniteSet(Posted)
    BY <1>3, FS_EmptySet
  <2> QED
    BY <2>1, <2>2, <2>3 DEF Init, Types, Quantities
<1>5. Told
  BY <1>1, <1>2 DEF Init, Told, ToldCall
<1>6. Undisturbed
  <2>1. \A c \in Callers : Fresh(call[c])
    BY <1>2 DEF Fresh
  <2>2. AddsUp
    <3>1. \A l \in Lines : Listings(l) = 0
      BY <1>3, <1>4, PostedWithFacts
    <3> QED
      BY <3>1, GoodsReceiptAssumption DEF AddsUp, Init, GoodsReceiptAssumption
  <2>3. OrderFollowsReceipts /\ PostedIsBooked
    BY <1>3 DEF Init, OrderFollowsReceipts, PostedIsBooked
  <2> QED
    BY <2>1, <2>2, <2>3 DEF Init, Undisturbed
<1> QED
  BY <1>4, <1>5, <1>6 DEF IInv

LEMMA InvNext == IInv /\ [Next]_vars => IInv'
<1> SUFFICES ASSUME IInv, [Next]_vars PROVE IInv'
  OBVIOUS
<1>1. CASE UNCHANGED vars
  <2>1. Types' /\ Told'
    BY <1>1 DEF vars, IInv, Types, Shape, Posted, Told, ToldCall, Listed
  <2>2. ASSUME ~disturbed' PROVE Undisturbed'
    <3>1. Undisturbed /\ ~disturbed
      BY <1>1, <2>2 DEF vars, IInv
    <3>2. \A c \in Callers \ stale' : Fresh(call[c])'
      BY <1>1, <3>1 DEF vars, Undisturbed, Fresh
    <3>3. \A m \in booked' : Accounted(m)'
      BY <1>1, <3>1 DEF vars, Undisturbed, Accounted
    <3>4. AddsUp'
      BY <1>1, <3>1 DEF vars, Undisturbed, AddsUp, Listings, Amount, PostedWith, Lists
    <3>5. OrderFollowsReceipts' /\ PostedIsBooked'
      BY <1>1, <3>1
         DEF vars, Undisturbed, OrderFollowsReceipts, PostedIsBooked, Posted, Listed
    <3> QED
      BY <3>2, <3>3, <3>4, <3>5 DEF Undisturbed
  <2> QED
    BY <2>1, <2>2 DEF IInv
<1>2. ASSUME NEW c \in Callers, OrderStep(c) PROVE IInv'
  BY <1>2, BeginKeeps, SaveChangeKeeps DEF OrderStep
<1>3. ASSUME NEW c \in Callers, CreateStep(c) PROVE IInv'
  BY <1>3, BeginKeeps, SaveCreateKeeps DEF CreateStep
<1>4. ASSUME NEW c \in Callers, EditStep(c) PROVE IInv'
  BY <1>4, BeginKeeps, ReadOrderForEditKeeps, CountEditKeeps, SaveEditKeeps DEF EditStep
<1>5. ASSUME NEW c \in Callers, PostStep(c) PROVE IInv'
  BY <1>5, BeginKeeps, ReadOrderForPostKeeps, CountPostKeeps, BookKeeps, SavePostKeeps
     DEF PostStep
<1>6. ASSUME NEW c \in Callers, ReverseStep(c) PROVE IInv'
  BY <1>6, BeginKeeps, ReadOrderForReverseKeeps, SaveReverseKeeps DEF ReverseStep
<1> QED
  BY <1>1, <1>2, <1>3, <1>4, <1>5, <1>6, StopKeeps DEF Next

LEMMA Invariance == Spec => []IInv
BY InvInit, InvNext, PTL DEF Spec

-----------------------------------------------------------------------------
(* Type correctness of every variable, of what each request carries at     *)
(* each of its steps too, in every history                                 *)
(* (ProcurementGoodsReceiptService).                                       *)
THEOREM ReceiptsTypeCorrect == Spec => []Types
<1>1. IInv => Types
  BY DEF IInv
<1> QED
  BY <1>1, Invariance, PTL

(* For any order and any receipts, and whatever runs at the same time or   *)
(* is cut off: as long as no request writes over what it has not read, the *)
(* received quantity of every item is what the posted receipts list of it, *)
(* and never more than was ordered                                         *)
(* (ProcurementGoodsReceiptService.postGoodsReceipt, reverseGoodsReceipt). *)
THEOREM ReceiptsReceivedAddsUp == Spec => []ReceivedAddsUp
<1>1. IInv => ReceivedAddsUp
  BY PostedWithFacts DEF IInv, Undisturbed, AddsUp, ReceivedAddsUp
<1> QED
  BY <1>1, Invariance, PTL

(* Under the same condition the status of the order tells whether nothing, *)
(* a part or everything was received.                                      *)
THEOREM ReceiptsOrderFollowsReceipts == Spec => []OrderFollowsReceipts
<1>1. IInv => OrderFollowsReceipts
  BY DEF IInv, Undisturbed, OrderFollowsReceipts
<1> QED
  BY <1>1, Invariance, PTL

(* What was accepted of a posted receipt is in the ledger, however many    *)
(* attempts the posting took (postGoodsReceiptStock before the receipt is  *)
(* updated).                                                               *)
THEOREM ReceiptsPostedIsBooked == Spec => []PostedIsBooked
<1>1. IInv => PostedIsBooked
  BY DEF IInv, Undisturbed, PostedIsBooked
<1> QED
  BY <1>1, Invariance, PTL

(* Stock is in the ledger only for the lines of a receipt that is or was   *)
(* posted or is being posted, unless a posting of it was cut off.          *)
THEOREM ReceiptsBookedIsPosted == Spec => []BookedIsPosted
<1>1. IInv => BookedIsPosted
  BY DEF IInv, Told, Undisturbed, Accounted, BookedIsPosted
<1> QED
  BY <1>1, Invariance, PTL
=============================================================================
