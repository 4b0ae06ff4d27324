---------------------- MODULE MaterialDocuments_proofs ----------------------
(***************************************************************************)
(* Proofs about material issues and returns, for any documents, lines and  *)
(* requests.                                                               *)
(*                                                                         *)
(* The invariant says of each request what it holds and knows at each      *)
(* statement (Own), of each two requests that their locks exclude each     *)
(* other (Apart), and of the committed documents and balances that they    *)
(* tell one story (Books).                                                 *)
(***************************************************************************)
EXTENDS MaterialDocuments, FiniteSetTheorems, SequenceTheorems,
        WellFoundedInduction, TLAPS

(* The statements of a transaction that has its document locked.           *)
Locked(c) == pc[c] \in {"advisory", "issue", "line", "commit"}

Working(c) ==
  /\ pc[c] # "idle" => doc[c] \in Docs /\ status[doc[c]] # "ABSENT"
  /\ Locked(c) => status[doc[c]] = "DRAFT"
  /\ pc[c] \in {"advisory", "issue"} => issueOf[doc[c]] \in Issues

(* What a transaction has still to post: each line once.                   *)
Left(c) ==
  /\ pc[c] \in {"advisory", "issue", "line"} =>
       /\ todo[c] # <<>>
       /\ ToSet(todo[c]) \subseteq LinesOf(doc[c])
       /\ \A m, n \in DOMAIN todo[c] : todo[c][m] = todo[c][n] => m = n
  /\ pc[c] \in {"advisory", "issue"} => ToSet(todo[c]) = LinesOf(doc[c])
  /\ pc[c] = "commit" => todo[c] = <<>>

(* What it read is what the rows still hold, and enough of it.             *)
Current(c) ==
  \A i \in ItemLocks(c) : read[c][i] = stock[i] /\ Movable(doc[c], i)

(* A return that was checked against its issue is still allowed.           *)
Covered(c) ==
  pc[c] \in {"line", "commit"} /\ issueOf[doc[c]] # NoIssue =>
    MayReturn(issueOf[doc[c]], lines[doc[c]])

Own(c) == Working(c) /\ Left(c) /\ Current(c) /\ Covered(c)

(* No document, advisory lock or balance row is held by both.              *)
Apart(c, e) ==
  /\ DocLocks(c) \cap DocLocks(e) = {}
  /\ AdvisoryLocks(c) \cap AdvisoryLocks(e) = {}
  /\ ItemLocks(c) \cap ItemLocks(e) = {}

Created == {d \in Docs : status[d] # "ABSENT"}

(* A document that was created has lines, and only finitely many.          *)
HasLines(d) == LinesOf(d) # {} /\ IsFiniteSet(LinesOf(d))

(* The issue a return names was created before it.                         *)
NamesCreated ==
  \A d \in Docs : issueOf[d] # NoIssue => status[issueOf[d]] # "ABSENT"

(* What a return brought back, its issue took.                             *)
TakenBefore ==
  \A d \in Returns, i \in Items :
    <<d, i>> \in ledger /\ issueOf[d] # NoIssue => <<issueOf[d], i>> \in ledger

Within == \A x \in Issues, i \in Items : AlreadyReturned(x, i) <= lines[x][i]

Books ==
  /\ IsFiniteSet(Created)
  /\ \A d \in Created : HasLines(d)
  /\ NamesCreated
  /\ StatusTellsStock
  /\ TakenBefore
  /\ Within
  /\ StockExplained

IInv ==
  /\ TypeOK
  /\ \A c \in Clients : Own(c)
  /\ \A c, e \in Clients : c # e => Apart(c, e)
  /\ Books
-----------------------------------------------------------------------------
(* Sums over finite sets.  Total adds in an order of its own; what follows,*)
(* by induction on the size of the set, is that the order does not matter. *)
(* The induction is that of the least counterexample: every non-empty set  *)
(* of naturals has a least element.                                        *)
LEMMA LeastNatural ==
  ASSUME NEW T \in SUBSET Nat, T # {}
  PROVE  \E x \in T : \A y \in T : x <= y
<1> DEFINE R == {ss \in Nat \X Nat : ss[1] < ss[2]}
<1>1. IsWellFoundedOn(R, Nat)
  BY NatLessThanWellFounded DEF OpToRel
<1> HIDE DEF R
<1>2. PICK x \in T : \A y \in T : <<y, x>> \notin R
  BY <1>1, WFMin
<1>3. \A y \in T : ~(y < x)
  BY <1>2 DEF R
<1> QED
  BY <1>3

LEMMA SetInduction ==
  ASSUME NEW S, IsFiniteSet(S), NEW T,
         \A s \in SUBSET S : (\A r \in SUBSET s : r # s => r \in T) => s \in T
  PROVE  \A s \in SUBSET S : s \in T
<1> SUFFICES ASSUME NEW b \in SUBSET S, b \notin T PROVE FALSE
  OBVIOUS
<1>1. PICK B : B = {s \in SUBSET S : s \notin T}
  OBVIOUS
<1>2. \A s \in SUBSET S : IsFiniteSet(s) /\ Cardinality(s) \in Nat
  BY FS_Subset, FS_CardinalityType
<1>3. PICK N : N = {Cardinality(s) : s \in B}
  OBVIOUS
<1>4. N \in SUBSET Nat /\ N # {}
  BY <1>1, <1>2, <1>3
<1>7. PICK n \in N : \A k \in N : n <= k
  BY <1>4, LeastNatural
<1>5. PICK s \in B : \A r \in B : Cardinality(s) <= Cardinality(r)
  BY <1>3, <1>7
<1>6. ASSUME NEW r \in SUBSET s, r # s
      PROVE  r \in T
  <2>1. IsFiniteSet(s) /\ r \in SUBSET S
    BY <1>1, <1>2, <1>5
  <2>2. Cardinality(r) <= Cardinality(s) /\ Cardinality(r) # Cardinality(s)
    BY <1>6, <2>1, FS_Subset
  <2>3. Cardinality(r) \in Nat /\ Cardinality(s) \in Nat
    BY <1>1, <1>2, <1>5, <2>1
  <2>4. ~(Cardinality(s) <= Cardinality(r))
    BY <2>2, <2>3
  <2> QED
    BY <1>1, <1>5, <2>1, <2>4
<1> QED
  BY <1>1, <1>5, <1>6

Pick(s) == CHOOSE x \in s : TRUE

Total(f, i, S) == MapThenSumSet(LAMBDA x : f[x][i], S)

(* g sums f over the subsets of S.                                         *)
Sums(f, i, S, g) ==
  g = [s \in SUBSET S |-> IF s = {} THEN 0 ELSE f[Pick(s)][i] + g[s \ {Pick(s)}]]

LEMMA PickIn == \A s : s # {} => Pick(s) \in s
  BY DEF Pick

LEMMA SumsAgree ==
  ASSUME NEW e, NEW f, NEW i, NEW R, NEW S, NEW g, NEW h,
         Sums(e, i, R, g), Sums(f, i, S, h),
         NEW t, t \subseteq R, t \subseteq S, IsFiniteSet(t), \A x \in t : e[x][i] = f[x][i]
  PROVE  g[t] = h[t]
<1>1. PICK T : T = {s \in SUBSET t : g[s] = h[s]}
  OBVIOUS
<1>2. ASSUME NEW s \in SUBSET t, \A r \in SUBSET s : r # s => r \in T
      PROVE  s \in T
  <2>1. s \in SUBSET R /\ s \in SUBSET S
    OBVIOUS
  <2>2. CASE s = {}
    BY <1>1, <2>1, <2>2 DEF Sums
  <2>3. CASE s # {}
    <3>1. PICK p : p = Pick(s) /\ p \in s
      BY <2>3, PickIn
    <3>2. g[s] = e[p][i] + g[s \ {p}] /\ h[s] = f[p][i] + h[s \ {p}]
      BY <2>1, <2>3, <3>1 DEF Sums
    <3>3. g[s \ {p}] = h[s \ {p}]
      BY <1>1, <1>2, <3>1
    <3> QED
      BY <1>1, <3>1, <3>2, <3>3
  <2> QED
    BY <2>2, <2>3
<1>3. \A s \in SUBSET t : s \in T
  BY <1>2, SetInduction
<1> QED
  BY <1>1, <1>3

LEMMA SumsExist ==
  ASSUME NEW S, IsFiniteSet(S), NEW f, NEW i
  PROVE  \E g : Sums(f, i, S, g)
<1>1. PICK T : T = {s \in SUBSET S : \E g : Sums(f, i, s, g)}
  OBVIOUS
<1>2. ASSUME NEW s \in SUBSET S, \A r \in SUBSET s : r # s => r \in T
      PROVE  \E g : Sums(f, i, s, g)
  <2>1. PICK v : v = [r \in SUBSET s |-> (CHOOSE g : Sums(f, i, r, g))[r]]
    OBVIOUS
  <2>2. PICK g : g = [r \in SUBSET s |->
                        IF r = {} THEN 0 ELSE f[Pick(r)][i] + v[r \ {Pick(r)}]]
    OBVIOUS
  <2>3. ASSUME NEW r \in SUBSET s, r # s
        PROVE  v[r] = IF r = {} THEN 0 ELSE f[Pick(r)][i] + v[r \ {Pick(r)}]
    <3>1. PICK h : h = CHOOSE x : Sums(f, i, r, x)
      OBVIOUS
    <3>2. Sums(f, i, r, h) /\ v[r] = h[r]
      BY <1>1, <1>2, <2>1, <2>3, <3>1
    <3>3. CASE r = {}
      BY <3>2, <3>3 DEF Sums
    <3>4. CASE r # {}
      <4>1. PICK p : p = Pick(r) /\ p \in r
        BY <3>4, PickIn
      <4>2. h[r] = f[p][i] + h[r \ {p}]
        BY <3>2, <3>4, <4>1 DEF Sums
      <4>3. PICK k : k = CHOOSE x : Sums(f, i, r \ {p}, x)
        OBVIOUS
      <4>4. Sums(f, i, r \ {p}, k) /\ v[r \ {p}] = k[r \ {p}]
        <5>1. r \ {p} \in SUBSET s /\ r \ {p} # s
          BY <2>3, <4>1
        <5> QED
          BY <1>1, <1>2, <2>1, <4>3, <5>1
      <4>5. IsFiniteSet(r \ {p})
        BY FS_Subset
      <4>6. h[r \ {p}] = k[r \ {p}]
        BY <3>2, <4>4, <4>5, SumsAgree
      <4> QED
        BY <3>2, <3>4, <4>1, <4>2, <4>4, <4>6
    <3> QED
      BY <3>3, <3>4
  <2>4. \A r \in SUBSET s : r # {} => v[r \ {Pick(r)}] = g[r \ {Pick(r)}]
    <3> SUFFICES ASSUME NEW r \in SUBSET s, r # {}
                 PROVE  v[r \ {Pick(r)}] = g[r \ {Pick(r)}]
      OBVIOUS
    <3>1. PICK q : q = r \ {Pick(r)}
      OBVIOUS
    <3>2. q \in SUBSET s /\ q # s
      BY <3>1, PickIn
    <3> QED
      BY <2>2, <2>3, <3>1, <3>2
  <2>5. g = [r \in SUBSET s |->
              IF r = {} THEN 0 ELSE f[Pick(r)][i] + g[r \ {Pick(r)}]]
    BY <2>2, <2>4
  <2> QED
    BY <2>5 DEF Sums
<1>3. \A s \in SUBSET S : s \in T
  BY <1>1, <1>2, SetInduction
<1> QED
  BY <1>1, <1>3

LEMMA TotalIs ==
  ASSUME NEW S, IsFiniteSet(S), NEW f, NEW i
  PROVE  \E g : Sums(f, i, S, g) /\ Total(f, i, S) = g[S]
<1>1. PICK h : h = CHOOSE g : Sums(f, i, S, g)
  OBVIOUS
<1>2. Sums(f, i, S, h)
  BY <1>1, SumsExist
<1>3. Total(f, i, S) = h[S]
  BY <1>1 DEF Total, MapThenSumSet, MapThenFoldSet, Sums, Pick
<1> QED
  BY <1>2, <1>3

(* The order in which the elements are added does not matter.              *)
LEMMA SumsTake ==
  ASSUME NEW S, IsFiniteSet(S), NEW f, NEW i, NEW g, Sums(f, i, S, g),
         \A x \in S : f[x][i] \in Int
  PROVE  \A s \in SUBSET S : g[s] \in Int /\ \A x \in s : g[s] = f[x][i] + g[s \ {x}]
<1>1. PICK T : T = {s \in SUBSET S :
                      g[s] \in Int /\ \A x \in s : g[s] = f[x][i] + g[s \ {x}]}
  OBVIOUS
<1>2. ASSUME NEW s \in SUBSET S, \A r \in SUBSET s : r # s => r \in T
      PROVE  s \in T
  <2>1. CASE s = {}
    BY <1>1, <2>1 DEF Sums
  <2>2. CASE s # {}
    <3>1. PICK p : p = Pick(s) /\ p \in s
      BY <2>2, PickIn
    <3>2. g[s] = f[p][i] + g[s \ {p}] /\ f[p][i] \in Int
      BY <2>2, <3>1 DEF Sums
    <3>3. \A r \in SUBSET s : r # s =>
            g[r] \in Int /\ \A x \in r : g[r] = f[x][i] + g[r \ {x}]
      BY <1>1, <1>2
    <3>4. s \ {p} \in SUBSET s /\ s \ {p} # s
      BY <3>1
    <3>5. g[s] \in Int
      BY <3>2, <3>3, <3>4
    <3>6. ASSUME NEW x \in s, x # p
          PROVE  g[s] = f[x][i] + g[s \ {x}]
      <4>1. PICK q : q = s \ {p, x}
        OBVIOUS
      <4>2. /\ (s \ {p}) \ {x} = q /\ (s \ {x}) \ {p} = q
            /\ s \ {x} \in SUBSET s /\ s \ {x} # s
            /\ q \in SUBSET s /\ q # s
        BY <3>1, <3>6, <4>1
      <4>3. g[s \ {p}] = f[x][i] + g[q]
        BY <3>3, <3>4, <3>6, <4>2
      <4>4. g[s \ {x}] = f[p][i] + g[q]
        <5>1. p \in s \ {x}
          BY <3>1, <3>6
        <5>2. g[s \ {x}] = f[p][i] + g[(s \ {x}) \ {p}]
          BY <3>3, <4>2, <5>1
        <5> QED
          BY <4>2, <5>2
      <4>5. g[q] \in Int /\ f[x][i] \in Int /\ g[s \ {p}] \in Int /\ g[s \ {x}] \in Int
        BY <3>3, <3>4, <4>2
      <4> QED
        BY <3>2, <4>3, <4>4, <4>5
    <3>7. \A x \in s : g[s] = f[x][i] + g[s \ {x}]
      BY <3>1, <3>2, <3>6
    <3> QED
      BY <1>1, <3>5, <3>7
  <2> QED
    BY <2>1, <2>2
<1>3. \A s \in SUBSET S : s \in T
  BY <1>2, SetInduction
<1> QED
  BY <1>1, <1>3

(* What is used of sums elsewhere.                                         *)
LEMMA TotalEmpty == \A f, i : Total(f, i, {}) = 0
<1> SUFFICES ASSUME NEW f, NEW i PROVE Total(f, i, {}) = 0
  OBVIOUS
<1>1. PICK g : Sums(f, i, {}, g) /\ Total(f, i, {}) = g[{}]
  BY TotalIs, FS_EmptySet
<1> QED
  BY <1>1 DEF Sums

LEMMA TotalSame ==
  ASSUME NEW S, IsFiniteSet(S), NEW f, NEW i, NEW h, \A x \in S : f[x][i] = h[x][i]
  PROVE  Total(f, i, S) = Total(h, i, S)
<1>1. PICK g : Sums(f, i, S, g) /\ Total(f, i, S) = g[S]
  BY TotalIs
<1>2. PICK k : Sums(h, i, S, k) /\ Total(h, i, S) = k[S]
  BY TotalIs
<1> QED
  BY <1>1, <1>2, SumsAgree

LEMMA TotalTake ==
  ASSUME NEW S, IsFiniteSet(S), NEW f, NEW i, \A x \in S : f[x][i] \in Int
  PROVE  /\ Total(f, i, S) \in Int
         /\ \A x \in S : Total(f, i, S) = f[x][i] + Total(f, i, S \ {x})
<1>1. PICK g : Sums(f, i, S, g) /\ Total(f, i, S) = g[S]
  BY TotalIs
<1>2. g[S] \in Int /\ \A x \in S : g[S] = f[x][i] + g[S \ {x}]
  <2>0. Sums(f, i, S, g) /\ \A x \in S : f[x][i] \in Int
    BY <1>1
  <2>1. \A s \in SUBSET S : g[s] \in Int /\ \A x \in s : g[s] = f[x][i] + g[s \ {x}]
    <3> SUFFICES ASSUME NEW s \in SUBSET S
                 PROVE  g[s] \in Int /\ \A x \in s : g[s] = f[x][i] + g[s \ {x}]
      OBVIOUS
    <3>1. g[s] \in Int
      BY <2>0, SumsTake
    <3>2. ASSUME NEW x \in s PROVE g[s] = f[x][i] + g[s \ {x}]
      BY <2>0, SumsTake
    <3> QED
      BY <3>1, <3>2
  <2> QED
    BY <2>1
<1>3. ASSUME NEW x \in S
      PROVE  Total(f, i, S \ {x}) = g[S \ {x}]
  <2>1. IsFiniteSet(S \ {x})
    BY FS_Subset
  <2>2. PICK k : Sums(f, i, S \ {x}, k) /\ Total(f, i, S \ {x}) = k[S \ {x}]
    BY <2>1, TotalIs
  <2> QED
    BY <1>1, <2>1, <2>2, SumsAgree
<1> QED
  BY <1>1, <1>2, <1>3

LEMMA TotalNat ==
  ASSUME NEW S, IsFiniteSet(S), NEW f, NEW i, \A x \in S : f[x][i] \in Nat
  PROVE  Total(f, i, S) \in Nat
<1>1. PICK T : T = {s \in SUBSET S : Total(f, i, s) \in Nat}
  OBVIOUS
<1>2. ASSUME NEW s \in SUBSET S, \A r \in SUBSET s : r # s => r \in T
      PROVE  s \in T
  <2>1. CASE s = {}
    BY <1>1, <2>1, TotalEmpty
  <2>2. CASE s # {}
    <3>1. PICK x \in s : TRUE
      BY <2>2
    <3>2. IsFiniteSet(s)
      BY FS_Subset
    <3>3. Total(f, i, s) = f[x][i] + Total(f, i, s \ {x})
      BY <3>1, <3>2, TotalTake
    <3>4. s \ {x} \in T
      BY <1>2, <3>1
    <3> QED
      BY <1>1, <3>1, <3>3, <3>4
  <2> QED
    BY <2>1, <2>2
<1>3. \A s \in SUBSET S : s \in T
  BY <1>2, SetInduction
<1> QED
  BY <1>1, <1>3

(* Elements that count for nothing may be left out.                        *)
LEMMA TotalNonzero ==
  ASSUME NEW S, IsFiniteSet(S), NEW f, NEW i, \A x \in S : f[x][i] \in Nat,
         NEW R \in SUBSET S, \A x \in S \ R : f[x][i] = 0
  PROVE  Total(f, i, S) = Total(f, i, R)
<1>1. PICK T : T = {s \in SUBSET S : Total(f, i, s) = Total(f, i, s \cap R)}
  OBVIOUS
<1>2. ASSUME NEW s \in SUBSET S, \A r \in SUBSET s : r # s => r \in T
      PROVE  s \in T
  <2>1. CASE s = {}
    <3>1. s \cap R = s
      BY <2>1
    <3> QED
      BY <1>1, <3>1
  <2>2. CASE s # {}
    <3>1. PICK x \in s : TRUE
      BY <2>2
    <3>2. IsFiniteSet(s) /\ IsFiniteSet(s \cap R)
      BY FS_Subset
    <3>3. Total(f, i, s) = f[x][i] + Total(f, i, s \ {x})
      BY <3>1, <3>2, TotalTake
    <3>4. Total(f, i, s \ {x}) = Total(f, i, (s \ {x}) \cap R)
      BY <1>1, <1>2, <3>1
    <3>5. CASE x \in R
      <4>1. Total(f, i, s \cap R) = f[x][i] + Total(f, i, (s \cap R) \ {x})
        BY <3>1, <3>2, <3>5, TotalTake
      <4>2. (s \ {x}) \cap R = (s \cap R) \ {x}
        OBVIOUS
      <4> QED
        BY <1>1, <3>3, <3>4, <4>1, <4>2
    <3>6. CASE x \notin R
      <4>1. (s \ {x}) \cap R = s \cap R
        BY <3>6
      <4>2. IsFiniteSet(s \ {x}) /\ \A y \in s \ {x} : f[y][i] \in Nat
        BY <3>2, FS_RemoveElement
      <4>3. Total(f, i, s \ {x}) \in Nat
        BY <4>2, TotalNat
      <4>4. f[x][i] = 0
        BY <3>1, <3>6
      <4>5. Total(f, i, s) = Total(f, i, s \cap R)
        <5>1. Total(f, i, s) = Total(f, i, s \ {x})
          BY <3>3, <4>3, <4>4
        <5> QED
          BY <3>4, <4>1, <5>1
      <4> QED
        BY <1>1, <4>5
    <3> QED
      BY <3>5, <3>6
  <2> QED
    BY <2>1, <2>2
<1>3. \A s \in SUBSET S : s \in T
  BY <1>2, SetInduction
<1>4. S \cap R = R
  OBVIOUS
<1> QED
  BY <1>1, <1>3, <1>4
-----------------------------------------------------------------------------
Returned(x) == {d \in Returns : issueOf[d] = x /\ status[d] = "POSTED"}

Booked(ds, i) == {d \in ds : <<d, i>> \in ledger}

LEMMA ReturnedTotal ==
  ASSUME NEW x, NEW i
  PROVE  /\ AlreadyReturned(x, i) = Total(lines, i, Returned(x))
         /\ AlreadyReturned(x, i)' = Total(lines', i, Returned(x)')
<1>1. AlreadyReturned(x, i) = Total(lines, i, Returned(x))
  BY DEF AlreadyReturned, Returned, Total
<1>2. AlreadyReturned(x, i)' = Total(lines', i, Returned(x)')
  BY DEF AlreadyReturned, Returned, Total, MapThenSumSet, MapThenFoldSet
<1> QED
  BY <1>1, <1>2

LEMMA MovedTotal ==
  ASSUME NEW ds, NEW i
  PROVE  /\ MovedBy(ds, i) = Total(lines, i, Booked(ds, i))
         /\ MovedBy(ds, i)' = Total(lines', i, Booked(ds, i)')
<1>1. MovedBy(ds, i) = Total(lines, i, Booked(ds, i))
  BY DEF MovedBy, Booked, Total
<1>2. MovedBy(ds, i)' = Total(lines', i, Booked(ds, i)')
  BY DEF MovedBy, Booked, Total, MapThenSumSet, MapThenFoldSet
<1> QED
  BY <1>1, <1>2

LEMMA TotalsFrame ==
  ASSUME UNCHANGED docVars, ledger' = ledger
  PROVE  /\ \A x, i : AlreadyReturned(x, i)' = AlreadyReturned(x, i)
         /\ \A ds, i : MovedBy(ds, i)' = MovedBy(ds, i)
<1>1. ASSUME NEW x, NEW i
      PROVE  AlreadyReturned(x, i)' = AlreadyReturned(x, i)
  <2>1. Returned(x)' = Returned(x) /\ lines' = lines
    BY DEF Returned, docVars
  <2> QED
    BY <2>1, ReturnedTotal
<1>2. ASSUME NEW ds, NEW i
      PROVE  MovedBy(ds, i)' = MovedBy(ds, i)
  <2>1. Booked(ds, i)' = Booked(ds, i) /\ lines' = lines
    BY DEF Booked, docVars
  <2> QED
    BY <2>1, MovedTotal
<1> QED
  BY <1>1, <1>2

(* What a request holds is what its own fields say: another's step leaves  *)
(* it as it is.                                                            *)
SameTx(e) ==
  /\ pc'[e] = pc[e]
  /\ doc'[e] = doc[e]
  /\ todo'[e] = todo[e]
  /\ read'[e] = read[e]

SameDoc(d) == lines'[d] = lines[d] /\ issueOf'[d] = issueOf[d]

LEMMA LocksFrame ==
  ASSUME NEW e \in Clients, SameTx(e), pc[e] # "idle" => SameDoc(doc[e])
  PROVE  /\ DocLocks(e)' = DocLocks(e)
         /\ AdvisoryLocks(e)' = AdvisoryLocks(e)
         /\ ItemLocks(e)' = ItemLocks(e)
<1>1. CASE pc[e] = "idle"
  BY <1>1 DEF SameTx, DocLocks, AdvisoryLocks, ItemLocks
<1>2. CASE pc[e] # "idle"
  BY <1>2 DEF SameTx, SameDoc, DocLocks, AdvisoryLocks, ItemLocks, LinesOf
<1> QED
  BY <1>1, <1>2

(* A return that may be posted still may, when its issue is as it was and  *)
(* no more of it was returned.                                             *)
LEMMA MayReturnFrame ==
  ASSUME TypeOK, TypeOK', NEW x \in Issues, NEW ls \in [Items -> Nat],
         MayReturn(x, ls), status'[x] = "POSTED", lines'[x] = lines[x],
         \A i \in Items : /\ AlreadyReturned(x, i) \in Nat
                          /\ AlreadyReturned(x, i)' \in Nat
                          /\ AlreadyReturned(x, i)' <= AlreadyReturned(x, i)
  PROVE  MayReturn(x, ls)'
<1> SUFFICES ASSUME NEW i \in Items, ls[i] > 0
             PROVE  AlreadyReturned(x, i)' + ls[i] <= lines[x][i]
  BY DEF MayReturn
<1>1. AlreadyReturned(x, i) + ls[i] <= lines[x][i]
  BY DEF MayReturn
<1>2. ls[i] \in Nat /\ lines[x][i] \in Nat
  BY DEF TypeOK, Docs
<1> QED
  BY <1>1, <1>2

LEMMA OwnFrame ==
  ASSUME IInv, TypeOK', NEW e \in Clients, SameTx(e),
         pc[e] # "idle" => SameDoc(doc[e]) /\ status'[doc[e]] # "ABSENT",
         Locked(e) => status'[doc[e]] = "DRAFT",
         \A i \in ItemLocks(e) : stock'[i] = stock[i],
         ASSUME NEW x, x = issueOf[doc[e]], pc[e] \in {"line", "commit"},
                x # NoIssue
         PROVE  MayReturn(x, lines[doc[e]])'
  PROVE  Own(e)'
<1>1. Working(e) /\ Left(e) /\ Current(e) /\ Covered(e)
  BY DEF IInv, Own
<1>2. Working(e)'
  BY <1>1 DEF Working, Locked, SameTx, SameDoc
<1>3. Left(e)'
  <2>1. pc[e] # "idle" => LinesOf(doc[e])' = LinesOf(doc[e])
    BY DEF LinesOf, SameTx, SameDoc
  <2> QED
    BY <1>1, <2>1 DEF Left, SameTx
<1>4. Current(e)'
  <2>1. ItemLocks(e)' = ItemLocks(e)
    BY LocksFrame
  <2>2. ASSUME NEW i \in ItemLocks(e)
        PROVE  read'[e][i] = stock'[i] /\ Movable(doc[e], i)'
    <3>1. read[e][i] = stock[i] /\ Movable(doc[e], i)
      BY <1>1, <2>2 DEF Current
    <3>2. pc[e] # "idle"
      BY <2>2 DEF ItemLocks
    <3> QED
      BY <2>2, <3>1, <3>2 DEF SameTx, SameDoc, Movable
  <2> QED
    BY <2>1, <2>2 DEF Current
<1>5. Covered(e)'
  <2> SUFFICES ASSUME pc'[e] \in {"line", "commit"}, issueOf'[doc'[e]] # NoIssue
               PROVE  MayReturn(issueOf[doc[e]], lines[doc[e]])'
    BY DEF Covered
  <2>1. PICK x : x = issueOf[doc[e]]
    OBVIOUS
  <2>2. /\ pc[e] \in {"line", "commit"} /\ doc'[e] = doc[e]
        /\ issueOf'[doc[e]] = x /\ lines'[doc[e]] = lines[doc[e]]
    BY <2>1 DEF SameTx, SameDoc
  <2>3. PICK d : d = doc[e]
    OBVIOUS
  <2> QED
    BY <2>1, <2>2, <2>3
<1> QED
  BY <1>2, <1>3, <1>4, <1>5 DEF Own

-----------------------------------------------------------------------------
(* The order in which a document's lines come has each line once.          *)
LEMMA LinesOrder ==
  ASSUME TypeOK, NEW d \in Docs, HasLines(d), NEW order \in SetToSeqs(LinesOf(d))
  PROVE  /\ order \in Seq(Items) /\ order # <<>>
         /\ ToSet(order) = LinesOf(d)
         /\ \A m, n \in DOMAIN order : order[m] = order[n] => m = n
<1>1. PICK L : L = LinesOf(d)
  OBVIOUS
<1>2. PICK n : n = Cardinality(L)
  OBVIOUS
<1>3. n \in Nat /\ n # 0 /\ IsFiniteSet(L) /\ L \subseteq Items
  BY <1>1, <1>2, FS_CardinalityType, FS_EmptySet DEF HasLines, LinesOf
<1>4. /\ order \in [1 .. n -> L]
      /\ \A m, k \in 1 .. n : m # k => order[m] # order[k]
  BY <1>1, <1>2 DEF SetToSeqs
<1>5. order \in Injection(1 .. n, L)
  BY <1>4 DEF Injection, IsInjective
<1>6. Cardinality(1 .. n) = Cardinality(L)
  BY <1>2, <1>3, FS_Interval
<1>7. order \in Surjection(1 .. n, L)
  BY <1>3, <1>5, <1>6, FS_Injection
<1>8. ToSet(order) = L
  BY <1>4, <1>7 DEF Surjection, ToSet
<1>9. order \in Seq(Items) /\ order # <<>>
  BY <1>3, <1>4
<1> QED
  BY <1>1, <1>4, <1>8, <1>9

-----------------------------------------------------------------------------
(* Request c moves, and nothing is committed.                              *)
Quiet(c) ==
  /\ UNCHANGED <<docVars, stockVars>>
  /\ \A e \in Clients \ {c} : SameTx(e)

LEMMA QuietKeeps ==
  ASSUME IInv, NEW c \in Clients, Quiet(c), TypeOK', Own(c)',
         \A e \in Clients \ {c} :
           /\ DocLocks(c)' \cap DocLocks(e) = {}
           /\ AdvisoryLocks(c)' \cap AdvisoryLocks(e) = {}
           /\ ItemLocks(c)' \cap ItemLocks(e) = {}
  PROVE  IInv'
<1>1. \A e \in Clients \ {c} :
        /\ DocLocks(e)' = DocLocks(e)
        /\ AdvisoryLocks(e)' = AdvisoryLocks(e)
        /\ ItemLocks(e)' = ItemLocks(e)
  BY LocksFrame DEF Quiet, docVars, SameDoc
<1>2. ASSUME NEW e \in Clients \ {c}
      PROVE  Own(e)'
  <2>1. SameTx(e) /\ status' = status /\ lines' = lines /\ issueOf' = issueOf /\ stock' = stock
    BY DEF Quiet, docVars, stockVars
  <2>2. Working(e) /\ Covered(e)
    BY DEF IInv, Own
  <2>3. ASSUME NEW x, x = issueOf[doc[e]], pc[e] \in {"line", "commit"}, x # NoIssue
        PROVE  MayReturn(x, lines[doc[e]])'
    <3>1. MayReturn(x, lines[doc[e]])
      BY <2>2, <2>3 DEF Covered
    <3>2. \A i \in Items : AlreadyReturned(x, i)' = AlreadyReturned(x, i)
      BY TotalsFrame DEF Quiet, stockVars
    <3> QED
      BY <2>1, <3>1, <3>2 DEF MayReturn, SameTx
  <2> QED
    BY <2>1, <2>2, <2>3, OwnFrame DEF Working, Locked, SameDoc
<1>3. ASSUME NEW e \in Clients, NEW f \in Clients, e # f
      PROVE  Apart(e, f)'
  <2>1. CASE e = c
    BY <1>1, <1>3, <2>1 DEF Apart
  <2>2. CASE f = c
    BY <1>1, <1>3, <2>2 DEF Apart
  <2>3. CASE e # c /\ f # c
    BY <1>1, <1>3, <2>3 DEF IInv, Apart
  <2> QED
    BY <2>1, <2>2, <2>3
<1>4. Books'
  <2>1. status' = status /\ lines' = lines /\ issueOf' = issueOf /\ stock' = stock
        /\ received' = received /\ ledger' = ledger
    BY DEF Quiet, docVars, stockVars
  <2>2. Within' /\ StockExplained'
    BY <2>1, TotalsFrame DEF IInv, Books, Within, StockExplained, docVars
  <2> QED
    BY <2>1, <2>2 DEF IInv, Books, Created, HasLines, LinesOf, NamesCreated,
                      StatusTellsStock, InLedger, TakenBefore
<1> QED
  BY <1>2, <1>3, <1>4 DEF IInv

(* A transaction that ends holds nothing and has nothing left.             *)
LEMMA EndFacts ==
  ASSUME TypeOK, NEW c \in Clients, End(c)
  PROVE  /\ pc'[c] = "idle"
         /\ DocLocks(c)' = {} /\ AdvisoryLocks(c)' = {} /\ ItemLocks(c)' = {}
         /\ Own(c)'
         /\ \A e \in Clients \ {c} : SameTx(e)
         /\ pc' \in [Clients -> {"idle", "lock", "advisory", "issue", "line",
                                 "commit", "cancel"}]
         /\ doc' \in [Clients -> Docs \cup {NoDoc}]
         /\ todo' \in [Clients -> Seq(Items)]
         /\ read' \in [Clients -> [Items -> Nat]]
<1>1. pc'[c] = "idle"
  BY DEF TypeOK, End, GoTo
<1>2. DocLocks(c)' = {} /\ AdvisoryLocks(c)' = {} /\ ItemLocks(c)' = {}
  BY <1>1 DEF DocLocks, AdvisoryLocks, ItemLocks
<1>3. Own(c)'
  BY <1>1, <1>2 DEF Own, Working, Locked, Left, Current, Covered
<1>4. \A e \in Clients \ {c} : SameTx(e)
  BY DEF TypeOK, End, GoTo, SameTx
<1>5. NoLines \in [Items -> Nat] /\ <<>> \in Seq(Items)
  BY DEF NoLines
<1> QED
  BY <1>1, <1>2, <1>3, <1>4, <1>5 DEF TypeOK, End, GoTo

LEMMA EndKeeps ==
  ASSUME IInv, NEW c \in Clients, End(c), UNCHANGED <<docVars, stockVars>>
  PROVE  IInv'
<1>1. TypeOK /\ TypeOK'
  BY EndFacts DEF IInv, TypeOK, docVars, stockVars
<1>2. Quiet(c)
  BY <1>1, EndFacts DEF Quiet
<1> QED
  BY <1>1, <1>2, EndFacts, QuietKeeps
-----------------------------------------------------------------------------
LEMMA BeginPostStep ==
  ASSUME IInv, NEW c \in Clients, NEW d \in Docs, BeginPost(c, d)
  PROVE  IInv'
<1>1. TypeOK /\ TypeOK'
  BY DEF IInv, TypeOK, BeginPost, GoTo, docVars, stockVars
<1>2. pc'[c] = "lock" /\ doc'[c] = d
  BY <1>1 DEF TypeOK, BeginPost, GoTo
<1>3. Quiet(c)
  BY <1>1 DEF TypeOK, BeginPost, GoTo, Quiet, SameTx
<1>4. DocLocks(c)' = {} /\ AdvisoryLocks(c)' = {} /\ ItemLocks(c)' = {}
  BY <1>2 DEF DocLocks, AdvisoryLocks, ItemLocks
<1>5. Own(c)'
  BY <1>2, <1>4
  DEF BeginPost, docVars, Own, Working, Locked, Left, Current, Covered
<1> QED
  BY <1>1, <1>3, <1>4, <1>5, QuietKeeps

LEMMA BeginCancelStep ==
  ASSUME IInv, NEW c \in Clients, NEW d \in Docs, BeginCancel(c, d)
  PROVE  IInv'
<1>1. TypeOK /\ TypeOK'
  BY DEF IInv, TypeOK, BeginCancel, GoTo, docVars, stockVars
<1>2. pc'[c] = "cancel" /\ doc'[c] = d
  BY <1>1 DEF TypeOK, BeginCancel, GoTo
<1>3. Quiet(c)
  BY <1>1 DEF TypeOK, BeginCancel, GoTo, Quiet, SameTx
<1>4. DocLocks(c)' = {} /\ AdvisoryLocks(c)' = {} /\ ItemLocks(c)' = {}
  BY <1>2 DEF DocLocks, AdvisoryLocks, ItemLocks
<1>5. Own(c)'
  BY <1>2, <1>4
  DEF BeginCancel, docVars, Own, Working, Locked, Left, Current, Covered
<1> QED
  BY <1>1, <1>3, <1>4, <1>5, QuietKeeps

(* The document is locked: no other transaction has it locked, and it is   *)
(* still a DRAFT.                                                          *)
LEMMA LockDocStep ==
  ASSUME IInv, NEW c \in Clients, LockDoc(c)
  PROVE  IInv'
<1>1. TypeOK /\ Own(c)
  BY DEF IInv
<1>2. PICK d \in Docs : d = doc[c] /\ status[d] # "ABSENT"
  BY <1>1 DEF LockDoc, Own, Working
<1>3. CASE status[d] # "DRAFT"
  BY <1>2, <1>3, EndKeeps DEF LockDoc
<1>4. CASE status[d] = "DRAFT"
  <2>1. PICK order \in SetToSeqs(LinesOf(d)) :
          todo' = [todo EXCEPT ![c] = order]
    BY <1>2, <1>4 DEF LockDoc
  <2>2. HasLines(d)
    BY <1>2 DEF IInv, Books, Created
  <2>3. /\ order \in Seq(Items) /\ order # <<>>
        /\ ToSet(order) = LinesOf(d)
        /\ \A m, n \in DOMAIN order : order[m] = order[n] => m = n
    BY <1>1, <2>1, <2>2, LinesOrder
  <2>4. PICK step \in {"line", "advisory"} :
          /\ pc' = [pc EXCEPT ![c] = step]
          /\ step = "line" <=> issueOf[d] = NoIssue
    BY <1>2, <1>4 DEF LockDoc, GoTo
  <2>5. UNCHANGED <<docVars, stockVars, doc, read>>
    BY <1>2, <1>4 DEF LockDoc
  <2>6. TypeOK'
    BY <1>1, <2>1, <2>3, <2>4, <2>5 DEF TypeOK, docVars, stockVars
  <2>7. pc'[c] = step /\ doc'[c] = d /\ todo'[c] = order
    BY <1>1, <1>2, <2>1, <2>4, <2>5 DEF TypeOK
  <2>8. Quiet(c)
    BY <1>1, <2>1, <2>4, <2>5 DEF TypeOK, Quiet, SameTx
  <2>9. issueOf' = issueOf /\ status' = status /\ lines' = lines
    BY <2>5 DEF docVars
  <2>10. DocLocks(c)' = {d} /\ AdvisoryLocks(c)' = {} /\ ItemLocks(c)' = {}
    <3>1. DocLocks(c)' = {d}
      <4>1. d # NoIssue
        BY DocumentAssumption DEF DocumentAssumption, Docs
      <4> QED
        BY <4>1, <2>4, <2>7, <2>9 DEF DocLocks
    <3>2. AdvisoryLocks(c)' = {}
      BY <2>4, <2>7, <2>9 DEF AdvisoryLocks
    <3>3. LinesOf(d)' = LinesOf(d)
      BY <2>9 DEF LinesOf
    <3>4. ItemLocks(c)' = {}
      BY <2>3, <2>7, <3>3 DEF ItemLocks
    <3> QED
      BY <3>1, <3>2, <3>4
  <2>11. Own(c)'
    <3>1. Working(c)'
      <4>1. issueOf[d] \in Issues \cup {NoIssue}
        BY <1>1 DEF TypeOK
      <4> QED
        BY <1>4, <2>4, <2>7, <2>9, <4>1 DEF Working, Locked
    <3>2. Left(c)'
      <4>1. LinesOf(d)' = LinesOf(d)
        BY <2>9 DEF LinesOf
      <4> QED
        BY <2>3, <2>4, <2>7, <4>1 DEF Left
    <3>3. Current(c)'
      BY <2>10 DEF Current
    <3>4. Covered(c)'
      BY <2>4, <2>7, <2>9 DEF Covered
    <3> QED
      BY <3>1, <3>2, <3>3, <3>4 DEF Own
  <2>12. \A e \in Clients \ {c} : d \notin DocLocks(e)
    BY <1>2 DEF LockDoc, Blockers
  <2> QED
    BY <2>6, <2>8, <2>10, <2>11, <2>12, QuietKeeps
<1> QED
  BY <1>3, <1>4

LEMMA LockReturnsStep ==
  ASSUME IInv, NEW c \in Clients, LockReturnsOfIssue(c)
  PROVE  IInv'
<1>1. TypeOK /\ TypeOK' /\ Own(c)
  BY DEF IInv, TypeOK, LockReturnsOfIssue, GoTo, docVars, stockVars
<1>2. PICK d \in Docs : d = doc[c] /\ status[d] = "DRAFT" /\ issueOf[d] \in Issues
  BY <1>1 DEF LockReturnsOfIssue, Own, Working, Locked
<1>3. /\ pc[c] = "advisory" /\ pc'[c] = "issue" /\ doc'[c] = d /\ todo'[c] = todo[c]
      /\ issueOf' = issueOf /\ status' = status /\ lines' = lines
  BY <1>1, <1>2 DEF TypeOK, LockReturnsOfIssue, GoTo, docVars
<1>4. Quiet(c)
  BY <1>1 DEF TypeOK, LockReturnsOfIssue, GoTo, Quiet, SameTx
<1>5. /\ DocLocks(c)' = DocLocks(c)
      /\ AdvisoryLocks(c)' = {issueOf[d]}
      /\ ItemLocks(c)' = {}
  <2>1. issueOf[d] # NoIssue
    BY <1>2, DocumentAssumption DEF DocumentAssumption
  <2> QED
    BY <1>2, <1>3, <2>1 DEF DocLocks, AdvisoryLocks, ItemLocks
<1>6. Own(c)'
  <2>1. Working(c)' /\ Covered(c)'
    BY <1>2, <1>3 DEF Working, Locked, Covered
  <2>2. Left(c)'
    <3>1. LinesOf(d)' = LinesOf(d)
      BY <1>3 DEF LinesOf
    <3> QED
      BY <1>1, <1>2, <1>3, <3>1 DEF Own, Left
  <2>3. Current(c)'
    BY <1>5 DEF Current
  <2> QED
    BY <2>1, <2>2, <2>3 DEF Own
<1>7. \A e \in Clients \ {c} : /\ issueOf[d] \notin AdvisoryLocks(e)
                               /\ DocLocks(c) \cap DocLocks(e) = {}
  BY <1>2, <1>3 DEF LockReturnsOfIssue, Blockers, IInv, Apart
<1> QED
  BY <1>1, <1>4, <1>5, <1>6, <1>7, QuietKeeps

LEMMA LockIssueStep ==
  ASSUME IInv, NEW c \in Clients, LockIssue(c)
  PROVE  IInv'
<1>1. TypeOK /\ Own(c) /\ pc[c] = "issue" /\ Blockers(c) = {}
  BY DEF IInv, LockIssue
<1>2. PICK d \in Docs : d = doc[c] /\ status[d] = "DRAFT"
  BY <1>1 DEF Own, Working, Locked
<1>3. PICK x \in Issues : x = issueOf[d]
  BY <1>1, <1>2 DEF Own, Working
<1>4. CASE ~MayReturn(x, lines[d])
  <2>1. End(c) /\ UNCHANGED <<docVars, stockVars>>
    BY <1>2, <1>3, <1>4 DEF LockIssue
  <2> QED
    BY <2>1, EndKeeps
<1>5. CASE MayReturn(x, lines[d])
  <2>1. GoTo(c, "line") /\ UNCHANGED <<docVars, stockVars, doc, todo, read>>
    BY <1>2, <1>3, <1>5 DEF LockIssue
  <2>2. TypeOK'
    BY <1>1, <2>1 DEF TypeOK, GoTo, docVars, stockVars
  <2>3. /\ pc'[c] = "line" /\ doc'[c] = d /\ todo'[c] = todo[c]
        /\ issueOf' = issueOf /\ status' = status /\ lines' = lines
    BY <1>1, <1>2, <2>1 DEF TypeOK, GoTo, docVars
  <2>4. Quiet(c)
    BY <1>1, <2>1 DEF TypeOK, GoTo, Quiet, SameTx
  <2>5. ToSet(todo[c]) = LinesOf(d) /\ LinesOf(d)' = LinesOf(d)
    BY <1>1, <1>2, <2>3 DEF Own, Left, LinesOf
  <2>6. x # NoIssue /\ d # NoIssue
    BY DocumentAssumption DEF DocumentAssumption, Docs
  <2>7. /\ DocLocks(c) = {d} /\ DocLocks(c)' = {d, x}
        /\ AdvisoryLocks(c)' = AdvisoryLocks(c)
        /\ ItemLocks(c)' = {}
    <3>1. DocLocks(c) = {d} /\ DocLocks(c)' = {d, x}
      BY <1>1, <1>2, <1>3, <2>3, <2>6 DEF DocLocks
    <3>2. AdvisoryLocks(c)' = AdvisoryLocks(c)
      BY <1>1, <1>2, <2>3 DEF AdvisoryLocks
    <3>3. ItemLocks(c)' = {}
      BY <2>3, <2>5 DEF ItemLocks
    <3> QED
      BY <3>1, <3>2, <3>3
  <2>8. Own(c)'
    <3>1. Working(c)'
      BY <1>2, <2>3 DEF Working, Locked
    <3>2. Left(c)'
      BY <1>1, <1>2, <2>3, <2>5 DEF Own, Left
    <3>3. Current(c)'
      BY <2>7 DEF Current
    <3>4. Covered(c)'
      <4>1. \A i \in Items : AlreadyReturned(x, i)' = AlreadyReturned(x, i)
        BY <2>1, TotalsFrame DEF stockVars
      <4>2. MayReturn(x, lines[d])'
        BY <1>5, <2>3, <4>1 DEF MayReturn
      <4> QED
        BY <1>3, <2>3, <4>2 DEF Covered
    <3> QED
      BY <3>1, <3>2, <3>3, <3>4 DEF Own
  <2>9. \A e \in Clients \ {c} : /\ x \notin DocLocks(e)
                                 /\ DocLocks(c) \cap DocLocks(e) = {}
                                 /\ AdvisoryLocks(c) \cap AdvisoryLocks(e) = {}
    BY <1>1, <1>2, <1>3 DEF Blockers, IInv, Apart
  <2> QED
    BY <2>2, <2>4, <2>7, <2>8, <2>9, QuietKeeps
<1> QED
  BY <1>4, <1>5

(* Taking the first line off leaves the others, each once.                 *)
LEMMA TailFacts ==
  ASSUME NEW s \in Seq(Items), s # <<>>,
         \A m, n \in DOMAIN s : s[m] = s[n] => m = n
  PROVE  /\ Head(s) \in Items /\ Head(s) \in ToSet(s)
         /\ Tail(s) \in Seq(Items)
         /\ ToSet(Tail(s)) = ToSet(s) \ {Head(s)}
         /\ \A m, n \in DOMAIN Tail(s) : Tail(s)[m] = Tail(s)[n] => m = n
         /\ Tail(s) = <<>> <=> Len(s) = 1
<1>1. PICK n \in Nat : n = Len(s) /\ n # 0
  OBVIOUS
<1>2. /\ DOMAIN s = 1 .. n /\ Head(s) = s[1] /\ 1 \in 1 .. n
      /\ Tail(s) \in Seq(Items) /\ Len(Tail(s)) = n - 1
  BY <1>1
<1>3. DOMAIN Tail(s) = 1 .. n - 1
  BY <1>2
<1>4. \A k \in 1 .. n - 1 : Tail(s)[k] = s[k + 1]
  BY <1>1, <1>2, HeadTailProperties
<1>5. ToSet(Tail(s)) = ToSet(s) \ {Head(s)}
  <2>1. ASSUME NEW k \in 1 .. n - 1
        PROVE  Tail(s)[k] \in ToSet(s) \ {Head(s)}
    <3>1. k + 1 \in 1 .. n /\ k + 1 # 1
      BY <1>1
    <3> QED
      BY <1>2, <1>4, <3>1 DEF ToSet
  <2>2. ASSUME NEW k \in 1 .. n, s[k] # Head(s)
        PROVE  s[k] \in ToSet(Tail(s))
    <3>1. k # 1
      BY <1>2, <2>2
    <3>2. k - 1 \in 1 .. n - 1 /\ (k - 1) + 1 = k
      BY <1>1, <3>1
    <3>3. Tail(s)[k - 1] = s[k]
      BY <1>4, <3>2
    <3> QED
      BY <1>3, <3>2, <3>3 DEF ToSet
  <2> QED
    BY <1>2, <1>3, <2>1, <2>2 DEF ToSet
<1>6. \A m, k \in 1 .. n - 1 : Tail(s)[m] = Tail(s)[k] => m = k
  <2> SUFFICES ASSUME NEW m \in 1 .. n - 1, NEW k \in 1 .. n - 1,
                      s[m + 1] = s[k + 1]
               PROVE  m = k
    BY <1>4
  <2>1. m + 1 \in 1 .. n /\ k + 1 \in 1 .. n
    BY <1>1
  <2>2. m + 1 = k + 1
    BY <1>2, <2>1
  <2> QED
    BY <2>2
<1>7. Tail(s) = <<>> <=> n = 1
  BY <1>1, <1>2
<1>8. Head(s) \in Items /\ Head(s) \in ToSet(s)
  BY <1>2 DEF ToSet
<1>9. \A m, k \in DOMAIN Tail(s) : Tail(s)[m] = Tail(s)[k] => m = k
  BY <1>3, <1>6
<1> QED
  BY <1>1, <1>2, <1>5, <1>7, <1>8, <1>9

(* A line is posted: its balance row is locked and read.                   *)
LEMMA PostLineStep ==
  ASSUME IInv, NEW c \in Clients, PostLine(c)
  PROVE  IInv'
<1>1. TypeOK /\ Own(c) /\ pc[c] = "line" /\ Blockers(c) = {}
  BY DEF IInv, PostLine
<1>2. PICK d \in Docs : d = doc[c] /\ status[d] = "DRAFT"
  BY <1>1 DEF Own, Working, Locked
<1>3. PICK s \in Seq(Items) : s = todo[c] /\ s # <<>>
  BY <1>1 DEF TypeOK, Own, Left
<1>4. /\ ToSet(s) \subseteq LinesOf(d)
      /\ \A m, n \in DOMAIN s : s[m] = s[n] => m = n
  BY <1>1, <1>2, <1>3 DEF Own, Left
<1>5. PICK i \in Items : i = Head(s) /\ i \in LinesOf(d)
  BY <1>3, <1>4, TailFacts
<1>6. CASE ~Movable(d, i)
  <2>1. End(c) /\ UNCHANGED <<docVars, stockVars>>
    BY <1>2, <1>3, <1>5, <1>6 DEF PostLine
  <2> QED
    BY <2>1, EndKeeps
<1>7. CASE Movable(d, i)
  <2>1. /\ todo' = [todo EXCEPT ![c] = Tail(@)]
        /\ read' = [read EXCEPT ![c][i] = stock[i]]
        /\ GoTo(c, IF Len(todo[c]) = 1 THEN "commit" ELSE "line")
        /\ UNCHANGED <<doc, docVars, stockVars>>
    BY <1>2, <1>3, <1>5, <1>7 DEF PostLine
  <2>2. PICK step \in {"line", "commit"} :
          /\ pc' = [pc EXCEPT ![c] = step]
          /\ step = "commit" <=> Len(s) = 1
    BY <1>3, <2>1 DEF GoTo
  <2>3. PICK t \in Seq(Items) : t = Tail(s)
    BY <1>3, <1>4, TailFacts
  <2>4. /\ ToSet(t) = ToSet(s) \ {i}
        /\ \A m, n \in DOMAIN t : t[m] = t[n] => m = n
        /\ t = <<>> <=> step = "commit"
    BY <1>3, <1>4, <1>5, <2>2, <2>3, TailFacts
  <2>5. todo' = [todo EXCEPT ![c] = t]
    BY <1>1, <1>3, <2>1, <2>3 DEF TypeOK
  <2>6. TypeOK'
    <3>1. read' \in [Clients -> [Items -> Nat]]
      <4>1. stock[i] \in Nat
        BY <1>1 DEF TypeOK
      <4> QED
        BY <1>1, <2>1, <4>1 DEF TypeOK
    <3> QED
      BY <1>1, <2>1, <2>2, <2>5, <3>1 DEF TypeOK, docVars, stockVars
  <2>7. /\ pc'[c] = step /\ doc'[c] = d /\ todo'[c] = t
        /\ read'[c] = [read[c] EXCEPT ![i] = stock[i]]
        /\ issueOf' = issueOf /\ status' = status /\ lines' = lines /\ stock' = stock
    BY <1>1, <1>2, <2>1, <2>2, <2>5 DEF TypeOK, docVars, stockVars
  <2>8. Quiet(c)
    BY <1>1, <2>1, <2>2 DEF TypeOK, Quiet, SameTx
  <2>9. LinesOf(d)' = LinesOf(d)
    BY <2>7 DEF LinesOf
  <2>10. ItemLocks(c) = LinesOf(d) \ ToSet(s) /\ ItemLocks(c)' = LinesOf(d) \ ToSet(t)
    BY <1>1, <1>2, <1>3, <2>2, <2>7, <2>9 DEF ItemLocks
  <2>11. DocLocks(c)' = DocLocks(c) /\ AdvisoryLocks(c)' = AdvisoryLocks(c)
    BY <1>1, <1>2, <2>2, <2>7 DEF DocLocks, AdvisoryLocks
  <2>12. Own(c)'
    <3>1. Working(c)'
      BY <1>2, <2>2, <2>7 DEF Working, Locked
    <3>2. Left(c)'
      BY <1>4, <2>2, <2>4, <2>7, <2>9 DEF Left
    <3>3. Current(c)'
      <4> SUFFICES ASSUME NEW j \in LinesOf(d) \ ToSet(t)
                   PROVE  read'[c][j] = stock[j] /\ Movable(d, j)
        BY <2>7, <2>10 DEF Current, Movable
      <4>1. read[c] \in [Items -> Nat] /\ j \in Items
        BY <1>1 DEF TypeOK, LinesOf
      <4>2. CASE j = i
        BY <1>7, <2>7, <4>1, <4>2
      <4>3. CASE j # i
        <5>1. j \in ItemLocks(c)
          BY <2>4, <2>10, <4>3
        <5>2. read[c][j] = stock[j] /\ Movable(d, j)
          BY <1>1, <1>2, <5>1 DEF Own, Current
        <5> QED
          BY <2>7, <4>1, <4>3, <5>2
      <4> QED
        BY <4>2, <4>3
    <3>4. Covered(c)'
      <4>1. PICK x : x = issueOf[d]
        OBVIOUS
      <4>2. \A k : AlreadyReturned(x, k)' = AlreadyReturned(x, k)
        BY <2>1, TotalsFrame DEF stockVars
      <4>3. x # NoIssue => MayReturn(x, lines[d])
        BY <1>1, <1>2, <4>1 DEF Own, Covered
      <4>4. x # NoIssue => MayReturn(x, lines[d])'
        BY <2>7, <4>2, <4>3 DEF MayReturn
      <4> QED
        BY <2>7, <4>1, <4>4 DEF Covered
    <3> QED
      BY <3>1, <3>2, <3>3, <3>4 DEF Own
  <2>13. \A e \in Clients \ {c} : /\ i \notin ItemLocks(e)
                                  /\ DocLocks(c) \cap DocLocks(e) = {}
                                  /\ AdvisoryLocks(c) \cap AdvisoryLocks(e) = {}
                                  /\ ItemLocks(c) \cap ItemLocks(e) = {}
    BY <1>1, <1>3, <1>5 DEF Blockers, IInv, Apart
  <2>14. ItemLocks(c)' \subseteq ItemLocks(c) \cup {i}
    BY <2>4, <2>10
  <2> QED
    BY <2>6, <2>8, <2>11, <2>12, <2>13, <2>14, QuietKeeps
<1> QED
  BY <1>6, <1>7

-----------------------------------------------------------------------------
(* The sums are over finite sets of documents.                             *)
LEMMA BooksSums ==
  ASSUME TypeOK, Books
  PROVE  /\ \A x \in Issues : Returned(x) \subseteq Docs /\ IsFiniteSet(Returned(x))
         /\ \A ds \in SUBSET Docs, i \in Items :
              Booked(ds, i) \subseteq Docs /\ IsFiniteSet(Booked(ds, i))
         /\ \A x \in Issues, i \in Items : AlreadyReturned(x, i) \in Nat
         /\ \A ds \in SUBSET Docs, i \in Items : MovedBy(ds, i) \in Nat
<1>1. IsFiniteSet(Created) /\ Created \subseteq Docs
  BY DEF Books, Created
<1>2. \A d \in Docs, i \in Items : lines[d][i] \in Nat
  BY DEF TypeOK
<1>3. ASSUME NEW x \in Issues
      PROVE  Returned(x) \subseteq Docs /\ IsFiniteSet(Returned(x))
  <2>1. Returned(x) \subseteq Created
    BY DEF Returned, Created, Docs
  <2> QED
    BY <1>1, <2>1, FS_Subset
<1>4. ASSUME NEW ds \in SUBSET Docs, NEW i \in Items
      PROVE  Booked(ds, i) \subseteq Docs /\ IsFiniteSet(Booked(ds, i))
  <2>1. Booked(ds, i) \subseteq Created
    BY DEF Booked, Created, Books, StatusTellsStock, InLedger
  <2> QED
    BY <1>1, <2>1, FS_Subset
<1>5. ASSUME NEW x \in Issues, NEW i \in Items
      PROVE  AlreadyReturned(x, i) \in Nat
  <2>1. \A d \in Returned(x) : lines[d][i] \in Nat
    BY <1>2, <1>3
  <2>2. Total(lines, i, Returned(x)) \in Nat
    BY <1>3, <2>1, TotalNat
  <2> QED
    BY <2>2, ReturnedTotal
<1>6. ASSUME NEW ds \in SUBSET Docs, NEW i \in Items
      PROVE  MovedBy(ds, i) \in Nat
  <2>1. \A d \in Booked(ds, i) : lines[d][i] \in Nat
    BY <1>2, <1>4
  <2>2. Total(lines, i, Booked(ds, i)) \in Nat
    BY <1>4, <2>1, TotalNat
  <2> QED
    BY <2>2, MovedTotal
<1> QED
  BY <1>3, <1>4, <1>5, <1>6

LEMMA ApartKeeps ==
  ASSUME IInv,
         \A e \in Clients : /\ DocLocks(e)' \subseteq DocLocks(e)
                            /\ AdvisoryLocks(e)' \subseteq AdvisoryLocks(e)
                            /\ ItemLocks(e)' \subseteq ItemLocks(e)
  PROVE  \A c, e \in Clients : c # e => Apart(c, e)'
BY DEF IInv, Apart

-----------------------------------------------------------------------------
(* A new document moved nothing, and no sum counts it.                     *)
LEMMA InsertSums ==
  ASSUME IInv, NEW d \in Docs, NEW ls, NEW x, status[d] = "ABSENT", Insert(d, ls, x)
  PROVE  /\ \A y \in Issues, i \in Items : AlreadyReturned(y, i)' = AlreadyReturned(y, i)
         /\ \A ds \in SUBSET Docs, i \in Items : MovedBy(ds, i)' = MovedBy(ds, i)
<1>1. TypeOK /\ Books
  BY DEF IInv
<1>2. \A e \in Docs \ {d} : /\ lines'[e] = lines[e]
                            /\ status'[e] = status[e]
                            /\ issueOf'[e] = issueOf[e]
  BY <1>1 DEF TypeOK, Insert
<1>3. status'[d] = "DRAFT" /\ ledger' = ledger
  BY <1>1 DEF TypeOK, Insert, stockVars
<1>4. ASSUME NEW y \in Issues, NEW i \in Items
      PROVE  AlreadyReturned(y, i)' = AlreadyReturned(y, i)
  <2>1. Returned(y)' = Returned(y)
    BY <1>2, <1>3 DEF Returned, Docs
  <2>2. \A e \in Returned(y) : lines'[e][i] = lines[e][i]
    BY <1>2 DEF Returned, Docs
  <2>3. Total(lines', i, Returned(y)) = Total(lines, i, Returned(y))
    BY <1>1, <2>2, BooksSums, TotalSame
  <2> QED
    BY <2>1, <2>3, ReturnedTotal
<1>5. ASSUME NEW ds \in SUBSET Docs, NEW i \in Items
      PROVE  MovedBy(ds, i)' = MovedBy(ds, i)
  <2>1. Booked(ds, i)' = Booked(ds, i)
    BY <1>3 DEF Booked
  <2>2. \A e \in Booked(ds, i) : e \in Docs /\ e # d
    BY <1>1 DEF Booked, Books, StatusTellsStock, InLedger
  <2>3. Total(lines', i, Booked(ds, i)) = Total(lines, i, Booked(ds, i))
    BY <1>1, <1>2, <2>2, BooksSums, TotalSame
  <2> QED
    BY <2>1, <2>3, MovedTotal
<1> QED
  BY <1>4, <1>5

LEMMA InsertStep ==
  ASSUME IInv, NEW d \in Docs, NEW ls \in Forms, NEW x \in Issues \cup {NoIssue},
         status[d] = "ABSENT", ls # NoLines, Insert(d, ls, x), UNCHANGED txVars,
         x # NoIssue => status[x] # "ABSENT"
  PROVE  IInv'
<1>1. TypeOK /\ Books
  BY DEF IInv
<1>2. ls \in [Items -> Nat] /\ IsFiniteSet({i \in Items : ls[i] > 0})
  BY DocumentAssumption DEF DocumentAssumption
<1>3. TypeOK'
  BY <1>1, <1>2 DEF TypeOK, Insert, stockVars, txVars, Statuses
<1>4. /\ status'[d] = "DRAFT" /\ lines'[d] = ls /\ issueOf'[d] = x
      /\ stock' = stock /\ received' = received /\ ledger' = ledger
  BY <1>1 DEF TypeOK, Insert, stockVars
<1>5. \A e \in Docs \ {d} : /\ lines'[e] = lines[e]
                            /\ status'[e] = status[e]
                            /\ issueOf'[e] = issueOf[e]
                            /\ LinesOf(e)' = LinesOf(e)
  BY <1>1 DEF TypeOK, Insert, LinesOf
<1>6. \A e \in Clients : /\ SameTx(e)
                         /\ pc[e] # "idle" => doc[e] \in Docs \ {d}
  BY DEF Insert, txVars, SameTx, IInv, Own, Working
<1>7. ASSUME NEW e \in Clients
      PROVE  Own(e)'
  <2>1. Working(e) /\ Covered(e)
    BY DEF IInv, Own
  <2>2. ASSUME NEW y, y = issueOf[doc[e]], pc[e] \in {"line", "commit"}, y # NoIssue
        PROVE  MayReturn(y, lines[doc[e]])'
    <3>1. MayReturn(y, lines[doc[e]])
      BY <2>1, <2>2 DEF Covered
    <3>2. y \in Issues /\ doc[e] \in Docs \ {d}
      BY <1>1, <1>6, <2>2 DEF TypeOK
    <3>3. y \in Docs \ {d}
      BY <3>1, <3>2 DEF MayReturn, Docs
    <3>4. \A i \in Items : AlreadyReturned(y, i)' = AlreadyReturned(y, i)
      BY <3>2, InsertSums
    <3>5. doc'[e] = doc[e] /\ lines'[doc[e]] = lines[doc[e]]
      BY <1>5, <1>6, <3>2 DEF SameTx
    <3> QED
      BY <1>5, <3>1, <3>3, <3>4, <3>5 DEF MayReturn
  <2>3. /\ pc[e] # "idle" => SameDoc(doc[e]) /\ status'[doc[e]] # "ABSENT"
        /\ Locked(e) => status'[doc[e]] = "DRAFT"
    BY <1>5, <1>6, <2>1 DEF Working, Locked, SameDoc
  <2> QED
    BY <1>3, <1>4, <1>6, <2>2, <2>3, OwnFrame
<1>8. \A c, e \in Clients : c # e => Apart(c, e)'
  <2>1. \A e \in Clients : /\ DocLocks(e)' = DocLocks(e)
                           /\ AdvisoryLocks(e)' = AdvisoryLocks(e)
                           /\ ItemLocks(e)' = ItemLocks(e)
    BY <1>5, <1>6, LocksFrame DEF SameDoc
  <2> QED
    BY <2>1, ApartKeeps
<1>9. IsFiniteSet(Created') /\ \A e \in Created' : HasLines(e)'
  <2>1. Created' = Created \cup {d}
    BY <1>4, <1>5 DEF Created
  <2>2. IsFiniteSet(Created')
    BY <1>1, <2>1, FS_AddElement DEF Books
  <2>3. HasLines(d)'
    <3>1. LinesOf(d)' = {i \in Items : ls[i] > 0}
      BY <1>4 DEF LinesOf
    <3>2. \E i \in Items : ls[i] # 0
      BY <1>2 DEF NoLines
    <3> QED
      BY <1>2, <3>1, <3>2 DEF HasLines
  <2>4. ASSUME NEW e \in Created, e # d
        PROVE  HasLines(e)'
    BY <1>1, <1>5, <2>4 DEF Books, Created, HasLines
  <2> QED
    BY <2>1, <2>2, <2>3, <2>4
<1>10. NamesCreated'
  <2> SUFFICES ASSUME NEW e \in Docs, issueOf'[e] # NoIssue
               PROVE  status'[issueOf'[e]] # "ABSENT"
    BY DEF NamesCreated
  <2>1. PICK y : y = issueOf'[e]
    OBVIOUS
  <2>2. y \in Issues /\ status[y] # "ABSENT"
    BY <1>1, <1>3, <1>4, <1>5, <2>1 DEF TypeOK, Books, NamesCreated
  <2> QED
    BY <1>5, <2>1, <2>2 DEF Docs
<1>11. StatusTellsStock' /\ TakenBefore'
  <2>1. InLedger(d) = {}
    BY <1>1 DEF Books, StatusTellsStock
  <2>2. \A e \in Docs : InLedger(e)' = InLedger(e)
    BY <1>4 DEF InLedger
  <2>3. StatusTellsStock'
    BY <1>1, <1>4, <1>5, <2>1, <2>2 DEF Books, StatusTellsStock
  <2>4. TakenBefore'
    BY <1>1, <1>4, <1>5, <2>1 DEF Books, TakenBefore, InLedger, Docs
  <2> QED
    BY <2>3, <2>4
<1>12. Within'
  <2> SUFFICES ASSUME NEW y \in Issues, NEW i \in Items
               PROVE  AlreadyReturned(y, i)' <= lines'[y][i]
    BY DEF Within
  <2>1. AlreadyReturned(y, i)' = AlreadyReturned(y, i)
    BY InsertSums
  <2>2. CASE y = d
    <3>1. Returned(y) = {}
      BY <1>1, <2>2, DocumentAssumption
      DEF Returned, Books, NamesCreated, DocumentAssumption, Docs
    <3>2. AlreadyReturned(y, i) = 0
      BY <3>1, ReturnedTotal, TotalEmpty
    <3> QED
      BY <1>2, <1>4, <2>1, <2>2, <3>2
  <2>3. CASE y # d
    BY <1>1, <1>5, <2>1, <2>3 DEF Books, Within, Docs
  <2> QED
    BY <2>2, <2>3
<1>13. StockExplained'
  <2>1. \A i \in Items : /\ MovedBy(Issues, i)' = MovedBy(Issues, i)
                         /\ MovedBy(Returns, i)' = MovedBy(Returns, i)
    BY InsertSums DEF Docs
  <2> QED
    BY <1>1, <1>4, <2>1 DEF Books, StockExplained
<1> QED
  BY <1>3, <1>7, <1>8, <1>9, <1>10, <1>11, <1>12, <1>13 DEF IInv, Books

-----------------------------------------------------------------------------
(* What another operation brings goes to a row that nobody has locked.     *)
LEMMA ReceiveStep ==
  ASSUME IInv, NEW i \in Items, Receive(i)
  PROVE  IInv'
<1>1. TypeOK /\ Books
  BY DEF IInv
<1>2. /\ stock' = [stock EXCEPT ![i] = @ + 1]
      /\ received' = [received EXCEPT ![i] = @ + 1]
      /\ received[i] < MaxReceived
      /\ UNCHANGED <<docVars, ledger, txVars>>
  BY DEF Receive, Bring
<1>3. TypeOK'
  <2>1. received[i] + 1 \in 0 .. MaxReceived /\ stock[i] + 1 \in Nat
    BY <1>1, <1>2, DocumentAssumption DEF TypeOK, DocumentAssumption
  <2> QED
    BY <1>1, <1>2, <2>1 DEF TypeOK, docVars, txVars
<1>4. /\ status' = status /\ lines' = lines /\ issueOf' = issueOf /\ ledger' = ledger
      /\ \A e \in Clients : SameTx(e)
  BY <1>2 DEF docVars, txVars, SameTx
<1>5. ASSUME NEW e \in Clients
      PROVE  Own(e)'
  <2>1. Working(e) /\ Covered(e)
    BY DEF IInv, Own
  <2>2. ASSUME NEW x, x = issueOf[doc[e]], pc[e] \in {"line", "commit"}, x # NoIssue
        PROVE  MayReturn(x, lines[doc[e]])'
    <3>1. MayReturn(x, lines[doc[e]])
      BY <2>1, <2>2 DEF Covered
    <3>2. \A j \in Items : AlreadyReturned(x, j)' = AlreadyReturned(x, j)
      BY <1>2, TotalsFrame
    <3> QED
      BY <1>4, <3>1, <3>2 DEF MayReturn, SameTx
  <2>3. \A j \in ItemLocks(e) : stock'[j] = stock[j]
    BY <1>1, <1>2 DEF Receive, TypeOK, ItemLocks, LinesOf
  <2> QED
    BY <1>3, <1>4, <2>1, <2>2, <2>3, OwnFrame DEF Working, Locked, SameDoc
<1>6. \A c, e \in Clients : c # e => Apart(c, e)'
  BY <1>4, LocksFrame, ApartKeeps DEF SameDoc
<1>7. Within'
  BY <1>1, <1>2, <1>4, TotalsFrame DEF Books, Within
<1>8. StockExplained'
  <2> SUFFICES ASSUME NEW j \in Items
               PROVE  stock'[j] =
                        received'[j] - MovedBy(Issues, j)' + MovedBy(Returns, j)'
    BY DEF StockExplained
  <2>1. /\ MovedBy(Issues, j)' = MovedBy(Issues, j)
        /\ MovedBy(Returns, j)' = MovedBy(Returns, j)
    BY <1>2, TotalsFrame
  <2>2. stock[j] = received[j] - MovedBy(Issues, j) + MovedBy(Returns, j)
    BY <1>1 DEF Books, StockExplained
  <2>3. MovedBy(Issues, j) \in Nat /\ MovedBy(Returns, j) \in Nat
    BY <1>1, BooksSums DEF Docs
  <2>4. stock[j] \in Nat /\ received[j] \in Nat
    BY <1>1, DocumentAssumption DEF TypeOK, DocumentAssumption
  <2>5. \/ stock'[j] = stock[j] + 1 /\ received'[j] = received[j] + 1
        \/ stock'[j] = stock[j] /\ received'[j] = received[j]
    BY <1>1, <1>2 DEF TypeOK
  <2> QED
    BY <2>1, <2>2, <2>3, <2>4, <2>5
<1>9. Books'
  BY <1>1, <1>4, <1>7, <1>8
  DEF Books, Created, HasLines, LinesOf, NamesCreated, StatusTellsStock, InLedger,
      TakenBefore
<1> QED
  BY <1>3, <1>5, <1>6, <1>9 DEF IInv

-----------------------------------------------------------------------------
(* A cancelled document keeps its lines in the ledger, if they are there,  *)
(* and no longer counts as a POSTED return.                                *)
LEMMA CancelSums ==
  ASSUME IInv, NEW d \in Docs, status' = [status EXCEPT ![d] = "CANCELLED"],
         UNCHANGED <<lines, issueOf, stockVars>>
  PROVE  /\ \A y \in Issues, i \in Items :
              /\ AlreadyReturned(y, i)' \in Nat
              /\ AlreadyReturned(y, i)' <= AlreadyReturned(y, i)
         /\ \A ds \in SUBSET Docs, i \in Items : MovedBy(ds, i)' = MovedBy(ds, i)
<1>1. TypeOK /\ Books /\ lines' = lines /\ issueOf' = issueOf /\ ledger' = ledger
  BY DEF IInv, stockVars
<1>2. ASSUME NEW y \in Issues, NEW i \in Items
      PROVE  /\ AlreadyReturned(y, i)' \in Nat
             /\ AlreadyReturned(y, i)' <= AlreadyReturned(y, i)
  <2>1. PICK R : R = Returned(y)
    OBVIOUS
  <2>2. Returned(y)' = R \ {d}
    BY <1>1, <2>1 DEF Returned, TypeOK, Docs
  <2>3. IsFiniteSet(R) /\ \A e \in R : lines[e][i] \in Nat
    BY <1>1, <2>1, BooksSums DEF TypeOK
  <2>4. IsFiniteSet(R \ {d})
    BY <2>3, FS_RemoveElement
  <2>5. Total(lines, i, R) \in Nat /\ Total(lines, i, R \ {d}) \in Nat
    BY <2>3, <2>4, TotalNat
  <2>6. Total(lines, i, R \ {d}) <= Total(lines, i, R)
    <3>1. CASE d \in R
      <4>1. Total(lines, i, R) = lines[d][i] + Total(lines, i, R \ {d})
        BY <2>3, <3>1, TotalTake
      <4> QED
        BY <2>3, <2>5, <3>1, <4>1
    <3>2. CASE d \notin R
      <4>1. R \ {d} = R
        BY <3>2
      <4> QED
        BY <2>5, <4>1
    <3> QED
      BY <3>1, <3>2
  <2> QED
    BY <1>1, <2>1, <2>2, <2>5, <2>6, ReturnedTotal
<1>3. ASSUME NEW ds \in SUBSET Docs, NEW i \in Items
      PROVE  MovedBy(ds, i)' = MovedBy(ds, i)
  <2>1. Booked(ds, i)' = Booked(ds, i)
    BY <1>1 DEF Booked
  <2> QED
    BY <1>1, <2>1, MovedTotal
<1> QED
  BY <1>2, <1>3

LEMMA CancelStep ==
  ASSUME IInv, NEW c \in Clients, Cancel(c)
  PROVE  IInv'
<1>1. TypeOK /\ Books /\ Own(c)
  BY DEF IInv
<1>2. PICK d \in Docs : d = doc[c] /\ status[d] # "ABSENT"
  BY <1>1 DEF Cancel, Own, Working
<1>3. /\ status' = [status EXCEPT ![d] = "CANCELLED"]
      /\ End(c)
      /\ UNCHANGED <<lines, issueOf, stockVars>>
  BY <1>2 DEF Cancel
<1>4. /\ lines' = lines /\ issueOf' = issueOf
      /\ stock' = stock /\ received' = received /\ ledger' = ledger
  BY <1>3 DEF stockVars
<1>5. TypeOK'
  <2>1. "CANCELLED" \in Statuses
    BY DEF Statuses
  <2> QED
    BY <1>1, <1>3, <1>4, <2>1, EndFacts DEF TypeOK
<1>6. /\ status'[d] = "CANCELLED"
      /\ \A e \in Docs \ {d} : status'[e] = status[e]
  BY <1>1, <1>3 DEF TypeOK
<1>7. \A e \in Clients \ {c} : SameTx(e) /\ d \notin DocLocks(e)
  BY <1>1, <1>2, <1>3, EndFacts DEF Cancel, Blockers
<1>8. ASSUME NEW e \in Clients \ {c}
      PROVE  Own(e)'
  <2>1. Working(e) /\ Covered(e)
    BY DEF IInv, Own
  <2>2. Locked(e) => doc[e] \in DocLocks(e)
    <3>1. pc[e] # "idle" => doc[e] # NoIssue
      BY <2>1, DocumentAssumption DEF Working, DocumentAssumption, Docs
    <3> QED
      BY <3>1 DEF Locked, DocLocks
  <2>3. /\ pc[e] # "idle" => SameDoc(doc[e]) /\ status'[doc[e]] # "ABSENT"
        /\ Locked(e) => status'[doc[e]] = "DRAFT"
    BY <1>4, <1>6, <1>7, <2>1, <2>2 DEF Working, Locked, SameDoc
  <2>4. ASSUME NEW x, x = issueOf[doc[e]], pc[e] \in {"line", "commit"}, x # NoIssue
        PROVE  MayReturn(x, lines[doc[e]])'
    <3>1. MayReturn(x, lines[doc[e]])
      BY <2>1, <2>4 DEF Covered
    <3>2. x \in DocLocks(e)
      BY <2>4 DEF DocLocks
    <3>3. x \in Issues /\ doc[e] \in Docs
      BY <1>1, <2>1, <2>4 DEF TypeOK, Working
    <3>4. status'[x] = "POSTED"
      BY <1>6, <1>7, <3>1, <3>2, <3>3 DEF MayReturn, Docs
    <3>5. PICK ls \in [Items -> Nat] : ls = lines[doc[e]]
      BY <1>1, <3>3 DEF TypeOK
    <3>6. MayReturn(x, ls)'
      BY <1>1, <1>2, <1>3, <1>4, <1>5, <3>1, <3>3, <3>4, <3>5, CancelSums, BooksSums,
         MayReturnFrame
    <3>7. lines'[doc'[e]] = ls
      BY <1>4, <1>7, <3>5 DEF SameTx
    <3> QED
      BY <3>6, <3>7
  <2> QED
    BY <1>4, <1>5, <1>7, <2>3, <2>4, OwnFrame
<1>9. \A a, e \in Clients : a # e => Apart(a, e)'
  <2>1. \A e \in Clients : /\ DocLocks(e)' \subseteq DocLocks(e)
                           /\ AdvisoryLocks(e)' \subseteq AdvisoryLocks(e)
                           /\ ItemLocks(e)' \subseteq ItemLocks(e)
    BY <1>1, <1>3, <1>4, <1>7, LocksFrame, EndFacts DEF SameDoc
  <2> QED
    BY <2>1, ApartKeeps
<1>10. Within' /\ StockExplained'
  <2>1. ASSUME NEW y \in Issues, NEW i \in Items
        PROVE  AlreadyReturned(y, i)' <= lines[y][i]
    <3>1. /\ AlreadyReturned(y, i)' \in Nat
          /\ AlreadyReturned(y, i)' <= AlreadyReturned(y, i)
      BY <1>2, <1>3, CancelSums
    <3>2. AlreadyReturned(y, i) <= lines[y][i] /\ lines[y][i] \in Nat
      BY <1>1 DEF Books, Within, TypeOK, Docs
    <3>3. AlreadyReturned(y, i) \in Nat
      BY <1>1, BooksSums
    <3> QED
      BY <3>1, <3>2, <3>3
  <2>2. \A i \in Items : /\ MovedBy(Issues, i)' = MovedBy(Issues, i)
                         /\ MovedBy(Returns, i)' = MovedBy(Returns, i)
    BY <1>2, <1>3, CancelSums DEF Docs
  <2> QED
    BY <1>1, <1>4, <2>1, <2>2 DEF Books, Within, StockExplained
<1>11. Books'
  <2>1. Created' = Created
    BY <1>2, <1>6 DEF Created
  <2>2. \A e \in Docs : LinesOf(e)' = LinesOf(e) /\ InLedger(e)' = InLedger(e)
    BY <1>4 DEF LinesOf, InLedger
  <2>3. \A e \in Created : e \in Docs
    BY DEF Created
  <2>4. NamesCreated'
    <3>1. \A e \in Docs : issueOf[e] \in Issues \cup {NoIssue}
      BY <1>1 DEF TypeOK
    <3> QED
      BY <1>1, <1>4, <1>6, <3>1 DEF Books, NamesCreated, Docs
  <2>5. StatusTellsStock'
    BY <1>1, <1>6, <2>2 DEF Books, StatusTellsStock
  <2> QED
    BY <1>1, <1>4, <1>10, <2>1, <2>2, <2>3, <2>4, <2>5
    DEF Books, HasLines, TakenBefore
<1> QED
  BY <1>1, <1>3, <1>5, <1>8, <1>9, <1>11, EndFacts DEF IInv

-----------------------------------------------------------------------------
LEMMA TotalAdd ==
  ASSUME NEW S, IsFiniteSet(S), NEW f, NEW i, NEW d, d \notin S,
         \A x \in S \cup {d} : f[x][i] \in Int
  PROVE  Total(f, i, S \cup {d}) = f[d][i] + Total(f, i, S)
<1>1. IsFiniteSet(S \cup {d})
  BY FS_AddElement
<1>2. Total(f, i, S \cup {d}) = f[d][i] + Total(f, i, (S \cup {d}) \ {d})
  BY <1>1, TotalTake
<1>3. (S \cup {d}) \ {d} = S
  OBVIOUS
<1> QED
  BY <1>2, <1>3

(* What request c knows when it commits document d.                        *)
Committing(c, d) ==
  /\ d \in Docs /\ d = doc[c] /\ status[d] = "DRAFT"
  /\ InLedger(d) = {}
  /\ status' = [status EXCEPT ![d] = "POSTED"]
  /\ ledger' = ledger \cup {<<d, i>> : i \in LinesOf(d)}
  /\ stock' = [i \in Items |-> IF i \in LinesOf(d) THEN stock[i] + Moved(d, i)
                                                   ELSE stock[i]]
  /\ \A i \in LinesOf(d) : Movable(d, i)
  /\ UNCHANGED <<lines, issueOf, received>>
  /\ DocLocks(c) = {d, issueOf[d]} \ {NoIssue}
  /\ AdvisoryLocks(c) = {issueOf[d]} \ {NoIssue}
  /\ ItemLocks(c) = LinesOf(d)
  /\ issueOf[d] # NoIssue => MayReturn(issueOf[d], lines[d])

LEMMA CommitFacts ==
  ASSUME IInv, NEW c \in Clients, Commit(c)
  PROVE  \E d \in Docs : Committing(c, d)
<1>1. TypeOK /\ Own(c) /\ pc[c] = "commit" /\ todo[c] = <<>>
  BY DEF IInv, Commit, Own, Left
<1>2. PICK d \in Docs : d = doc[c] /\ status[d] = "DRAFT"
  BY <1>1 DEF Own, Working, Locked
<1>3. InLedger(d) = {}
  BY <1>2 DEF IInv, Books, StatusTellsStock
<1>4. ToSet(todo[c]) = {}
  BY <1>1 DEF ToSet
<1>5. ItemLocks(c) = LinesOf(d)
  BY <1>1, <1>2, <1>4 DEF ItemLocks
<1>6. \A i \in LinesOf(d) : read[c][i] = stock[i] /\ Movable(d, i)
  BY <1>1, <1>2, <1>5 DEF Own, Current
<1>7. stock' = [i \in Items |-> IF i \in LinesOf(d) THEN stock[i] + Moved(d, i)
                                                    ELSE stock[i]]
  BY <1>2, <1>6 DEF Commit, Written
<1>8. /\ status' = [status EXCEPT ![d] = "POSTED"]
      /\ ledger' = ledger \cup {<<d, i>> : i \in LinesOf(d)}
      /\ UNCHANGED <<lines, issueOf, received>>
  BY <1>2 DEF Commit
<1>9. /\ DocLocks(c) = {d, issueOf[d]} \ {NoIssue}
      /\ AdvisoryLocks(c) = {issueOf[d]} \ {NoIssue}
  BY <1>1, <1>2 DEF DocLocks, AdvisoryLocks
<1>10. issueOf[d] # NoIssue => MayReturn(issueOf[d], lines[d])
  BY <1>1, <1>2 DEF Own, Covered
<1> QED
  BY <1>2, <1>3, <1>5, <1>6, <1>7, <1>8, <1>9, <1>10 DEF Committing

(* The sums count the lines of the document, once.                         *)
LEMMA CommitSums ==
  ASSUME IInv, NEW c, NEW d, Committing(c, d)
  PROVE  /\ \A y \in Issues, i \in Items :
              AlreadyReturned(y, i)' =
                AlreadyReturned(y, i)
                + (IF d \in Returns /\ issueOf[d] = y THEN lines[d][i] ELSE 0)
         /\ \A ds \in SUBSET Docs, i \in Items :
              MovedBy(ds, i)' =
                MovedBy(ds, i)
                + (IF d \in ds /\ i \in LinesOf(d) THEN lines[d][i] ELSE 0)
<1>1. /\ TypeOK /\ Books /\ lines' = lines /\ issueOf' = issueOf
      /\ ledger' = ledger \cup {<<d, i>> : i \in LinesOf(d)}
      /\ status' = [status EXCEPT ![d] = "POSTED"]
      /\ d \in Docs /\ status[d] = "DRAFT" /\ InLedger(d) = {}
  BY DEF IInv, Committing
<1>2. ASSUME NEW y \in Issues, NEW i \in Items
      PROVE  AlreadyReturned(y, i)' =
               AlreadyReturned(y, i)
               + (IF d \in Returns /\ issueOf[d] = y THEN lines[d][i] ELSE 0)
  <2>1. PICK R : R = Returned(y)
    OBVIOUS
  <2>2. d \notin R /\ IsFiniteSet(R) /\ R \subseteq Docs
    BY <1>1, <2>1, BooksSums DEF Returned
  <2>3. \A x \in R \cup {d} : lines[x][i] \in Int
    BY <1>1, <2>2 DEF TypeOK
  <2>4. CASE d \in Returns /\ issueOf[d] = y
    <3>1. Returned(y)' = R \cup {d}
      BY <1>1, <2>1, <2>4 DEF Returned, TypeOK, Docs
    <3>2. Total(lines, i, R \cup {d}) = lines[d][i] + Total(lines, i, R)
      BY <2>2, <2>3, TotalAdd
    <3>3. Total(lines, i, R) \in Int
      BY <2>2, <2>3, TotalTake
    <3>4. AlreadyReturned(y, i) = Total(lines, i, R)
      BY <2>1, ReturnedTotal
    <3>5. AlreadyReturned(y, i)' = Total(lines, i, R \cup {d})
      BY <1>1, <3>1, ReturnedTotal
    <3>6. lines[d][i] \in Int
      BY <2>3
    <3> QED
      BY <2>4, <3>2, <3>3, <3>4, <3>5, <3>6
  <2>5. CASE ~(d \in Returns /\ issueOf[d] = y)
    <3>1. Returned(y)' = Returned(y)
      BY <1>1, <2>5 DEF Returned, TypeOK, Docs
    <3>2. AlreadyReturned(y, i) \in Nat
      BY <1>1, BooksSums
    <3> QED
      BY <1>1, <2>5, <3>1, <3>2, ReturnedTotal
  <2> QED
    BY <2>4, <2>5
<1>3. ASSUME NEW ds \in SUBSET Docs, NEW i \in Items
      PROVE  MovedBy(ds, i)' =
               MovedBy(ds, i)
               + (IF d \in ds /\ i \in LinesOf(d) THEN lines[d][i] ELSE 0)
  <2>1. PICK B : B = Booked(ds, i)
    OBVIOUS
  <2>2. d \notin B /\ IsFiniteSet(B) /\ B \subseteq Docs
    BY <1>1, <2>1, BooksSums DEF Booked, InLedger
  <2>3. \A x \in B \cup {d} : lines[x][i] \in Int
    BY <1>1, <2>2 DEF TypeOK
  <2>4. CASE d \in ds /\ i \in LinesOf(d)
    <3>1. Booked(ds, i)' = B \cup {d}
      BY <1>1, <2>1, <2>4 DEF Booked
    <3>2. Total(lines, i, B \cup {d}) = lines[d][i] + Total(lines, i, B)
      BY <2>2, <2>3, TotalAdd
    <3>3. Total(lines, i, B) \in Int
      BY <2>2, <2>3, TotalTake
    <3>4. MovedBy(ds, i) = Total(lines, i, B)
      BY <2>1, MovedTotal
    <3>5. MovedBy(ds, i)' = Total(lines, i, B \cup {d})
      BY <1>1, <3>1, MovedTotal
    <3>6. lines[d][i] \in Int
      BY <2>3
    <3> QED
      BY <2>4, <3>2, <3>3, <3>4, <3>5, <3>6
  <2>5. CASE ~(d \in ds /\ i \in LinesOf(d))
    <3>1. Booked(ds, i)' = Booked(ds, i)
      BY <1>1, <2>5 DEF Booked
    <3>2. MovedBy(ds, i) \in Nat
      BY <1>1, BooksSums
    <3> QED
      BY <1>1, <2>5, <3>1, <3>2, MovedTotal
  <2> QED
    BY <2>4, <2>5
<1> QED
  BY <1>2, <1>3

(* A commit leaves the documents and the balances telling one story.       *)
LEMMA CommitBooks ==
  ASSUME IInv, TypeOK', NEW c, NEW d, Committing(c, d)
  PROVE  Books'
<1>1. /\ TypeOK /\ Books /\ lines' = lines /\ issueOf' = issueOf
      /\ received' = received
      /\ ledger' = ledger \cup {<<d, i>> : i \in LinesOf(d)}
      /\ d \in Docs /\ status[d] = "DRAFT" /\ InLedger(d) = {}
  BY DEF IInv, Committing
<1>2. status'[d] = "POSTED" /\ \A e \in Docs \ {d} : status'[e] = status[e]
  BY <1>1 DEF Committing, TypeOK
<1>3. Created' = Created
  BY <1>1, <1>2 DEF Created
<1>4. \A e \in Docs : LinesOf(e)' = LinesOf(e)
  BY <1>1 DEF LinesOf
<1>5. \A e \in Created' : HasLines(e)'
  BY <1>1, <1>3, <1>4 DEF Books, HasLines, Created
<1>6. NamesCreated'
  <2>1. \A e \in Docs : issueOf[e] \in Issues \cup {NoIssue}
    BY <1>1 DEF TypeOK
  <2> QED
    BY <1>1, <1>2, <2>1 DEF Books, NamesCreated, Docs
<1>7. StatusTellsStock'
  <2>1. InLedger(d)' = LinesOf(d)
    BY <1>1 DEF InLedger, LinesOf
  <2>2. \A e \in Docs \ {d} : InLedger(e)' = InLedger(e)
    BY <1>1 DEF InLedger
  <2> QED
    BY <1>1, <1>2, <1>4, <2>1, <2>2 DEF Books, StatusTellsStock
<1>8. ASSUME issueOf[d] # NoIssue
      PROVE  /\ issueOf[d] \in Issues
             /\ \A i \in LinesOf(d) :
                  /\ AlreadyReturned(issueOf[d], i) + lines[d][i] <= lines[issueOf[d]][i]
                  /\ <<issueOf[d], i>> \in ledger
  <2>1. PICK x \in Issues : x = issueOf[d]
    BY <1>1, <1>8 DEF TypeOK
  <2>2. MayReturn(x, lines[d])
    BY <1>8, <2>1 DEF Committing
  <2>3. ASSUME NEW i \in LinesOf(d)
        PROVE  /\ AlreadyReturned(x, i) + lines[d][i] <= lines[x][i]
               /\ <<x, i>> \in ledger
    <3>1. i \in Items /\ lines[d][i] > 0 /\ lines[d][i] \in Nat /\ lines[x][i] \in Nat
      BY <1>1 DEF TypeOK, LinesOf, Docs
    <3>2. AlreadyReturned(x, i) + lines[d][i] <= lines[x][i]
      BY <2>2, <3>1 DEF MayReturn
    <3>3. AlreadyReturned(x, i) \in Nat
      BY <1>1, <3>1, BooksSums
    <3>4. i \in LinesOf(x)
      BY <3>1, <3>2, <3>3 DEF LinesOf
    <3>5. i \in InLedger(x)
      BY <1>1, <2>2, <3>4 DEF MayReturn, Books, StatusTellsStock, Docs
    <3> QED
      BY <3>2, <3>5 DEF InLedger
  <2> QED
    BY <2>1, <2>3
<1>9. TakenBefore'
  <2> SUFFICES ASSUME NEW r \in Returns, NEW i \in Items,
                      <<r, i>> \in ledger', issueOf[r] # NoIssue
               PROVE  <<issueOf[r], i>> \in ledger
    BY <1>1 DEF TakenBefore
  <2>1. CASE <<r, i>> \in ledger
    BY <1>1, <2>1 DEF Books, TakenBefore
  <2>2. CASE <<r, i>> \notin ledger
    <3>1. r = d /\ i \in LinesOf(d)
      BY <1>1, <2>2
    <3> QED
      BY <1>8, <3>1
  <2> QED
    BY <2>1, <2>2
<1>10. Within'
  <2> SUFFICES ASSUME NEW y \in Issues, NEW i \in Items
               PROVE  AlreadyReturned(y, i)' <= lines[y][i]
    BY <1>1 DEF Within
  <2>1. /\ AlreadyReturned(y, i) <= lines[y][i]
        /\ AlreadyReturned(y, i) \in Nat /\ lines[y][i] \in Nat
        /\ lines[d][i] \in Nat
    BY <1>1, BooksSums DEF Books, Within, TypeOK, Docs
  <2>2. AlreadyReturned(y, i)' =
          AlreadyReturned(y, i)
          + (IF d \in Returns /\ issueOf[d] = y THEN lines[d][i] ELSE 0)
    BY CommitSums
  <2>3. CASE d \in Returns /\ issueOf[d] = y /\ i \in LinesOf(d)
    <3>1. y # NoIssue
      BY DocumentAssumption DEF DocumentAssumption
    <3> QED
      BY <1>8, <2>1, <2>2, <2>3, <3>1
  <2>4. CASE ~(d \in Returns /\ issueOf[d] = y /\ i \in LinesOf(d))
    <3>1. AlreadyReturned(y, i)' = AlreadyReturned(y, i)
      BY <2>1, <2>2, <2>4 DEF LinesOf
    <3> QED
      BY <2>1, <3>1
  <2> QED
    BY <2>3, <2>4
<1>11. StockExplained'
  <2> SUFFICES ASSUME NEW i \in Items
               PROVE  stock'[i] =
                        received[i] - MovedBy(Issues, i)' + MovedBy(Returns, i)'
    BY <1>1 DEF StockExplained
  <2>1. /\ stock[i] = received[i] - MovedBy(Issues, i) + MovedBy(Returns, i)
        /\ MovedBy(Issues, i) \in Nat /\ MovedBy(Returns, i) \in Nat
        /\ stock[i] \in Nat /\ received[i] \in Nat /\ lines[d][i] \in Nat
    <3>1. stock[i] = received[i] - MovedBy(Issues, i) + MovedBy(Returns, i)
      BY <1>1 DEF Books, StockExplained
    <3>2. MovedBy(Issues, i) \in Nat /\ MovedBy(Returns, i) \in Nat
      BY <1>1, BooksSums DEF Docs
    <3>3. stock[i] \in Nat /\ lines[d][i] \in Nat
      BY <1>1 DEF TypeOK
    <3>4. received[i] \in Nat
      <4>1. received[i] \in 0 .. MaxReceived
        BY <1>1 DEF TypeOK
      <4> QED
        BY <4>1, DocumentAssumption DEF DocumentAssumption
    <3> QED
      BY <3>1, <3>2, <3>3, <3>4
  <2>2. /\ MovedBy(Issues, i)' =
             MovedBy(Issues, i)
             + (IF d \in Issues /\ i \in LinesOf(d) THEN lines[d][i] ELSE 0)
        /\ MovedBy(Returns, i)' =
             MovedBy(Returns, i)
             + (IF d \in Returns /\ i \in LinesOf(d) THEN lines[d][i] ELSE 0)
    BY CommitSums DEF Docs
  <2>3. d \in Issues <=> d \notin Returns
    BY <1>1, DocumentAssumption DEF Docs, DocumentAssumption
  <2>4. stock'[i] = IF i \in LinesOf(d) THEN stock[i] + Moved(d, i) ELSE stock[i]
    BY DEF Committing
  <2>5. Moved(d, i) = IF d \in Issues THEN -lines[d][i] ELSE lines[d][i]
    BY DEF Moved
  <2> QED
    BY <2>1, <2>2, <2>3, <2>4, <2>5
<1> QED
  BY <1>1, <1>3, <1>5, <1>6, <1>7, <1>9, <1>10, <1>11 DEF Books

LEMMA CommitStep ==
  ASSUME IInv, NEW c \in Clients, Commit(c)
  PROVE  IInv'
<1>1. TypeOK /\ Books /\ End(c)
  BY DEF IInv, Commit
<1>2. PICK d \in Docs : Committing(c, d)
  BY CommitFacts
<1>3. /\ lines' = lines /\ issueOf' = issueOf /\ received' = received
      /\ ledger' = ledger \cup {<<d, i>> : i \in LinesOf(d)}
      /\ status' = [status EXCEPT ![d] = "POSTED"]
  BY <1>2 DEF Committing
<1>4. TypeOK'
  <2>1. stock' \in [Items -> Nat]
    <3>1. \A i \in LinesOf(d) : stock[i] + Moved(d, i) \in Nat
      BY <1>1, <1>2 DEF Committing, Movable, Moved, TypeOK, LinesOf
    <3> QED
      BY <1>1, <1>2, <3>1 DEF Committing, TypeOK
  <2>2. ledger' \subseteq Docs \X Items
    BY <1>1, <1>3 DEF TypeOK, LinesOf
  <2>3. "POSTED" \in Statuses
    BY DEF Statuses
  <2> QED
    BY <1>1, <1>3, <2>1, <2>2, <2>3, EndFacts DEF TypeOK
<1>5. status'[d] = "POSTED" /\ \A e \in Docs \ {d} : status'[e] = status[e]
  BY <1>1, <1>3 DEF TypeOK
<1>6. \A e \in Clients \ {c} :
        /\ SameTx(e)
        /\ DocLocks(c) \cap DocLocks(e) = {}
        /\ AdvisoryLocks(c) \cap AdvisoryLocks(e) = {}
        /\ ItemLocks(c) \cap ItemLocks(e) = {}
  BY <1>1, EndFacts DEF IInv, Apart
<1>7. d # NoIssue /\ d \in DocLocks(c)
  BY <1>2, DocumentAssumption DEF DocumentAssumption, Docs, Committing
<1>8. ASSUME NEW e \in Clients \ {c}
      PROVE  Own(e)'
  <2>1. Working(e) /\ Covered(e)
    BY DEF IInv, Own
  <2>2. Locked(e) => doc[e] \in DocLocks(e)
    <3>1. pc[e] # "idle" => doc[e] # NoIssue
      BY <2>1, DocumentAssumption DEF Working, DocumentAssumption, Docs
    <3> QED
      BY <3>1 DEF Locked, DocLocks
  <2>3. /\ pc[e] # "idle" => SameDoc(doc[e]) /\ status'[doc[e]] # "ABSENT"
        /\ Locked(e) => status'[doc[e]] = "DRAFT"
    BY <1>3, <1>5, <1>6, <1>7, <2>1, <2>2 DEF Working, Locked, SameDoc
  <2>4. \A i \in ItemLocks(e) : stock'[i] = stock[i]
    <3>1. ItemLocks(c) = LinesOf(d)
      BY <1>2 DEF Committing
    <3>2. ItemLocks(e) \subseteq Items
      BY DEF ItemLocks, LinesOf
    <3> QED
      BY <1>2, <1>6, <3>1, <3>2 DEF Committing
  <2>5. ASSUME NEW x, x = issueOf[doc[e]], pc[e] \in {"line", "commit"}, x # NoIssue
        PROVE  MayReturn(x, lines[doc[e]])'
    <3>1. MayReturn(x, lines[doc[e]])
      BY <2>1, <2>5 DEF Covered
    <3>2. x \in DocLocks(e) /\ x \in AdvisoryLocks(e)
      BY <2>5 DEF DocLocks, AdvisoryLocks
    <3>3. x \in Issues /\ doc[e] \in Docs
      BY <1>1, <2>1, <2>5 DEF TypeOK, Working
    <3>4. status'[x] = "POSTED"
      BY <1>5, <3>1, <3>3 DEF MayReturn, Docs
    <3>5. issueOf[d] # x
      BY <1>2, <1>6, <2>5, <3>2 DEF Committing
    <3>6. ASSUME NEW i \in Items
          PROVE  AlreadyReturned(x, i)' = AlreadyReturned(x, i)
      <4>1. AlreadyReturned(x, i) \in Nat
        BY <1>1, <3>3, BooksSums
      <4> QED
        BY <1>2, <3>3, <3>5, <4>1, CommitSums
    <3>7. doc'[e] = doc[e]
      BY <1>6 DEF SameTx
    <3> QED
      BY <1>3, <3>1, <3>4, <3>6, <3>7 DEF MayReturn
  <2> QED
    BY <1>4, <1>6, <2>3, <2>4, <2>5, OwnFrame
<1>9. \A a, e \in Clients : a # e => Apart(a, e)'
  <2>1. \A e \in Clients : /\ DocLocks(e)' \subseteq DocLocks(e)
                           /\ AdvisoryLocks(e)' \subseteq AdvisoryLocks(e)
                           /\ ItemLocks(e)' \subseteq ItemLocks(e)
    BY <1>1, <1>3, <1>6, LocksFrame, EndFacts DEF SameDoc
  <2> QED
    BY <2>1, ApartKeeps
<1>10. Books'
  BY <1>2, <1>4, CommitBooks
<1> QED
  BY <1>1, <1>4, <1>8, <1>9, <1>10, EndFacts DEF IInv

-----------------------------------------------------------------------------
LEMMA InvInit == Init => IInv
<1> SUFFICES ASSUME Init PROVE IInv
  OBVIOUS
<1>1. TypeOK
  BY DocumentAssumption
  DEF Init, TablesInit, TypeOK, DocumentAssumption, Statuses, NoLines
<1>2. \A c \in Clients : /\ DocLocks(c) = {} /\ AdvisoryLocks(c) = {}
                         /\ ItemLocks(c) = {}
  BY DEF Init, TablesInit, DocLocks, AdvisoryLocks, ItemLocks
<1>3. \A c \in Clients : Own(c)
  BY <1>2 DEF Init, TablesInit, Own, Working, Locked, Left, Current, Covered
<1>4. \A c, e \in Clients : c # e => Apart(c, e)
  BY <1>2 DEF Apart
<1>5. Created = {}
  BY DEF Init, TablesInit, Created
<1>6. StatusTellsStock /\ TakenBefore /\ NamesCreated
  BY DEF Init, TablesInit, StatusTellsStock, InLedger, TakenBefore, NamesCreated
<1>7. \A x \in Issues, i \in Items : AlreadyReturned(x, i) = 0
  <2>1. \A x \in Issues : Returned(x) = {}
    BY DEF Init, TablesInit, Returned, Docs
  <2> QED
    BY <2>1, ReturnedTotal, TotalEmpty
<1>8. \A i \in Items : MovedBy(Issues, i) = 0 /\ MovedBy(Returns, i) = 0
  <2>1. \A i \in Items : Booked(Issues, i) = {} /\ Booked(Returns, i) = {}
    BY DEF Init, TablesInit, Booked
  <2> QED
    BY <2>1, MovedTotal, TotalEmpty
<1>9. Within /\ StockExplained
  BY <1>7, <1>8 DEF Init, TablesInit, Within, StockExplained, NoLines, Docs
<1> QED
  BY <1>1, <1>3, <1>4, <1>5, <1>6, <1>9, FS_EmptySet DEF IInv, Books

LEMMA InvNext == IInv /\ [Next]_vars => IInv'
<1> SUFFICES ASSUME IInv, [Next]_vars PROVE IInv'
  OBVIOUS
<1>1. ASSUME NEW c \in Clients, NEW d \in Docs, BeginPost(c, d) \/ BeginCancel(c, d)
      PROVE  IInv'
  BY <1>1, BeginPostStep, BeginCancelStep
<1>2. ASSUME NEW c \in Clients, Advance(c)
      PROVE  IInv'
  BY <1>2, LockDocStep, LockReturnsStep, LockIssueStep, PostLineStep, CommitStep,
     CancelStep
  DEF Advance
<1>3. ASSUME NEW c \in Clients, Crash(c) \/ AbortDeadlock(c)
      PROVE  IInv'
  BY <1>3, EndKeeps DEF Crash, AbortDeadlock
<1>4. ASSUME NEW d \in Issues, NEW ls \in Forms, CreateIssue(d, ls), UNCHANGED txVars
      PROVE  IInv'
  BY <1>4, InsertStep DEF CreateIssue, Docs
<1>5. ASSUME NEW d \in Returns, NEW ls \in Forms, NEW x \in Issues \cup {NoIssue},
             CreateReturn(d, ls, x), UNCHANGED txVars
      PROVE  IInv'
  BY <1>5, InsertStep DEF CreateReturn, MayReturn, Docs
<1>6. CASE UNCHANGED vars
  <2>1. UNCHANGED docVars /\ ledger' = ledger
    BY <1>6 DEF vars, docVars
  <2>2. \A e \in Clients : SameTx(e)
    BY <1>6 DEF vars, SameTx
  <2>3. TypeOK'
    BY <1>6 DEF IInv, TypeOK, vars
  <2>4. Within' /\ StockExplained'
    BY <1>6, <2>1, TotalsFrame DEF IInv, Books, Within, StockExplained, vars
  <2>5. Books'
    BY <1>6, <2>4
    DEF vars, IInv, Books, Created, HasLines, LinesOf, NamesCreated,
        StatusTellsStock, InLedger, TakenBefore
  <2>6. ASSUME NEW e \in Clients PROVE Own(e)'
    <3>1. Working(e) /\ Covered(e)
      BY DEF IInv, Own
    <3>2. ASSUME NEW x, x = issueOf[doc[e]], pc[e] \in {"line", "commit"}, x # NoIssue
          PROVE  MayReturn(x, lines[doc[e]])'
      <4>1. \A i : AlreadyReturned(x, i)' = AlreadyReturned(x, i)
        BY <2>1, TotalsFrame
      <4> QED
        BY <1>6, <3>1, <3>2, <4>1 DEF vars, Covered, MayReturn
    <3> QED
      BY <1>6, <2>2, <2>3, <3>1, <3>2, OwnFrame DEF vars, Working, Locked, SameDoc
  <2>7. \A c, e \in Clients : c # e => Apart(c, e)'
    BY <1>6, <2>2, LocksFrame, ApartKeeps DEF vars, SameDoc
  <2> QED
    BY <2>3, <2>5, <2>6, <2>7 DEF IInv
<1> QED
  BY <1>1, <1>2, <1>3, <1>4, <1>5, <1>6, ReceiveStep DEF Next, Environment, Creating

LEMMA Invariance == Spec => []IInv
BY InvInit, InvNext, PTL DEF Spec

(* Every state of the documents has its type.                              *)
THEOREM DocumentsTypeCorrect == Spec => []TypeOK
<1>1. IInv => TypeOK
  BY DEF IInv
<1> QED
  BY <1>1, Invariance, PTL

(* The status of a document tells what it did to the stock, whichever      *)
(* postings, cancellations, crashes and aborted deadlocks interleaved.     *)
THEOREM DocumentsStatusTellsStock == Spec => []StatusTellsStock
<1>1. IInv => StatusTellsStock
  BY DEF IInv, Books
<1> QED
  BY <1>1, Invariance, PTL

(* Every balance is what was received, less what issues took, plus what    *)
(* returns brought back.                                                   *)
THEOREM DocumentsStockExplained == Spec => []StockExplained
<1>1. IInv => StockExplained
  BY DEF IInv, Books
<1> QED
  BY <1>1, Invariance, PTL

(* What the POSTED returns of an issue brought back is no more than the    *)
(* issue took, and only once it did.                                       *)
THEOREM DocumentsReturnedWithinIssued == Spec => []ReturnedWithinIssued
<1>1. IInv => ReturnedWithinIssued
  <2> SUFFICES ASSUME IInv, NEW x \in Issues, NEW i \in Items
               PROVE  /\ MovedBy(Returned(x), i) <= lines[x][i]
                      /\ MovedBy(Returned(x), i) > 0 => <<x, i>> \in ledger
    BY DEF ReturnedWithinIssued, Returned
  <2>1. TypeOK /\ Books
    BY DEF IInv
  <2>2. PICK R : R = Returned(x)
    OBVIOUS
  <2>3. PICK B : B = Booked(R, i)
    OBVIOUS
  <2>4. R \subseteq Docs /\ IsFiniteSet(R) /\ B \in SUBSET R
    BY <2>1, <2>2, <2>3, BooksSums DEF Booked
  <2>5. \A d \in R : lines[d][i] \in Nat
    BY <2>1, <2>4 DEF TypeOK
  <2>6. \A d \in R \ B : lines[d][i] = 0
    <3> SUFFICES ASSUME NEW d \in R, lines[d][i] # 0
                 PROVE  <<d, i>> \in ledger
      BY <2>3 DEF Booked
    <3>1. i \in LinesOf(d)
      BY <2>5 DEF LinesOf
    <3>2. InLedger(d) = LinesOf(d)
      BY <2>1, <2>2, <2>4 DEF Books, StatusTellsStock, Returned
    <3> QED
      BY <3>1, <3>2 DEF InLedger
  <2>7. Total(lines, i, R) = Total(lines, i, B)
    BY <2>4, <2>5, <2>6, TotalNonzero
  <2>8. MovedBy(R, i) = AlreadyReturned(x, i)
    BY <2>2, <2>3, <2>7, MovedTotal, ReturnedTotal
  <2>9. MovedBy(R, i) <= lines[x][i]
    BY <2>1, <2>8 DEF Books, Within
  <2>10. ASSUME <<x, i>> \notin ledger
         PROVE  MovedBy(R, i) = 0
    <3>1. x # NoIssue
      BY DocumentAssumption DEF DocumentAssumption
    <3>2. B = {}
      BY <2>1, <2>2, <2>3, <2>10, <3>1 DEF Books, TakenBefore, Booked, Returned
    <3> QED
      BY <2>2, <2>3, <3>2, MovedTotal, TotalEmpty
  <2> QED
    BY <2>2, <2>9, <2>10
<1> QED
  BY <1>1, Invariance, PTL

-----------------------------------------------------------------------------
(* The transactions implement the documents that are posted in one step.   *)
(* What a request knew when it wrote is what the atomic posting asks for.  *)
LEMMA CommitRefines ==
  ASSUME IInv, NEW c \in Clients, Commit(c)
  PROVE  \E d \in Docs : Post(d)
<1>1. PICK d \in Docs : Committing(c, d)
  BY CommitFacts
<1> QED
  BY <1>1 DEF Committing, Post

LEMMA CancelRefines ==
  ASSUME IInv, NEW c \in Clients, Cancel(c)
  PROVE  \E d \in Docs : Withdraw(d)
<1>1. doc[c] \in Docs /\ status[doc[c]] # "ABSENT"
  BY DEF IInv, Own, Working, Cancel
<1> QED
  BY <1>1 DEF Cancel, Withdraw

(* All other statements leave the committed tables as they are.            *)
LEMMA QuietSteps ==
  ASSUME NEW c \in Clients,
         \/ \E d \in Docs : BeginPost(c, d) \/ BeginCancel(c, d)
         \/ Advance(c) /\ ~Commit(c) /\ ~Cancel(c)
         \/ AbortDeadlock(c)
         \/ Crash(c)
  PROVE  UNCHANGED tableVars
BY DEF BeginPost, BeginCancel, Advance, LockDoc, LockReturnsOfIssue, LockIssue,
       PostLine, AbortDeadlock, Crash, tableVars

LEMMA StepRefines == IInv /\ [Next]_vars => [TablesNext]_tableVars
<1> SUFFICES ASSUME IInv, [Next]_vars PROVE TablesNext \/ UNCHANGED tableVars
  OBVIOUS
<1>1. CASE UNCHANGED vars
  BY <1>1 DEF vars, tableVars, docVars, stockVars
<1>2. ASSUME NEW c \in Clients, Commit(c)
      PROVE  TablesNext
  BY <1>2, CommitRefines DEF TablesNext
<1>3. ASSUME NEW c \in Clients, Cancel(c)
      PROVE  TablesNext
  BY <1>3, CancelRefines DEF TablesNext
<1>4. ASSUME NEW i \in Items, Receive(i)
      PROVE  TablesNext
  BY <1>4 DEF Receive, TablesNext
<1>5. CASE Creating
  BY <1>5 DEF TablesNext
<1> QED
  BY <1>1, <1>2, <1>3, <1>4, <1>5, QuietSteps DEF Next, Environment

(* Whatever requests are interleaved, where they crash and which deadlocks *)
(* are aborted: what is committed is what posting one document after       *)
(* another would have made of the tables, each posting allowed by the      *)
(* issue it names and the balances as they were at that moment             *)
(* (postMaterialIssue, postMaterialReturn).                                *)
THEOREM DocumentsPostAtOnce == Spec => PostsAtOnce
<1>1. Init => TablesInit
  BY DEF Init
<1> QED
  BY <1>1, StepRefines, Invariance, PTL DEF Spec, PostsAtOnce
=============================================================================
