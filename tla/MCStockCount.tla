---------------------------- MODULE MCStockCount ----------------------------
(* A small instance of StockCount.                                         *)
EXTENDS StockCount, TLC

CONSTANTS p, q

(* An adjustment of one line and one of two.                               *)
MCDeltas == {p :> 1 @@ q :> -1, p :> -1 @@ q :> 0}

(* The whole store, or one item or bin of it.                              *)
MCScopes == {{p, q}, {p}}

(* Counts and adjustments meet in the balances only, where each is another  *)
(* movement to the other: one kind of document at a time.                  *)
MCOneKind ==
  \/ \A d \in Counts : ~Known(d)
  \/ \A d \in Adjustments : status[d] = "ABSENT"

MCSymmetry == Permutations(Adjustments) \cup Permutations(Callers)
=============================================================================
