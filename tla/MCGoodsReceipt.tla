--------------------------- MODULE MCGoodsReceipt ---------------------------
(* A small instance of GoodsReceipt.                                       *)
EXTENDS GoodsReceipt, TLC

CONSTANTS a, b

MCOrdered == a :> 1 @@ b :> 2

All == [received |-> 1, accepted |-> 1]

None == [received |-> 1, accepted |-> 0]

(* Both items, or one of which nothing is accepted.                        *)
MCDeliveries == {a :> All @@ b :> All, b :> None}

(* The invariants are about undisturbed states, and no step leads back to   *)
(* one: what follows a disturbed state need not be explored.               *)
MCUndisturbed == ~disturbed

(* Receipts share no idempotency key: the posting of one is cut off.       *)
MCOneCutOff == Cardinality(cutOff) <= 1

MCSymmetry == Permutations(Receipts) \cup Permutations(Callers) \cup Permutations(Stores)
=============================================================================
