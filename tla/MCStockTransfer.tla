-------------------------- MODULE MCStockTransfer --------------------------
(* A small instance of StockTransfer: two lines that take their stock from *)
(* the same balance row, one of a single unit and one of two.              *)
EXTENDS StockTransfer, TLC

CONSTANTS one, two

MCLines == {one, two}
MCSourceOf == [l \in Lines |-> CHOOSE p \in Places : TRUE]
MCOrders == {(one :> 1) @@ (two :> 2)}
MCRequests == {t \in [Lines -> 0 .. 2] : t[one] <= 1}

MCSymmetry == Permutations(Callers)
=============================================================================
