------------------------- MODULE MCStockReservation -------------------------
(* A small instance of StockReservation: reservations and callers are      *)
(* interchangeable.                                                        *)
EXTENDS StockReservation, TLC

(* Once both reservations are disturbed, only FulfilledWasIssued and       *)
(* RetriesIssueOnce say something, each of one reservation, and a          *)
(* disturbance of the other one adds nothing to it but other stock.        *)
MCOneDisturbed == Cardinality(disturbed) <= 1

MCSymmetry == Permutations(Reservations) \cup Permutations(Callers)
=============================================================================
