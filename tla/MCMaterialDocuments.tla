------------------------ MODULE MCMaterialDocuments ------------------------
(* A small instance of MaterialDocuments: documents of one line and of two *)
(* lines.                                                                  *)
EXTENDS MaterialDocuments, TLC

CONSTANTS a, b

MCForms == {(a :> 1) @@ (b :> 1), (a :> 1) @@ (b :> 0)}
=============================================================================
