---------------------------- MODULE MCScheduler ----------------------------
(* A small instance of Scheduler: one job whose handler is tried twice and *)
(* one whose type has no handler.                                          *)
EXTENDS Scheduler, TLC

CONSTANTS j1, j2

MCMaxAttempts == (j1 :> 2) @@ (j2 :> 1)
=============================================================================
