-------------------------- MODULE MCResourceBooking --------------------------
(* Small instances of ResourceBooking.                                     *)
EXTENDS ResourceBooking, TLC

(* Two windows, one after the other.                                       *)
MCWindows == {[from |-> 0, to |-> 1], [from |-> 1, to |-> 2]}

(* A change of time is nothing to the workflow.                            *)
MCOneWindow == {[from |-> 0, to |-> 1]}

(* NoDoubleBooking is about undisturbed states, and no step leads back to  *)
(* one: what follows a disturbed state need not be explored.               *)
MCUndisturbed == ~disturbed

(* Where nothing fails no job is left to recover, and a worker that is     *)
(* down is one that does nothing: it starts first, and stays.              *)
MCWorkerFirst ==
  /\ worker = "down" => (\A b \in Bookings : status[b] = "ABSENT") /\ blocks = {}
                          /\ call = [c \in Processes |-> Idle]
  /\ aged = {}

(* Nor is there anything more to say of the workflow once a request        *)
(* stopped half way, or the instance was moved directly ...                *)
MCFollowing == ~disturbed /\ cutOff \cup moved # Bookings

(* ... and of the end of the stay once it was extended, or its job was run *)
(* by hand: what EveryStayEnds promises has happened for good.             *)
MCToEnd == extended \cup byHand # Bookings

(* No step and no invariant looks at extended.                             *)
MCView ==
  <<approval, now, bookingVars, workflow, jobVars, workerVars, call, readVars, cutOff,
    moved, byHand, stops>>

MCSymmetry == Permutations(Bookings) \cup Permutations(Callers)
=============================================================================
