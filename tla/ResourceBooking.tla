---------------------------- MODULE ResourceBooking ----------------------------
(***************************************************************************)
(* Reservations of one bookable resource (ReservationService,              *)
(* ReservationSchedulerService), the workflow instance that accompanies    *)
(* each of them (WorkflowService), the scheduled job that ends it, and the *)
(* worker and the requests that run that job (SchedulerWorkerService,      *)
(* SchedulerService).                                                      *)
(*                                                                         *)
(* Whether the resource is free is looked up and the row is written later, *)
(* without a lock, and no constraint of the table forbids an overlap.  A   *)
(* change of status is written by id after it was checked on an earlier    *)
(* read, and the workflow instance is read and moved after that, in        *)
(* statements of their own.  The job that ends a reservation is created    *)
(* with it, for the end time it has then.  It is RUNNING while the worker  *)
(* is at work on it, and stays so when the worker is lost.                 *)
(*                                                                         *)
(* Workflow instances can be started and moved without their reservation,  *)
(* and jobs run by hand.                                                   *)
(*                                                                         *)
(* The resource itself, its opening hours and limits are taken as given.   *)
(***************************************************************************)
EXTENDS Naturals, FiniteSets

CONSTANTS
  Bookings,     \* the UUIDs reservations get
  Windows,      \* the times that are asked for: from and to
  Horizon,      \* bound on the clock
  Callers,      \* requests that run at the same time
  Operators,    \* requests that run an end job by hand
  Worker,       \* the scheduler worker that runs end jobs
  MaxAttempts,  \* maxAttempts of an end job
  MaxBlocks,    \* bound on the resource blocks
  MaxDirect,    \* bound on reservations whose instance is moved directly
  MaxByHand,    \* bound on end jobs that are run by hand, once each
  MaxStops      \* bound on failed statements and crashes

ASSUME BookingAssumption ==
  /\ Windows \subseteq [from : Nat, to : Nat]
  /\ \A w \in Windows : w.from < w.to
  /\ Worker \notin Callers \cup Operators
  /\ Callers \cap Operators = {}
  /\ {Horizon, MaxAttempts, MaxBlocks, MaxDirect, MaxByHand, MaxStops} \subseteq Nat

VARIABLES
  approval,   \* requiresApproval of the resource
  now,
  status,     \* of each reservation
  window,     \* start_at and end_at
  blocks,     \* the blocks of the resource
  workflow,   \* current_state of the workflow instance of each reservation
  endJob,     \* status of its end job
  runAt,      \* run_at
  dueAt,      \* COALESCE(next_run_at, run_at)
  attempts,
  aged,       \* jobs whose updated_at is older than SCHEDULER_STALE_AFTER_MS
  worker,     \* "up" or "down"
  claimed,    \* the jobs of its batch it is not done with
  call,       \* the request everybody is in
  stale,      \* those who read what another request has written since
  disturbed,  \* whether one of them has written all the same
  cutOff,     \* reservations a request stopped at half way
  extended,   \* reservations that got a later end
  moved,      \* reservations whose instance was started or moved directly
  byHand,     \* end jobs somebody ran by hand
  stops       \* how often a statement failed or something crashed

bookingVars == <<status, window, blocks>>
jobVars == <<endJob, runAt, dueAt, attempts, aged>>
workerVars == <<worker, claimed>>
readVars == <<stale, disturbed>>
histVars == <<cutOff, extended, moved, byHand, stops>>
vars == <<approval, now, bookingVars, workflow, jobVars, workerVars, call, readVars,
          histVars>>

Runners == Operators \cup {Worker}

Processes == Callers \cup Runners

Idle == [op |-> "none"]

Occupying == {"PENDING", "APPROVED", "CHECKED_IN"}

Final == {"COMPLETED", "REJECTED", "CANCELLED", "NO_SHOW"}

NoWindow == [from |-> 0, to |-> 0]

Init ==
  /\ approval \in BOOLEAN
  /\ now = 0
  /\ status = [b \in Bookings |-> "ABSENT"]
  /\ window = [b \in Bookings |-> NoWindow]
  /\ blocks = {}
  /\ workflow = [b \in Bookings |-> "NONE"]
  /\ endJob = [b \in Bookings |-> "ABSENT"]
  /\ runAt = [b \in Bookings |-> 0]
  /\ dueAt = [b \in Bookings |-> 0]
  /\ attempts = [b \in Bookings |-> 0]
  /\ aged = {}
  /\ worker = "down"
  /\ claimed = {}
  /\ call = [c \in Processes |-> Idle]
  /\ stale = {}
  /\ disturbed = FALSE
  /\ cutOff = {}
  /\ extended = {}
  /\ moved = {}
  /\ byHand = {}
  /\ stops = 0

-----------------------------------------------------------------------------
Overlap(v, w) == v.from < w.to /\ v.to > w.from

(* findConflictingReservations and findConflictingBlocks.                  *)
Conflicting(w, except) ==
  {b \in Bookings \ except : status[b] \in Occupying /\ Overlap(window[b], w)}

Blocked(w) == \E v \in blocks : Overlap(v, w)

(* Mistake for a mutant: reservations that wait for approval do not count. *)
AvailableUnlessApproved(w, except) ==
  ~Blocked(w) /\ \A b \in Conflicting(w, except) : status[b] = "PENDING"

(* checkAvailability of an active resource.                                *)
Available(w, except) == ~Blocked(w) /\ Conflicting(w, except) = {}

On(c, b) == call[c].op \notin {"none", "block"} /\ call[c].booking = b

(* Requests that looked for room before somebody took some of it.          *)
StaleByRoom(c, w) ==
  {e \in Callers \ {c} :
     call[e].op # "none" /\ call[e].step = "take" /\ Overlap(call[e].window, w)}

(* Requests that checked the status before somebody changed it.            *)
StaleByStatus(c, b) ==
  {e \in Processes \ {c} : On(e, b) /\ call[e].step = "write"}

(* A request has written the status, but the workflow not yet.             *)
HalfDone(b) ==
  \E e \in Processes : On(e, b) /\ call[e].step \in {"start", "auto", "read", "move"}

NoteWrite(c, overtaken) ==
  /\ stale' = (stale \cup overtaken) \ {c}
  /\ disturbed' = (disturbed \/ c \in stale)

Continue(c, request) == call' = [call EXCEPT ![c] = request]

End(c) == Continue(c, Idle)

-----------------------------------------------------------------------------
(* createReservation: the window is not in the past, and there is room.    *)
BeginCreate(c, b, w) ==
  /\ call[c] = Idle
  /\ status[b] = "ABSENT" /\ \A e \in Processes : ~On(e, b)
  /\ w.from >= now
  /\ Available(w, {})
  /\ Continue(c, [op |-> "create", step |-> "take", booking |-> b, window |-> w])
  /\ UNCHANGED <<approval, now, bookingVars, workflow, jobVars, workerVars, readVars,
                 histVars>>

(* The reservation is inserted, and can be seen from now on.               *)
Insert(c) ==
  /\ call[c].op = "create" /\ call[c].step = "take"
  /\ LET b == call[c].booking
         w == call[c].window
     IN /\ status' = [status EXCEPT ![b] =
                        IF approval THEN "PENDING" ELSE "APPROVED"]
        /\ window' = [window EXCEPT ![b] = w]
        /\ NoteWrite(c, StaleByRoom(c, w))
        /\ Continue(c, [op |-> "create", step |-> "start", booking |-> b])
  /\ UNCHANGED <<approval, now, blocks, workflow, jobVars, workerVars, histVars>>

(* startWorkflow: an instance in the initial state, unless there is one.   *)
StartWorkflow(c) ==
  /\ call[c].op = "create" /\ call[c].step = "start"
  /\ LET b == call[c].booking
     IN /\ workflow[b] = "NONE"
        /\ workflow' = [workflow EXCEPT ![b] = "PENDING"]
        /\ Continue(c, [op |-> "create", booking |-> b,
                        step |-> IF approval THEN "jobs" ELSE "auto"])
  /\ UNCHANGED <<approval, now, bookingVars, jobVars, workerVars, readVars, histVars>>

(* RESERVATION_WORKFLOW_DEFINITION: where each action leads from a state.  *)
Transitions ==
  {<<"PENDING", "approve", "APPROVED">>, <<"PENDING", "reject", "REJECTED">>,
   <<"PENDING", "cancel", "CANCELLED">>, <<"APPROVED", "cancel", "CANCELLED">>,
   <<"APPROVED", "check-in", "CHECKED_IN">>,
   <<"APPROVED", "complete", "COMPLETED">>,
   <<"CHECKED_IN", "complete", "COMPLETED">>,
   <<"APPROVED", "no-show", "NO_SHOW">>}

Targets(state, action) == {t \in Transitions : t[1] = state /\ t[2] = action}

(* The resource needs no approval: the instance is moved right away.       *)
AutoApprove(c) ==
  /\ call[c].op = "create" /\ call[c].step = "auto"
  /\ LET b == call[c].booking
     IN \E t \in Targets(workflow[b], "approve") :
          /\ workflow' = [workflow EXCEPT ![b] = t[3]]
          /\ Continue(c, [op |-> "create", booking |-> b, step |-> "jobs"])
  /\ UNCHANGED <<approval, now, bookingVars, jobVars, workerVars, readVars, histVars>>

(* scheduleReservationJobs: the end job is for the end time of now, and    *)
(* created only if that is to come.                                        *)
ScheduleJobs(c) ==
  /\ call[c].op = "create" /\ call[c].step = "jobs"
  /\ LET b == call[c].booking
     IN IF window[b].to > now
          THEN /\ endJob' = [endJob EXCEPT ![b] = "PENDING"]
               /\ runAt' = [runAt EXCEPT ![b] = window[b].to]
               /\ dueAt' = [dueAt EXCEPT ![b] = window[b].to]
          ELSE UNCHANGED <<endJob, runAt, dueAt>>
  /\ End(c)
  /\ UNCHANGED <<approval, now, bookingVars, workflow, attempts, aged, workerVars,
                 readVars, histVars>>

(* updateReservation checks the status, and that there is room for the new *)
(* window beside the reservation itself.  What happens between those two   *)
(* reads can as well happen after them.                                    *)
BeginUpdate(c, b, w) ==
  /\ call[c] = Idle
  /\ status[b] \in {"PENDING", "APPROVED"}
  /\ w # window[b] /\ w.from >= now
  /\ Available(w, {b})
  /\ Continue(c, [op |-> "update", step |-> "take", booking |-> b, window |-> w])
  /\ UNCHANGED <<approval, now, bookingVars, workflow, jobVars, workerVars, readVars,
                 histVars>>

(* The times are written by id; the end job stays as it is.                *)
Move(c) ==
  /\ call[c].op = "update" /\ call[c].step = "take"
  /\ LET b == call[c].booking
         w == call[c].window
     IN /\ window' = [window EXCEPT ![b] = w]
        /\ extended' = IF w.to > window[b].to THEN extended \cup {b} ELSE extended
        /\ NoteWrite(c, StaleByRoom(c, w))
  /\ End(c)
  /\ UNCHANGED <<approval, now, status, blocks, workflow, jobVars, workerVars, cutOff,
                 moved, byHand, stops>>

(* createResourceBlock looks at reservations only.                         *)
BeginBlock(c, w) ==
  /\ call[c] = Idle
  /\ Cardinality(blocks) < MaxBlocks
  /\ Conflicting(w, {}) = {}
  /\ Continue(c, [op |-> "block", step |-> "take", window |-> w])
  /\ UNCHANGED <<approval, now, bookingVars, workflow, jobVars, workerVars, readVars,
                 histVars>>

InsertBlock(c) ==
  /\ call[c].op = "block" /\ call[c].step = "take"
  /\ Cardinality(blocks) < MaxBlocks
  /\ blocks' = blocks \cup {call[c].window}
  /\ NoteWrite(c, StaleByRoom(c, call[c].window))
  /\ End(c)
  /\ UNCHANGED <<approval, now, status, window, workflow, jobVars, workerVars,
                 histVars>>

-----------------------------------------------------------------------------
(* What approve, reject, cancel, checkIn, complete and markNoShow want to  *)
(* find and what they write.                                               *)
Change ==
  [approve |-> [from |-> {"PENDING"}, to |-> "APPROVED", action |-> "approve"],
   reject |-> [from |-> {"PENDING"}, to |-> "REJECTED", action |-> "reject"],
   cancel |-> [from |-> {"PENDING", "APPROVED"}, to |-> "CANCELLED",
               action |-> "cancel"],
   checkIn |-> [from |-> {"APPROVED"}, to |-> "CHECKED_IN", action |-> "check-in"],
   complete |-> [from |-> {"APPROVED", "CHECKED_IN"}, to |-> "COMPLETED",
                 action |-> "complete"],
   markNoShow |-> [from |-> {"APPROVED"}, to |-> "NO_SHOW", action |-> "no-show"]]

(* Mistake for a mutant: whoever has checked in may still cancel.          *)
MayWheneverOccupying(b, t) ==
  status[b] \in Change[t].from \/ (t = "cancel" /\ status[b] \in Occupying)

(* assertStatus, and what the request itself asks for.                     *)
May(b, t) == status[b] \in Change[t].from

MayNow(b, t) ==
  /\ May(b, t)
  /\ t = "approve" => Available(window[b], {b})
  /\ t = "checkIn" => now < window[b].to
  /\ t = "markNoShow" => now >= window[b].to

(* A request that starts while another is half done is out of step, too.   *)
Start(c, b, t) ==
  /\ Continue(c, [op |-> "change", step |-> "write", booking |-> b, change |-> t])
  /\ stale' = IF HalfDone(b) THEN stale \cup {c} ELSE stale

BeginChange(c, b, t) ==
  /\ c \in Callers /\ call[c] = Idle
  /\ MayNow(b, t)
  /\ Start(c, b, t)
  /\ UNCHANGED <<approval, now, bookingVars, workflow, jobVars, workerVars, disturbed,
                 histVars>>

WriteStatus(c) ==
  /\ call[c].op = "change" /\ call[c].step = "write"
  /\ LET b == call[c].booking
     IN /\ status' = [status EXCEPT ![b] = Change[call[c].change].to]
        /\ NoteWrite(c, StaleByStatus(c, b))
  /\ Continue(c, [call[c] EXCEPT !.step = "read"])
  /\ UNCHANGED <<approval, now, window, blocks, workflow, jobVars, workerVars,
                 histVars>>

(* transitionWorkflow: the instance is read and the target looked up; an   *)
(* instance in a final state has none.                                     *)
Find(c) ==
  /\ call[c].op = "change" /\ call[c].step = "read"
  /\ \E t \in Targets(workflow[call[c].booking], Change[call[c].change].action) :
       Continue(c, [call[c] EXCEPT !.step = "move"] )
  /\ UNCHANGED <<approval, now, bookingVars, workflow, jobVars, workerVars, readVars,
                 histVars>>

(* What the worker or a request that runs a job is to do about job b.      *)
Ran(b, step) == [op |-> "end", step |-> step, booking |-> b]

(* The instance is written by id, whatever state it is in by now.  Then    *)
(* the request is over, or the handler of the end job has returned.        *)
MoveWorkflow(c) ==
  /\ call[c].op = "change" /\ call[c].step = "move"
  /\ LET b == call[c].booking
     IN /\ workflow' = [workflow EXCEPT ![b] = Change[call[c].change].to]
        /\ Continue(c, IF c \in Runners THEN Ran(b, "complete") ELSE Idle)
  /\ UNCHANGED <<approval, now, bookingVars, jobVars, workerVars, readVars, histVars>>

-----------------------------------------------------------------------------
(* The workflow's own requests leave the reservation alone.                *)
MayMove(b) == b \in moved \/ Cardinality(moved) < MaxDirect

(* startWorkflow for a reservation whose creation has not come to it.      *)
StartDirect(c, b) ==
  /\ call[c] = Idle
  /\ status[b] # "ABSENT" /\ workflow[b] = "NONE"
  /\ MayMove(b)
  /\ workflow' = [workflow EXCEPT ![b] = "PENDING"]
  /\ moved' = moved \cup {b}
  /\ UNCHANGED <<approval, now, bookingVars, jobVars, workerVars, call, readVars,
                 cutOff, extended, byHand, stops>>

(* transitionWorkflow, with any action: the instance is read ...           *)
BeginDirect(c, b) ==
  /\ call[c] = Idle
  /\ status[b] # "ABSENT"
  /\ MayMove(b)
  /\ \E t \in Transitions :
       /\ t[1] = workflow[b]
       /\ Continue(c, [op |-> "direct", step |-> "transit", booking |-> b, to |-> t[3]])
  /\ UNCHANGED <<approval, now, bookingVars, workflow, jobVars, workerVars, readVars,
                 histVars>>

(* ... and written by id.                                                  *)
MoveDirect(c) ==
  /\ call[c].op = "direct"
  /\ LET b == call[c].booking
     IN /\ MayMove(b)
        /\ workflow' = [workflow EXCEPT ![b] = call[c].to]
        /\ moved' = moved \cup {b}
  /\ End(c)
  /\ UNCHANGED <<approval, now, bookingVars, jobVars, workerVars, readVars, cutOff,
                 extended, byHand, stops>>

-----------------------------------------------------------------------------
(* A status is written, and updated_at with it.                            *)
WriteJob(b, s, due) ==
  /\ endJob' = [endJob EXCEPT ![b] = s]
  /\ dueAt' = [dueAt EXCEPT ![b] = due]
  /\ aged' = aged \ {b}

(* A job that failed is due again unless its attempts are used up.  The    *)
(* delay of a retry is short of a unit of the clock.                       *)
RetryAt(b) == IF attempts[b] < MaxAttempts THEN now ELSE runAt[b]

(* What claimDueOneTimeJobs looks for.                                     *)
Due(b) ==
  /\ endJob[b] \in {"PENDING", "FAILED"}
  /\ attempts[b] < MaxAttempts
  /\ dueAt[b] <= now

(* The time SCHEDULER_STALE_AFTER_MS passes over a job nobody writes.      *)
Age(b) ==
  /\ endJob[b] = "RUNNING" /\ b \notin aged
  /\ aged' = aged \cup {b}
  /\ UNCHANGED <<approval, now, bookingVars, workflow, endJob, runAt, dueAt, attempts,
                 workerVars, call, readVars, histVars>>

(* start: only here are jobs recovered that were left RUNNING.             *)
StartWorker ==
  /\ worker = "down"
  /\ worker' = "up"
  /\ LET left == {b \in aged : endJob[b] = "RUNNING"}
     IN /\ endJob' = [b \in Bookings |-> IF b \in left THEN "FAILED" ELSE endJob[b]]
        /\ dueAt' = [b \in Bookings |-> IF b \in left THEN RetryAt(b) ELSE dueAt[b]]
        /\ aged' = aged \ left
  /\ UNCHANGED <<approval, now, bookingVars, workflow, runAt, attempts, claimed, call,
                 readVars, histVars>>

(* onApplicationShutdown waits until the batch is done with.               *)
Shutdown ==
  /\ worker = "up" /\ claimed = {} /\ call[Worker] = Idle
  /\ worker' = "down"
  /\ UNCHANGED <<approval, now, bookingVars, workflow, jobVars, claimed, call, readVars,
                 histVars>>

(* claimDueOneTimeJobs, by a tick of the worker.                           *)
Claim ==
  /\ worker = "up" /\ claimed = {} /\ call[Worker] = Idle
  /\ \E bs \in SUBSET {b \in Bookings : Due(b)} \ {{}} :
       /\ claimed' = bs
       /\ endJob' = [b \in Bookings |-> IF b \in bs THEN "RUNNING" ELSE endJob[b]]
       /\ attempts' = [b \in Bookings |->
                         IF b \in bs THEN attempts[b] + 1 ELSE attempts[b]]
       /\ aged' = aged \ bs
  /\ UNCHANGED <<approval, now, bookingVars, workflow, runAt, dueAt, worker, call,
                 readVars, histVars>>

(* executeClaimedJob calls the handler.                                    *)
Execute(b) ==
  /\ call[Worker] = Idle /\ b \in claimed
  /\ Continue(Worker, Ran(b, "handle"))
  /\ UNCHANGED <<approval, now, bookingVars, workflow, jobVars, workerVars, readVars,
                 histVars>>

(* Mistake for a mutant: only reservations nobody came to are ended.       *)
EndChangeNoShow(b) == IF status[b] = "APPROVED" THEN {"markNoShow"} ELSE {}

(* What processReservationEnd does about a reservation that is over.       *)
EndChange(b) ==
  CASE status[b] = "APPROVED" -> {"markNoShow"}
    [] status[b] = "CHECKED_IN" -> {"complete"}
    [] OTHER -> {}

(* The handler returns at once unless the reservation is over and held.    *)
Handle(c) ==
  /\ call[c].op = "end" /\ call[c].step = "handle"
  /\ LET b == call[c].booking
     IN IF window[b].to > now \/ EndChange(b) = {}
          THEN Continue(c, Ran(b, "complete"))
          ELSE \E t \in EndChange(b) :
                 Continue(c, [op |-> "end", step |-> "again", booking |-> b,
                              change |-> t])
  /\ UNCHANGED <<approval, now, bookingVars, workflow, jobVars, workerVars, readVars,
                 histVars>>

(* markNoShow and complete read the reservation again, and may throw.      *)
EndAgain(c) ==
  /\ call[c].op = "end" /\ call[c].step = "again"
  /\ LET b == call[c].booking
         t == call[c].change
     IN \/ MayNow(b, t) /\ Start(c, b, t)
        \/ ~MayNow(b, t) /\ Continue(c, Ran(b, "fail")) /\ UNCHANGED stale
  /\ UNCHANGED <<approval, now, bookingVars, workflow, jobVars, workerVars, disturbed,
                 histVars>>

Finish(b) == End(Worker) /\ claimed' = claimed \ {b}

(* completeClaimedJob wants the job RUNNING; if it is not, or not any      *)
(* more, it throws, and the job counts as failed.                          *)
Complete ==
  /\ call[Worker].op = "end" /\ call[Worker].step = "complete"
  /\ LET b == call[Worker].booking
     IN IF endJob[b] = "RUNNING"
          THEN WriteJob(b, "COMPLETED", runAt[b]) /\ Finish(b)
          ELSE /\ Continue(Worker, Ran(b, "fail"))
               /\ UNCHANGED <<endJob, dueAt, aged, claimed>>
  /\ UNCHANGED <<approval, now, bookingVars, workflow, runAt, attempts, worker,
                 readVars, histVars>>

(* failClaimedJob does as well; when it throws, the tick is over, and the  *)
(* rest of the batch stays RUNNING.                                        *)
Fail ==
  /\ call[Worker].op = "end" /\ call[Worker].step = "fail"
  /\ LET b == call[Worker].booking
     IN IF endJob[b] = "RUNNING"
          THEN WriteJob(b, "FAILED", RetryAt(b)) /\ Finish(b)
          ELSE /\ End(Worker) /\ claimed' = {}
               /\ UNCHANGED <<endJob, dueAt, aged>>
  /\ UNCHANGED <<approval, now, bookingVars, workflow, runAt, attempts, worker,
                 readVars, histVars>>

-----------------------------------------------------------------------------
(* runJob: the job is read, whatever status it has; ...                    *)
RunByHand(o, b) ==
  /\ call[o] = Idle
  /\ endJob[b] # "ABSENT"
  /\ b \notin byHand /\ Cardinality(byHand) < MaxByHand
  /\ byHand' = byHand \cup {b}
  /\ Continue(o, Ran(b, "count"))
  /\ UNCHANGED <<approval, now, bookingVars, workflow, jobVars, workerVars, readVars,
                 cutOff, extended, moved, stops>>

(* ... its attempts are counted, ...                                       *)
CountByHand(o) ==
  /\ call[o].op = "end" /\ call[o].step = "count"
  /\ LET b == call[o].booking
     IN /\ attempts' = [attempts EXCEPT ![b] = @ + 1]
        /\ aged' = aged \ {b}
        /\ Continue(o, Ran(b, "run"))
  /\ UNCHANGED <<approval, now, bookingVars, workflow, endJob, runAt, dueAt, workerVars,
                 readVars, histVars>>

(* ... and it is RUNNING while the handler is called.                      *)
CallByHand(o) ==
  /\ call[o].op = "end" /\ call[o].step = "run"
  /\ LET b == call[o].booking
     IN /\ WriteJob(b, "RUNNING", dueAt[b])
        /\ Continue(o, Ran(b, "handle"))
  /\ UNCHANGED <<approval, now, bookingVars, workflow, runAt, attempts, workerVars,
                 readVars, histVars>>

(* Its result is written whatever the job's status is by now, and          *)
(* next_run_at stays as it is.                                             *)
EndByHand(o) ==
  /\ call[o].op = "end" /\ call[o].step \in {"complete", "fail"}
  /\ LET b == call[o].booking
     IN WriteJob(b, IF call[o].step = "fail" THEN "FAILED" ELSE "COMPLETED", dueAt[b])
  /\ End(o)
  /\ UNCHANGED <<approval, now, bookingVars, workflow, runAt, attempts, workerVars,
                 readVars, histVars>>

-----------------------------------------------------------------------------
(* Past the first write a request leaves things half done when it stops.   *)
Halfway(c) ==
  /\ call[c].op \in {"create", "change"}
  /\ call[c].step \in {"start", "auto", "jobs", "read", "move"}

Stopped(c) ==
  /\ stale' = stale \ {c}
  /\ cutOff' = IF Halfway(c) THEN cutOff \cup {call[c].booking} ELSE cutOff
  /\ UNCHANGED <<approval, now, bookingVars, workflow, jobVars, disturbed, extended,
                 moved, byHand>>

(* Who runs a job catches what its handler throws.  The worker catches     *)
(* what completeClaimedJob throws, too; runJob returns what updateStatus   *)
(* promises without waiting for it.                                        *)
Caught(c) ==
  \/ c = Worker /\ ~(call[c].op = "end" /\ call[c].step = "fail")
  \/ c \in Operators /\ ~(call[c].op = "end" /\ call[c].step \in {"complete", "fail"})

(* The request is given up; if it is the worker's, so is its batch.        *)
Leave(c) ==
  /\ Stopped(c)
  /\ End(c)
  /\ claimed' = IF c = Worker THEN {} ELSE claimed

Throw(c) ==
  IF Caught(c)
    THEN Stopped(c) /\ Continue(c, Ran(call[c].booking, "fail")) /\ UNCHANGED claimed
    ELSE Leave(c)

(* Invalid workflow transition, or Workflow instance not found, or one     *)
(* that exists already, after the status was written.                      *)
Refused(c) ==
  /\ \/ call[c].op = "change" /\ call[c].step = "read"
        /\ Targets(workflow[call[c].booking], Change[call[c].change].action) = {}
     \/ call[c].op = "create" /\ call[c].step = "start"
        /\ workflow[call[c].booking] # "NONE"
     \/ call[c].op = "create" /\ call[c].step = "auto"
        /\ Targets(workflow[call[c].booking], "approve") = {}
  /\ Throw(c)
  /\ UNCHANGED <<worker, stops>>

Fault == stops < MaxStops /\ stops' = stops + 1

StatementFails(c) ==
  /\ call[c] # Idle
  /\ Throw(c)
  /\ UNCHANGED worker
  /\ Fault

(* The process of c is lost, and what it was doing is left as it is.  One  *)
(* that takes several requests with it is a step for each.                 *)
Crash(c) ==
  /\ call[c] # Idle \/ (c = Worker /\ worker = "up")
  /\ Leave(c)
  /\ worker' = IF c = Worker THEN "down" ELSE worker
  /\ Fault

(* Another job of the batch failed, and could not be marked so.            *)
OtherJobAborts ==
  /\ call[Worker] = Idle /\ claimed # {}
  /\ claimed' = {}
  /\ Fault
  /\ UNCHANGED <<approval, now, bookingVars, workflow, jobVars, worker, call, readVars,
                 cutOff, extended, moved, byHand>>

Tick ==
  /\ now < Horizon
  /\ now' = now + 1
  /\ UNCHANGED <<approval, bookingVars, workflow, jobVars, workerVars, call, readVars,
                 histVars>>

-----------------------------------------------------------------------------
BeginRequest(c) ==
  \/ \E b \in Bookings, w \in Windows : BeginCreate(c, b, w) \/ BeginUpdate(c, b, w)
  \/ \E w \in Windows : BeginBlock(c, w)
  \/ \E b \in Bookings, t \in DOMAIN Change : BeginChange(c, b, t)
  \/ \E b \in Bookings : StartDirect(c, b) \/ BeginDirect(c, b)

(* A request that has begun goes on, and so does the handler of a job.     *)
Proceed(c) ==
  \/ Insert(c) \/ StartWorkflow(c) \/ AutoApprove(c) \/ ScheduleJobs(c)
  \/ Move(c) \/ InsertBlock(c) \/ MoveDirect(c)
  \/ WriteStatus(c) \/ Find(c) \/ MoveWorkflow(c)
  \/ Handle(c) \/ EndAgain(c)
  \/ Refused(c)

WorkByHand(o) == CountByHand(o) \/ CallByHand(o) \/ EndByHand(o)

WorkerStep ==
  \/ StartWorker \/ Shutdown \/ Claim
  \/ \E b \in Bookings : Execute(b)
  \/ Complete \/ Fail

Next ==
  \/ \E c \in Callers : BeginRequest(c)
  \/ \E c \in Processes : Proceed(c) \/ StatementFails(c) \/ Crash(c)
  \/ WorkerStep
  \/ \E o \in Operators : WorkByHand(o) \/ \E b \in Bookings : RunByHand(o, b)
  \/ \E b \in Bookings : Age(b)
  \/ OtherJobAborts
  \/ Tick

Spec == Init /\ [][Next]_vars

(* Requests wait for nobody, so they go on; the clock does; and a worker   *)
(* that is down is started again.  It polls, and its start does; as jobs   *)
(* are claimed in the order they are due, each gets its turn.              *)
FairSpec ==
  /\ Spec
  /\ \A c \in Processes : WF_vars(Proceed(c))
  /\ \A o \in Operators : WF_vars(WorkByHand(o))
  /\ WF_vars(StartWorker)
  /\ \A b \in Bookings : SF_vars(Claim /\ b \in claimed')
  /\ WF_vars(\E b \in Bookings : Execute(b))
  /\ WF_vars(Complete \/ Fail)
  /\ WF_vars(Tick)

-----------------------------------------------------------------------------
(* As long as no request writes on the strength of a read that another has *)
(* outdated, nobody is promised time that somebody else has or that is     *)
(* blocked (checkAvailability).                                            *)
NoDoubleBooking ==
  ~disturbed =>
    /\ \A b \in Bookings : status[b] \in Occupying =>
         Conflicting(window[b], {b}) = {}
    /\ \A b \in Bookings : status[b] \in Occupying => ~Blocked(window[b])

(* Under the same condition a reservation nobody is half way through       *)
(* changing is in the state its workflow instance is in, unless a request  *)
(* stopped half way or the instance was started or moved by the workflow's *)
(* own requests (transitionWorkflow); and the workflow refuses no change   *)
(* that the reservation allowed.                                           *)
WorkflowFollows ==
  ~disturbed =>
    \A b \in Bookings \ (cutOff \cup moved) :
      /\ status[b] # "ABSENT" /\ ~HalfDone(b) => workflow[b] = status[b]
      /\ \A c \in Processes :
           On(c, b) /\ call[c].op = "change" /\ call[c].step = "read" =>
             Targets(workflow[b], Change[call[c].change].action) # {}

Ended(b) == status[b] \in Final

(* The end job can still be claimed, now or when it is due.                *)
Waiting(b) == endJob[b] \in {"PENDING", "FAILED"} /\ attempts[b] < MaxAttempts

(* The end job is RUNNING and the worker is not at it: only a start of the *)
(* worker past the limit would recover it.                                 *)
Stranded(b) == endJob[b] = "RUNNING" /\ b \notin claimed

(* A reservation that is approved or in use while its end job waits is     *)
(* ended in the end, whether anybody came or not (processReservationEnd),  *)
(* and however its status, its workflow and the worker were interrupted.   *)
(* Not so when it was extended, for the job is not moved with it; when the *)
(* job was run by hand, which completes it even before the reservation is  *)
(* over; when the job is stranded; or when there were failures enough to   *)
(* use up its attempts.                                                    *)
EveryStayEnds ==
  \A b \in Bookings :
    (status[b] \in {"APPROVED", "CHECKED_IN"} /\ Waiting(b))
      ~> \/ Ended(b)
         \/ b \in extended \cup byHand
         \/ Stranded(b)
         \/ stops + 1 >= MaxAttempts
=============================================================================
