----------------------------- MODULE Scheduler -----------------------------
(***************************************************************************)
(* Scheduled jobs: rows of scheduler_jobs, the worker processes that claim *)
(* and execute them, and POST /scheduler/jobs/:id/run, with which somebody *)
(* executes a job by hand.                                                 *)
(*                                                                         *)
(* A worker claims a batch of due jobs in one transaction (RUNNING, one    *)
(* attempt more) and executes them one after the other; completing and     *)
(* failing a job are statements that want the row to be RUNNING.  Nothing  *)
(* in a row says whose claim it is.  Jobs that are RUNNING since long are  *)
(* recovered when a worker starts, and only then.                          *)
(*                                                                         *)
(* A point in time is "none", "future" or "past"; updated_at only matters  *)
(* for what recovery asks, whether it is older than SCHEDULER_STALE_AFTER. *)
(***************************************************************************)
EXTENDS Integers, FiniteSets

CONSTANTS
  Jobs,         \* ids of jobs
  NoJob,
  Handled,      \* the jobs whose type has a registered handler
  Workers,      \* worker processes
  Operators,    \* requests to run a job by hand
  maxAttempts,  \* max_attempts of each job
  BatchSize,    \* SCHEDULER_BATCH_SIZE
  MaxFaults,    \* bound on crashes and failing statements
  MaxByHand     \* bound on the jobs that are run by hand

ASSUME SchedulerAssumption ==
  /\ NoJob \notin Jobs
  /\ Handled \subseteq Jobs
  /\ maxAttempts \in [Jobs -> Nat]
  /\ BatchSize \in Nat \ {0}
  /\ MaxFaults \in Nat
  /\ MaxByHand \in Nat

VARIABLES
  status,     \* of each job
  attempts,
  runAt,      \* run_at of a ONE_TIME job; "none" also for other jobs
  nextRunAt,
  stale,      \* jobs whose updated_at is older than the limit
  pc,         \* what each worker does next
  batch,      \* the jobs it claimed and has not finished with
  job,        \* the one it executes
  opPc,       \* what each request does next
  opJob,      \* the job it runs
  called,     \* how often the handler was called for a job
  succeeded,  \* jobs for which it returned
  byHand,     \* jobs somebody ran by hand, once each
  outlived,   \* jobs that became stale while somebody was at them
  faults      \* crashes and failed statements so far

rowVars == <<status, attempts, runAt, nextRunAt, stale>>
workerVars == <<pc, batch, job>>
opVars == <<opPc, opJob>>
histVars == <<called, succeeded, byHand, outlived, faults>>
vars == <<status, attempts, runAt, nextRunAt, stale, pc, batch, job, opPc, opJob,
          called, succeeded, byHand, outlived, faults>>

Statuses == {"ABSENT", "PENDING", "RUNNING", "COMPLETED", "FAILED"}
Times == {"none", "future", "past"}
WorkerSteps == {"down", "idle", "tick", "next", "handling", "complete", "fail"}
OpSteps == {"idle", "count", "start", "handling", "complete", "fail"}

Init ==
  /\ status = [j \in Jobs |-> "ABSENT"]
  /\ attempts = [j \in Jobs |-> 0]
  /\ runAt = [j \in Jobs |-> "none"]
  /\ nextRunAt = [j \in Jobs |-> "none"]
  /\ stale = {}
  /\ pc = [w \in Workers |-> "down"]
  /\ batch = [w \in Workers |-> {}]
  /\ job = [w \in Workers |-> NoJob]
  /\ opPc = [o \in Operators |-> "idle"]
  /\ opJob = [o \in Operators |-> NoJob]
  /\ called = [j \in Jobs |-> 0]
  /\ succeeded = {}
  /\ byHand = {}
  /\ outlived = {}
  /\ faults = 0

(* Somebody is at the job.                                                 *)
Held(j) ==
  \/ \E w \in Workers : j \in batch[w]
  \/ \E o \in Operators : opJob[o] = j

(* Mistake for a mutant: the retries are not limited.                      *)
DueWithoutLimit(j) ==
  /\ status[j] \in {"PENDING", "FAILED"}
  /\ (IF nextRunAt[j] # "none" THEN nextRunAt[j] ELSE runAt[j]) = "past"

(* Mistake for a mutant: only new jobs are looked for.                     *)
DueOnce(j) ==
  /\ status[j] = "PENDING"
  /\ attempts[j] < maxAttempts[j]
  /\ (IF nextRunAt[j] # "none" THEN nextRunAt[j] ELSE runAt[j]) = "past"

(* What a worker looks for: COALESCE(next_run_at, run_at) <= NOW().        *)
Due(j) ==
  /\ status[j] \in {"PENDING", "FAILED"}
  /\ attempts[j] < maxAttempts[j]
  /\ (IF nextRunAt[j] # "none" THEN nextRunAt[j] ELSE runAt[j]) = "past"

-----------------------------------------------------------------------------
(* createJob, of any type: a job that is not ONE_TIME, or has no runAt,    *)
(* has no time at which it would be due.                                   *)
CreateJob(j, t) ==
  /\ status[j] = "ABSENT"
  /\ status' = [status EXCEPT ![j] = "PENDING"]
  /\ runAt' = [runAt EXCEPT ![j] = t]
  /\ nextRunAt' = [nextRunAt EXCEPT ![j] = t]
  /\ UNCHANGED <<attempts, stale, workerVars, opVars, histVars>>

(* The time at which a job is to run arrives.                              *)
TimeComes(j) ==
  /\ nextRunAt[j] = "future"
  /\ nextRunAt' = [nextRunAt EXCEPT ![j] = "past"]
  /\ runAt' = [runAt EXCEPT ![j] = IF @ = "future" THEN "past" ELSE @]
  /\ UNCHANGED <<status, attempts, stale, workerVars, opVars, histVars>>

(* A job has been RUNNING for longer than the limit.                       *)
GoStale(j) ==
  /\ status[j] = "RUNNING"
  /\ j \notin stale
  /\ stale' = stale \cup {j}
  /\ outlived' = IF Held(j) THEN outlived \cup {j} ELSE outlived
  /\ UNCHANGED <<status, attempts, runAt, nextRunAt, workerVars, opVars,
                 called, succeeded, byHand, faults>>

-----------------------------------------------------------------------------
(* A worker process.                                                       *)
GoTo(w, step) == pc' = [pc EXCEPT ![w] = step]

(* A write to a row sets its updated_at.                                   *)
Write(j, s, next) ==
  /\ status' = [status EXCEPT ![j] = s]
  /\ nextRunAt' = [nextRunAt EXCEPT ![j] = next]
  /\ stale' = stale \ {j}

RecoveredNext(j) == IF attempts[j] < maxAttempts[j] THEN "past" ELSE "none"

(* Mistake for a mutant: a starting worker takes every RUNNING job for one *)
(* its predecessor left.                                                   *)
StartRecoveringAll(w) ==
  LET left == {j \in Jobs : status[j] = "RUNNING"}
  IN  /\ pc[w] = "down"
      /\ status' = [j \in Jobs |-> IF j \in left THEN "FAILED" ELSE status[j]]
      /\ nextRunAt' = [j \in Jobs |->
                         IF j \in left THEN RecoveredNext(j) ELSE nextRunAt[j]]
      /\ stale' = stale \ left
      /\ GoTo(w, "tick")
      /\ UNCHANGED <<attempts, runAt, batch, job, opVars, histVars>>

(* start: recoverStaleRunningJobs, then a tick at once.                    *)
Start(w) ==
  LET left == {j \in stale : status[j] = "RUNNING"}
  IN  /\ pc[w] = "down"
      /\ status' = [j \in Jobs |-> IF j \in left THEN "FAILED" ELSE status[j]]
      /\ nextRunAt' = [j \in Jobs |->
                         IF j \in left THEN RecoveredNext(j) ELSE nextRunAt[j]]
      /\ stale' = stale \ left
      /\ GoTo(w, "tick")
      /\ UNCHANGED <<attempts, runAt, batch, job, opVars, histVars>>

(* The interval of SCHEDULER_POLL_INTERVAL_MS.  A timer that fires during  *)
(* a tick does nothing.                                                    *)
Timer(w) ==
  /\ pc[w] = "idle"
  /\ GoTo(w, "tick")
  /\ UNCHANGED <<rowVars, batch, job, opVars, histVars>>

(* Mistake for a mutant: claiming does not count the attempt.              *)
ClaimUncounted(w) ==
  /\ pc[w] = "tick"
  /\ \E js \in SUBSET {j \in Jobs : Due(j)} :
       /\ Cardinality(js) <= BatchSize
       /\ Cardinality(js) = BatchSize \/ js = {j \in Jobs : Due(j)}
       /\ status' = [j \in Jobs |-> IF j \in js THEN "RUNNING" ELSE status[j]]
       /\ stale' = stale \ js
       /\ batch' = [batch EXCEPT ![w] = js]
       /\ GoTo(w, IF js = {} THEN "idle" ELSE "next")
  /\ UNCHANGED <<attempts, runAt, nextRunAt, job, opVars, histVars>>

(* claimDueOneTimeJobs: one transaction.  What another worker claims at    *)
(* the same time is locked, and skipped.  The order in which the jobs come *)
(* back is not specified: the worker executes them in any order.           *)
Claim(w) ==
  /\ pc[w] = "tick"
  /\ \E js \in SUBSET {j \in Jobs : Due(j)} :
       /\ Cardinality(js) <= BatchSize
       /\ Cardinality(js) = BatchSize \/ js = {j \in Jobs : Due(j)}
       /\ status' = [j \in Jobs |-> IF j \in js THEN "RUNNING" ELSE status[j]]
       /\ attempts' = [j \in Jobs |->
                         IF j \in js THEN attempts[j] + 1 ELSE attempts[j]]
       /\ stale' = stale \ js
       /\ batch' = [batch EXCEPT ![w] = js]
       /\ GoTo(w, IF js = {} THEN "idle" ELSE "next")
  /\ UNCHANGED <<runAt, nextRunAt, job, opVars, histVars>>

(* executeClaimedJob for one more job of the batch.                        *)
Call(w) ==
  /\ pc[w] = "next"
  /\ \E j \in batch[w] :
       /\ job' = [job EXCEPT ![w] = j]
       /\ \/ /\ j \in Handled
             /\ called' = [called EXCEPT ![j] = @ + 1]
             /\ GoTo(w, "handling")
          \/ /\ j \notin Handled
             /\ GoTo(w, "fail")
             /\ UNCHANGED called
  /\ UNCHANGED <<rowVars, batch, opVars, succeeded, byHand, outlived, faults>>

(* Mistake for a mutant: a handler that throws counts as one that returns. *)
ReturnRegardless(w) ==
  /\ pc[w] = "handling"
  /\ GoTo(w, "complete")
  /\ \/ succeeded' = succeeded \cup {job[w]}
     \/ UNCHANGED succeeded
  /\ UNCHANGED <<rowVars, batch, job, opVars, called, byHand, outlived, faults>>

(* The handler returns, or throws.                                         *)
Return(w) ==
  /\ pc[w] = "handling"
  /\ \/ /\ succeeded' = succeeded \cup {job[w]}
        /\ GoTo(w, "complete")
     \/ /\ GoTo(w, "fail")
        /\ UNCHANGED succeeded
  /\ UNCHANGED <<rowVars, batch, job, opVars, called, byHand, outlived, faults>>

(* Mistake for a mutant: one job per tick.                                 *)
FinishTick(w) ==
  /\ batch' = [batch EXCEPT ![w] = {}]
  /\ job' = [job EXCEPT ![w] = NoJob]
  /\ GoTo(w, "idle")

(* Done with one job: the next one, or the end of the tick.                *)
Finish(w) ==
  /\ batch' = [batch EXCEPT ![w] = @ \ {job[w]}]
  /\ job' = [job EXCEPT ![w] = NoJob]
  /\ GoTo(w, IF batch[w] = {job[w]} THEN "idle" ELSE "next")

(* An exception ends the tick: the rest of the batch is left as it is.     *)
Abort(w) ==
  /\ batch' = [batch EXCEPT ![w] = {}]
  /\ job' = [job EXCEPT ![w] = NoJob]
  /\ GoTo(w, "idle")

(* completeClaimedJob.  When the row is not RUNNING any more it throws,    *)
(* and the job goes the way of a failed one.                               *)
Complete(w) ==
  /\ pc[w] = "complete"
  /\ \/ /\ status[job[w]] = "RUNNING"
        /\ Write(job[w], "COMPLETED", "none")
        /\ Finish(w)
        /\ UNCHANGED <<attempts, runAt>>
     \/ /\ status[job[w]] # "RUNNING"
        /\ GoTo(w, "fail")
        /\ UNCHANGED <<rowVars, batch, job>>
  /\ UNCHANGED <<opVars, histVars>>

(* next_run_at of a job that failed.  The delay of the worker is computed  *)
(* from the attempts it read, which are no more than those of the row;     *)
(* without a handler there is none.                                        *)
RetryAt(j) ==
  IF attempts[j] < maxAttempts[j] /\ j \in Handled THEN "future" ELSE "none"

(* Mistake for a mutant: UPDATE without AND status = 'RUNNING'.            *)
FailAnyway(w) ==
  /\ pc[w] = "fail"
  /\ Write(job[w], "FAILED", RetryAt(job[w]))
  /\ Finish(w)
  /\ UNCHANGED <<attempts, runAt, opVars, histVars>>

(* failClaimedJob.  When the row is not RUNNING any more it throws.        *)
Fail(w) ==
  /\ pc[w] = "fail"
  /\ \/ /\ status[job[w]] = "RUNNING"
        /\ Write(job[w], "FAILED", RetryAt(job[w]))
        /\ Finish(w)
        /\ UNCHANGED <<attempts, runAt>>
     \/ /\ status[job[w]] # "RUNNING"
        /\ Abort(w)
        /\ UNCHANGED rowVars
  /\ UNCHANGED <<opVars, histVars>>

Fault == faults < MaxFaults /\ faults' = faults + 1

(* The database does not execute completeClaimedJob or failClaimedJob.  (A *)
(* claim that fails changes nothing.)                                      *)
StatementFails(w) ==
  /\ Fault
  /\ \/ pc[w] = "complete" /\ GoTo(w, "fail") /\ UNCHANGED <<batch, job>>
     \/ pc[w] = "fail" /\ Abort(w)
  /\ UNCHANGED <<rowVars, opVars, called, succeeded, byHand, outlived>>

(* The process dies.                                                       *)
Crash(w) ==
  /\ Fault
  /\ pc[w] # "down"
  /\ GoTo(w, "down")
  /\ batch' = [batch EXCEPT ![w] = {}]
  /\ job' = [job EXCEPT ![w] = NoJob]
  /\ UNCHANGED <<rowVars, opVars, called, succeeded, byHand, outlived>>

(* onApplicationShutdown waits for the tick to end.                        *)
Stop(w) ==
  /\ pc[w] = "idle"
  /\ GoTo(w, "down")
  /\ UNCHANGED <<rowVars, batch, job, opVars, histVars>>

-----------------------------------------------------------------------------
(* runJob: whatever the status of the job is, and its attempts.  Each      *)
(* statement is a transaction of its own.                                  *)
OpGoTo(o, step) == opPc' = [opPc EXCEPT ![o] = step]

OpEnd(o) ==
  /\ OpGoTo(o, "idle")
  /\ opJob' = [opJob EXCEPT ![o] = NoJob]

(* getJob and the look for a handler.                                      *)
RunJob(o, j) ==
  /\ opPc[o] = "idle"
  /\ status[j] # "ABSENT"
  /\ j \notin byHand
  /\ Cardinality(byHand) < MaxByHand
  /\ byHand' = byHand \cup {j}
  /\ opJob' = [opJob EXCEPT ![o] = j]
  /\ OpGoTo(o, IF j \in Handled THEN "count" ELSE "fail")
  /\ UNCHANGED <<rowVars, workerVars, called, succeeded, outlived, faults>>

(* incrementAttempts                                                       *)
IncrementAttempts(o) ==
  /\ opPc[o] = "count"
  /\ attempts' = [attempts EXCEPT ![opJob[o]] = @ + 1]
  /\ stale' = stale \ {opJob[o]}
  /\ OpGoTo(o, "start")
  /\ UNCHANGED <<status, runAt, nextRunAt, workerVars, opJob, histVars>>

(* updateStatus(id, 'RUNNING'), and the handler is called.                 *)
CallByHand(o) ==
  /\ opPc[o] = "start"
  /\ Write(opJob[o], "RUNNING", nextRunAt[opJob[o]])
  /\ called' = [called EXCEPT ![opJob[o]] = @ + 1]
  /\ OpGoTo(o, "handling")
  /\ UNCHANGED <<attempts, runAt, workerVars, opJob, succeeded, byHand, outlived,
                 faults>>

ReturnByHand(o) ==
  /\ opPc[o] = "handling"
  /\ \/ /\ succeeded' = succeeded \cup {opJob[o]}
        /\ OpGoTo(o, "complete")
     \/ /\ OpGoTo(o, "fail")
        /\ UNCHANGED succeeded
  /\ UNCHANGED <<rowVars, workerVars, opJob, called, byHand, outlived, faults>>

(* updateStatus(id, 'COMPLETED') or updateStatus(id, 'FAILED')             *)
EndByHand(o) ==
  /\ opPc[o] \in {"complete", "fail"}
  /\ Write(opJob[o], IF opPc[o] = "complete" THEN "COMPLETED" ELSE "FAILED",
           nextRunAt[opJob[o]])
  /\ OpEnd(o)
  /\ UNCHANGED <<attempts, runAt, workerVars, histVars>>

(* A statement fails or the process dies.  The last statements are not     *)
(* awaited inside the try block: nothing is written when they fail.        *)
FaultByHand(o) ==
  /\ Fault
  /\ \/ opPc[o] \in {"count", "start"} /\ OpGoTo(o, "fail") /\ UNCHANGED opJob
     \/ opPc[o] # "idle" /\ OpEnd(o)
  /\ UNCHANGED <<rowVars, workerVars, called, succeeded, byHand, outlived>>

-----------------------------------------------------------------------------
Work(w) == Timer(w) \/ Claim(w) \/ Call(w) \/ Return(w) \/ Complete(w) \/ Fail(w)

WorkByHand(o) ==
  IncrementAttempts(o) \/ CallByHand(o) \/ ReturnByHand(o) \/ EndByHand(o)

Next ==
  \/ \E j \in Jobs :
       \/ \E t \in Times : CreateJob(j, t)
       \/ TimeComes(j)
       \/ GoStale(j)
  \/ \E w \in Workers :
       Start(w) \/ Work(w) \/ StatementFails(w) \/ Crash(w) \/ Stop(w)
  \/ \E o \in Operators :
       \/ \E j \in Jobs : RunJob(o, j)
       \/ WorkByHand(o)
       \/ FaultByHand(o)

Spec == Init /\ [][Next]_vars

(* Time passes, a process that ended is started again, a process that runs *)
(* goes on, handlers return or throw.                                      *)
FairSpec ==
  /\ Spec
  /\ \A j \in Jobs : WF_vars(TimeComes(j))
  /\ \A w \in Workers : WF_vars(Start(w) \/ Work(w))
  /\ \A o \in Operators : WF_vars(WorkByHand(o))

-----------------------------------------------------------------------------
(* What a worker or a request is doing, and the jobs it has.               *)
PlacesOK ==
  /\ \A w \in Workers :
       /\ pc[w] \in {"down", "idle", "tick"} => batch[w] = {}
       /\ IF pc[w] \in {"handling", "complete", "fail"} THEN job[w] \in batch[w]
                                                       ELSE job[w] = NoJob
  /\ \A o \in Operators : (opPc[o] = "idle") <=> (opJob[o] = NoJob)

TypeOK ==
  /\ status \in [Jobs -> Statuses]
  /\ attempts \in [Jobs -> Nat]
  /\ runAt \in [Jobs -> Times]
  /\ nextRunAt \in [Jobs -> Times]
  /\ stale \in SUBSET Jobs
  /\ pc \in [Workers -> WorkerSteps]
  /\ batch \in [Workers -> SUBSET Jobs]
  /\ job \in [Workers -> Jobs \cup {NoJob}]
  /\ opPc \in [Operators -> OpSteps]
  /\ opJob \in [Operators -> Jobs \cup {NoJob}]
  /\ called \in [Jobs -> Nat]
  /\ succeeded \in SUBSET Jobs
  /\ byHand \in SUBSET Jobs
  /\ outlived \in SUBSET Jobs
  /\ faults \in 0 .. MaxFaults
  /\ PlacesOK

(* Nobody ran the job by hand, and no claim of it lasted longer than the   *)
(* limit after which it counts as left.                                    *)
Undisturbed(j) == j \notin byHand /\ j \notin outlived

(* A job in the batch of a worker is RUNNING and in no other batch: the    *)
(* row lock of the claim, and the limit of the recovery, keep two workers  *)
(* from executing one job, also when workers crash and start.              *)
ClaimsExclusive ==
  \A w \in Workers : \A j \in batch[w] :
    Undisturbed(j) =>
      /\ status[j] = "RUNNING"
      /\ \A v \in Workers \ {w} : j \notin batch[v]

(* The handler is called once for each attempt that was counted, and a     *)
(* worker counts no more than max_attempts: no crash, retry or recovery    *)
(* makes a call that is not counted.                                       *)
CallsCounted ==
  \A j \in Jobs :
    /\ called[j] <= attempts[j]
    /\ j \notin byHand => attempts[j] <= maxAttempts[j]

(* A COMPLETED job has been executed by a handler that returned.           *)
CompletedMeansRan == \A j \in Jobs : status[j] = "COMPLETED" => j \in succeeded

(* A job stops being COMPLETED only while somebody runs it by hand.         *)
KeepsCompleted ==
  \A j \in Jobs :
    status[j] = "COMPLETED" /\ status'[j] # "COMPLETED"
      => \E o \in Operators : opJob[o] = j

(* No step of a worker changes a COMPLETED job, not even with a claim that *)
(* was overtaken by a recovery or by somebody who ran the job by hand      *)
(* (WHERE ... status = 'RUNNING' in completeClaimedJob, failClaimedJob).   *)
WorkersKeepCompleted == [][KeepsCompleted]_vars

(* A RUNNING job nobody is at, which waits for the recovery of the next    *)
(* start.                                                                  *)
Stranded(j) == status[j] = "RUNNING" /\ ~Held(j)

(* Without a fault, a claim that outlived the limit and a job run by hand, *)
(* no job is stranded: a tick goes on to the end of its batch.             *)
StrandedByFault ==
  (faults = 0 /\ byHand = {} /\ outlived = {}) => \A j \in Jobs : ~Stranded(j)

Settled(j) ==
  \/ status[j] = "COMPLETED"
  \/ status[j] = "FAILED" /\ attempts[j] >= maxAttempts[j]

(* A job that is due is in the end COMPLETED, or FAILED with no attempts   *)
(* left, unless it is stranded.                                            *)
Settles == \A j \in Jobs : Due(j) ~> (Settled(j) \/ Stranded(j))
=============================================================================
