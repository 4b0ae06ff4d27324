-------------------------- MODULE Scheduler_proofs --------------------------
(* Theorems about Scheduler, for any jobs, workers, requests, batch size,  *)
(* numbers of attempts and bounds.                                         *)
EXTENDS Scheduler, FiniteSetTheorems, TLAPS

-----------------------------------------------------------------------------
(* Type correctness.  Each kind of process has its own part of the state,  *)
(* so every action disturbs few conjuncts.                                 *)

LEMMA TypeInit == Init => TypeOK
BY SchedulerAssumption DEF Init, TypeOK, PlacesOK, Statuses, Times, WorkerSteps,
   OpSteps

LEMMA TypeRows ==
  ASSUME TypeOK,
         \/ \E j \in Jobs :
              (\E t \in Times : CreateJob(j, t)) \/ TimeComes(j) \/ GoStale(j)
  PROVE  TypeOK'
<1>1. ASSUME NEW j \in Jobs, NEW t \in Times, CreateJob(j, t)
      PROVE  TypeOK'
  BY <1>1 DEF TypeOK, PlacesOK, CreateJob, Statuses, Times, workerVars, opVars,
     histVars
<1>2. ASSUME NEW j \in Jobs, TimeComes(j)
      PROVE  TypeOK'
  BY <1>2 DEF TypeOK, PlacesOK, TimeComes, Times, workerVars, opVars, histVars
<1>3. ASSUME NEW j \in Jobs, GoStale(j)
      PROVE  TypeOK'
  BY <1>3 DEF TypeOK, PlacesOK, GoStale, workerVars, opVars
<1> QED
  BY <1>1, <1>2, <1>3

LEMMA TypeWorkers ==
  ASSUME TypeOK, NEW w \in Workers,
         Start(w) \/ Work(w) \/ StatementFails(w) \/ Crash(w) \/ Stop(w)
  PROVE  TypeOK'
<1> USE SchedulerAssumption DEF TypeOK, PlacesOK, GoTo, WorkerSteps
<1>1. CASE Start(w)
  BY <1>1 DEF Start, RecoveredNext, Statuses, Times, opVars, histVars
<1>2. CASE Timer(w)
  BY <1>2 DEF Timer, rowVars, opVars, histVars
<1>3. CASE Claim(w)
  <2>1. PICK js \in SUBSET Jobs :
          /\ status' = [j \in Jobs |-> IF j \in js THEN "RUNNING" ELSE status[j]]
          /\ attempts' = [j \in Jobs |->
                            IF j \in js THEN attempts[j] + 1 ELSE attempts[j]]
          /\ stale' = stale \ js
          /\ batch' = [batch EXCEPT ![w] = js]
          /\ GoTo(w, IF js = {} THEN "idle" ELSE "next")
    BY <1>3 DEF Claim
  <2>2. UNCHANGED <<runAt, nextRunAt, job, opVars, histVars>> /\ pc[w] = "tick"
    BY <1>3 DEF Claim
  <2>3. status' \in [Jobs -> Statuses] /\ attempts' \in [Jobs -> Nat]
    BY <2>1 DEF Statuses
  <2>4. PlacesOK'
    BY <2>1, <2>2 DEF opVars
  <2> QED
    BY <2>1, <2>2, <2>3, <2>4 DEF opVars, histVars
<1>4. CASE Call(w)
  <2>1. PICK j \in batch[w] :
          /\ job' = [job EXCEPT ![w] = j]
          /\ \/ called' = [called EXCEPT ![j] = @ + 1] /\ GoTo(w, "handling")
             \/ GoTo(w, "fail") /\ UNCHANGED called
    BY <1>4 DEF Call
  <2>2. j \in Jobs
    BY <2>1
  <2>3. UNCHANGED <<rowVars, batch, opVars, succeeded, byHand, outlived, faults>>
    BY <1>4 DEF Call
  <2>4. called' \in [Jobs -> Nat]
    BY <2>1, <2>2
  <2>5. PlacesOK'
    BY <2>1, <2>2, <2>3 DEF opVars
  <2> QED
    BY <2>1, <2>2, <2>3, <2>4, <2>5 DEF rowVars, opVars
<1>5. CASE Return(w)
  BY <1>5 DEF Return, rowVars, opVars
<1>6. CASE Complete(w)
  BY <1>6 DEF Complete, Write, Finish, rowVars, opVars, histVars, Statuses, Times
<1>7. CASE Fail(w)
  BY <1>7 DEF Fail, Write, RetryAt, Finish, Abort, rowVars, opVars, histVars,
     Statuses, Times
<1>8. CASE StatementFails(w)
  BY <1>8 DEF StatementFails, Fault, Abort, rowVars, opVars
<1>9. CASE Crash(w)
  BY <1>9 DEF Crash, Fault, rowVars, opVars
<1>10. CASE Stop(w)
  BY <1>10 DEF Stop, rowVars, opVars, histVars
<1> QED
  BY <1>1, <1>2, <1>3, <1>4, <1>5, <1>6, <1>7, <1>8, <1>9, <1>10 DEF Work

LEMMA TypeOperators ==
  ASSUME TypeOK, NEW o \in Operators,
         (\E j \in Jobs : RunJob(o, j)) \/ WorkByHand(o) \/ FaultByHand(o)
  PROVE  TypeOK'
<1> USE SchedulerAssumption DEF TypeOK, PlacesOK, OpGoTo, OpEnd, OpSteps
<1>1. ASSUME NEW j \in Jobs, RunJob(o, j)
      PROVE  TypeOK'
  BY <1>1 DEF RunJob, rowVars, workerVars
<1>2. CASE IncrementAttempts(o)
  BY <1>2 DEF IncrementAttempts, workerVars, histVars
<1>3. CASE CallByHand(o)
  BY <1>3 DEF CallByHand, Write, workerVars, Statuses
<1>4. CASE ReturnByHand(o)
  BY <1>4 DEF ReturnByHand, rowVars, workerVars
<1>5. CASE EndByHand(o)
  BY <1>5 DEF EndByHand, Write, workerVars, histVars, Statuses
<1>6. CASE FaultByHand(o)
  BY <1>6 DEF FaultByHand, Fault, rowVars, workerVars
<1> QED
  BY <1>1, <1>2, <1>3, <1>4, <1>5, <1>6 DEF WorkByHand

LEMMA TypeNext == TypeOK /\ [Next]_vars => TypeOK'
<1> SUFFICES ASSUME TypeOK, [Next]_vars PROVE TypeOK'
  OBVIOUS
<1>1. CASE Next
  BY <1>1, TypeRows, TypeWorkers, TypeOperators DEF Next
<1>2. CASE UNCHANGED vars
  BY <1>2 DEF TypeOK, PlacesOK, vars
<1> QED
  BY <1>1, <1>2

(* Whatever workers, requests and time do, the rows, claims and calls keep *)
(* their shape, and a worker between two ticks has no claim                *)
(* (scheduler-worker.service.ts, tick).                                    *)
THEOREM SchedulerTypeCorrect == Spec => []TypeOK
BY TypeInit, TypeNext, PTL DEF Spec

-----------------------------------------------------------------------------
(* ClaimsExclusive is not inductive: that a job in a batch stays RUNNING   *)
(* depends on its not being stale, since a start fails stale jobs, and on  *)
(* the request that works on a job being recorded in byHand.               *)
ClaimAlive(w, j) ==
  /\ status[j] = "RUNNING"
  /\ j \notin stale
  /\ \A v \in Workers \ {w} : j \notin batch[v]

ClaimsInv ==
  /\ \A w \in Workers : \A j \in batch[w] : Undisturbed(j) => ClaimAlive(w, j)
  /\ \A o \in Operators : opJob[o] \in byHand \cup {NoJob}

LEMMA ClaimsInit == Init => ClaimsInv
BY DEF Init, ClaimsInv

LEMMA ClaimsRows ==
  ASSUME TypeOK, ClaimsInv,
         \/ \E j \in Jobs :
              (\E t \in Times : CreateJob(j, t)) \/ TimeComes(j) \/ GoStale(j)
  PROVE  ClaimsInv'
<1> USE DEF TypeOK, ClaimsInv, ClaimAlive, Undisturbed
<1>1. ASSUME NEW j \in Jobs, NEW t \in Times, CreateJob(j, t)
      PROVE  ClaimsInv'
  BY <1>1 DEF CreateJob, workerVars, opVars, histVars
<1>2. ASSUME NEW j \in Jobs, TimeComes(j)
      PROVE  ClaimsInv'
  BY <1>2 DEF TimeComes, workerVars, opVars, histVars
<1>3. ASSUME NEW j \in Jobs, GoStale(j)
      PROVE  ClaimsInv'
  BY <1>3 DEF GoStale, Held, workerVars, opVars
<1> QED
  BY <1>1, <1>2, <1>3

LEMMA ClaimsWorkers ==
  ASSUME TypeOK, ClaimsInv, NEW w \in Workers,
         Start(w) \/ Work(w) \/ StatementFails(w) \/ Crash(w) \/ Stop(w)
  PROVE  ClaimsInv'
<1> USE DEF TypeOK, PlacesOK, ClaimsInv, ClaimAlive, Undisturbed
<1>1. CASE Start(w)
  BY <1>1 DEF Start, opVars, histVars
<1>2. CASE Timer(w)
  BY <1>2 DEF Timer, rowVars, opVars, histVars
<1>3. CASE Claim(w)
  <2>1. PICK js \in SUBSET {j \in Jobs : Due(j)} :
          /\ status' = [j \in Jobs |-> IF j \in js THEN "RUNNING" ELSE status[j]]
          /\ stale' = stale \ js
          /\ batch' = [batch EXCEPT ![w] = js]
    BY <1>3 DEF Claim
  <2>2. UNCHANGED <<opVars, histVars>>
    BY <1>3 DEF Claim
  <2>3. \A j \in js : j \in Jobs /\ status[j] # "RUNNING"
    BY DEF Due
  <2> QED
    BY <2>1, <2>2, <2>3 DEF opVars, histVars
<1>4. CASE Call(w)
  BY <1>4 DEF Call, rowVars, opVars
<1>5. CASE Return(w)
  BY <1>5 DEF Return, rowVars, opVars
<1>6. CASE Complete(w)
  BY <1>6 DEF Complete, Write, Finish, rowVars, opVars, histVars
<1>7. CASE Fail(w)
  BY <1>7 DEF Fail, Write, Finish, Abort, rowVars, opVars, histVars
<1>8. CASE StatementFails(w)
  BY <1>8 DEF StatementFails, Abort, rowVars, opVars
<1>9. CASE Crash(w)
  BY <1>9 DEF Crash, rowVars, opVars
<1>10. CASE Stop(w)
  BY <1>10 DEF Stop, rowVars, opVars, histVars
<1> QED
  BY <1>1, <1>2, <1>3, <1>4, <1>5, <1>6, <1>7, <1>8, <1>9, <1>10 DEF Work

LEMMA ClaimsOperators ==
  ASSUME TypeOK, ClaimsInv, NEW o \in Operators,
         (\E j \in Jobs : RunJob(o, j)) \/ WorkByHand(o) \/ FaultByHand(o)
  PROVE  ClaimsInv'
<1> USE SchedulerAssumption DEF TypeOK, PlacesOK, ClaimsInv, ClaimAlive,
        Undisturbed, OpEnd
<1>1. ASSUME NEW j \in Jobs, RunJob(o, j)
      PROVE  ClaimsInv'
  BY <1>1 DEF RunJob, rowVars, workerVars
<1>2. CASE IncrementAttempts(o)
  BY <1>2 DEF IncrementAttempts, workerVars, histVars
<1>3. CASE CallByHand(o)
  BY <1>3 DEF CallByHand, Write, workerVars
<1>4. CASE ReturnByHand(o)
  BY <1>4 DEF ReturnByHand, rowVars, workerVars
<1>5. CASE EndByHand(o)
  <2>1. opJob[o] \in byHand
    BY <1>5 DEF EndByHand
  <2> QED
    BY <1>5, <2>1 DEF EndByHand, Write, workerVars, histVars
<1>6. CASE FaultByHand(o)
  BY <1>6 DEF FaultByHand, rowVars, workerVars
<1> QED
  BY <1>1, <1>2, <1>3, <1>4, <1>5, <1>6 DEF WorkByHand

LEMMA ClaimsNext == TypeOK /\ ClaimsInv /\ [Next]_vars => ClaimsInv'
<1> SUFFICES ASSUME TypeOK, ClaimsInv, [Next]_vars PROVE ClaimsInv'
  OBVIOUS
<1>1. CASE Next
  BY <1>1, ClaimsRows, ClaimsWorkers, ClaimsOperators DEF Next
<1>2. CASE UNCHANGED vars
  BY <1>2 DEF ClaimsInv, ClaimAlive, Undisturbed, vars
<1> QED
  BY <1>1, <1>2

(* A job in the batch of a worker is RUNNING and in no other batch, unless *)
(* somebody ran it by hand or its claim outlived the recovery limit        *)
(* (claimDueOneTimeJobs and recoverStaleRunningJobs), for any number of    *)
(* workers and any crashes.                                                *)
THEOREM SchedulerClaimsExclusive == Spec => []ClaimsExclusive
<1>1. ClaimsInv => ClaimsExclusive
  BY DEF ClaimsInv, ClaimAlive, ClaimsExclusive
<1> QED
  BY <1>1, TypeInit, TypeNext, ClaimsInit, ClaimsNext, PTL DEF Spec

-----------------------------------------------------------------------------
(* CompletedMeansRan is not inductive: who is about to write COMPLETED has *)
(* seen the handler return.                                                *)
RanInv ==
  /\ CompletedMeansRan
  /\ \A w \in Workers : pc[w] = "complete" => job[w] \in succeeded
  /\ \A o \in Operators : opPc[o] = "complete" => opJob[o] \in succeeded

LEMMA RanInit == Init => RanInv
BY DEF Init, RanInv, CompletedMeansRan

LEMMA RanWorkers ==
  ASSUME TypeOK, RanInv, NEW w \in Workers,
         Start(w) \/ Work(w) \/ StatementFails(w) \/ Crash(w) \/ Stop(w)
  PROVE  RanInv'
<1> USE DEF TypeOK, PlacesOK, RanInv, CompletedMeansRan, GoTo
<1>1. CASE Start(w)
  BY <1>1 DEF Start, opVars, histVars
<1>2. CASE Timer(w)
  BY <1>2 DEF Timer, rowVars, opVars, histVars
<1>3. CASE Claim(w)
  BY <1>3 DEF Claim, opVars, histVars
<1>4. CASE Call(w)
  BY <1>4 DEF Call, rowVars, opVars
<1>5. CASE Return(w)
  BY <1>5 DEF Return, rowVars, opVars
<1>6. CASE Complete(w)
  BY <1>6 DEF Complete, Write, Finish, rowVars, opVars, histVars
<1>7. CASE Fail(w)
  BY <1>7 DEF Fail, Write, Finish, Abort, rowVars, opVars, histVars
<1>8. CASE StatementFails(w)
  BY <1>8 DEF StatementFails, Abort, rowVars, opVars
<1>9. CASE Crash(w)
  BY <1>9 DEF Crash, rowVars, opVars
<1>10. CASE Stop(w)
  BY <1>10 DEF Stop, rowVars, opVars, histVars
<1> QED
  BY <1>1, <1>2, <1>3, <1>4, <1>5, <1>6, <1>7, <1>8, <1>9, <1>10 DEF Work

LEMMA RanOperators ==
  ASSUME TypeOK, RanInv, NEW o \in Operators,
         (\E j \in Jobs : RunJob(o, j)) \/ WorkByHand(o) \/ FaultByHand(o)
  PROVE  RanInv'
<1> USE DEF TypeOK, PlacesOK, RanInv, CompletedMeansRan, OpGoTo, OpEnd
<1>1. ASSUME NEW j \in Jobs, RunJob(o, j)
      PROVE  RanInv'
  BY <1>1 DEF RunJob, rowVars, workerVars
<1>2. CASE IncrementAttempts(o)
  BY <1>2 DEF IncrementAttempts, workerVars, histVars
<1>3. CASE CallByHand(o)
  BY <1>3 DEF CallByHand, Write, workerVars
<1>4. CASE ReturnByHand(o)
  BY <1>4 DEF ReturnByHand, rowVars, workerVars
<1>5. CASE EndByHand(o)
  BY <1>5 DEF EndByHand, Write, workerVars, histVars
<1>6. CASE FaultByHand(o)
  BY <1>6 DEF FaultByHand, rowVars, workerVars
<1> QED
  BY <1>1, <1>2, <1>3, <1>4, <1>5, <1>6 DEF WorkByHand

LEMMA RanNext == TypeOK /\ RanInv /\ [Next]_vars => RanInv'
<1> SUFFICES ASSUME TypeOK, RanInv, [Next]_vars PROVE RanInv'
  OBVIOUS
<1> USE DEF TypeOK, RanInv, CompletedMeansRan
<1>1. ASSUME NEW j \in Jobs, NEW t \in Times, CreateJob(j, t)
      PROVE  RanInv'
  BY <1>1 DEF CreateJob, workerVars, opVars, histVars
<1>2. ASSUME NEW j \in Jobs, TimeComes(j) \/ GoStale(j)
      PROVE  RanInv'
  BY <1>2 DEF TimeComes, GoStale, workerVars, opVars, histVars
<1>3. CASE UNCHANGED vars
  BY <1>3 DEF vars
<1> QED
  BY <1>1, <1>2, <1>3, RanWorkers, RanOperators DEF Next

(* A COMPLETED job was executed by a handler that returned, with any       *)
(* overlap of claims, recoveries, crashes and runs by hand                 *)
(* (completeClaimedJob and runJob).                                        *)
THEOREM SchedulerCompletedMeansRan == Spec => []CompletedMeansRan
<1>1. RanInv => CompletedMeansRan
  BY DEF RanInv
<1> QED
  BY <1>1, TypeInit, TypeNext, RanInit, RanNext, PTL DEF Spec

-----------------------------------------------------------------------------
(* A worker changes no COMPLETED job: its statements ask for a job that is *)
(* due, or RUNNING (WHERE ... status = 'RUNNING').                         *)
THEOREM SchedulerWorkersKeepCompleted == Spec => WorkersKeepCompleted
<1>1. ASSUME TypeOK, [Next]_vars, NEW j \in Jobs, status[j] = "COMPLETED",
             status'[j] # "COMPLETED"
      PROVE  \E o \in Operators : opJob[o] = j
  <2> USE <1>1 DEF TypeOK
  <2>1. ASSUME NEW k \in Jobs,
               (\E t \in Times : CreateJob(k, t)) \/ TimeComes(k) \/ GoStale(k)
        PROVE  FALSE
    BY <2>1 DEF CreateJob, TimeComes, GoStale
  <2>2. ASSUME NEW w \in Workers,
               Start(w) \/ Work(w) \/ StatementFails(w) \/ Crash(w) \/ Stop(w)
        PROVE  FALSE
    <3>1. CASE Claim(w)
      BY <3>1 DEF Claim, Due
    <3>2. CASE Start(w)
      BY <3>2 DEF Start
    <3>3. CASE Complete(w) \/ Fail(w)
      BY <3>3 DEF Complete, Fail, Write, rowVars
    <3> QED
      BY <2>2, <3>1, <3>2, <3>3 DEF Work, Timer, Call, Return, StatementFails,
         Crash, Stop, rowVars
  <2>3. ASSUME NEW o \in Operators,
               (\E k \in Jobs : RunJob(o, k)) \/ WorkByHand(o) \/ FaultByHand(o)
        PROVE  opJob[o] = j
    BY <2>3 DEF RunJob, WorkByHand, IncrementAttempts, CallByHand, ReturnByHand,
       EndByHand, FaultByHand, Write, rowVars
  <2> QED
    BY <2>1, <2>2, <2>3 DEF Next, vars
<1>2. TypeOK /\ [Next]_vars => [KeepsCompleted]_vars
  BY <1>1 DEF KeepsCompleted
<1> QED
  BY <1>2, TypeInit, TypeNext, PTL DEF Spec, WorkersKeepCompleted

-----------------------------------------------------------------------------
(* CallsCounted is not inductive: an attempt is counted before the call it *)
(* is counted for.  What is inductive counts the calls that are still to   *)
(* come too: of the workers that have claimed a job and not called its     *)
(* handler yet, and of the requests about to call it.  That these are      *)
(* finitely many needs no assumption, they come one by one.                *)
Owing(j) == {w \in Workers : j \in batch[w] /\ j # job[w]}
OwingByHand(j) == {o \in Operators : opPc[o] = "start" /\ opJob[o] = j}

Counted(j) ==
  /\ IsFiniteSet(Owing(j)) /\ IsFiniteSet(OwingByHand(j))
  /\ called[j] + Cardinality(Owing(j)) + Cardinality(OwingByHand(j))
       <= attempts[j]

Limited(j) == j \notin byHand => attempts[j] <= maxAttempts[j]

CountedInv == \A j \in Jobs : Counted(j) /\ Limited(j)

LEMMA CardinalityOne ==
  ASSUME NEW S, IsFiniteSet(S), NEW x
  PROVE  /\ IsFiniteSet(S \cup {x}) /\ IsFiniteSet(S \ {x})
         /\ Cardinality(S) \in Nat
         /\ Cardinality(S \ {x}) \in Nat
         /\ Cardinality(S \cup {x}) \in Nat
         /\ Cardinality(S \cup {x}) <= Cardinality(S) + 1
         /\ Cardinality(S \ {x}) <= Cardinality(S)
         /\ x \in S => Cardinality(S) = Cardinality(S \ {x}) + 1
<1>1. Cardinality(S) \in Nat
  BY FS_CardinalityType
<1>2. /\ IsFiniteSet(S \cup {x})
      /\ Cardinality(S \cup {x}) = IF x \in S THEN Cardinality(S)
                                             ELSE Cardinality(S) + 1
  BY FS_AddElement
<1>3. /\ IsFiniteSet(S \ {x})
      /\ Cardinality(S \ {x}) = IF x \in S THEN Cardinality(S) - 1
                                          ELSE Cardinality(S)
  BY FS_RemoveElement
<1>4. Cardinality(S \ {x}) \in Nat
  BY <1>3, FS_CardinalityType
<1> QED
  BY <1>1, <1>2, <1>3, <1>4

LEMMA CountedInit == Init => CountedInv
<1> SUFFICES ASSUME Init, NEW j \in Jobs PROVE Counted(j) /\ Limited(j)
  BY DEF CountedInv
<1>1. Owing(j) = {} /\ OwingByHand(j) = {}
  BY DEF Init, Owing, OwingByHand
<1> QED
  BY <1>1, FS_EmptySet, SchedulerAssumption DEF Init, Counted, Limited

(* A step that neither counts an attempt, nor calls, nor leaves anybody    *)
(* with more to call, keeps the count.                                     *)
LEMMA CountedKept ==
  ASSUME TypeOK, CountedInv, NEW j \in Jobs,
         attempts'[j] = attempts[j], called'[j] = called[j],
         byHand \subseteq byHand',
         Owing(j)' \subseteq Owing(j), OwingByHand(j)' \subseteq OwingByHand(j)
  PROVE  Counted(j)' /\ Limited(j)'
<1>1. Counted(j) /\ Limited(j) /\ called[j] \in Nat /\ attempts[j] \in Nat
  BY DEF CountedInv, TypeOK
<1>2. /\ IsFiniteSet(Owing(j)') /\ IsFiniteSet(OwingByHand(j)')
      /\ Cardinality(Owing(j)') <= Cardinality(Owing(j))
      /\ Cardinality(OwingByHand(j)') <= Cardinality(OwingByHand(j))
  BY <1>1, FS_Subset DEF Counted
<1>3. /\ Cardinality(Owing(j)) \in Nat /\ Cardinality(Owing(j)') \in Nat
      /\ Cardinality(OwingByHand(j)) \in Nat /\ Cardinality(OwingByHand(j)') \in Nat
  BY <1>1, <1>2, FS_CardinalityType DEF Counted
<1>4. Limited(j)'
  BY <1>1 DEF Limited
<1>5. Counted(j)'
  BY <1>1, <1>2, <1>3 DEF Counted
<1> QED
  BY <1>4, <1>5

LEMMA CountedClaim ==
  ASSUME TypeOK, CountedInv, NEW w \in Workers, Claim(w)
  PROVE  CountedInv'
<1> SUFFICES ASSUME NEW j \in Jobs PROVE Counted(j)' /\ Limited(j)'
  BY DEF CountedInv
<1> USE DEF TypeOK
<1>1. PICK js \in SUBSET {k \in Jobs : Due(k)} :
        /\ attempts' = [k \in Jobs |->
                          IF k \in js THEN attempts[k] + 1 ELSE attempts[k]]
        /\ batch' = [batch EXCEPT ![w] = js]
  BY DEF Claim
<1>2. UNCHANGED <<job, opPc, opJob, called, byHand>>
  BY DEF Claim, opVars, histVars
<1>3. w \notin Owing(j)
  BY DEF Claim, PlacesOK, Owing
<1>4. OwingByHand(j)' = OwingByHand(j)
  BY <1>2 DEF OwingByHand
<1>5. CASE j \in js
  <2>1. Owing(j)' \subseteq Owing(j) \cup {w}
    BY <1>1, <1>2 DEF Owing
  <2>2. Counted(j) /\ called[j] \in Nat /\ attempts[j] \in Nat
    BY DEF CountedInv
  <2>3. /\ IsFiniteSet(Owing(j)')
        /\ Cardinality(Owing(j)') <= Cardinality(Owing(j) \cup {w})
    BY <2>1, <2>2, CardinalityOne, FS_Subset DEF Counted
  <2>4. /\ Cardinality(Owing(j)') \in Nat /\ Cardinality(Owing(j)) \in Nat
        /\ Cardinality(OwingByHand(j)) \in Nat
        /\ Cardinality(Owing(j) \cup {w}) \in Nat
        /\ Cardinality(Owing(j) \cup {w}) <= Cardinality(Owing(j)) + 1
    BY <2>2, <2>3, CardinalityOne, FS_CardinalityType DEF Counted
  <2>5. attempts'[j] = attempts[j] + 1
    BY <1>1, <1>5
  <2>6. Counted(j)'
    BY <1>2, <1>4, <2>2, <2>3, <2>4, <2>5 DEF Counted
  <2>7. attempts[j] < maxAttempts[j] /\ maxAttempts[j] \in Nat
    BY <1>5, SchedulerAssumption DEF Due
  <2> QED
    BY <2>2, <2>5, <2>6, <2>7 DEF Limited
<1>6. CASE j \notin js
  <2>1. Owing(j)' \subseteq Owing(j)
    BY <1>1, <1>2, <1>6 DEF Owing
  <2>2. attempts'[j] = attempts[j]
    BY <1>1, <1>6
  <2> QED
    BY <1>2, <1>4, <2>1, <2>2, CountedKept
<1> QED
  BY <1>5, <1>6

LEMMA CountedCall ==
  ASSUME TypeOK, CountedInv, NEW w \in Workers, Call(w)
  PROVE  CountedInv'
<1> SUFFICES ASSUME NEW j \in Jobs PROVE Counted(j)' /\ Limited(j)'
  BY DEF CountedInv
<1> USE DEF TypeOK
<1>1. PICK k \in batch[w] :
        /\ job' = [job EXCEPT ![w] = k]
        /\ called' = [called EXCEPT ![k] = @ + 1] \/ UNCHANGED called
  BY DEF Call
<1>2. UNCHANGED <<attempts, batch, opPc, opJob, byHand>>
  BY DEF Call, rowVars, opVars
<1>3. job[w] = NoJob /\ k \in Jobs /\ k # NoJob
  BY <1>1, SchedulerAssumption DEF Call, PlacesOK
<1>4. OwingByHand(j)' = OwingByHand(j)
  BY <1>2 DEF OwingByHand
<1>5. CASE j = k
  <2>1. w \in Owing(j) /\ Owing(j)' = Owing(j) \ {w}
    BY <1>1, <1>2, <1>3, <1>5 DEF Owing
  <2>2. /\ Counted(j) /\ Limited(j) /\ called[j] \in Nat /\ attempts[j] \in Nat
        /\ called'[j] \in Nat /\ called'[j] <= called[j] + 1
    BY <1>1, <1>3 DEF CountedInv
  <2>3. /\ IsFiniteSet(Owing(j)') /\ Cardinality(Owing(j)') \in Nat
        /\ Cardinality(Owing(j)) = Cardinality(Owing(j)') + 1
    BY <2>1, <2>2, CardinalityOne DEF Counted
  <2>4. Cardinality(OwingByHand(j)) \in Nat
    BY <2>2, FS_CardinalityType DEF Counted
  <2>5. Counted(j)'
    BY <1>2, <1>4, <2>2, <2>3, <2>4 DEF Counted
  <2> QED
    BY <1>2, <2>2, <2>5 DEF Limited
<1>6. CASE j # k
  <2>1. called'[j] = called[j]
    BY <1>1, <1>3, <1>6
  <2>2. Owing(j)' \subseteq Owing(j)
    BY <1>1, <1>2, <1>3, <1>6, SchedulerAssumption DEF Owing
  <2> QED
    BY <1>2, <1>4, <2>1, <2>2, CountedKept
<1> QED
  BY <1>5, <1>6

LEMMA CountedWorkers ==
  ASSUME TypeOK, CountedInv, NEW w \in Workers,
         Start(w) \/ Work(w) \/ StatementFails(w) \/ Crash(w) \/ Stop(w)
  PROVE  CountedInv'
<1>1. CASE Claim(w) \/ Call(w)
  BY <1>1, CountedClaim, CountedCall
<1>2. CASE ~(Claim(w) \/ Call(w))
  <2>1. UNCHANGED <<attempts, called, opPc, opJob, byHand>>
    BY <1>2 DEF Work, Start, Timer, Return, Complete, Fail, StatementFails, Crash,
       Stop, rowVars, opVars, histVars
  <2>2. \/ UNCHANGED <<batch, job>>
        \/ Finish(w)
        \/ /\ batch' = [batch EXCEPT ![w] = {}]
           /\ job' = [job EXCEPT ![w] = NoJob]
    BY <1>2 DEF Work, Start, Timer, Return, Complete, Fail, StatementFails, Abort,
       Crash, Stop
  <2> SUFFICES ASSUME NEW j \in Jobs PROVE Counted(j)' /\ Limited(j)'
    BY DEF CountedInv
  <2>3. Owing(j)' \subseteq Owing(j)
    BY <2>2 DEF TypeOK, Owing, Finish
  <2>4. OwingByHand(j)' = OwingByHand(j)
    BY <2>1 DEF OwingByHand
  <2> QED
    BY <2>1, <2>3, <2>4, CountedKept
<1> QED
  BY <1>1, <1>2

LEMMA CountedOperators ==
  ASSUME TypeOK, ClaimsInv, CountedInv, NEW o \in Operators,
         (\E j \in Jobs : RunJob(o, j)) \/ WorkByHand(o) \/ FaultByHand(o)
  PROVE  CountedInv'
<1> SUFFICES ASSUME NEW j \in Jobs PROVE Counted(j)' /\ Limited(j)'
  BY DEF CountedInv
<1> USE DEF TypeOK
<1>1. UNCHANGED <<batch, job>> /\ Owing(j)' = Owing(j)
  BY DEF RunJob, WorkByHand, IncrementAttempts, CallByHand, ReturnByHand, EndByHand,
     FaultByHand, workerVars, Owing
<1>2. /\ Counted(j) /\ Limited(j) /\ called[j] \in Nat /\ attempts[j] \in Nat
      /\ Cardinality(Owing(j)) \in Nat /\ Cardinality(OwingByHand(j)) \in Nat
  BY FS_CardinalityType DEF CountedInv, Counted
<1>3. CASE IncrementAttempts(o) /\ opJob[o] = j
  <2>1. /\ attempts'[j] = attempts[j] + 1
        /\ UNCHANGED <<called, byHand>>
        /\ opPc[o] # "start"
        /\ OwingByHand(j)' = OwingByHand(j) \cup {o}
    BY <1>3 DEF IncrementAttempts, OpGoTo, histVars, OwingByHand
  <2>2. j \in byHand
    BY <1>3, SchedulerAssumption DEF ClaimsInv
  <2>3. /\ IsFiniteSet(OwingByHand(j) \cup {o})
        /\ Cardinality(OwingByHand(j) \cup {o}) \in Nat
        /\ Cardinality(OwingByHand(j) \cup {o}) <= Cardinality(OwingByHand(j)) + 1
    BY <1>2, CardinalityOne DEF Counted
  <2> QED
    BY <1>1, <1>2, <2>1, <2>2, <2>3 DEF Counted, Limited
<1>4. CASE CallByHand(o) /\ opJob[o] = j
  <2>1. /\ called'[j] = called[j] + 1
        /\ UNCHANGED <<attempts, byHand>>
        /\ o \in OwingByHand(j)
        /\ OwingByHand(j)' = OwingByHand(j) \ {o}
    BY <1>4 DEF CallByHand, OpGoTo, OwingByHand
  <2>2. /\ IsFiniteSet(OwingByHand(j)') /\ Cardinality(OwingByHand(j)') \in Nat
        /\ Cardinality(OwingByHand(j)) = Cardinality(OwingByHand(j)') + 1
    BY <1>2, <2>1, CardinalityOne DEF Counted
  <2> QED
    BY <1>1, <1>2, <2>1, <2>2 DEF Counted, Limited
<1>5. CASE /\ ~(IncrementAttempts(o) /\ opJob[o] = j)
           /\ ~(CallByHand(o) /\ opJob[o] = j)
  <2>1. /\ attempts'[j] = attempts[j] /\ called'[j] = called[j]
        /\ byHand \subseteq byHand'
    BY <1>5 DEF PlacesOK, RunJob, WorkByHand, IncrementAttempts, CallByHand,
       ReturnByHand, EndByHand, FaultByHand, rowVars, histVars
  <2>2. OwingByHand(j)' \subseteq OwingByHand(j)
    BY <1>5 DEF RunJob, WorkByHand, IncrementAttempts, CallByHand, ReturnByHand,
       EndByHand, FaultByHand, OpGoTo, OpEnd, OwingByHand
  <2> QED
    BY <1>1, <2>1, <2>2, CountedKept
<1> QED
  BY <1>3, <1>4, <1>5

LEMMA CountedNext == TypeOK /\ ClaimsInv /\ CountedInv /\ [Next]_vars => CountedInv'
<1> SUFFICES ASSUME TypeOK, ClaimsInv, CountedInv, [Next]_vars PROVE CountedInv'
  OBVIOUS
<1>1. ASSUME \/ \E k \in Jobs :
                  (\E t \in Times : CreateJob(k, t)) \/ TimeComes(k) \/ GoStale(k)
             \/ UNCHANGED vars
      PROVE  CountedInv'
  <2>1. UNCHANGED <<attempts, batch, job, opPc, opJob, called, byHand>>
    BY <1>1 DEF CreateJob, TimeComes, GoStale, workerVars, opVars, histVars, vars
  <2> QED
    BY <2>1 DEF CountedInv, Counted, Limited, Owing, OwingByHand
<1> QED
  BY <1>1, CountedWorkers, CountedOperators DEF Next

(* The handler of a job is called at most once for each attempt that was   *)
(* counted, and workers count no more than max_attempts                    *)
(* (claimDueOneTimeJobs, incrementAttempts), for any number of workers,    *)
(* crashes, recoveries and runs by hand.                                   *)
THEOREM SchedulerCallsCounted == Spec => []CallsCounted
<1>1. TypeOK /\ CountedInv => CallsCounted
  <2> SUFFICES ASSUME TypeOK, CountedInv, NEW j \in Jobs
               PROVE  /\ called[j] <= attempts[j]
                      /\ j \notin byHand => attempts[j] <= maxAttempts[j]
    BY DEF CallsCounted
  <2>1. Counted(j) /\ Limited(j) /\ called[j] \in Nat /\ attempts[j] \in Nat
    BY DEF CountedInv, TypeOK
  <2>2. Cardinality(Owing(j)) \in Nat /\ Cardinality(OwingByHand(j)) \in Nat
    BY <2>1, FS_CardinalityType DEF Counted
  <2> QED
    BY <2>1, <2>2 DEF Counted, Limited
<1> QED
  BY <1>1, TypeInit, TypeNext, ClaimsInit, ClaimsNext, CountedInit, CountedNext, PTL
  DEF Spec

-----------------------------------------------------------------------------
(* StrandedByFault needs ClaimsInv: a tick that finds its job no longer    *)
(* RUNNING ends and strands the rest of its batch, and only ClaimsInv says *)
(* that this does not happen to an undisturbed claim.                      *)
Untouched == faults = 0 /\ byHand = {} /\ outlived = {}

ClaimedInv ==
  Untouched =>
    \A j \in Jobs : status[j] = "RUNNING" => \E w \in Workers : j \in batch[w]

LEMMA ClaimedInit == Init => ClaimedInv
BY DEF Init, ClaimedInv

LEMMA UntouchedBefore == TypeOK /\ [Next]_vars /\ Untouched' => Untouched
<1> SUFFICES ASSUME TypeOK, [Next]_vars, Untouched' PROVE Untouched
  OBVIOUS
<1>1. faults' = faults \/ faults' = faults + 1
  BY DEF Next, CreateJob, TimeComes, GoStale, Start, Work, Timer, Claim, Call, Return,
     Complete, Fail, StatementFails, Crash, Stop, Fault, RunJob, WorkByHand,
     IncrementAttempts, CallByHand, ReturnByHand, EndByHand, FaultByHand, histVars,
     vars
<1>2. byHand \subseteq byHand'
  BY DEF Next, CreateJob, TimeComes, GoStale, Start, Work, Timer, Claim, Call, Return,
     Complete, Fail, StatementFails, Crash, Stop, RunJob, WorkByHand,
     IncrementAttempts, CallByHand, ReturnByHand, EndByHand, FaultByHand, histVars,
     vars
<1>3. outlived \subseteq outlived'
  BY DEF Next, CreateJob, TimeComes, GoStale, Start, Work, Timer, Claim, Call, Return,
     Complete, Fail, StatementFails, Crash, Stop, RunJob, WorkByHand,
     IncrementAttempts, CallByHand, ReturnByHand, EndByHand, FaultByHand, histVars,
     vars
<1> QED
  BY <1>1, <1>2, <1>3 DEF TypeOK, Untouched

LEMMA ClaimedWorkers ==
  ASSUME TypeOK, ClaimsInv, ClaimedInv, Untouched, Untouched', NEW w \in Workers,
         Start(w) \/ Work(w) \/ StatementFails(w) \/ Crash(w) \/ Stop(w)
  PROVE  ClaimedInv'
<1> SUFFICES ASSUME NEW j \in Jobs, status'[j] = "RUNNING"
             PROVE  \E v \in Workers : j \in batch'[v]
  BY DEF ClaimedInv
<1> USE DEF TypeOK
<1>1. status[j] = "RUNNING" => \E v \in Workers : j \in batch[v]
  BY DEF ClaimedInv
<1>2. \A k \in batch[w] : status[k] = "RUNNING"
  BY DEF ClaimsInv, ClaimAlive, Undisturbed, Untouched
<1>3. faults' = faults
  BY DEF Untouched
<1>4. CASE Start(w)
  BY <1>1, <1>4 DEF Start
<1>5. CASE Claim(w)
  <2>1. PICK js \in SUBSET {k \in Jobs : Due(k)} :
          /\ status' = [k \in Jobs |-> IF k \in js THEN "RUNNING" ELSE status[k]]
          /\ batch' = [batch EXCEPT ![w] = js]
    BY <1>5 DEF Claim
  <2>2. batch[w] = {}
    BY <1>5 DEF Claim, PlacesOK
  <2> QED
    BY <1>1, <2>1, <2>2
<1>6. CASE Timer(w) \/ Call(w) \/ Return(w) \/ Stop(w)
  BY <1>1, <1>6 DEF Timer, Call, Return, Stop, rowVars
<1>7. CASE Complete(w) \/ Fail(w)
  <2>1. job[w] \in batch[w] /\ status[job[w]] = "RUNNING"
    BY <1>2, <1>7 DEF Complete, Fail, PlacesOK
  <2>2. \/ Finish(w) /\ \E s \in {"COMPLETED", "FAILED"} :
                           status' = [status EXCEPT ![job[w]] = s]
        \/ UNCHANGED <<status, batch>>
    BY <1>7, <2>1 DEF Complete, Fail, Write, rowVars
  <2>3. j # job[w] \/ UNCHANGED <<status, batch>>
    BY <2>2
  <2> QED
    BY <1>1, <2>2, <2>3 DEF Finish
<1>8. ~StatementFails(w) /\ ~Crash(w)
  BY <1>3 DEF StatementFails, Crash, Fault
<1> QED
  BY <1>4, <1>5, <1>6, <1>7, <1>8 DEF Work

LEMMA ClaimedNext ==
  TypeOK /\ ClaimsInv /\ ClaimedInv /\ [Next]_vars => ClaimedInv'
<1> SUFFICES ASSUME TypeOK, ClaimsInv, ClaimedInv, [Next]_vars, Untouched'
             PROVE  ClaimedInv'
  BY DEF ClaimedInv
<1>1. Untouched
  BY UntouchedBefore
<1>2. ASSUME NEW k \in Jobs,
             (\E t \in Times : CreateJob(k, t)) \/ TimeComes(k) \/ GoStale(k)
      PROVE  ClaimedInv'
  BY <1>1, <1>2 DEF ClaimedInv, TypeOK, CreateJob, TimeComes, GoStale, workerVars
<1>3. ASSUME NEW o \in Operators,
             (\E k \in Jobs : RunJob(o, k)) \/ WorkByHand(o) \/ FaultByHand(o)
      PROVE  FALSE
  <2>1. opPc[o] = "idle"
    BY <1>1 DEF Untouched, ClaimsInv, TypeOK, PlacesOK
  <2> QED
    BY <1>3, <2>1 DEF RunJob, WorkByHand, IncrementAttempts, CallByHand, ReturnByHand,
       EndByHand, FaultByHand, Untouched
<1>4. CASE UNCHANGED vars
  BY <1>1, <1>4 DEF ClaimedInv, vars
<1> QED
  BY <1>1, <1>2, <1>3, <1>4, ClaimedWorkers DEF Next

(* Without a fault, a claim that outlived the recovery limit and a job run *)
(* by hand, no job is left RUNNING with nobody at it                       *)
(* (scheduler-worker.service.ts, tick, which works through its batch), for *)
(* any number of workers.                                                  *)
THEOREM SchedulerStrandedByFault == Spec => []StrandedByFault
<1>1. ClaimedInv => StrandedByFault
  BY DEF ClaimedInv, Untouched, StrandedByFault, Stranded, Held
<1> QED
  BY <1>1, TypeInit, TypeNext, ClaimsInit, ClaimsNext, ClaimedInit, ClaimedNext, PTL
  DEF Spec
=============================================================================
