# PropertyOS core: specifications, model checking and proofs

This directory holds TLA+ specifications of the parts of PropertyOS whose
correctness depends on the order in which things happen: the inventory stock
ledger, the documents that post to it (reservations, transfers, issues and
returns, counts and adjustments, goods receipts of procurement), the job
scheduler, and the booking of amenities with its workflow and end job. Every
definition is translated from the code under `src/backend/src`; `PROJECT.json`
gives the lines of each one.

## 1. The system

PropertyOS is a NestJS backend (`src/backend/src`) on PostgreSQL, with a Next.js
frontend, plugins and release tooling. A request runs a service method of one
component; the service reads and writes rows through a repository, each
statement by default in a transaction of its own (`pool.query`), and reports
what it did through the event bus and the audit log. There is no locking in the
services: what keeps two requests apart is PostgreSQL (row locks, unique
indexes, CHECK constraints, advisory locks) where a repository asks for it.

| Component | State it keeps | Operations | How it interacts |
|---|---|---|---|
| Stock ledger (`core/inventory`) | `inventory_stock_balances`, `inventory_batch_balances`, `inventory_stock_ledger` | `postMovement`, `withTransaction` | called by every stock document and by procurement |
| Stock reservations | `inventory_stock_reservations` | create, release, fulfill, expire, expire-due | posts RESERVATION, RESERVATION_RELEASE and ISSUE movements, then writes its row |
| Material issues and returns | `inventory_material_issues`, `inventory_material_returns` and their lines | create, post, cancel | post inside one transaction with the ledger; a return is limited by its issue |
| Stock transfers | `inventory_stock_transfers` and their lines | create, dispatch, receive, cancel | post TRANSFER_OUT and TRANSFER_IN line by line, each in a transaction of its own |
| Adjustments, cycle counts | their documents and lines | create, start, record, complete, post, cancel | post line by line, outside a transaction |
| Item catalogue | items, units, stores, bins, batches | create, update, activate | decides how a movement is booked (`isBatchTracked`) |
| Scheduler (`core/scheduler`) | `scheduler_jobs` | create, claim, complete, fail, recover, run by hand | a worker process polls; handlers are registered by components |
| Event bus (`core/eventbus`) | handlers and dead letters in memory, events and dead letters in the database | publish, deliver, retry, clear | called by nearly every service |
| Workflow engine (`core/workflow`) | instances and their history | start, transition | called by reservations, helpdesk, maintenance, and by requests of its own (`POST workflows/instances`, `.../transitions`) |
| Amenity reservations (`core/reservation`) | reservations, resource blocks | create, block, approve, check in, complete, cancel, no-show | moves its workflow instance, creates the job that ends it and handles it, event bus |
| Procurement (`core/procurement`) | requests, quotations, orders, goods receipts, invoice matches | document lifecycle, posting into inventory | posts RECEIPT movements |
| Plugin installer (`core/plugin`) | installation attempts, trust and publication records | coordinate an installation, roll back | session advisory lock |
| Rent (`core/rent`) | rent ledgers, payments | post payment | event bus |
| AI (`core/ai`) | conversations, tool runs | provider failover, tool loop | external services |
| Others | see `PROJECT.json` | | |

The behaviours that are hard:

- **Concurrency.** Several backend processes and many requests share the rows. A
  service typically reads a row, checks its status, and later writes it back
  unconditionally by id, so whatever another request wrote in between is lost.
- **Partial failure.** Reservations, transfers, adjustments and cycle counts post
  a movement in one transaction and write their own row in another one.
- **Retries.** Movements carry an idempotency key built from the document and
  the target quantity, so that a repeated request is answered by the first
  entry.
- **Timeouts and restarts.** The scheduler claims jobs, may die while it runs
  them, and recovers stale claims only when a worker starts.

What makes each part correct:

- *Ledger*: never more reserved than on hand; every entry starts where the entry
  before it ended; a key is posted once; batches add up to the aggregate.
- *Reservations*: the stock held by a reservation is what it still has to
  deliver, and the stock issued is what it says it fulfilled.
- *Transfers*: what a line says it dispatched or received did leave or arrive;
  no more arrives than has left, and RECEIVED means that everything arrived.
- *Issues and returns*: a document that is not POSTED has moved no stock and one
  that is POSTED has moved all of it; no more is returned than was issued.
- *Counts and adjustments*: a count leaves in the balance what was found on the
  shelf; an adjustment is booked as it was written, all of it, once.
- *Goods receipts*: what the order says it received is what its posted receipts
  list, and what they accepted is in the ledger, once.
- *Amenity reservations*: no time is promised twice; the workflow instance is in
  the state of the reservation; a reservation that is over is ended, and its end
  job neither run too often nor run again.
- *Scheduler*: a job is run by one worker at a time, no more often than its
  attempts allow, and is not forgotten.

## 2. Plan

Modules, in the order in which they are written, the most important behaviour
first. "Done" is what this directory holds now.

| Module | Models | Built on | State |
|---|---|---|---|
| `StockMovement` | a movement, its checks and its arithmetic | | done |
| `LedgerTables` | the tables of the ledger and what must be true of them | `StockMovement` | done |
| `StockLedger` | what the ledger promises: a posting is one step (abstract) | `LedgerTables` | done |
| `StockLedgerTx` | the SQL transactions of a posting; implements `StockLedger` | `LedgerTables`, `StockLedger` | done |
| `StockReservation` | reservations: read, post, save | the promise of `StockLedger`, on one balance row | done |
| `AtomicDocuments` | what issues and returns promise: posting a document is one step (abstract) | | done |
| `MaterialDocuments` | issues and returns: one transaction over documents and ledger; implements `AtomicDocuments` | `AtomicDocuments`, the locks of `StockLedgerTx` | done |
| `Scheduler` | jobs, workers, running a job by hand | | done |
| `StockTransfer` | create, dispatch, receive, cancel: line by line, keys per line and target | the promise of `StockLedger`, on the stock of the source | done |
| `StockCount` | adjustments and cycle counts: a system quantity read when the count is created, a difference posted later | the promise of `StockLedger`, on the balance rows of a store | done |
| `GoodsReceipt` | a purchase order, its receipts, and what they book | the promise of `StockLedger` (keys) | done |
| `ResourceBooking` | reservations and blocks of a resource, their workflow instances and end jobs, the worker and the requests that run them | the statements `Scheduler` has, for jobs of one kind and one worker | done |
| `BatchAllocation` | the order in which batches are used (FEFO/FIFO), as a recursive function against "earliest first, nothing skipped" | | later |
| `AverageCost` | weighted average cost and its rounding | | later |
| `EventBus` | publish, handler failure, retry, dead letters | | later |
| `PluginInstall`, `RentPayment`, AI failover | as in the table above | | later |

Abstract specifications: `StockLedger`, which `StockLedgerTx` implements and the
other documents rely on, and `AtomicDocuments` ("all lines of a document or none,
once, and within its issue"), which `MaterialDocuments` implements. `StockTransfer`
would not implement the like of the second, as its findings below say.

Every invariant and action property of the runs is proved, and so are both
implementations. What is left of the plan is in the table: modules that do not
exist yet.

## 3. Modules and code

**`StockMovement`** has no state. `ValidMovement` is `validateMovementInput`,
`TouchedRows` the aggregate balance row and, when the movement names a batch, the
batch balance row; `Allowed` and `After` are the refusals and the sums of
`postMovementWithClient`; `PostedKeys` the look-up of an idempotency key. One
unit of quantity is 0.000001 of the code: quantities are numeric(18,6) and a
movement only adds.

**`LedgerTables`**: `stock` is both balance tables, `ledger` the ledger table in
insertion order; the two modules of the ledger share them, and the four
properties that speak of them only.

**`StockLedger`**: `tracked` are the items with `isBatchTracked`. `Post` is a
posting that is booked; a refused or replayed one changes nothing. `UpdateItem`
is the edit of the flag in the item catalogue, which no check ties to stock.

**`StockLedgerTx`**: `stock`, `exists`, `ledger` are the committed tables, `pc`,
`mv`, `rows`, `made`, `read` the transaction of each request. One action per
statement: `LockKey` (advisory lock of the key), `FindKey`, `CheckItem`,
`SelectRow` and `InsertRow` (lock or create a balance row, first the aggregate,
then the batch), `Write`, `Commit`; `Crash` is a rollback. Two requests that
insert the same balance row: the second one waits and then fails, because
PostgreSQL has aborted its transaction when the `catch` of
`lockOrCreateBalance` reads the row again.

**`StockReservation`**: `row` is the reservation table; `onHand` and `reserved`
are the balance row all reservations compete for; `keys`, `issued`, `freed` are
the ledger, counted by reservation; `call` is what each request carries between
its read, `Post` and `Save`; `sweep` the list `expireDueReservations` works off.
An operation is the action that reads and decides (`Create`, `Fulfill`,
`Release`, `Expire`, `SweepNext`), then `Post`, then `Save`, because the code
posts in one transaction and writes the row in another. `disturbed` records the
reservations two operations were in at once, or one of which stopped between its
movement and its row.

**`AtomicDocuments`**: `status`, `lines`, `issueOf` are issues and returns; `stock`,
`received`, `ledger` what is committed. `Post` is a posting as if it were one
step: a DRAFT whose issue covers what it brings back and whose rows hold what it
takes becomes POSTED, and all of its lines are booked; `Withdraw` is a
cancellation, and `Creating` and `Bring` a new document and a receipt.

**`MaterialDocuments`** keeps the same tables; `pc`, `doc`, `todo`, `read` are the
transaction of each request. `CreateIssue` and `CreateReturn` insert a
DRAFT with its lines. Posting is `BeginPost`, `LockDoc`, for a return
that names an issue `LockReturnsOfIssue` (advisory lock) and `LockIssue`, then
`PostLine` for each line and `Commit`. `Blockers` says who waits for whom;
`AbortDeadlock` is PostgreSQL's deadlock detector. Cancelling is `BeginCancel`
(a read without a lock) and `Cancel` (an UPDATE by id).

**`StockTransfer`**: `status` and `line` are one transfer and its lines;
`available` is the stock not reserved of each source balance row, which
`OtherMovement` also changes; `keys` and `posted` are the ledger, counted by line
and direction; `pc`, `op`, `todo`, `seen`, `at`, `next` what a request carries.
A request is `Begin` (the transfer is read and its status checked), `ReadLines`,
for each line `RefuseLine`, `SkipLine` or `PostLine` and `SaveLine`, then `Refresh`
(the lines are read again, the next status is chosen) and `WriteStatus`.
`BeginCancel` reads the status and leads to the same `WriteStatus`. `Crash` may
come between any two of them. The loop takes the lines of a request in the
order in which the caller names them; the model, in any order. `disturbed`
only records whether two requests ever overlapped, or one stopped between a
movement and its line.

**`StockCount`**: `onHand`, `reserved` are the balance rows of one store,
`shelf` what really lies there, which a count finds; `keys` and `posted` the
ledger, by document and line; `status`, `lines`, `system`, `counted`, `delta` the
rows of both kinds of document; `call` what a request carries. `BeginCount` reads
the balances of its scope (and that no other count of the store is open) and
`InsertCount` writes the DRAFT; `BeginRecord` and `SaveLine` are
`recordCounts`; `BeginStart`, `BeginComplete`, `BeginCancel` decide on a status
that `WriteStatus` writes by id; `BeginPost`, then `PostLine` for each line in an
order of its own choosing, then `WriteStatus` are both postings.
`CreateAdjustment` inserts an adjustment. `OtherMovement` is every other
document: nothing looks at `freezeStock`. `moved` and `disturbed` record whether
a balance was moved between snapshot and posting, and whether two requests were
in one count.

**`GoodsReceipt`**: `order` and `received` are the purchase order and the
received quantities of its items, `receipt` the receipts with their lines,
`booked` their RECEIPT movements by idempotency key. An operation is the action
that reads the receipt (`BeginEdit`, `BeginPost`, `BeginReverse`; `BeginCreate`
reads the order only), the one that reads the order and computes
(`ReadOrderForEdit`, `CountEdit`, `ReadOrderForPost`, `CountPost`,
`ReadOrderForReverse`), for a posting `Book` once for each stocked line, and the
transaction that writes (`SaveCreate`, `SaveEdit`, `SavePost`, `SaveReverse`).
`BeginChange` and `SaveChange` are every transition of the order and the update
of a draft: the whole row, as it was read. Lines that are replaced get new UUIDs
(`edition`), and so new keys. `stale` holds the requests that have read what
somebody else has written since, `disturbed` whether one of them has written all
the same, `cutOff` the receipts of which a posting ended after it had booked.

**`ResourceBooking`**: `status` and `window` are the reservations of one
resource, `blocks` its blocks, `workflow` the instance of each reservation,
`approval` whether the resource needs one. `BeginCreate`, `Insert`,
`StartWorkflow`, `AutoApprove`, `ScheduleJobs` are `createReservation`;
`BeginUpdate` and `Move` `updateReservation`; `BeginBlock` and `InsertBlock`
`createResourceBlock`; `BeginChange`, `WriteStatus`, `Find`, `MoveWorkflow` (or
`Refused`) each of the six changes of status, which the table `Change` tells
apart. `StartDirect`, `BeginDirect` and `MoveDirect` are the workflow's own
requests, which start or move an instance and leave the reservation alone.

`endJob`, `runAt`, `dueAt`, `attempts` are the row of a reservation's end job in
`scheduler_jobs` (`dueAt` is the `COALESCE` of `next_run_at` and `run_at`), `aged`
the jobs nobody has written for `SCHEDULER_STALE_AFTER_MS`; `worker` and `claimed`
the worker process and what is left of its batch. `StartWorker` recovers aged
RUNNING jobs, and nothing else does; `Claim` is a tick, `Execute` calls the
handler, which is `Handle` (the reservation is read) and `EndAgain` (`markNoShow`
or `complete` reads it again) and then a change of status like any other;
`Complete` and `Fail` write the result of a RUNNING job only. `RunByHand`,
`CountByHand`, `CallByHand`, the same handler and `EndByHand` are
`POST scheduler/jobs/:id/run`, which looks at no status.

A failed statement and a crash are two things. `StatementFails` and `Refused` throw
(`Throw`): who runs a job catches what its handler throws and marks the job
FAILED (`Caught`), a request ends. `Crash` leaves everything as it is (`Leave`):
the job of a worker that crashes stays RUNNING, with the rest of its batch, until
a worker starts when it has aged. A failing `failClaimedJob` does the same to the
batch, also when it is another job's (`OtherJobAborts`). `stale`, `disturbed` are
as in `GoodsReceipt`; `cutOff` are the reservations a request stopped at half way,
`extended` those that got a later end, `moved` those whose instance was started
or moved directly, `byHand` those whose job was run by hand; `stops` counts
failures and crashes.

**`Scheduler`**: `status`, `attempts`, `runAt`, `nextRunAt`, `stale` are the
columns of `scheduler_jobs`, times being none, future or past; `pc`, `batch`,
`job` a worker process; `opPc`, `opJob` a request `POST .../run`. `Start`,
`Timer`, `Claim`, `Call`, `Return`, `Complete`, `Fail` are the worker's loop with
its two ways to end a tick (`Finish`, `Abort`), `StatementFails`, `Crash` and
`Stop` its interruptions. `called`, `succeeded`, `byHand`, `outlived`, `faults`
only record what happened, for the properties and the bounds.

## 4. What the runs check

| Run | Specification and bounds | Question |
|---|---|---|
| `ledger` | `StockLedger!Spec`; 2 items (one batch-tracked), 2 batches, 1 place, 1 key, deltas -1..1, 3 entries | do the refusals keep every balance covered, is a key posted once, is the trail of a balance unbroken, do batches add up to the aggregate, also when an item's batch tracking is switched? |
| `ledger_tx` | `StockLedgerTx!FairSpec`; 2 requests, 1 item, 1 batch, 1 key, 3 entries, crashes | are concurrent transactions serializable, is what they read still true when they write, do they end? |
| `reservation` | `Spec`; 2 reservations, 2 callers, quantities 1..2, stock up to 3, any overlap and crashes | does no row claim more than was issued, do retries issue once; and where operations did not overlap, do row, ledger and balance agree and does a closed reservation stay closed? |
| `documents` | `FairSpec`; 1 issue, 2 returns, 2 balance rows, documents of one and two lines, 2 requests | is a posting all or nothing, do balances add up, are returns within their issue, do deadlocks end; is what is committed what one posting after another would have made (`PostsAtOnce`)? |
| `transfer` | `Spec`; 2 requests, 2 lines (of 1 and of 2 units) from one balance row with stock up to 2, crashes | does a line never claim more than the ledger moved, is its status earned, do retries post once; and without overlap, does no more arrive than left and do lines and ledger agree? |
| `count` | `StockCount!Spec`; 1 count of one or two balance rows, or 2 adjustments of one and two lines; 2 requests, stock up to 1, other movements, crashes | is a COMPLETED count counted; does a POSTED one leave the balance at what is on the shelf; is a line of an adjustment booked as written, and a POSTED adjustment booked in full? |
| `procurement` | `GoodsReceipt!Spec`; an order of two items (1 and 2 units), 2 receipts of both items or of one rejected one, 2 stores, 2 requests, 1 edit, crashes | do received quantities, status of the order, receipts and stock agree while nobody writes over what he has not read? |
| `procurement_reversal` | 1 receipt, 1 request | expected violation, see section 7 |
| `booking` | `ResourceBooking!Spec`; 2 reservations, 2 adjacent times, 2 requests and the worker, 1 block, clock 0..1 | is time promised once while nobody writes on an outdated read? |
| `booking_workflow` | `ResourceBooking!Spec`; 1 reservation, 2 requests, the worker, 1 run by hand, a job of 2 attempts, 1 direct move, 1 failure or crash, clock 0..1 | does the workflow follow the status, and refuse nothing the reservation allows, while nobody writes on an outdated read, stops half way or moves the instance itself? |
| `booking_end` | `ResourceBooking!FairSpec`; 1 reservation, 2 adjacent times, 1 request, the worker, 1 run by hand, 1 direct move, a job of 4 attempts, 2 failures or crashes, clock 0..2 | is a reservation whose end job waits ended, whatever fails? |
| `scheduler` | `FairSpec`; 2 workers, 1 request, a job with a handler and two attempts, one without a handler, batches of 2, 1 fault, 1 run by hand | is a job in one batch, are calls counted, is COMPLETED earned and kept, does a due job settle? |

**Why the bounds are enough.** The hazards are between *two* actors at *one* row
or document: two requests, workers or callers are the least that shows them, and a
third one could only repeat the role of one of the two. Two batches or items let
one be treated differently from the other; with two lines two documents can lock
in opposite orders. Three ledger entries are enough for "the entry before", "the
entry after" and a replay in between. Quantities 1 and 2 distinguish a part from
the whole and an increment from a target. One fault with one run by hand reaches
every state in which the scheduler's rows and its workers disagree; more faults
add only repetitions, which the theorems cover for any number. The `ledger` and
`reservation` runs use symmetry of batches, reservations and callers, the
`transfer` run of callers, the `count`, `procurement`, `booking` and
`booking_workflow` runs of their documents and callers; the runs with liveness
use none. Two adjacent times and a clock that passes the end of the first are what a move to a later time
and an end job that comes too early need. An edit between two attempts at a
posting is one edit, and two stores tell a movement to the old store from one to
the new.

**State constraints.** `procurement` and `booking` stop exploring at a state with
`disturbed` (`MCUndisturbed`). `disturbed` is never reset, and the invariants of
these runs say nothing about a disturbed state; so nothing is lost. The step into
the disturbed state itself is taken. In the same way `booking_workflow` stops where
nobody is promised anything more, since the history is disturbed or the one
reservation is in `cutOff` or `moved` (`MCFollowing`), and `booking_end` where the
reservation is in `extended` or `byHand`, which `EveryStayEnds` counts as an end
for good (`MCToEnd`). In `booking` nothing fails, so that no job is left to
recover and a worker that is down is one that does nothing; it starts first
(`MCWorkerFirst`). Its `VIEW` leaves out `extended`, which no guard reads and its
invariant does not mention. `count` looks at documents of one kind at a time
(`MCOneKind`): a count and an adjustment meet in the balances only, where each is a
movement by others to the other, and such movements are in the run. Two more constraints are bounds: `reservation`
goes on only until both reservations are disturbed (`MCOneDisturbed`), and
`procurement` until the postings of both receipts were cut off (`MCOneCutOff`);
what follows then concerns one reservation or receipt at a time, as before.

**Restrictions that are part of a question.** Every service but the ledger and the
issues and returns writes rows by id from an earlier read, so some of what one
expects holds only of histories in which requests did not overtake each other. The
modules do not restrict what happens; they record it, and the properties ask. With
`disturbed` dropped from `StockReservation`, TLC finds `LedgerMatchesRow` and
`ClosedStaysClosed` violated: a release that read an ACTIVE row writes it back
after another request had fulfilled and closed it. `NothingFromNothing` and
`LinesMatchLedger` of `StockTransfer` are about undisturbed histories for the same
reason: of two dispatches that read the same line, each to a target of its own,
both post their difference to what they read, and the two movements have different
keys. `CountCorrectsStock` excepts counts two requests were in and balances moved
between snapshot and posting, for nothing freezes them. In `GoodsReceipt` and
`ResourceBooking` the condition is sharper: two requests may overlap as they like,
and only a write on a read that somebody else has outdated disturbs. That is what
a check at the time of the write, under a lock, would refuse. The invariants
without such a condition (`FulfilledWasIssued`, `RetriesIssueOnce`,
`LinesWerePosted`, `RetriesPostOnce`, `StatusWasEarned`,
`AdjustmentPostsAsWritten`, `PostedMeansBooked`, `CompleteMeansCounted`) hold in
every history. In `Scheduler`, `ClaimsExclusive` excepts jobs in `byHand` and
`outlived`: `runJob` looks at no status, and a claim whose batch takes longer than
`SCHEDULER_STALE_AFTER_MS` is recovered by the next worker that starts although
its worker is alive.

## 5. Fairness and liveness

*Database requests* (`StockLedgerTx`, `MaterialDocuments`): strong fairness of
each request's next statement. PostgreSQL queues lock waiters and grants a lock
in turn, so a statement that can run again and again does run. Weak fairness of
`AbortDeadlock`, in `MaterialDocuments` only, is the deadlock detector
(`deadlock_timeout`). No fairness of `Begin`, `BeginPost`, `Create` or `Crash`:
nobody must post or die.

*Scheduler*: weak fairness of time (`TimeComes`), of a worker process
(`Start \/ Work`: compose restarts a worker that ended, `restart:
unless-stopped`; the interval timer fires; statements are executed; handlers
return or throw) and of a request that has begun. A handler that never returns
blocks its worker in the code as well. Nothing is assumed about `GoStale` and
`Start` together: a worker that is restarted before the abandoned job is five
minutes old does not recover it, and no later tick does. That is why `Settles`
says *settled or stranded*, and `StrandedByFault` says when a job can be
stranded.

*Amenity reservations* (`ResourceBooking`): weak fairness of each request that has
begun (its statements wait for nobody), of a request that runs a job by hand, of
the clock up to its bound, of `StartWorker` (compose restarts a worker that
ended), and of the worker's statements. Strong fairness that a job is claimed:
`claimDueOneTimeJobs` takes the due jobs in the order of their time, so that each
gets its turn, although a crash takes the worker away in between. No fairness of
`Age`, `BeginRequest`, `RunByHand`, `Shutdown`, `StatementFails` or `Crash`.
Nothing is assumed of `Age` and `StartWorker` together, as in `Scheduler`: the
worker that is restarted at once finds the job RUNNING but not old enough, and no
tick recovers it. So `EveryStayEnds` says *ended or stranded* (`Stranded`: RUNNING,
and the worker is not at it). It excepts three more cases, because the code does
not end these stays: the reservation was extended (the end job keeps its old time,
finds the reservation not over and is completed); its job was run by hand (before
the end it is completed with nothing done, and a result by hand overwrites any
other); and its attempts are used up, which takes at least `MaxAttempts - 1`
failures or crashes (the first attempt after a change that was cut off is
refused, without a failure of its own). What it does not except are disturbed
histories, changes that were cut off half way, an instance moved directly, and a
crash after which a later start recovers the job. The run has one worker; what two
do to one job is in `Scheduler`. The delay before a retry (seconds to minutes) is
less than one unit of the clock.

Liveness is checked by TLC only: the proof system cannot reason about
`ENABLED`.

## 6. What is proved

All theorems hold for every value of the constants that satisfies the
assumptions named in the modules (`MovementAssumption`, `LedgerAssumption`,
`TxAssumption`, `ReservationAssumption`, `TransferAssumption`,
`CountAssumption`, `BookingAssumption`, `GoodsReceiptAssumption`,
`SchedulerAssumption`, `DocumentAssumption`). These say what ranges the
constants have, and three things the sums need: there are finitely many batches,
a document has finitely many lines (both are rows of a table), and `NoIssue`,
the issue of a return that names none, is no document.

*Sums.* Several invariants add up a field over a set of rows (`MapThenSumSet`,
`SumFunctionOnSet` of the community modules). The lemmas say that such a sum does
not depend on the order (`Sums` describes the recursive function that
`MapThenFoldSet` computes), what adding one element or changing one value does to
it, and that it is 0 over the empty set. Where an induction over finite sets is
needed they argue by a least counterexample, for a nonempty set of naturals has a
least element: the library's induction theorems take an operator and cannot be
instantiated. The lemmas stand in four proof modules, each for the sum its model
writes.

*`StockLedgerTx_proofs`* holds the theorems of both ledgers. The atomic one
(`Ledger`, with the item catalogue a variable of its own):
`LedgerTypeCorrect`, `LedgerReservedCovered`, `LedgerKeyPostedOnce`,
`LedgerTrailUnbroken`, `LedgerBatchesAddUp`. A row that is touched meets the
refusals (`Allowed`), so `After` is again covered; the key of a new entry is not
among the posted ones; for the trail, the entry appended to a row starts from the
amount that the last entry of that row ended at, and no other row of aggregates is
written. For the batches, a posting adds its two amounts to the row of the store
and to exactly one other place: the row of its batch, or an entry that names none;
the equation of every other item and place stands still. All five are parts of
one invariant of the three tables (`TablesInv`), which one posting (`Booked`)
preserves.

The SQL transactions: `TxTypeCorrect`, `TxReadIsCurrent` and `TxSerializable`:
the interleaved SQL transactions implement the atomic ledger. The invariant
(`IInv`) says of each request what its locks and its knowledge are at each
statement (`Own`: which rows it holds, that its key is not yet posted, that what
it read is what the rows hold, that a row it inserted is not yet committed); of
each two requests that they share no row and no key (`Apart`); that a row nobody
committed is empty (`EmptyRows`); and that a request which has begun has room in
the bounded ledger (`Room`). None of these is inductive alone: what a request
read stays current because nobody else holds the row, and its key stays new
because nobody else holds the key's lock. `AloneKeeps` reduces the steps that
commit nothing to the request that takes them. For the refinement, `Commit` is
then a `Post` of `StockLedger`, because the refusals computed from what was read
hold of the balances themselves, and every other step stutters.
`TxTrailUnbroken` and `TxBalancesHold` (`ReservedCovered`, `KeyPostedOnce`,
`BatchesAddUp`, all of `LedgerTables`) are neither checked nor proved a second
time: a behaviour of the transactions is one of the ledger, so that each of its
steps is `Booked`, and `TablesInv` follows (`LedgerTablesInv`, `TxTablesInv`).

*`StockReservation_proofs`.* `ReservationTypeCorrect` and
`ReservationFulfilledWasIssued`, under `Spec`: any overlap, any crash.
`FulfilledWasIssued` is not inductive, since `Save` writes a row that was
computed earlier. The invariant adds that a call about to save claims no more than
was issued, that a call about to post will have issued enough once it did
(`CallsInv`), and that a fulfilment key in the ledger stands for at least its
target (`KeysInv`), which is what makes a replay safe.
`ReservationRetriesIssueOnce` (`RetryInv`): what was issued is 0 without a
fulfilment key in the ledger, and the target of the key as long as all keys of the
reservation name one target. `ReservationLedgerMatchesRow` and
`ReservationClosedStaysClosed` (`QuietInv`): of a reservation that is not
disturbed, at most one call is under way; the row agrees with the ledger
(`Agree`) or is what that call will make agree when it saves (`Under`).
`ReservationReservedIsOutstanding` (`HeldInv`): while nothing is disturbed, the
reserved amount of the balance row is the sum over the created reservations of
what is neither issued nor freed (`Balanced`); the sum is over the `create` keys
and not over the rows, because the movement comes before the row, and a call
that is about to insert its row remembers the quantity (`Promised`).

*`StockTransfer_proofs`.* `TransferTypeCorrect`, `TransferLinesWerePosted` and
`TransferStatusWasEarned`, under `Spec`. `SaveLine` and `WriteStatus` write
what was computed from an earlier read, so the invariant says of each request
(`Own`) that the lines it has read claim no more than was posted, that the line
it is about to write stands for a movement to at least its target, and that the
status it is about to write is already true. `KeysInv` says the same of every
key in the ledger, which covers replays. All of these bound something from above
by totals that never fall (`Grows`), and so survive what other requests do.
`TransferRetriesPostOnce` (`KeyedInv`): a count in a line, or in what was read of
one, is 0 or the target of a movement whose key is in the ledger; what was posted
to a line is 0 without a key and the target of its key when there is one. For
`TransferNothingFromNothing` and `TransferLinesMatchLedger` (`AloneInv`): while no
two requests overlapped and none stopped half way, at most one request is at
work; each line says what the ledger says (`Matches`), or is the one line that
request has posted and not yet saved (`Ahead`).

*`StockCount_proofs`.* `CountTypeCorrect`, `CountAdjustmentPostsAsWritten`,
`CountPostedMeansBooked` and `CountCompleteMeansCounted`, under `Spec`: any
overlap, any crash. A request writes the status it decided on before, so the
invariant says of each request (`Own`) what is still true of its document when
it writes: the lines it leaves behind are in the ledger, or counted. It rests on
what never changes back: the lines of a document and the quantities of an
adjustment are written once, a counted line stays counted, a key stays in the
ledger (`BookedInv`, `AbsentInv`, `StatusInv`). `CountCountCorrectsStock`
(`FineInv`): of an undisturbed count, the balance of a line nobody else moved is
its snapshot and what the count has booked (`LineFine`); what a request carries was
read at a status the count still has, and is the snapshot, the shelf or the
variance, as its operation says (`Right`); nothing is booked before COMPLETED, a
line is booked with its variance, and every line of a POSTED count that has one is
booked (`BooksFine`).

*`ResourceBooking_proofs`.* `BookingNoDoubleBooking`. That a row may be written
depends on what the request read before; `BookingInv` says what such a read is
still worth. While nothing is disturbed, a request that is not in `stale` and is
about to take time finds room for it (`RoomFor`), and one that is about to write
a status finds the reservation in a status its change may leave (`Worth`), all of
which hold time already (`BookingChanges`). A step that takes time makes the
requests stale whose time overlaps, a step that writes a status those that want
to write one of the same reservation. `Inserting` says that a reservation not
yet in the table has one request about it. `BookingWorkflowFollows`: `FollowInv`
adds that while nothing is disturbed, a reservation no request stopped at half way
and whose instance was not moved by itself (`Apart`) has at most one request
between its write of the status and that of the workflow; that this request finds
the pair it made (`ToDo`: the status it wrote and a workflow state its action
starts from); and that a request about to write
a status is stale if there is such a request. The last part needs the stale mark
that `Start` sets for a request that begins while another is half done: without
it both could be half way at once.
Direct moves, crashes and runs by hand are steps like the others: a direct move
puts its reservation into `Apart`, and a handler that starts to change a status is
a request like any other (`FollowEndAgain`).
`BookingTypeCorrect` and `BookingEndJobsKept`, in every history, disturbed or not
(`JobInv`): until its end job is scheduled a reservation belongs to the one request
that creates it (`CreatedOnce`). From then on the job belongs to the worker while
it is claimed, and once somebody ran it by hand to that request as well (`Whose`).
Only these write it (`JobWrites` lists what each may write), and a start, which
recovers RUNNING jobs, finds the worker down and so nothing claimed. Hence a claimed
job that nobody ran by hand is RUNNING (`ClaimedRuns`) until the worker is done
with it or lost; its attempts grow by a claim only, which asks for some to be left
(`AttemptsKept`); and no step leads out of COMPLETED (`CompletedStays`). None of
this says that a job runs only once: after a crash it may be recovered and run
again. No run checks these; they are parts of the invariant.

*`GoodsReceipt_proofs`.* `ReceiptsTypeCorrect`, `ReceiptsReceivedAddsUp`,
`ReceiptsOrderFollowsReceipts`, `ReceiptsPostedIsBooked`,
`ReceiptsBookedIsPosted`, under `Spec`. None of the last four is inductive:
`SavePost` and `SaveReverse` write quantities and a status computed from what
was read three statements before. The invariant has two halves. The first holds
in every history (`Types`, `Told`): an edit gives its lines a new edition, so
whoever knows the edition of a receipt knows its lines, also when the receipt
has since been replaced; and what a posting no longer has to do it has booked.
The second holds while nothing is disturbed (`Undisturbed`): what a request read
is still so and what it computed is still right, unless somebody made it stale
(`Fresh`); every movement belongs to a posted or reversed receipt of the same
edition, to a posting under way, or to one that was cut off (`Accounted`); and
the received quantities are the sums over the posted receipts (`AddsUp`), of
which a posting adds one term (`ListingsGrow`) and a reversal takes one away
(`ListingsShrink`). A request that writes makes stale whoever read the receipt
or the order, and `WriteKeeps` says once for posting and reversal what is left
to show: the write is right for the receipt, the sums and the status. That a
step changes one request, and that nothing it changes bears on the others, are
`OthersKept` and `StepKeeps`.

*`Scheduler_proofs`.* `SchedulerTypeCorrect`; `SchedulerClaimsExclusive`, whose
invariant (`ClaimsInv`) adds that an undisturbed job in a batch is not stale, so
that no start takes it, and that a request's job is in `byHand`;
`SchedulerCompletedMeansRan`, whose invariant (`RanInv`) adds that whoever is
about to write COMPLETED has seen the handler return;
`SchedulerWorkersKeepCompleted`, which follows from the type invariant because
each statement of a worker asks for a due, a stale or a RUNNING row.
`SchedulerCallsCounted` (`CountedInv`): calls of the handler so far, and those
that a worker or a request still owes (it has counted the attempt and not yet
called), are together no more than the attempts counted (`Counted`), and a job
nobody ran by hand never counts more than its limit (`Limited`). The number of
those that owe a call is a cardinality; each statement adds or removes one.
`SchedulerStrandedByFault` (`ClaimedInv`): while no worker crashed, no statement
failed, no job was run by hand and no claim outlived its five minutes, a RUNNING
job is in the batch of a worker; it rests on `ClaimsInv`, since a worker could
otherwise lose a job another one claimed.

*`MaterialDocuments_proofs`.* `DocumentsTypeCorrect`,
`DocumentsStatusTellsStock`, `DocumentsStockExplained`,
`DocumentsReturnedWithinIssued`, under `Spec`: any overlap, any crash, deadlock
aborts. The invariant says of each request (`Own`) what its transaction has
written and not committed, which locks it holds, and what is still true of what
it read; of each two requests that they do not hold one document, one balance
row or one issue's advisory lock together (`Apart`); and of the committed tables
that they tell one story (`Books`): a document's lines are booked once it was
POSTED and never before, the balance is what the booked lines add up to, and the
returns of an issue stay within it (`Within`). The last is decided by a request
that summed the other returns before it locked the rows it books. That sum stays
right (`Covered`) because the advisory lock of the issue is held from before the
sum until COMMIT, so that no other return of that issue becomes POSTED in
between; a cancellation can only make the sum smaller. `DocumentsPostAtOnce`:
the transactions implement `AtomicDocuments`. `Commit` is a `Post`, because of a
request that is about to commit the invariant says exactly what `Post` asks for
(`Committing`): the document it locked is still a DRAFT, its issue still covers
it, and each row it holds had what it took (`CommitRefines`). A cancellation is
`Withdraw` (`CancelRefines`), a new document and a receipt are themselves, and
every other statement leaves the committed tables as they are (`QuietSteps`).

The type invariants are proved for every module with a state of its own.

Only model-checked: the three liveness properties (`RequestsEnd`, `Settles`,
`EveryStayEnds`), since the proof system cannot reason about fairness. Every
invariant and every action property of the passing runs is proved.

## 7. Disagreements between code and tests or docs

1. `procurement_reversal`: the reversal of a goods receipt restores the quantities
   of the order and books no movement; what the receipt booked stays in stock, and
   the goods can be received and booked again.
   `docs/release/PROCUREMENT_FULFILMENT_CERTIFICATION.md` calls the reversal of
   the inventory posting verified. (`ReversalTakesStockBack`)
2. An item's `isBatchTracked` can be switched while it has stock. What was booked
   without a batch stays in the aggregate, so batch balances of a batch-tracked
   item no longer sum to it; an integration test of batches says they do.
   `BatchesAddUp` is what holds: it counts what was booked without a batch.
3. A fulfilment that stops between its movement and its row is not seen by the
   next one, which computes its increment from the old row and issues the first
   part again; this is why `LedgerMatchesRow` excepts it.
4. A cancellation that read DRAFT overwrites a POSTED issue or return whose stock
   has moved. The recheck of returns counts POSTED returns only, so the
   quantity of such a return can be returned once more. `StatusTellsStock` and
   `ReturnedWithinIssued` are worded accordingly.
5. A dispatch that is refused or stops after its first line leaves the transfer in
   DRAFT with stock gone, and `cancelTransfer` looks only at the status: a
   cancelled transfer has then moved stock, which can no longer be received.
6. A reversal writes ISSUED, ACKNOWLEDGED or PARTIALLY_RECEIVED into an order that
   was CLOSED or CANCELLED, which then takes receipts again.
7. `POST workflows/instances/by-entity/transitions` and `.../:id/transitions` move
   the instance of a reservation without its row, and `POST workflows/instances` may
   start one while the reservation is being created, which then fails. From then
   on the two are apart, and a change the reservation allows may be refused by the
   workflow after it has written the status. `WorkflowFollows` excepts these
   reservations (`moved`), and those a request stopped at half way (`cutOff`).
8. `POST scheduler/jobs/:id/run` on the end job of a reservation that is not over
   completes the job with nothing done, and nothing ends the stay any more. A
   worker that crashes with an end job leaves it RUNNING; without a start after
   `SCHEDULER_STALE_AFTER_MS` the stay is not ended either. `EveryStayEnds` excepts
   both.

Only the first has a run of its own that is expected to fail, and `PROJECT.json`
quotes its lines; the others are the exceptions of properties that pass. Other
hazards the models made visible are listed there under `hazards`, with the reason
where no property covers one: for example, nothing in the backend calls
`expireDueReservations`; an exception in `failClaimedJob` ends the tick and
leaves the rest of its batch RUNNING. Real as well, but outside what is modelled:
the ledger is listed by dates a caller may set; item, store and batch are read
without a lock before the balance is locked; costs are rounded at every step.

## 8. What is not modelled

Costs, currencies and rounding; names, codes and validation of catalogue data; the
inventory item of an order line, which no service sets (`Mapped` is the set of
lines that have one); resource catalogues, opening hours and reminders of
reservations; a workflow instance that is started directly with another definition
than the reservation's; the other jobs in the batch of the worker that ends
reservations, but for what their failure does to the batch (`OtherJobAborts`), and
a second worker for them (`Scheduler` has two); events and audit records that
follow an operation (they are published after the transaction and change none of
this state); authorisation. The
components with status `not_modelled` in `PROJECT.json`, with the reason for each:
those of the plan above, and those that only store and list rows. The frontend,
mobile and tooling directories hold no state of their own that other parts depend
on.
