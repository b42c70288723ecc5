# ElephantMQ in TLA+

ElephantMQ is BullMQ's queue on PostgreSQL. Its state is a handful of tables; what BullMQ
does in Lua scripts, one at a time in Redis, it does in stored procedures
(`src/src/sql/functions`), one transaction each, under READ COMMITTED and with an advisory
lock in some of them. TypeScript classes (`src/src/classes`) call the procedures: queues for
clients, workers in a loop. This directory models the procedures, what they promise the
workers, and the classes whose callbacks, connections and child processes meet. Paths below are relative to `src/src/sql/functions` unless they say otherwise.

## Files

| file | what it is |
|---|---|
| `JobLease.tla` | abstract specification: what a queue promises of each job |
| `EmqJobs.tla` | the rows of `emq_jobs` and the changes procedures make to them; no state |
| `EmqQueue.tla` | one queue, every procedure an atomic action |
| `EmqStatements.tla` | the same procedures taken apart into statements, several at a time |
| `EmqWorker.tla` | one worker process: its loop, promises, waits, locks and acknowledgements |
| `EmqFlow.tla` | flows: parents, children and the dependency rows, over two queues |
| `EmqDedup.tla` | one deduplication id: its row, the adds under it and the end of their jobs |
| `EmqScheduler.tla` | one job scheduler: upserts, and workers that advance it |
| `EmqEvents.tla` | the stream of events, its consumer, and `waitUntilFinished` |
| `EmqListener.tla` | the connection that listens, and the channels it listens to |
| `EmqSandbox.tla` | the pool of child processes and the messages of a sandboxed run |
| `EmqEnqueue.tla` | the client's side of adding: promise chain, pool, transactions |
| `MC*.tla` | symmetry, flows and options for TLC; the `.cfg` files give the constants |
| `EmqQueue_proofs.tla`, `EmqDedup_proofs.tla`, `EmqWorker_proofs.tla`, `EmqFlow_proofs.tla`, `EmqEvents_proofs.tla`, `EmqSandbox_proofs.tla` | theorems and proofs of the module they are named for |
| `EmqAdding_proofs.tla` | theorems and proofs of EmqEnqueue and EmqScheduler |
| `EmqSessions_proofs.tla` | theorems and proofs of EmqStatements and EmqListener |
| `PROJECT.json` | components, runs, mutants, the source lines behind every definition, hazards, findings |

## The system

### Components, their state and operations

* **Tables** (`../migrations/0001_init.sql`). `emq_queues` (paused, concurrency, limiter
  configuration), `emq_queue_counters` (`wait_num`, `priority_num`, `job_num`, the `drained`
  latch), `emq_jobs` (state, places in the lists, priority, `process_at`, lock columns,
  attempts and stalls), `emq_rate_limit_state`, `emq_job_deps` (flows), `emq_deduplication`,
  `emq_job_schedulers`, `emq_events`, `emq_metrics`. Triggers NOTIFY on new jobs and events.
* **Adding** (`010`, `040`, `050`, `070`). A job gets an id, is deduplicated, and starts in
  `wait`, `paused`, `prioritized`, `delayed` or `waiting-children`.
* **Handing out** (`290`). Promote the delayed rows that are due; stop at the limiter, the
  pause or the concurrency cap; pick the head of `wait`, else of `prioritized`; give it the
  worker's token and a lease; count it in the limiter's window. All under the queue's
  advisory lock.
* **Acknowledging** (`310` finish, `300` delay, `460` retry, `260` return a rate-limited job,
  `320` wait for children). The caller shows its token. Finish resolves the parent, applies
  the keepJobs policy and fetches the next job in the same transaction.
* **Leases** (`120`, `130` renew, `280` sweep, `370` release, which nobody calls). A worker
  renews on a timer; a sweep puts rows with an expired lease back, or fails them.
* **Client commands** (`080`-`110`, `270`, `330`-`360`, `400`, `450`): pause, resume, promote,
  change delay or priority, reprocess, retryJobs, promoteJobs, remove, drain, clean,
  obliterate, rateLimit.
* **Flows** (`040`, `320`, `380`, `440`, parts of `310` and `400`, `flow-producer.ts`): trees of
  jobs over several queues; a parent is promoted when its last child is resolved.
* **Deduplication** (parts of `010`, `050`, `070`, `310`; `390`): one live job per id, with ttl,
  replace and keepLastIfActive.
* **Schedulers** (`020`, `410`, `490`, `job-scheduler.ts`): a delayed job for the next iteration.
* **Worker** (`src/src/classes/worker.ts`, `async-fifo-queue.ts`, `lock-manager.ts`, `worker/`):
  slots that fetch, process and acknowledge; a queue of pending promises; a renewal timer;
  a stalled checker; pause, resume and close; waiting on notifications, delays and limiter
  windows.
* **Enqueueing** (`queue.ts`, `job.ts`, `queue-base.ts`, `scripts/add-jobs.ts`): `add`, `addBulk`,
  `addBulkAtomic` and `inTransaction` share an object's promise chain, pool and pinned connection.
* **Notifications and events** (`pg-connection.ts`, `notification-manager.ts`, `queue-events.ts`,
  `events-trimmer.ts`): LISTEN with reconnects, a consumer that polls `emq_events` by id.
* **Sandbox** (`sandbox.ts`, `child*.ts`, `main*.ts`): a pool of children, a message protocol with each.
* **Migrations**, **getters**, **backoffs, validation, telemetry, metrics**.

Clients and workers share nothing but the tables. A worker's memory (its tokens, the jobs it
believes it holds, the answers it got) and the tables disagree whenever a lease expires, an
answer is lost or a client moves a job, and the procedures' guards are what keeps that harmless.

### What is hard

1. Procedures that take the advisory lock (`290`, `310`, `280`) run beside ones that do not. A
   statement sees what was committed when it starts, and an update that waited for a row tests
   only its own `where` again.
2. Leases expire at any time, are renewed late, and are taken back by a sweep; the worker does
   not know. An attempt must end in one way, and be counted at most once.
3. A dozen procedures choose `wait` or `paused`, number a place in a list, or take a row out of `active`.
4. The limiter and the cap are read, then written.
5. The `drained` event is emitted once per transition by a latch that every other event clears.
6. Flows: two children in two queues, under two locks; a parent that counts its children while they end.
7. The worker: a slot must not be lost when its acknowledgement fails, an answer is late or a
   lock is gone; `close` must end.
8. Schedulers and deduplication: two calls with a crash in between; check then insert.
9. Events: ids are given at insert and seen at commit; a page is read while rows are written and trimmed.
10. The listening client is lost while it is named, bound, replaced or cut, and four methods replace it.
11. Messages between parent and child do not name their job; a child may exit between any two of them.
12. Calls on one `Queue` wait for each other in JavaScript and for each other's locks in the database.

`PROJECT.json` lists each at its line with the property that covers it, or why none does yet.

### What makes each component correct

* Queue: lists agree with the pause flag; numbers given at the tail are the largest; the latch
  means idle; the limits hold when a job is handed out.
* Leases: `JobLease`, below.
* Flows: a parent leaves `waiting-children` exactly when its children are resolved, and does.
* Deduplication: at most one unfinished job per id; a stash is run or replaced.
* Schedulers: one pending iteration for every scheduler, always.
* Worker: a slot's job is acknowledged or its lease expires; the loop never waits for nothing.
* Enqueueing: ids in the order of the calls; all of a bulk or nothing; what a call resolved with is so.
* Events: a consumer sees every event once, in order of ids; a wait for a job's end is answered truly.
* Listener: no client leaks; a channel subscribed to is heard again after every loss.
* Sandbox: a child runs one job; answers are the job's own; every job settles; `clean` leaves no child.

## The models

### JobLease

A job is absent, queued, held or done. `Grant` hands it to one worker under a live lease;
`Tick` lets the lease expire or be renewed; `Settle` is the worker's own end of the attempt
(`Resume` if it is handed the job back in the same call); `Revoke` is the queue taking it back,
**only when the lease has expired**; `Reopen` and `Discard` are the clients'. A call hands out at
most one job. `grants`, `settles` and `lapses` are `attempts_started`, `attempts_made` and
`stalled_counter`. It is deliberately free of lists, pauses and limits: this is what a processor's
author relies on.

`life` is a history variable: a job that was finished and put back, or had its
`attempts_started` zeroed, is exempt from the counting promises in the way the code makes it exempt
(`450` can zero one count and keep the others).

### EmqJobs and EmqQueue

One queue. `job` is the table, a function from ids to rows; `paused`, `waitNum`, `prioNum`,
`drained` and `rate` are the queue's fields. There is one action for each procedure, and its
parameters are the procedure's arguments; each action is the whole procedure, early returns
being disjuncts or guards. Actions that would change nothing (`120` on a live lease, every rejected
call) are not written. The actions follow the SQL closely; `EmqJobs` has the row changes they share.

| source | action |
|---|---|
| `070`, `050`, `010` | `AddStandard`, `AddPrioritized`, `AddDelayed`, `AddDuplicated` |
| `290` | `MoveToActive` = `Fetch`, of `Promotions`, `Open`, `Heads`, `Claim`, `FindNothing` |
| `310` | `MoveToFinished`, replies in `FinishReply`, keepJobs in `Trims` |
| `300`, `460`, `260` | `MoveToDelayed`, `RetryJob`, `MoveJobFromActiveToWait` |
| `130`, `280` | `ExtendLocks`, `MoveStalledJobsToWait` |
| `350`, `360`, `080`, `090` | `Pause`, `Promote`, `ChangeDelay`, `ChangePriority` |
| `450`, `270` | `ReprocessJob`, `MoveJobsToWait` |
| `400`, `110`, `100`, `330` | `RemoveJob`, `Drain`, `CleanJobsInSet`, `Obliterate` |
| `queue.ts`, `worker.ts` rateLimit | `RateLimit` |
| time | `LockExpires`, `DelayElapses`, `WindowCloses` |

Calls come in any order with any arguments, so a worker that repeats a call, answers late, has
lost its lease, or has crashed (it never calls again and its lease expires) is among the
behaviours without being modelled itself.

Abstractions:

* `process_at` is "later" or "due", `lock_expires_at` "live" or "expired"; time may pass at any step.
* Where the code orders by `pk`, `process_at` or `finished_on` (promotion, the sweep's ranks, batches
  of `270`, keepJobs trims, clean), every order or subset is allowed.
* `prio_seq` of a row that is not prioritized, and `process_at` of one that is not delayed, are never
  read; they are 0 and "none". `wait_seq` is kept wherever the code keeps it, except on finished rows.
* Waiting-children, dependencies, deduplication and scheduler rows do not exist here: the branches
  of the procedures that need them are in EmqFlow, EmqDedup and EmqScheduler.
* The limiter is a constant of the queue with a duration; `rateLimit`'s tokens are the maximum. A
  worker's own limiter option is the queue's. A queue without a concurrency is one with a large one.
* The row of `emq_queue_counters` exists from the start; the code creates it on first use with the
  values it would have. An obliterated queue is created again by the next call.
* The token "0" acknowledges but never fetches: no caller in `src/src` does.

Bounds: `MaxStarts` stops claims of a job whose counters have reached it, `MinSeq` and `MaxSeq` bound the
sequence numbers. They are guards only, are constants, and the theorems hold for all of them.

### EmqStatements

The atomic actions are a promise the code has to keep, and where it takes no lock it does not.
Here a session runs a procedure one statement at a time. A transaction keeps the rows it has
written (`mine`); others see them when it commits; a row written by one transaction makes the writers
of another wait (`Free`) and makes `for update skip locked` pass it over. `Program` lists the
statements of each call, `tx[s].rows` is what a cursor or a CTE found, `tx[s].paused` the flag
as it was read. A transaction may abort at any point: a lost connection, or a deadlock's victim.
Advisory locks end with the transaction. Rows written after they were found are tested again
exactly where the code's own `where` does: state and token in `Settle`, nothing in `Ready` and `Sweep`.

The constant `Calls` chooses which procedures run. Places, priorities and the latch are left to
EmqQueue (any waiting row may be the head). Of finish the variant that fetches next is modelled, of
delay the one that does not. A lease does not expire while some transaction has written its row.

### EmqWorker

One `Worker` (`src/src/classes`). Its state is the fields of the object (`drained`, `pendingMarker`,
`blockUntil`, `limitUntil`, `waiting`, ...), the lock manager's map, the AsyncFifoQueue, where `mainLoop`
is, and one record for each promise in the queue: a fetch, then, under the same token, the processing of the job
it returned. The procedures are reduced to what a worker can tell apart: a job waits, is delayed, is
active under a lease, or is over; which waiting job is handed out is free.

| source | actions |
|---|---|
| `worker.ts` `run`, `notification-bootstrap.ts` | `Run` |
| `mainLoop` | `Gather`, `GatherNoMore`, `Await`, `Take`, `TakeNone`; `LimitPasses` (`rate-limit-wait.ts`) |
| `_getNextJob`, `waitForJob`, `moveToActive` | `getNextJob`, `waitForJob`, `BlockTimeout`, `AfterWait`, `MoveToActive`, `Fetched` |
| `processJob`, `handleCompleted`, `handleFailed` | `Returns`, `PutsBack`, `MoveToFinished`, `PutBack`, `Processed` |
| `retryIfFailed` | `AnswerIsLost`, `FetchAgain` |
| `async-fifo-queue.ts` | `task`, `queue`, `Resolve`, `Reject`, `TakeNone` |
| `lock-manager.ts` | `trackedJobs`, `ExtendLocks`, `LeaseIsLost` |
| trigger of `0001_init.sql`, `onQueue...Notify` | `Announce`, `Notified` |
| `pg-connection.ts` | `ListenerIsLost`, `Disconnect`, `Reconnect` |
| `pause`, `resume`, `close` | `Pause`, `Resume`, `Close`, `Closed` |
| clients, other workers, time | `Add`, `Elsewhere`, `Sweep`, `LeaseEnds`, `Tick` |

* A step is the code between two awaits. A query is two steps, its commit and its answer; notifications, other
  workers and the clock may come in between.
* JavaScript runs a callback, and whatever awaits the promises it resolved, to the end before the next.
  `Idle` says that nothing of that kind is under way, and guards every other action. For the database's own steps
  that only spares interleavings: they read and write no field of the worker.
* `Happens` names what may go wrong (a limiter, a processor that puts its job back, a lost answer, a late
  renewal, a pause, a retry, a rate-limit error, a lost listener), each at most once, and `MaxHappens` how much
  of it in one behaviour; `happened` remembers it. Closing is always possible.
* `drained`, `waiting` and the like are kept as they are in the code, shared by all slots. Tokens are
  numbers; the code's never repeat, so the model reuses one only when nothing has it.
* A wait with a time may end early, as its timeout is ten seconds at most. `drainDelay` and the limiter's
  sleep end at any time. Milliseconds are ticks; `MaxTime` bounds them.

Fairness, used by `served` only: the loop's ready step is taken; each promise's steps, which stand for timers, processors
that end and queries that are answered; `Closed`; time passes; an expired lease is swept by some worker. Strong
fairness where `Idle` is part of the guard, because a ready callback stays in the event loop's queue while other
callbacks run. Notifications are **not** assumed to arrive, nor the listener to come back: the worker must get
by on its timeouts.

The modules that follow take one mechanism each out of the procedures and classes and model it whole, with what else may
happen to it. They share a form: `Happens` names the happenings a run allows, `Once` lets each happen once and `MaxHappens` of them in one
behaviour; history variables record the situations a property has to leave out, and each is set by the very step in which the
code goes wrong or gives up, never by the property.

### EmqFlow

One flow of up to three jobs over two queues, chosen from `Flows` with its places, failure strategies and late children. A
transaction that takes a queue's lock is two steps, what it reads and decides and then its commit: `finishing[q]` is the
one that holds the lock of `q`. `320`, which takes no lock, is `MoveToWaitingChildren` and `Park`.

| source | action |
|---|---|
| `flow-producer.ts`, `040`, `emq_link_child_to_parent_v1` | `Add` (all at once), `AddChild` (to a parent that is there), `AddAlone` (a child whose parent is not named), `Link` |
| `290` | `Due`, `Claim` |
| `310` with `worker.ts` handleCompleted and handleFailed | `MoveToFinished` (decides, with `Accepts`, `Arms`, `Forces`, `Wakes`, and locks the job's row only), `Commit` (writes, the parent's row by its key whatever became of it: `Overtaken`) |
| `320` | `MoveToWaitingChildren`, `Park` |
| `280` | `Stall` |
| `380`, `400`, `440`, `450`, `110`, `100` with `emq_cascade_parent_cleanup_v1` | `RemoveChildDependency`, `RemoveJob`, `RemoveUnprocessedChildren`, `ReprocessJob`, `Drain`, `Clean` |

Abstractions: a child has one parent. A lease has no time and ends by `Stall`. Client commands are one step, and wait while an open transaction
has written their rows. Retries of a failed child are left out (they precede the failure that matters here), `addBulk` is several `Add`s, a
paused list is the wait list. `spoiled` holds parents on which two transactions have met, that a failing child took from their worker, or whose dependencies a
removal has left pending; what the code does to them is listed under what the runs found.

### EmqDedup

One deduplication id, its row in `emq_deduplication`, the jobs added under it. An add is two steps, `Call` (which locks the counters' row unless the caller names
the job, and reads the key) and one of what `Writes` decides: `Deduplicated`, `Stashed`, `NotReplaced`, `Replaced`, `Added`, `Refused` by
the unique index. `MoveToFinished` reads the row and the stash, `Finish` or `Requeue` commits. `PutsBack`, `SweepFails`, `Expire`,
`RemoveDeduplicationKey`, `RemoveJob`, `Drain` and `ReprocessJob` are what may come between, `Deadlock` and `AddIsLost` the ends of an add that fails.
The three add procedures write the same row in the same way; each is mapped where the model follows it. `crossed` and
`freed` are the jobs whose key was read by two transactions at once, was left behind, expired or was removed.

### EmqScheduler

One scheduler, time in ticks, iterations named by their slot as the code names them by their millisecond. `020`, `410` and `490` take no lock, so each is its statements, and any
other transaction may come between two:

| source | actions |
|---|---|
| `job-scheduler.ts` upsertJobScheduler for a user | `Upsert` (reads the stored row and works out the time) |
| `020` | `Find` (the row, 43-46), `Replace` (deletes the iteration found, 57-70), `TestId`, `TestSlot` (87-107), `AddJobScheduler` (109-154) or `AddRefused` (-10, -11) |
| `410` | `BeginRemove` (reads the row), `RemoveJobScheduler` (deletes it, and the iteration where it was read) |
| `490` | `UpdateJobScheduler` (reads the row and compares the producer, 30-42), `Look` (is the next id free, 44-55), `Write` (by key, 57-61) |
| `worker.ts` nextJobFromJobData, `290`, `310`, `280`, `450` | `Claim`, `Read`, `Create`, `Finish`, `Sweep`, `SweepFails`, `Reprocess` |

`upsert` holds where each caller's transaction is. What a caller has deleted (`gone`) is still there for the others until it commits: `Claim` skips such a row (SKIP LOCKED), other statements wait for it (`Deleting`); its write of the row and its
commit are one step, as nobody sees or passes what is between. `CallFails` undoes a call: an error, a deadlock of two callers, a lost connection. `QueryFails` and `Crash` may come between any two steps
of a worker. A job `020` or `490` finds is one that is committed.

Abstractions: the interval, time and offset that upsertJobScheduler reads by three queries are read at once. A call and a worker that has read the row are done before the next
tick (`Tick`). Left out: start and end dates, time zones, templates, paging, and the refusal of
remove, drain and clean to touch a scheduler's pending iteration. `missed` says why a next iteration was not made since the last upsert, `astray`
which iterations were added or put back when the row had left them or a caller had looked there already, or were left by one that had found the row elsewhere or by a job whose id is not its `prevMillis`.
`MaxSlot` bounds the times of iterations.

### EmqEvents

`Emit` takes an id when it inserts and the row is seen when `Commit` comes, so rows appear out of order; `Surplus` are the
rows the trimming of `emq_emit_event_v1` deletes, by difference of ids and without those others have not committed. The consumer is
`consumeEvents` between its awaits (`Cursor`, `Subscribe`, `Poll`, `Wake`, `EmitRows`), and `waitUntilFinished` its listeners, its wait for the
consumer, its one question (`IsFinished`, `Answer`) and its ttl (`Expire`). Notifications may or may not come; the loop wakes anyway.
`publishEvent` is not in it: its events are not of jobs, and nothing bounds them that the model has.

### EmqListener

The listening client of `PgConnection` and the channels of `NotificationManager`. `call` says where init, a reconnect and a
subscribe for each channel are, each between two answers of the database; `disc` and `closing` are disconnect and close. `Rebind` is
`rebind` up to its first query, `Replay` each LISTEN of it; a client may be `Lost` at any of these. The pool hands out numbered clients;
`MaxClients` is above what two happenings can use up, so the bound never stops a reconnect.
A `disconnect` before init has ended is left out: workers pause after they are ready.

### EmqSandbox

`sandbox.ts`, `ChildPool`, `Child` and `ChildProcessor`: parent and child each read their messages in order (`Parent(c)`, `Runs(c)`), and a message
carries the job it is about for the properties only: the code's messages do not. `Retain` forks or takes a free child, `InitAnswered` and
`Begun` start the run, `Heard`, `Effect` and `Respond` are the parent's side of progress, logs, requests and answers, `Settles` the release.
`Calls`, `Ends`, `Cancel`, `Aborts`, `Crash`, `Terminate`, `Exits` and `Clean` are named as in the code. Abstractions: a run makes
one side effect or one request; Completed and the return to idle are one step, as nothing comes between them; SIGKILL comes at any time after SIGTERM.
Worker threads and custom child files, errors of spawn and failures to send are left out.

### EmqEnqueue

Calls of one `Queue` at once. A call is `connecting` for the queue's id or a connection, `chained` in the promise chain, `sent` to the
database, `running` the caller's function, `undoing` a rollback. `owner` and `txn` are the pool's connections, `pinned` the field that
`inTransaction` sets for every call of the object, `rows` the jobs with the transaction they are still in. An insert needs the row of
`emq_queue_counters`, which is held until its transaction ends (`LockFree`). A bulk called while a connection is pinned is rejected, as `job.ts:341` is (`CreateBulk`). The validations of an add are one refusal; a
connection is not lost; the function of a transaction makes its adds one after the other. The pool and what PostgreSQL does with a failed
transaction are modelled from their use in `src/src/classes` and marked external in the map.

## What the runs check

| run | instance | distinct states | checks |
|---|---|---|---|
| `queue` | 2 jobs with priorities 0 and 1, 2 tokens, 1 start, no stall allowed, cap 1, 1 token a window, numbers 0..2 | 219,398 | `RowsOK`, `ListsAgree`, `LimitsKept`, `LeaseKept` (refinement of JobLease) |
| `locked` | 2 sessions, 2 jobs, 2 starts; fetch, finish, sweep, add, promote, pause, resume | 756,121 | `LockKeeps`, `LeaseKept` by statements |
| `worker` | concurrency 2, 2 jobs, any one mishap | 1,892,838 | `ClaimedIsHeld`, `LocksOK`, `SleepIsCovered` |
| `served` | concurrency 1, 2 jobs, a limiter, a lost answer or a lost listener | 72,942 | `Served`, `CloseEnds` |
| `flow` | 21 flows of 3 jobs in 2 queues, 3 claims, any one of 9 happenings | 269,240 | `DepsOK`, `WaitsForSomething`, `ChildrenFirst`, `FamilyKeepsLeases`, `FlowEnds` |
| `dedup` | 2 callers, 4 options, 3 adds, any two of 7 happenings | 833,269 | `OneAtATime`, `KeyOK`, `StashHeld`, `StashRuns` |
| `schedule` | 2 workers, 2 callers, intervals 1 and 2 and a pattern, limit 3, 3 ticks, 3 events (upserts and at most one of 6 happenings), one fewer after each tick | 871,453 | `SlotsOK`, `NextIsMade`, `GoesOn` |
| `events` | 1 job, 1 call of waitUntilFinished, 4 ids, 2 writers, pages of 2, length 0, one of 4 happenings | 734,382 | `StreamOK`, `NoneSkipped`, `AnswersHold`, `Settles` |
| `listener` | 2 channels, any two of 5 happenings | 190,484 | `ClientsOK`, `ListeningIsTrue`, `Heard`, `CloseEnds` |
| `sandbox` | 2 jobs, 2 children, any two of 5 happenings | 178,114 | `PoolOK`, `RunsApart`, `EffectsFirst`, `JobEnds`, `CleanKills` |
| `enqueue` | 3 calls, 2 of them long, 2 connections, 2 jobs in each bulk, 1 failure | 497,239 | `InCallOrder`, `OutcomesHold`, `ConnsOK`, `Settles` |
| `stranded` | one parent with two children in two queues, nothing else happens | stops at the first | refutes `ParentsAreProcessed` |

A property whose name ends in `OK` is the module's type invariant with the invariants of its rows; its parts are defined by name
above it. `queue`, `locked` and `worker` use symmetry over jobs, tokens and sessions (no operator picks one by name); the others do
not, as they check liveness, use numbers, or have flows that name the jobs. All runs turn off the deadlock check: the bounds stop the
model, the worker is closed, or all calls have settled. What may never stop is said by the temporal properties instead.

Why the bounds are enough:

* `queue`: each property relates one row to the queue's fields, or two rows that compete for a place or for the cap, so two jobs
  reach every case but long lists; and every property of the run is proved for all bounds (below). A second claim after a sweep is in `locked`.
* `locked`: `LockKeeps` says both limits and that a finish settles the attempt of the worker whose token it compared. Two sessions show every pair of procedures, with the clock and one-statement calls beside them; three are out of TLC's reach, and `LockIsEnough` is proved for any number.
* `worker`: two slots are what it takes for one to wait while the other processes, and for both to have the same job; the second
  job is the one an acknowledgement fetches. Two ticks give a delay and a limiter window that are ahead, due, and passed while an answer is
  on its way. Two mishaps with concurrency 1 were tried and break nothing; `served` also passes with one job, two slots and every mishap.
* `flow`: with three jobs there are two children of one parent (who end at once, or of which one comes late) and a chain (a failure that
  reaches a grandparent, or that comes late). The flows pair each strategy with each, in one queue and in two. Any two happenings were tried and
  break nothing; the four safety properties are proved for any number of jobs, queues and happenings.
* `dedup`: a holder, a second job that finds it, and a third that finds what the first two left; two callers cross each other and the holder's finish.
* `schedule`: three slots are the one that is being processed, the next and the one after, with a limit that is reached; two workers have two iterations at once, two callers cross
  each other and a worker. `MaxEvents` bounds upserts and happenings together, one fewer after each tick (`Bounded`): three upserts, or two and a happening, on the first tick, and two of these in all if one comes on the second. That is enough
  for two first upserts that leave two iterations, for locks that are waited for, for an upsert between any two statements of `490`, and for each exemption below to be needed: without any one of
  them TLC refutes the property in this run. A row and the `prevMillis` of another job come together with three upserts and a removal only; those are too many states, and left to the theorem.
* `events`: four ids fill two pages, with one that commits late in either.
* `listener`: two happenings put a loss into a reconnect and a close into both.
* `sandbox`: the second job takes the first one's child, or forks the second.
* `enqueue`: a pair of long calls is what it takes to exhaust two connections and to overlap, and the third is the bystander.

Every property of a passing run has a mutant in `PROJECT.json`: a plausible slip in one definition, such
as a sweep that ignores the lease or a retry that ignores the state, with which TLC refutes it.

### Fairness

Weak fairness of what the code's own scheduling makes certain, and nothing of clients or mishaps:

* `served`: see EmqWorker. Notifications are not assumed to arrive.
* `flow`: workers poll every queue (`Due`, `Claim`), a processor returns (`Work`), a parent's second statement follows its first (`Park`), a transaction commits.
* `dedup`: as `flow`; an add that waits for a row gets it strongly fairly, since waiters of a row are served in turn; PostgreSQL ends a deadlock.
* `schedule`: the clock ticks, a call of a user ends (its statements are answered, or it fails and is undone: PostgreSQL ends a deadlock), workers claim and go on, and the stalled sweep takes up what a crash has left.
* `events`: transactions commit, the consumer's loop goes on (its wait has a timeout), the one question of a call is answered.
* `listener`: queries are answered, the back-off's timer fires, `pool.end` ends when every client is back.
* `sandbox`: messages are read, processors return, exit events come, SIGKILL follows SIGTERM.
* `enqueue`: queries are answered in the end, when the lock they wait for is free.

### What the runs found

* **`stranded`**: two children of one parent complete at once in two queues. Each `310` sees the other's dependency still pending (it is not
  committed), so neither wakes the parent, which stays in `waiting-children`. `src/src/classes/flow-producer.ts:291-295` says that
  it will be processed. The properties of `flow` hold up to parents that were met by two transactions.

Seen with TLC before, each against a sentence of the code or its documents, and no longer among the runs, which ask other questions now. They can be seen again
with the module, the instance and the property named:

| property | instance | what happens |
|---|---|---|
| `EmqStatements!LeaseKept` | 2 jobs, 2 tokens, 2 sessions, Calls {fetch, retry, add}, no stall, cap 2, 2 starts | `460` (and `270`) promotes delayed rows without the advisory lock, by id alone: a row claimed meanwhile is put back to `wait`, lock columns and all |
| `EmqStatements!LeaseKept`, `RenewSpec` | 1 job, 2 tokens, 2 sessions, {fetch, sweep, add}, 1 stall, cap 1, 1 start | the sweep's second update joins on `pk`: a renewal between its snapshot and its write is overwritten, and a live job goes back to the list |
| `EmqStatements!LockKeeps` | 1 job, 2 tokens, 2 sessions, {fetch, delay, sweep, add}, 1 stall, cap 1, 1 token a window, 2 starts | `300` compares the token, then writes where the state is active: a call that is repeated while its first copy is still under way delays the job of the worker that claimed it in between |
| `EmqStatements!ParkedMeansPaused` | 1 job, 2 sessions, {add, pause, resume} | an add that read `paused = true` inserts after the resume; its job stays parked |
| `EmqStatements!LiveJobsStay`, `RemoveSpec` | 1 job, 2 sessions, {add, fetch, remove} | `400` deletes by `pk` after it checked the lease in an earlier statement |
| `EmqQueue!ActiveWithinConcurrency` | 2 jobs, 2 tokens, 1 stall, cap 1, no limiter, 1 start | only live leases count for the cap and expired ones can be renewed; `ClaimWithinConcurrency` is what does hold |
| `EmqWorker!NeverStuck` | concurrency 1, Happens {lease} | a job that lost its lock makes its slot's promise reject without a result, and `AsyncFifoQueue.fetch` waits although nothing is pending: `Served` and `CloseEnds` are stated up to this state |
| `EmqWorker!ProcessedIsTracked` | concurrency 2, Happens {lease} | the lock manager's entries are keyed by job id: two slots with the same job share one, and the second is no longer renewed when the first ends |
| `EmqWorker!SleepIsAnnounced` | 3 jobs, concurrency 2, 1 tick, 5 tokens, Happens {} | an acknowledgement that found no job is answered late, after two jobs came and the other slot claimed the first: its answer sets `drained` (`worker.ts:969`) although the second job waits, and the free slot's fetch sleeps with no notification on its way, against `src/docs/ARCHITECTURE.md:58-61`; what holds is `SleepIsCovered`, that a slot that is busy now takes the job when it is done |
| `EmqFlow!RemovalSparesLeases` | the flow `Chain` with its grandchild late, Happens {removeJob} | a processor adds a child and then its own attempt fails: the dependency of the failed job is no longer pending, that of its child is. `removeJob` of the root with its children looks for leases along pending dependencies only and deletes along all, so the grandchild that a worker processes is dropped, against the comment at `400_removeJob-2.sql:33-36` |
| `EmqFlow!FamilyKeepsLeases` without `r.job \notin spoiled'` | the constants of `flow` | a child with `failParentOnFailure` fails in its queue and reads, without a lock, that its parent is delayed or waits for its children (`310`, lines 466-467); the parent is claimed in its own queue; the update (474-484) asks for `pk` only and puts the active parent in `wait` with its token: its worker has lost it |
| `EmqScheduler!OneAhead` without `s \notin astray` | the constants of `schedule` | two first upserts with different times read no row, so neither deletes the other's iteration: the later one takes the row, and two iterations are pending |
| `EmqScheduler!NextIsMade` without `overtaken` | the constants of `schedule` | `490` looks whether the next id is free (45-48); an upsert with another interval adds an iteration there, which a second worker claims and advances from; the first then writes the row back (57-61) to that id, and no iteration follows |
| `EmqEnqueue!Together` | 2 calls, both long, no failure | two calls of `inTransaction` both pass the check at `queue.ts:579` before either pins at `queue.ts:586`: adds of one commit with the other, against `README.md:27` |

Seen while modelling, and left out of a property by name:

* Worker: promotion in a paused queue parks a job with a priority, and the resume puts it in `wait` (`360`). The worker loses the time of a delayed job whose
  notification overtakes the answer of an empty fetch (contrary to the comment at `worker.ts:752`). After a lost listener, a pause, or a claim whose answer was lost it
  may sleep for `drainDelay` beside a waiting job: `SleepIsCovered` leaves these out, `ClaimedIsHeld` the last. The sweep breaks the sentence
  in `src/docs/ARCHITECTURE.md:96` that a job stalls only if the process is gone: any missed renewal will do.
* Flows (`spoiled`): a child that fails its parent puts it back to `wait` on a state it read before, though a worker has claimed it meanwhile (`310:466-484`, in the table). The update of `320` is unconditional, so it also puts back a parent that a second worker has finished. Drain and `440` leave
  dependencies pending that no longer name a child; `400` deletes such rows of the whole schema. The sweep fails a child without resolving its dependency.
  The comment of `flow-producer.ts:295` calls `addBulk` atomic; it commits flow by flow and swallows errors.
* Deduplication (`crossed`, `freed`): a stash written between the finish's read and its delete is lost; a holder that the sweep fails, or that is removed,
  keeps its key; `replace` does not look at the key's expiry; a reprocessed holder runs without its key; two adds with names given by the queue can deadlock on counters row and key.
* Schedulers (`missed`): a crash after the advance and before the next iteration was added leaves none, against `src/docs/ARCHITECTURE.md:118`;
  so do an error, a slot that is taken by an iteration that is over, a removal and an upsert that come between, and `490` moving the row to an id that was free when it looked (`overtaken`).
* Schedulers (`astray`): `020`, `410` and `490` read the row in one statement and write it in a later one, with no lock between. So two first upserts, or an upsert with another interval between `490:30` and
  `490:57`, leave two pending iterations; a removal leaves the one an upsert adds; and what a sweep or a retry puts back after a caller has looked for it is not deleted. A worker that is late adds an iteration the row no longer stands at.
  And an upsert that `020` gives another id keeps its `prevMillis`: once the scheduler was removed and made anew that can be the time of the new row, which `490` then
  advances, past a pending iteration, on the word of a job of the old one. The proof of `SlotsOK` found it, beyond the bounds of `schedule`; TLC confirmed it with a third upsert and a removal.
* Events (`late`, `missed`): an event that commits after a larger id was read is never delivered, and `waitUntilFinished` without a ttl then waits for ever, as it does
  for a job that is removed unfinished or whose event is trimmed unread. An older event of the job may answer a later call.
* Listener (`Deaf`): a client lost while reconnect names it is taken for good when there is no channel to listen to. A failing LISTEN emits `error`, which
  nobody handles, so subscribe throws. A reconnect whose client arrives after close keeps it, and close does not return.
* Sandbox (`Hung`, `busy`, `missed`): a child that exits before it answered Init leaves its job waiting for ever, since `child.ts:108` drops the listener
  that waits for it. A child whose start failed goes back to the free ones. A child released while its run goes on takes the next job to it:
  answers of the old run reach the new one. A forced close misses a child whose Init is under way.
* Enqueue (`Jammed`, `mixed`): two bulks of two jobs, or a bulk and an add, can wait for each other for ever, one in the chain and one for the counters row; so can bulks that hold
  all connections. An add of another caller made while a transaction is pinned goes into it. A bulk called while one is pinned, from the
  transaction's own function or not, does not: the comment at `job.ts:323-324` says that it takes part in the outer transaction, but `job.ts:325-328` knows a pinned client by the want of a method `connect`, which a client
  of pg has, so `job.ts:341` connects the connected client again, and the bulk is rejected before it inserts anything. A rejected queue id is cached.

## What is proved

`tlapm` proves, for all sets of jobs and tokens, priorities, limits and bounds:

* `EmqQueue_proofs`: `Refinement`, that EmqQueue implements JobLease; `RowsStayOK` (from `TypeCorrect`, `LocksAreShaped`);
  `ListsStayAgreed` (from `ListsFollowPause`, `TailStaysLast`, `PrioTailStaysLast`, `DrainedIsIdle`); `LimitsAreKept` (from
  `RateIsKept`, `CapIsKept`); and by the refinement `AttemptsAreAccounted`, `StallsAreWithin` and `HeldIsByOne`. These are all the properties `queue` checks.
* `EmqSessions_proofs`, of EmqStatements: `LockIsEnough`, that for any number of sessions and jobs, and all calls but
  `emq_move_to_delayed_v1` (which refutes it), the statements keep `LockKeeps`; and `StatementsKeepLeases`, that fetch, finish and sweep,
  statement by statement beside clients that add, promote, pause and resume, implement JobLease. These are the calls of `locked`. The other calls
  are left out because they refute it or may: `retry` and `promoteJobs` promote by id (the finding above), `delay` and `remove` test a lease and write in a later statement.
  It is a theorem of `Spec`, not of `RenewSpec`, which refutes it too.
* `EmqDedup_proofs`, for any callers and options and any number of adds and happenings: `OneJobAtATime`; `KeyEndsWithItsJob`, that no
  key outlasts its job and refuses every later add; `StashIsNotLost`, that what is stashed stays until it is a job.
* `EmqWorker_proofs`, for any concurrency, jobs, clock and mishaps: `ClaimedAreHeld`, that no claimed job is forgotten; `RenewedAreHeld`, that no
  lease is renewed for nothing; `WaitersAreCovered`, that no job is slept through. All three from `AlwaysIInv`.
* `EmqFlow_proofs`, for any flows (a job has one parent and is not its own; cycles and depth do not matter), any queues and any number of claims and happenings:
  `DependenciesFollow`, `NoParentWaitsInVain`, `ParentsCompleteLast`, and `FamilySparesLeases`, that but for the stalled sweep, the removal of an ancestor and a child's failure
  that overtakes a claim nothing takes a job from its worker; all from `NextKeeps`.
* `EmqSandbox_proofs`, for any jobs, children and happenings: `ChildrenInOnePlace`, that the pool loses and doubles no child and keeps no
  dead one; `RunsKeepApart`, that a run has only its own messages; `EffectsCommitFirst`, that it resolves after its side effects. All from `Inductive`.
* `EmqSessions_proofs`, of EmqListener, for any channels, clients and happenings: `ClientsStayOK`, that the pool loses no client, and
  `ListeningStaysTrue`, that what the manager takes for listened to is; both from `ListenerInductive`.
* `EmqAdding_proofs`, of EmqScheduler, for any workers, callers, intervals, limit, clock and happenings, a statement at a time: `OneIterationAhead`, that of the iterations nobody has begun only
  the one its row stands at is pending, those `astray` left out; `NextIsNotLost`, that a scheduler has its next iteration unless one of the named mishaps ended the chain. Both from `SchedulerInductive`.
* `EmqAdding_proofs`, of EmqEnqueue, for any pool, any number of calls and jobs, and any failures: `IdsInCallOrder`, that ids follow the chain;
  `OutcomesAreTrue`, that a caller is told what the table has; `ConnectionsAreOwned`, that no connection is lost, or given back with a
  transaction open. All three from `Inductive`.
* `EmqEvents_proofs`, for any jobs, waiting calls, writers, ids and page size: `StreamStaysBounded`, that however many write at once the
  stream keeps its bound; `RowsAreNotSkipped`, that the consumer passes no row that is there; `AnswersAreTrue`, that
  `waitUntilFinished` answers the truth. All three from `Inductive`.

Assumptions: the named `ASSUME`s of the modules (jobs finite, tokens distinct from the null
and from "0", priorities natural and 0 among them, `MaxStalled` natural, no job its own parent, `NoSeq` not a number, `MaxTime` and the period of a pattern positive, times and bounds natural, the clients of a query distinct from each other and from connections, a bulk of at least one job, and for the worker enough tokens that one is free
when a promise is made: `MaxToken >= Concurrency + Cardinality(Job)`, a bound of the model, as the code's counter has none).

The argument. The invariants speak of one row and the queue's fields, so the inductive invariant
is `IInv == TypeOK /\ TableInv /\ DrainedMeansIdle`, with `TableInv` the conjunction `RowInv` for each row.
None of its parts is inductive alone: that a queued row has no lock needs `LockShape`, that a resumed row is
not in a paused list needs `ListsMatchPause`, and a promotion needs both counters ahead. `RowInv` also says
that an absent row is exactly `Absent`, without which an add would inherit a token. One lemma per row
operator says it keeps `RowInv` and what it does to the row's lease; lemmas on `Promoted` and `Fetch` say it of
tables; one lemma per action concludes `Kept`: `IInv'`, every row made a JobLease step or none, at most
one was handed out, and if one was the live leases are within the cap. Refinement follows from `Kept`; the counting promises follow from JobLease's
steps alone, whatever the queue does beside them (`LeasesKeep`). `RateIsKept` is inductive by itself; `CapIsKept`
counts: a claim adds one lease to a set that was smaller than the cap when the fetch tested it.

For `LockIsEnough` the argument is that of a critical section (`EmqSessions_proofs!IInv`): a fetch or finish that is past its lock statement
holds the lock; what it has tested since (`CapInv`, `RateInv`, `HoldInv`) stays true because the rows all others write are
`Quiet`, never active and never started more often, and two transactions never write one row (`Apart`). Each of the statements other than
lock, gate and claim is shown quiet through `QuietKept`; `OthersKeep` says what a session keeps when another one moves,
commits or fails. The delayed row is left out because `HoldInv` fails for it: its token is compared with no lock held.

`StatementsKeepLeases` has to say what a transaction would do if it were to commit now (`EmqSessions_proofs!LInv`, beside `IInv`): for each row it
has written, the committed row and its own are one step of JobLease apart or none (`Lawful`), and at most one of them was handed out (`OneGrant`). A second write of one row must not
make two steps of it. So a fetch that has yet to claim has changed no lease but of the job it ended (`Early`), what it is about to promote waits still (`Promotes`), and what the
sweep found is active and expired still, and failed already if worn (`Sweeps`). The commits of the others leave all this true (`Steady`, `OthersObey`): the
rows they write were not active before and wait after. Who writes without the lock is bound to that (`Aside`), and who writes with it commits when nobody else holds it.

`OneJobAtATime` is carried by `Owned`: an unfinished job has the live row of the key, or has lost it. The unique index alone does not
carry it, since an add clears `deduplication_id` of jobs without a live row first, and a requeue inserts with no look at the index; that a job put
back by a client still has a live row needs `Past`, that an expired key counts as lost. The other two theorems of EmqDedup need `KInv`, which adds
two things. `Bound`: count, open adds and stashes come to at most twice the adds there can be, so that a requeue has an id to give (the ids are not the type's
own bound but what the adds have paid for). `Reads`: two transactions that have read one key have crossed (`ReadsCross`), and one that has not
crossed may still rely on what it read (`ReadsHold`, `FinishHolds`). `KeyIsFree` is the crux: a job that finishes with a stash still has its `deduplication_id`,
which keeps every insert away, so the requeue, which does not look, finds no other job with the key.

The worker's invariant (`EmqWorker_proofs!IInv`) adds to the three properties what a promise may be doing with its job: `Settled`, that after an
acknowledgement its promise has no lock on the job any more, unless it was handed the same job again; `Started`, that nothing is fetched before somebody listens
and nobody waits once the worker closes; `Leased`, that a promise still has the lease of its job while none of five mishaps happened. `Covered` is
`SleepIsCovered` without the parked fetch: a waiting job of which no marker is on its way needs a promise that asks, or a latched marker and nobody
who waits, whether or not somebody will park. `Shape` fixes which fields go with which step, and that tokens are unique. There is one lemma per action; `RowsKeep`
says what a step of others on the rows leaves to each promise, `QuietKeeps` what a step that touches no row does.

The flow's invariant (`EmqFlow_proofs!IInv`) has to speak of what is between the two steps of a procedure. `TransactionOK` says that what an open
`310` is going to write is still true of the row of its job, which it has locked, and of its parent's, which it has not, as long as that was not claimed meanwhile (then it is `spoiled` by the commit), and `OpenOK` that two of them have read the dependencies of one parent only if it is
`spoiled`; `ParkedOK`, that a job about to wait is still its worker's, and that nobody is finishing a child of it. `WaitOK` is `WaitsForSomething` with
the future in it: while a transaction on the parent is open, either it wakes the parent or it leaves a child to wait for (`Provides`), and this is
where the property breaks when two have met. A step that opens and ends no transaction has to show, by `RowsKeep`, that each parent which waits has
what it had (`Same`) or a child no transaction is about to finish (`Fresh`). What a recursive query finds is the least set closed under its links; all the proofs need
of it is that each row but the first was reached by a link (`ReachedBy`), never its depth.

The sandbox's invariant (`EmqSandbox_proofs!IInv`) is about the order of messages, since a message does not say which run it is from. `Lines`: in a child's
two channels nothing of a run follows its last message, a job is started once, and a cancellation comes after the start it is for, so what is read late finds its run over.
`InitFirst`: while a call waits for Init, all the child has to say is its first words. `Where`: what a channel says of a job it says to the child the job was given
to. `Runs1` says the rest of each run that came to an idle child: all its child has yet to say is about it (`OwnRun`), and once its last message stands in the chain of
side effects, or has resolved it, no more of it is in the channel (`Chained`), which is why it resolves last. `Pooled` is the pool by itself: a child has one call, or is free once, and what is
retained has a call under way, so that a release returns nothing twice.

The listener's two properties need an invariant that says more than either (`EmqSessions_proofs!ListenerInv`). No client is lost because there is
none when the pool is asked for one: `Alone`. What the manager's set `listening` says is not inductive, since a replay that
is under way makes it true only at its end; `Covered` is: a channel subscribed to is heard on the wired client, or some replay
of that client has it still to do, or its own subscribe is about to. `Untouched` says that a subscribe not yet called has left
nothing, without which the first subscribe could find its channel listened to and skip its LISTEN. One lemma per action
concludes `ListenerInv'`; `RebindStep` says what every caller of `rebindListenerClient` may rely on.

The bound of the stream (`EmqEvents_proofs!EventsInv`) is not inductive: that it has room for one more row says nothing of the rows of writers that have not committed. `Room` counts
ahead: what a writer will leave (`Left`), and those that began before it (`Older`), come to fewer than the bound. When it begins this holds by what the procedure
itself counts and deletes (`SurplusLeaves`: the ids left are among the last ones, and each is of one row) and by the number of writers; a commit
moves one writer from `Older` to the rows, and one that began later had trimmed for it. `Reads` says that between its cursor and the last row it has polled the
consumer has every row but the late ones, for a page is cut at an id and ids are of one row each (`Ids`). `Known` says that a call
knows whatever could answer it before it does: the state of its row, what it was told of it, and the events of it that the consumer has still to emit (`Ahead`).

The three properties of EmqEnqueue are parts of one invariant (`EmqAdding_proofs!IInv`), for each needs the others. `Ordered` says more than `InCallOrder`:
turns grow along the table and on along the chain, so that whoever stands first in the chain may insert next. `Owned` says whose transaction or query a
connection has: a call with a transaction of its own is its owner, and a connection without a transaction and with an owner has that call's one insert under way. `Locked`: the
row of `emq_queue_counters` is one transaction's until it ends, so all rows not committed are that transaction's and are the last of the table, and a rollback
takes the last rows and with them their ids. `Account` counts: a call that has shared nothing has as many rows as it has done, in its own
transaction or committed; an insert on a connection of another call's transaction marks both calls as it is made, so that no count is
of two calls' rows.

The scheduler's invariant (`EmqAdding_proofs!SchedulerInv`) puts a name to what `NextIsMade` leaves open. `Ahead`: the iteration the row stands at was begun by nobody but workers that have
still to read or move the row, for it, and its `prevMillis` is its own time. `Coming`: the row was moved there by a worker that is about to add it, and nothing has the id yet. `490` moves a row only to
an id that it has found free (`InReach`), so one `Coming` takes the place of one `Ahead`, or the row was `overtaken`; a worker that came late finds the row elsewhere, and one that adds a job late leaves what is there. `OneAhead` needs
that who moves the row on counts a turn for the iteration it leaves, or has it deleted. A caller does neither for what it has not seen: `Looked` says that what is pending where a caller
has looked, and is not deleted by it, came there later and is `astray` already, so that its write, whenever it comes, leaves no other behind.

All safety invariants the runs check are proved. Only model-checked is all liveness: `Served`, `CloseEnds` and their like. Out of the
prover's reach here: liveness and ENABLED, induction over data, and modules with RECURSIVE operators; the
modules under proof have none.

## Not modelled, and the plan

Not modelled yet, in the order in which it is worth doing:

1. More of `EmqStatements`: change of priority, `270`.
2. The rest of the worker: forced close, `cancelJob`, the error path of `waitForJob`, manual fetching, crash and restart; a composition in which
   workers drive the procedures of EmqQueue itself.
3. Start and end dates of schedulers and the protection of their iterations; `publishEvent` and the events trimmer; worker threads in the sandbox.

Not planned: the formulas of backoffs (a pure function with a random jitter; every delay it can return is among the behaviours of the models),
migrations (one-time schema work under a schema-wide lock), getters (they read only, but for `isFinished`, which is modelled), telemetry, metrics, logs and formatting.
