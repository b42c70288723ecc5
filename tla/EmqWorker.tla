----------------------------- MODULE EmqWorker -----------------------------
(***************************************************************************)
(* One worker process (worker.ts) on one queue: the main loop, the promises *)
(* of its AsyncFifoQueue, the blocking wait with its marker latch, the lock *)
(* manager and the acknowledgements that fetch the next job.  A step is the *)
(* code between two awaits; a query is one step where it commits and one    *)
(* where its answer arrives, and anything may happen in between.           *)
(*                                                                         *)
(* The procedures are those of EmqQueue, reduced to what a worker can tell *)
(* apart: a job waits, is delayed, is active under a lease, or is over.    *)
(***************************************************************************)
EXTENDS Integers, Sequences, FiniteSets, SequencesExt, FiniteSetsExt

CONSTANTS
  Job,          \* job ids
  NoJob,        \* undefined, where a job could be
  Concurrency,  \* the worker's concurrency
  MaxTime,      \* bound: the clock and process_at
  MaxToken,     \* bound: token postfixes; those no longer in use are used again
  Happens,      \* what may go wrong, each at most once in a behaviour
  MaxHappens    \* bound: how much of it may go wrong in one behaviour

ASSUME NoJobAssumption == NoJob \notin Job /\ IsFiniteSet(Job)
ASSUME BoundAssumption ==
  /\ {MaxTime, MaxToken, Concurrency, MaxHappens} \subseteq Nat
  /\ MaxTime >= 1 /\ MaxToken >= Concurrency + Cardinality(Job)

VARIABLES
  job,        \* emq_jobs, and until when process_at delays a job
  now,        \* Date.now() and now()
  notes,      \* notifications on their way to the worker, oldest first
  listening,  \* the LISTEN of the worker: never sent, on, or lost with its connection
  closing, paused, closed,
  drained, fetchedSinceDrain, pendingMarker, blockUntil, limitUntil,
  waiting,      \* the fetch whose waitForJob promise is this.waiting
  trackedJobs,  \* the lock manager's map from job ids to tokens
  loop,         \* where mainLoop is
  awaited,      \* the fetch that mainLoop awaits
  task,         \* the promises in the AsyncFifoQueue, by their token
  queue,        \* its completed promises, oldest first
  happened      \* history: what has gone wrong

db     == <<job, now>>
wire   == <<notes, listening>>
life   == <<closing, paused, closed>>
wakeup == <<drained, fetchedSinceDrain, pendingMarker, blockUntil, limitUntil, waiting>>
main   == <<loop, awaited>>
fifo   == <<task, queue>>
vars   == <<db, wire, life, wakeup, trackedJobs, main, fifo, happened>>

Token   == 1 .. MaxToken
NoToken == 0

\* A promise that is not there; its fields: what it is doing, the job it
\* processes, the job its last query handed out, the time the wait was given or
\* has returned, and the two delays in the query's answer.
Free == [pc |-> "free", job |-> NoJob, next |-> NoJob, until |-> 0, limit |-> 0, delay |-> 0]

Promises == {t \in Token : task[t].pc # "free"}
Pending  == {t \in Promises : task[t].pc # "resolved"}
numTotal == Cardinality(Promises)

\* A slot of the worker has job j: it is claimed in an answer on its way, in the
\* queue of results, or with a processor.
HasJob(t, j) == j \in {task[t].job, task[t].next}

\* The token of the next fetch: postfixes never repeat, so one that no promise,
\* no row and no entry of the lock manager has.
FreshToken == Min({t \in Token \ Promises : \A j \in Job : t \notin {job[j].token, trackedJobs[j]}})

isRateLimited == limitUntil > now

May(what)  == what \in Happens \ happened /\ Cardinality(happened) < MaxHappens
Once(what) == May(what) /\ happened' = happened \union {what}

Init ==
  /\ job = [j \in Job |-> [state |-> "none", at |-> 0, token |-> NoToken, live |-> FALSE]]
  /\ now = 1
  /\ notes = <<>> /\ listening = "never"
  /\ closing = FALSE /\ paused = FALSE /\ closed = FALSE
  /\ drained = FALSE /\ fetchedSinceDrain = FALSE /\ pendingMarker = FALSE
  /\ blockUntil = 0 /\ limitUntil = 0 /\ waiting = NoToken
  /\ trackedJobs = [j \in Job |-> NoToken]
  /\ loop = "stopped" /\ awaited = NoToken
  /\ task = [t \in Token |-> Free] /\ queue = <<>>
  /\ happened = {}

\* JavaScript runs a callback, and then what awaits the promises it resolved, to
\* the end before the next callback.  What happens in the database meanwhile
\* cannot be told from its happening afterwards.
Woke(t) == task[t].pc = "woken"
Idle ==
  /\ loop \notin {"gather", "take"}
  /\ loop = "await" => task[awaited].pc # "resolved"
  /\ loop = "blocked" => queue = <<>>
  /\ \A t \in Token : ~Woke(t)

-----------------------------------------------------------------------------
(* The table and its notifications                                          *)

\* tg_emq_jobs_wait_notify: a row that comes to wait is announced without a
\* time (0), one that comes to be delayed with its process_at.
Announce(news) == notes' = IF listening = "on" THEN notes \o news ELSE notes

Waits(row)  == [row EXCEPT !.state = "wait", !.at = 0, !.token = NoToken, !.live = FALSE]

Ends(row, target) == [row EXCEPT !.state = target, !.token = NoToken, !.live = FALSE]
Holds(j, t) == job[j].state = "active" /\ job[j].token = t

Due      == {j \in Job : job[j].state = "delayed" /\ job[j].at <= now}
Promoted(table) == [j \in Job |-> IF j \in Due THEN Waits(table[j]) ELSE table[j]]

\* emq_move_to_active_v1 for token t on a table: the table it leaves, with the
\* answer.  The limiter is other workers' too, so it may hold at any time.
Claims(table, t) ==
  LET ready == {j \in Job : Promoted(table)[j].state = "wait"}
      later == {table[j].at : j \in {i \in Job \ Due : table[i].state = "delayed"}}
  IN  IF ready = {}
      THEN {[table |-> table, next |-> NoJob, delay |-> IF later = {} THEN 0 ELSE Min(later)]}
      ELSE {[table |-> [Promoted(table) EXCEPT ![j].state = "active", ![j].token = t, ![j].live = TRUE],
             next |-> j, delay |-> 0] : j \in ready}

\* Where promise t goes when its query has committed, with the answer.
Answered(t, pc, next, limit, delay) ==
  task' = [task EXCEPT ![t].pc = pc, ![t].next = next, ![t].limit = limit, ![t].delay = delay]

\* A query of promise t that claims, after what it has announced and what has
\* gone wrong already.
Claim(table, t, pc, news, mishaps) ==
  /\ \/ \E c \in Claims(table, t) :
          /\ job' = c.table
          /\ Answered(t, pc, c.next, 0, c.delay)
          /\ happened' = mishaps
     \/ /\ May("limit")
        /\ happened' = mishaps \union {"limit"}
        /\ job' = Promoted(table)
        /\ \E end \in now + 1 .. MaxTime : Answered(t, pc, NoJob, end, 0)
  /\ Announce(news \o [i \in 1 .. Cardinality(Due) |-> 0])

-----------------------------------------------------------------------------
(* The promises                                                             *)

\* Mutant of Resolve: a worker that is closing drops the job it was given.
ResolveWhileOpen(t, j) ==
  /\ task' = [task EXCEPT ![t] = [Free EXCEPT !.pc = "resolved", !.job = IF closing THEN NoJob ELSE j]]
  /\ queue' = Append(queue, t)

\* Promise t resolves to job j: AsyncFifoQueue.add's then.
Resolve(t, j) ==
  /\ task' = [task EXCEPT ![t] = [Free EXCEPT !.pc = "resolved", !.job = j]]
  /\ queue' = Append(queue, t)

\* Promise t rejects: its catch, without ignoreErrors.
Reject(t) ==
  /\ task' = [task EXCEPT ![t] = Free]
  /\ UNCHANGED queue

\* updateDelays
updateDelays(limit, delay) ==
  /\ limitUntil' = limit
  /\ blockUntil' = delay

\* wakeupJobWaiters: the parked promise resolves to a time.
Woken(at) == [t \in Token |-> IF task[t].pc = "parked"
                              THEN [task[t] EXCEPT !.pc = "woken", !.until = at]
                              ELSE task[t]]
NoWaiters == \A t \in Token : task[t].pc # "parked"

\* Mutant of LatchesMarker: a marker that finds nobody waiting is forgotten.
ForgetsMarker(at) == FALSE

\* A marker that finds nobody waiting is kept for the next waitForJob.
LatchesMarker(at) == at = 0 /\ NoWaiters

\* Mutant of EndsWait: _getNextJob leaves this.waiting when it has fetched.
KeepsWait(t) == waiting

\* _getNextJob's finally, of the fetch that waited.
EndsWait(t) == IF waiting = t THEN NoToken ELSE waiting

\* Mutant of untrackJob: only a job that is settled is taken off the map.
untrackSettled(j) ==
  trackedJobs' = IF job[j].state = "active" THEN trackedJobs ELSE [trackedJobs EXCEPT ![j] = NoToken]

untrackJob(j) == trackedJobs' = [trackedJobs EXCEPT ![j] = NoToken]

\* waitForJob, up to its first await.  The deadline of the timer is kept.
waitForJob(t) ==
  /\ waiting' = t
  /\ \/ /\ blockUntil # 0 /\ blockUntil <= now
        /\ task' = [task EXCEPT ![t] = [Free EXCEPT !.pc = "woken"]]
        /\ UNCHANGED <<pendingMarker, blockUntil, limitUntil>>
     \/ /\ blockUntil = 0 \/ blockUntil > now
        /\ updateDelays(0, 0)
        /\ pendingMarker' = FALSE
        /\ task' = [task EXCEPT ![t] = IF pendingMarker
                                       THEN [Free EXCEPT !.pc = "woken"]
                                       ELSE [Free EXCEPT !.pc = "parked", !.until = blockUntil]]
  /\ UNCHANGED <<queue, drained, fetchedSinceDrain>>

\* _getNextJob with the token t, up to its first await.
getNextJob(t) ==
  \/ /\ paused \/ closing
     /\ Resolve(t, NoJob)
     /\ UNCHANGED wakeup
  \/ /\ ~paused /\ ~closing
     /\ drained /\ limitUntil = 0 /\ waiting = NoToken
     /\ waitForJob(t)
  \/ /\ ~paused /\ ~closing
     /\ ~drained \/ limitUntil # 0 \/ waiting # NoToken
     /\ IF isRateLimited
        THEN Resolve(t, NoJob)
        ELSE task' = [task EXCEPT ![t] = [Free EXCEPT !.pc = "claim"]] /\ UNCHANGED queue
     /\ UNCHANGED wakeup

-----------------------------------------------------------------------------
(* The main loop.  take: fetch() is called; blocked: it waits for a promise. *)

\* Mutant of NextRound: the loop does not ask whether the worker closes.
NextRoundUnlessPaused ==
  loop' = IF ~paused \/ Promises' # {} THEN "gather" ELSE "stopped"

\* The condition of mainLoop's while.
NextRound ==
  loop' = IF (~closing /\ ~paused) \/ Promises' # {} THEN "gather" ELSE "stopped"

\* bootstrapNotificationMarkersFromRows
Bootstrap ==
  LET at == {job[j].at : j \in {i \in Job : job[i].state = "delayed"}}
  IN  /\ pendingMarker' = (pendingMarker \/ (\E j \in Job : job[j].state = "wait")
                                          \/ \E a \in at : a <= now)
      /\ blockUntil' = IF at # {} /\ Min(at) > now THEN Min(at) ELSE blockUntil

\* run: subscribes and probes the table the first time only, and then mainLoop
\* starts as drained.
Run ==
  /\ Idle /\ loop = "stopped" /\ ~closing /\ ~paused
  /\ IF listening # "never"
     THEN UNCHANGED <<pendingMarker, blockUntil, listening>>
     ELSE Bootstrap /\ listening' = "on"
  /\ drained' = TRUE /\ fetchedSinceDrain' = FALSE
  /\ loop' = "gather"
  /\ UNCHANGED <<db, notes, life, limitUntil, waiting, trackedJobs, awaited, fifo, happened>>

HasRoom ==
  ~closing /\ ~paused /\ waiting = NoToken /\ numTotal < Concurrency /\ ~isRateLimited

\* The inner loop, up to the await of the fetch.
Gather ==
  /\ loop = "gather" /\ HasRoom
  /\ LET t == FreshToken IN
       /\ getNextJob(t)
       /\ IF waiting' # NoToken /\ numTotal > 0
          THEN loop' = "take" /\ UNCHANGED awaited
          ELSE loop' = "await" /\ awaited' = t
  /\ UNCHANGED <<db, wire, life, trackedJobs, happened>>

GatherNoMore ==
  /\ loop = "gather" /\ ~HasRoom
  /\ loop' = "take"
  /\ UNCHANGED <<db, wire, life, wakeup, trackedJobs, awaited, fifo, happened>>

\* The awaited fetch has resolved.
Await ==
  /\ loop = "await" /\ task[awaited].pc = "resolved"
  /\ loop' = IF (task[awaited].job = NoJob /\ numTotal > 1) \/ blockUntil # 0
             THEN "take" ELSE "gather"
  /\ awaited' = NoToken
  /\ UNCHANGED <<db, wire, life, wakeup, trackedJobs, fifo, happened>>

\* No job came out of the queue and none is left in it: waitForRateLimit.
RestOrGoOn ==
  IF isRateLimited THEN loop' = "limited" ELSE NextRound

\* fetch returns the next result; a job among them is processed, with the
\* token it was claimed with, as a promise in its place.  Its lock is tracked,
\* unless the lock manager has an abort controller for the job's id already: a
\* processor that accepts a signal has one in every entry.
Take ==
  /\ loop \in {"take", "blocked"} /\ queue # <<>>
  /\ LET t == Head(queue)
         j == task[t].job
     IN  /\ queue' = Tail(queue)
         /\ IF j = NoJob
            THEN /\ task' = [task EXCEPT ![t] = Free]
                 /\ UNCHANGED trackedJobs
                 /\ IF queue' = <<>> THEN RestOrGoOn ELSE loop' = "take"
            ELSE /\ task' = [task EXCEPT ![t] = [Free EXCEPT !.pc = "busy", !.job = j]]
                 /\ \/ trackedJobs' = [trackedJobs EXCEPT ![j] = t]
                    \/ trackedJobs[j] # NoToken /\ UNCHANGED trackedJobs
                 /\ NextRound
  /\ UNCHANGED <<db, wire, life, wakeup, awaited, happened>>

TakeNone ==
  /\ loop = "take" /\ queue = <<>>
  /\ UNCHANGED <<task, queue>>
  /\ IF Pending = {} THEN RestOrGoOn ELSE loop' = "blocked"
  /\ UNCHANGED <<db, wire, life, wakeup, trackedJobs, awaited, happened>>

\* The sleep of waitForWorkerRateLimit ends: by its timer, which
\* maximumRateLimitDelay may shorten, or aborted by a delayed job or close.
LimitPasses ==
  /\ Idle /\ loop = "limited"
  /\ drained' = FALSE /\ limitUntil' = 0
  /\ UNCHANGED <<db, wire, life, fetchedSinceDrain, pendingMarker, blockUntil, waiting,
                 trackedJobs, awaited, fifo, happened>>
  /\ NextRound

-----------------------------------------------------------------------------
(* Fetching                                                                 *)

\* The block timeout of waitForJob; ten seconds at most, so it may be early.
BlockTimeout(t) ==
  /\ Idle /\ task[t].pc = "parked"
  /\ task' = [task EXCEPT ![t].pc = "woken", ![t].until = 0]
  /\ UNCHANGED <<db, wire, life, wakeup, trackedJobs, main, queue, happened>>

\* _getNextJob after its wait: claims now, or gives up until blockUntil.
AfterWait(t) ==
  /\ task[t].pc = "woken"
  /\ blockUntil' = task[t].until
  /\ IF task[t].until <= now
     THEN task' = [task EXCEPT ![t].pc = "claim"] /\ UNCHANGED <<queue, waiting>>
     ELSE Resolve(t, NoJob) /\ waiting' = EndsWait(t)
  /\ UNCHANGED <<db, wire, life, drained, fetchedSinceDrain, pendingMarker, limitUntil,
                 trackedJobs, main, happened>>

\* moveToActive's query, of a fetch or of a failure handler.
MoveToActive(t) ==
  /\ Idle /\ task[t].pc \in {"claim", "reclaim"}
  /\ Claim(job, t, IF task[t].pc = "claim" THEN "claimed" ELSE "reclaimed", <<>>, happened)
  /\ UNCHANGED <<now, listening, life, wakeup, trackedJobs, main, queue>>

\* nextJobFromJobData
nextJob(t, latches) ==
  IF task[t].next # NoJob
  THEN drained' = FALSE /\ fetchedSinceDrain' = TRUE /\ UNCHANGED pendingMarker
  ELSE /\ drained' = TRUE
       /\ fetchedSinceDrain' = (fetchedSinceDrain /\ drained)
       /\ pendingMarker' = (pendingMarker \/ (latches /\ ~drained /\ fetchedSinceDrain))

\* Its answer, in the fetch: only here is a lock tracked before it is processed.
Fetched(t) ==
  /\ Idle /\ task[t].pc = "claimed"
  /\ updateDelays(task[t].limit, task[t].delay)
  /\ nextJob(t, TRUE)
  /\ waiting' = EndsWait(t)
  /\ trackedJobs' = IF task[t].next = NoJob THEN trackedJobs
                    ELSE [trackedJobs EXCEPT ![task[t].next] = t]
  /\ Resolve(t, task[t].next)
  /\ UNCHANGED <<db, wire, life, main, happened>>

-----------------------------------------------------------------------------
(* Processing                                                               *)

\* The processor returns or throws; or it has put its job back itself, to wait
\* or to be delayed, and throws the error that says so.
Returns(t) ==
  /\ Idle /\ task[t].pc = "busy"
  /\ \E pc \in {"complete", "fail"} : task' = [task EXCEPT ![t].pc = pc]
  /\ UNCHANGED <<db, wire, life, wakeup, trackedJobs, main, queue, happened>>

PutsBack(t) ==
  /\ Idle /\ task[t].pc = "busy" /\ Once("moved")
  /\ LET j == task[t].job IN
       /\ Holds(j, t) /\ job[j].live
       /\ \/ /\ job' = [job EXCEPT ![j] = Waits(@)]
             /\ Announce(<<0>>)
          \/ \E at \in now + 1 .. MaxTime :
               /\ job' = [job EXCEPT ![j] = [Ends(@, "delayed") EXCEPT !.at = at]]
               /\ Announce(<<at>>)
  /\ task' = [task EXCEPT ![t].pc = "reclaim"]
  /\ UNCHANGED <<now, listening, life, wakeup, trackedJobs, main, queue>>

\* handleCompleted and handleFailed ask for the next job too.
FetchesNext == numTotal <= Concurrency /\ ~closing /\ ~paused

\* emq_move_to_finished_v1: repeated, it says yes and fetches nothing.  An
\* acknowledgement that is refused throws: the completion's error is handled as
\* a failure, the failure's leaves the promise rejected.
MoveToFinished(t) ==
  LET j == task[t].job
      target == IF task[t].pc = "complete" THEN "completed" ELSE "failed"
  IN  /\ Idle /\ task[t].pc \in {"complete", "fail"}
      /\ \/ /\ job[j].state = target
            /\ Answered(t, target, NoJob, 0, 0)
            /\ UNCHANGED <<job, notes, trackedJobs, happened, queue>>
         \/ /\ Holds(j, t) /\ job[j].live
            /\ IF FetchesNext
               THEN Claim([job EXCEPT ![j] = Ends(@, target)], t, target, <<>>, happened)
               ELSE /\ job' = [job EXCEPT ![j] = Ends(@, target)]
                    /\ Answered(t, target, NoJob, 0, 0)
                    /\ UNCHANGED <<notes, happened>>
            /\ UNCHANGED <<trackedJobs, queue>>
         \/ /\ job[j].state # target /\ ~(Holds(j, t) /\ job[j].live)
            /\ IF target = "completed"
               THEN task' = [task EXCEPT ![t].pc = "fail"] /\ UNCHANGED <<queue, trackedJobs>>
               ELSE Reject(t) /\ untrackJob(j)
            /\ UNCHANGED <<job, notes, happened>>
      /\ UNCHANGED <<now, listening, life, wakeup, main>>

\* handleFailed while attempts are left: emq_retry_job_v1, which promotes due jobs
\* and does not ask whether the lease is live, or emq_move_to_delayed_v1 with a backoff, which
\* does; or the processor threw RATE_LIMIT_ERROR, and the answer of
\* emq_move_job_from_active_to_wait_v1 is the limiter's time.
PutBack(t) ==
  LET j == task[t].job
  IN  /\ Idle /\ task[t].pc = "fail" /\ Holds(j, t)
      /\ \/ /\ Once("retry")
            /\ job' = [Promoted(job) EXCEPT ![j] = Waits(@)]
            /\ Announce([i \in 1 .. Cardinality(Due) |-> 0] \o <<0>>)
            /\ Answered(t, "retried", NoJob, 0, 0)
         \/ /\ Once("back")
            /\ job' = [job EXCEPT ![j] = Waits(@)]
            /\ Announce(<<0>>)
            /\ \E end \in {0} \union (now + 1 .. MaxTime) : Answered(t, "limited", NoJob, end, 0)
         \/ /\ job[j].live /\ May("retry")
            /\ \E at \in now + 1 .. MaxTime :
                 LET table == [job EXCEPT ![j] = [Ends(@, "delayed") EXCEPT !.at = at]]
                 IN  IF FetchesNext
                     THEN Claim(table, t, "failed", <<at>>, happened \union {"retry"})
                     ELSE /\ job' = table
                          /\ Announce(<<at>>)
                          /\ Answered(t, "failed", NoJob, 0, 0)
                          /\ Once("retry")
      /\ UNCHANGED <<now, listening, life, wakeup, trackedJobs, main, queue>>

\* The answer, and processJob's end: the job's entry is removed by its id.
Processed(t) ==
  /\ Idle
  /\ \/ /\ task[t].pc \in {"completed", "failed", "reclaimed"}
        /\ updateDelays(task[t].limit, task[t].delay)
        /\ nextJob(t, task[t].pc = "reclaimed")
     \/ /\ task[t].pc = "retried"
        /\ UNCHANGED <<drained, fetchedSinceDrain, pendingMarker, limitUntil, blockUntil>>
     \/ /\ task[t].pc = "limited"
        /\ limitUntil' = task[t].limit
        /\ UNCHANGED <<drained, fetchedSinceDrain, pendingMarker, blockUntil>>
  /\ untrackJob(task[t].job)
  /\ Resolve(t, task[t].next)
  /\ UNCHANGED <<db, wire, life, waiting, main, happened>>

\* A query has committed but the connection fails before its answer: what
\* retryIfFailed repeats.  A repeated fetch starts at the top of _getNextJob.
Before == [claimed |-> "again", reclaimed |-> "reclaim", completed |-> "complete",
           failed |-> "fail", retried |-> "fail", limited |-> "fail"]

AnswerIsLost(t) ==
  /\ Idle /\ task[t].pc \in DOMAIN Before /\ Once("reply")
  /\ task' = [task EXCEPT ![t].pc = Before[@], ![t].next = NoJob, ![t].limit = 0, ![t].delay = 0]
  /\ waiting' = EndsWait(t)
  /\ UNCHANGED <<db, wire, life, drained, fetchedSinceDrain, pendingMarker, blockUntil,
                 limitUntil, trackedJobs, main, queue>>

FetchAgain(t) ==
  /\ Idle /\ task[t].pc = "again"
  /\ getNextJob(t)
  /\ UNCHANGED <<db, wire, life, trackedJobs, main, happened>>

-----------------------------------------------------------------------------
(* Notifications                                                            *)

\* onQueueMarkerNotify and onQueueDelayedNotify.  A delayed job may also cut the
\* sleep of the rate limit short: LimitPasses.  One read of the socket may bring
\* several of them, before the fetch that the first woke goes on.
Notified ==
  /\ Idle \/ \E t \in Token : Woke(t)
  /\ listening = "on" /\ notes # <<>>
  /\ LET at == Head(notes)
         v  == IF at # 0 /\ blockUntil # 0 /\ at > blockUntil THEN blockUntil ELSE at
     IN  /\ task' = Woken(v)
         /\ pendingMarker' = (pendingMarker \/ LatchesMarker(at))
         /\ blockUntil' = IF at # 0 /\ NoWaiters /\ (blockUntil = 0 \/ at < blockUntil)
                          THEN at ELSE blockUntil
  /\ notes' = Tail(notes)
  /\ UNCHANGED <<db, listening, life, drained, fetchedSinceDrain, limitUntil, waiting,
                 trackedJobs, main, queue, happened>>

\* The listener's connection is lost, with what was on its way; PgConnection
\* opens another and LISTENs again.
Disconnect == notes' = <<>> /\ listening' = "lost"

ListenerIsLost ==
  /\ Idle /\ listening = "on" /\ Once("listener")
  /\ Disconnect
  /\ UNCHANGED <<db, life, wakeup, trackedJobs, main, fifo>>

Reconnect ==
  /\ Idle /\ listening = "lost" /\ ~closing
  /\ listening' = "on"
  /\ UNCHANGED <<db, notes, life, wakeup, trackedJobs, main, fifo, happened>>

-----------------------------------------------------------------------------
(* pause, resume, close                                                     *)

\* pause and close wake a parked fetch; unless pause is told not to wait for the
\* active jobs, a fetch in its wait has the listener's connection cut as well.
Interrupt(waits) ==
  /\ task' = Woken(0)
  /\ IF waits /\ waiting # NoToken /\ listening = "on" THEN Disconnect ELSE UNCHANGED wire

Pause ==
  /\ Idle /\ ~paused /\ ~closing /\ loop # "stopped" /\ Once("pause")
  /\ paused' = TRUE
  /\ \E doNotWaitActive \in BOOLEAN : Interrupt(~doNotWaitActive)
  /\ UNCHANGED <<db, closing, closed, wakeup, trackedJobs, main, queue>>

\* A worker whose loop has ended runs again: Run.
Resume ==
  /\ Idle /\ paused
  /\ paused' = FALSE
  /\ UNCHANGED <<db, wire, closing, closed, wakeup, trackedJobs, main, fifo, happened>>

Close ==
  /\ Idle /\ ~closing
  /\ closing' = TRUE
  /\ Interrupt(TRUE)
  /\ UNCHANGED <<db, paused, closed, wakeup, trackedJobs, main, queue, happened>>

\* Its cleanups, once mainLoop has ended.
Closed ==
  /\ Idle /\ closing /\ ~closed /\ loop = "stopped"
  /\ closed' = TRUE
  /\ notes' = <<>> /\ listening' = "never"
  /\ trackedJobs' = [j \in Job |-> NoToken]
  /\ UNCHANGED <<db, closing, paused, wakeup, main, fifo, happened>>

-----------------------------------------------------------------------------
(* Locks, and everybody else                                                *)

\* extendLocks of the tracked jobs.  A job that is refused has its processor's
\* signal aborted: it may throw.
ExtendLocks ==
  LET kept == {j \in Job : trackedJobs[j] # NoToken /\ Holds(j, trackedJobs[j])}
  IN  /\ Idle
      /\ \E j \in kept : ~job[j].live
      /\ job' = [j \in Job |-> IF j \in kept THEN [job[j] EXCEPT !.live = TRUE] ELSE job[j]]
      /\ UNCHANGED <<now, wire, life, wakeup, trackedJobs, main, fifo, happened>>

\* The lease of a job that no slot has and nobody renews runs out; that of one
\* that the worker has only by a mishap: its renewals were late.
LeaseEnds(j) ==
  /\ Idle /\ job[j].state = "active" /\ job[j].live
  /\ ~HasJob(job[j].token, j) /\ trackedJobs[j] # job[j].token
  /\ job' = [job EXCEPT ![j].live = FALSE]
  /\ UNCHANGED <<now, wire, life, wakeup, trackedJobs, main, fifo, happened>>

LeaseIsLost(j) ==
  /\ Idle /\ job[j].state = "active" /\ job[j].live
  /\ HasJob(job[j].token, j) \/ trackedJobs[j] = job[j].token
  /\ Once("lease")
  /\ job' = [job EXCEPT ![j].live = FALSE]
  /\ UNCHANGED <<now, wire, life, wakeup, trackedJobs, main, fifo>>

\* emq_move_stalled_jobs_to_wait_v1, run by any worker.
Sweep(j) ==
  /\ Idle /\ job[j].state = "active" /\ ~job[j].live
  /\ job' = [job EXCEPT ![j] = Waits(@)]
  /\ Announce(<<0>>)
  /\ UNCHANGED <<now, listening, life, wakeup, trackedJobs, main, fifo, happened>>

\* A producer adds a job, or another worker runs one.
Add(j) ==
  /\ Idle /\ job[j].state = "none"
  /\ \/ /\ job' = [job EXCEPT ![j].state = "wait"]
        /\ Announce(<<0>>)
     \/ \E at \in now + 1 .. MaxTime :
          /\ job' = [job EXCEPT ![j].state = "delayed", ![j].at = at]
          /\ Announce(<<at>>)
  /\ UNCHANGED <<now, listening, life, wakeup, trackedJobs, main, fifo, happened>>

Elsewhere(j) ==
  /\ Idle /\ job[j].state = "wait"
  /\ job' = [job EXCEPT ![j] = Ends(@, "completed")]
  /\ UNCHANGED <<now, wire, life, wakeup, trackedJobs, main, fifo, happened>>

Tick ==
  /\ Idle /\ now < MaxTime
  /\ now' = now + 1
  /\ UNCHANGED <<job, wire, life, wakeup, trackedJobs, main, fifo, happened>>

-----------------------------------------------------------------------------
Promise(t) ==
  \/ BlockTimeout(t) \/ AfterWait(t) \/ MoveToActive(t) \/ Fetched(t) \/ FetchAgain(t)
  \/ Returns(t) \/ MoveToFinished(t) \/ Processed(t)

Next ==
  \/ Run \/ Gather \/ GatherNoMore \/ Await \/ Take \/ TakeNone \/ LimitPasses
  \/ \E t \in Token : Promise(t) \/ PutsBack(t) \/ PutBack(t) \/ AnswerIsLost(t)
  \/ Notified \/ ListenerIsLost \/ Reconnect
  \/ Pause \/ Resume \/ Close \/ Closed
  \/ ExtendLocks \/ Tick
  \/ \E j \in Job : LeaseEnds(j) \/ LeaseIsLost(j) \/ Sweep(j) \/ Add(j) \/ Elsewhere(j)

\* The event loop runs what is ready, timers fire, processors end and queries are
\* answered.  Time passes, leases nobody renews run out and a sweep runs somewhere:
\* strongly fair, because Idle is in their guards only to spare interleavings.
\* Notifications need not arrive, nothing has to go wrong, and nobody has to add,
\* pause, resume or close.
Fairness ==
  /\ WF_vars(Run \/ Gather \/ GatherNoMore \/ Await \/ Take \/ TakeNone \/ LimitPasses)
  /\ \A t \in Token : SF_vars(Promise(t))
  /\ WF_vars(Closed)
  /\ SF_vars(Tick)
  /\ SF_vars(\E j \in Job : LeaseEnds(j) \/ Sweep(j))

Spec == Init /\ [][Next]_vars /\ Fairness

-----------------------------------------------------------------------------
\* Every variable has its type; a row has a token exactly while it is active and
\* a time only while it is delayed.
TypeOK ==
  /\ job \in [Job -> [state : {"none", "wait", "delayed", "active", "completed", "failed"},
                       at : 0 .. MaxTime, token : 0 .. MaxToken, live : BOOLEAN]]
  /\ \A j \in Job : /\ job[j].token # NoToken <=> job[j].state = "active"
                    /\ job[j].live => job[j].state = "active"
  /\ now \in 1 .. MaxTime
  /\ notes \in Seq(0 .. MaxTime) /\ listening \in {"never", "on", "lost"}
  /\ {closing, paused, closed, drained, fetchedSinceDrain, pendingMarker} \subseteq BOOLEAN
  /\ {blockUntil, limitUntil} \subseteq 0 .. MaxTime
  /\ waiting \in 0 .. MaxToken /\ awaited \in 0 .. MaxToken
  /\ trackedJobs \in [Job -> 0 .. MaxToken]
  /\ loop \in {"stopped", "gather", "await", "take", "blocked", "limited"}
  /\ queue \in Seq(Token)
  /\ happened \subseteq Happens

\* No job is claimed and forgotten: while a lease is live a promise of the worker
\* has the job, in an answer on its way, among the results or with a processor.
\* A lost answer is the exception: emq_move_to_active_v1 hands out another job
\* when it is repeated, and emq_move_to_finished_v1 none at all; the first stays
\* active until the sweep.
ClaimedIsHeld ==
  "reply" \notin happened =>
    \A j \in Job : job[j].state = "active" /\ job[j].live => HasJob(job[j].token, j)

\* The lock manager renews no lease that the worker has no use for: what it
\* tracks under a token that still holds the row, that token's promise has.
\* Otherwise the job would stay active for as long as the worker lives.
RenewedIsHeld ==
  \A j \in Job : trackedJobs[j] # NoToken /\ Holds(j, trackedJobs[j]) => HasJob(trackedJobs[j], j)

\* The rows have their types and locks, and what the worker renews it has.
LocksOK == TypeOK /\ RenewedIsHeld

\* What docs/ARCHITECTURE.md says of waitForJob: it is entered when there is no work to
\* claim, and a notification ends it.  So while a fetch is parked in it and a job waits,
\* a marker that will wake it is on its way.  The answer of an acknowledgement that
\* found no job breaks this when it is late: it leaves the worker drained after another
\* slot has consumed the marker of two new jobs and claimed the first of them.
SleepIsAnnounced ==
  (\E t \in Token : task[t].pc = "parked") /\ (\E j \in Job : job[j].state = "wait")
    => 0 \in Range(notes)

\* Promise t will ask the database for a job, at once or when it is done with the one it has.
Asks(t) ==
  \/ task[t].pc = "claim"
  \/ Woke(t) /\ task[t].until <= now
  \/ task[t].job # NoJob /\ task[t].pc \in {"resolved", "busy", "complete", "fail", "reclaim"}
  \/ task[t].next # NoJob

\* No job is slept through: while a fetch is parked and a job waits, a marker that will wake it
\* is on its way, or another slot is about to ask for a job or will when it is done with its
\* own.  Five mishaps make a worker sleep until its block timeout: a lost listener, which after
\* PgConnection.reconnect does not probe the table again; a pause, which cuts the listener
\* too; a claim that is repeated after its answer was lost, as _getNextJob then waits first;
\* and a rate limit or a lost lease, for which an acknowledgement comes back without asking.
SleepIsCovered ==
  {"listener", "pause", "reply", "limit", "lease"} \intersect happened = {} =>
    ((\E t \in Token : task[t].pc = "parked") /\ (\E j \in Job : job[j].state = "wait")
     => 0 \in Range(notes) \/ \E t \in Token : Asks(t))

\* What the worker processes under a live token is in the lock manager's map
\* under that token, so that its lease is renewed.
ProcessedIsTracked ==
  \A t \in Token : task[t].pc = "busy" /\ Holds(task[t].job, t) => trackedJobs[task[t].job] = t

\* AsyncFifoQueue.fetch does not wait where no promise is left to wake it.
NeverStuck == ~(loop = "blocked" /\ Promises = {})

\* Every job is worked off in the end, whatever the marker latch, blockUntil, the
\* rate limit and a lost listener did to the worker's waits, unless the worker is
\* paused or closed or its loop is stuck.
Served ==
  \A j \in Job : job[j].state \in {"wait", "delayed", "active"} ~>
    job[j].state \in {"completed", "failed"} \/ paused \/ closing \/ ~NeverStuck

\* close() ends: the loop lets go of the jobs it has and of its waits, unless it
\* is stuck.
CloseEnds == closing ~> closed \/ ~NeverStuck
=============================================================================
