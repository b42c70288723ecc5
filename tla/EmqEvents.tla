------------------------------ MODULE EmqEvents ------------------------------
(***************************************************************************)
(* The stream of a queue's events (emq_events, emq_emit_event_v1), one      *)
(* QueueEvents that reads it, and Job.waitUntilFinished, which waits for an *)
(* event of its job.                                                       *)
(*                                                                         *)
(* An event gets its id when it is inserted and is seen when its            *)
(* transaction commits, so ids may be seen out of order.  The consumer      *)
(* polls for rows past the largest id it has had.                           *)
(***************************************************************************)
EXTENDS Naturals, FiniteSets

CONSTANTS
  Job,         \* jobs, all of them active at first
  NoJob,       \* the job of the events of none
  Watcher,     \* calls of Job.waitUntilFinished
  Froms,       \* QueueEventsOptions.lastEventId: "new" is $, "all" an id before the first
  MaxLen,      \* emq_queues.max_len_events
  Page,        \* rows a poll gets, 200 in the code
  Writers,     \* bound: transactions that have inserted an event and not ended
  MaxId,       \* bound: ids of events
  Happens,     \* what may happen but that
  MaxHappens   \* bound: how much of it in one behaviour

ASSUME EventsAssumption ==
  /\ {MaxLen, Writers, MaxId, MaxHappens} \subseteq Nat /\ Page \in Nat \ {0}
  /\ Froms \subseteq {"new", "all"} /\ NoJob \notin Job

VARIABLES
  job,       \* state of each job
  taken,     \* the last id the sequence has given
  open,      \* events inserted by transactions that have not ended
  log,       \* the committed rows
  consumer,  \* consumeEvents: where it is, its cursor, the rows it has to emit
  watch,     \* the calls of waitUntilFinished
  happened,  \* history: what has happened
  late,      \* history: ids of rows that came when the consumer was past them
  missed     \* history: jobs whose end it does not see: the row came late, was trimmed,
             \* or was not of an end: a job that is removed before it has one

vars == <<job, taken, open, log, consumer, watch, happened, late, missed>>

Ended    == {"completed", "failed", "gone"}
Larger(a, b) == IF a > b THEN a ELSE b
Newest(rows) == IF rows = {} THEN 0 ELSE CHOOSE n \in {r.id : r \in rows} : \A r \in rows : r.id <= n
NoWatch  == [at |-> "none"]
Unsettled == {"ready", "answer", "listen"}

Init ==
  /\ job = [j \in Job |-> "active"]
  /\ taken = 0 /\ open = {} /\ log = {}
  /\ \E from \in Froms :
       consumer = [at |-> "cursor", ready |-> FALSE, from |-> from, last |-> 0, rows |-> {}]
  /\ watch = [w \in Watcher |-> NoWatch]
  /\ happened = {} /\ late = {} /\ missed = {}

Once(what) == /\ what \in Happens \ happened
              /\ Cardinality(happened) < MaxHappens
              /\ happened' = happened \union {what}

-----------------------------------------------------------------------------
(* Writing events                                                          *)

Batch == Larger(2, MaxLen \div 2)

\* Mutant of Surplus: the oldest stays.
SurplusWithin(rows) ==
  IF Cardinality(rows) <= MaxLen + Batch THEN {}
  ELSE {r \in rows : r.id + MaxLen + Batch < Newest(rows)}

\* What an insert deletes of the rows it sees: those far behind the newest, once there are
\* too many.
Surplus(rows) ==
  IF Cardinality(rows) <= MaxLen + Batch THEN {}
  ELSE {r \in rows : r.id + MaxLen + Batch <= Newest(rows)}

\* emq_emit_event_v1 in a transaction, which leaves job j, if it is about one, in a state.
Emit(kind, j, after) ==
  LET row == [id |-> taken + 1, kind |-> kind, job |-> IF kind \in Ended THEN j ELSE NoJob]
  IN  /\ taken < MaxId /\ Cardinality(open) < Writers
      /\ \A t \in open : t.job = j => j = NoJob
      /\ taken' = taken + 1
      /\ open' = open \union {[row |-> row, job |-> j, after |-> after,
                               trims |-> {r.id : r \in Surplus(log \union {row})}]}
      /\ UNCHANGED <<job, log, consumer, watch, late, missed>>

\* emq_move_to_finished_v1: the row stays, or is removed at once.
Finish(j) ==
  /\ job[j] = "active" /\ UNCHANGED happened
  /\ \E kind \in {"completed", "failed"} : \E after \in {kind, "gone"} : Emit(kind, j, after)

\* drained, or an event that nobody waits for.
Other       == UNCHANGED happened /\ Emit("other", NoJob, "none")
Retry(j)    == job[j] \in {"completed", "failed"} /\ Once("retry") /\ Emit("other", j, "active")
Remove(j)   == job[j] # "gone" /\ Once("remove") /\ Emit("other", j, "gone")

\* How far the consumer has committed itself to read.
Reach == Larger(consumer.last, Newest(consumer.rows))

\* The jobs whose end goes before the consumer has it, when rows are deleted.
Unseen(rows) == {r.job : r \in {q \in rows \ consumer.rows : q.id > Reach /\ q.kind \in Ended}}

\* A row that comes when the consumer is past it.
Late(row) == consumer.at # "cursor" /\ row.id <= Reach

Commit(t) ==
  LET rows == log \union {t.row}
      ends == {t.row.kind, t.after} \intersect Ended
      old  == {r \in rows : r.id \in t.trims}
  IN  /\ open' = open \ {t}
      /\ log' = rows \ old
      /\ job' = IF t.job = NoJob THEN job ELSE [job EXCEPT ![t.job] = t.after]
      /\ watch' = [w \in Watcher |->
           IF watch[w].at \in Unsettled /\ watch[w].job = t.job
           THEN [watch[w] EXCEPT !.since = @ \union ends] ELSE watch[w]]
      /\ late' = IF Late(t.row) THEN late \union {t.row.id} ELSE late
      /\ missed' = missed \union Unseen(old)
                          \union {j \in {t.row.job} \ {NoJob} : Late(t.row)}
                          \union {j \in {t.job} : ends = {"gone"} /\ job[j] = "active"}
      /\ UNCHANGED <<taken, consumer, happened>>

\* A rollback, which leaves a gap in the ids, as an event of another queue does.
Rollback(t) ==
  /\ Once("rollback")
  /\ open' = open \ {t}
  /\ UNCHANGED <<job, taken, log, consumer, watch, late, missed>>

\* Queue.trimEvents.
TrimEvents(maxLength) ==
  LET old == {r \in log : r.id + maxLength <= Newest(log)}
  IN  /\ old # {} /\ Once("trim")
      /\ log' = log \ old
      /\ missed' = missed \union Unseen(old)
      /\ UNCHANGED <<job, taken, open, consumer, watch, late>>

-----------------------------------------------------------------------------
(* QueueEvents                                                             *)

\* consumeEvents begins: the cursor is set before it listens.
Cursor ==
  LET id == IF consumer.from = "new" THEN Newest(log) ELSE 0
  IN  /\ consumer.at = "cursor"
      /\ consumer' = [consumer EXCEPT !.at = "subscribe", !.last = id]
      /\ UNCHANGED <<job, taken, open, log, watch, happened, late, missed>>

\* It listens; waitUntilReady returns.
Subscribe ==
  /\ consumer.at = "subscribe"
  /\ consumer' = [consumer EXCEPT !.at = "poll", !.ready = TRUE]
  /\ UNCHANGED <<job, taken, open, log, watch, happened, late, missed>>

\* run rejects: an error before the loop is not retried, and waitUntilReady never returns.
RunFails ==
  /\ consumer.at \in {"cursor", "subscribe"}
  /\ consumer' = [consumer EXCEPT !.at = "ended"]
  /\ UNCHANGED <<job, taken, open, log, watch, happened, late, missed>>

Past(id) == {r \in log : r.id > id}

\* Mutant of FirstRows: the query has no order.
SomeRows(rows) == {S \in SUBSET rows : Cardinality(S) = Page \/ (Cardinality(S) < Page /\ S = rows)}

\* The first Page of rows, by id.
FirstRows(rows) ==
  {S \in SUBSET rows :
     /\ \A r \in S, q \in rows \ S : r.id < q.id
     /\ Cardinality(S) = Page \/ (Cardinality(S) < Page /\ S = rows)}

\* A failed query is done again (checkConnectionError).
Poll ==
  /\ consumer.at = "poll"
  /\ \E rows \in FirstRows(Past(consumer.last)) :
       consumer' = [consumer EXCEPT !.at = IF rows = {} THEN "wait" ELSE "emit", !.rows = rows]
  /\ UNCHANGED <<job, taken, open, log, watch, happened, late, missed>>

\* waitForEventNotification returns after blockingTimeout; a notification, which finds it
\* waiting or is lost, makes that sooner.
Wake ==
  /\ consumer.at = "wait"
  /\ consumer' = [consumer EXCEPT !.at = "poll"]
  /\ UNCHANGED <<job, taken, open, log, watch, happened, late, missed>>

\* The listeners of completed:<id> and failed:<id>; the first event settles the promise.
Heard(w, rows) ==
  {r \in rows : /\ watch[w].at \in Unsettled
                /\ r.job = watch[w].job /\ r.kind \in Ended}

Settled(outcome) == [at |-> "settled", outcome |-> outcome]

EmitRows ==
  /\ consumer.at = "emit"
  /\ consumer' = [consumer EXCEPT !.at = "poll", !.last = Newest(consumer.rows), !.rows = {}]
  /\ watch' = [w \in Watcher |->
       IF Heard(w, consumer.rows) = {} THEN watch[w]
       ELSE LET first == CHOOSE r \in Heard(w, consumer.rows) :
                           \A q \in Heard(w, consumer.rows) : r.id <= q.id
            IN  Settled(first.kind)]
  /\ UNCHANGED <<job, taken, open, log, happened, late, missed>>

\* close wakes the loop, which ends; what a poll is to answer may not come any more.
Close ==
  /\ consumer.at \in {"poll", "wait", "emit"}
  /\ consumer' = [consumer EXCEPT !.at = "ended", !.rows = {}]
  /\ UNCHANGED <<job, taken, open, log, watch, happened, late, missed>>

-----------------------------------------------------------------------------
(* Job.waitUntilFinished                                                   *)

\* What the consumer has still to emit of a job's ends.
Ahead(j) == {r.kind : r \in {q \in Past(consumer.last) \union consumer.rows : q.job = j}}

\* The listeners are registered before it waits for the consumer to be ready.  since is
\* history: the ends there have been, of which an old one may still be on the way.
WaitUntilFinished(w, j) ==
  /\ watch[w] = NoWatch
  /\ watch' = [watch EXCEPT ![w] = [at |-> "ready", job |-> j, status |-> "none",
                                    since |-> ({job[j]} \intersect Ended) \union Ahead(j)]]
  /\ UNCHANGED <<job, taken, open, log, consumer, happened, late, missed>>

\* Mutant of IsFinished: it asks without waiting for the consumer.
IsFinishedAtOnce(w) ==
  /\ watch[w].at = "ready"
  /\ watch' = [watch EXCEPT ![w].at = "answer", ![w].status = job[watch[w].job]]
  /\ UNCHANGED <<job, taken, open, log, consumer, happened, late, missed>>

\* emq_is_finished_v1 looks at the row.
IsFinished(w) ==
  /\ watch[w].at = "ready" /\ consumer.ready
  /\ watch' = [watch EXCEPT ![w].at = "answer", ![w].status = job[watch[w].job]]
  /\ UNCHANGED <<job, taken, open, log, consumer, happened, late, missed>>

\* Mutant of Answer: a row that is gone had been completed.
AnswerGone(w) ==
  /\ watch[w].at = "answer"
  /\ watch' = [watch EXCEPT ![w] =
       IF @.status = "gone" THEN Settled("completed")
       ELSE IF @.status \in Ended THEN Settled(@.status) ELSE [@ EXCEPT !.at = "listen"]]
  /\ UNCHANGED <<job, taken, open, log, consumer, happened, late, missed>>

\* The answer settles the promise, as a rejection when the row is gone, unless an event has.
Answer(w) ==
  /\ watch[w].at = "answer"
  /\ watch' = [watch EXCEPT ![w] =
       IF @.status \in Ended THEN Settled(@.status) ELSE [@ EXCEPT !.at = "listen"]]
  /\ UNCHANGED <<job, taken, open, log, consumer, happened, late, missed>>

\* The ttl is over, or the job's queue is a worker that closes.
Expire(w) ==
  /\ watch[w].at \in Unsettled /\ UNCHANGED happened
  /\ watch' = [watch EXCEPT ![w] = Settled("expired")]
  /\ UNCHANGED <<job, taken, open, log, consumer, late, missed>>

-----------------------------------------------------------------------------
Write == \/ \E j \in Job : Finish(j) \/ Retry(j) \/ Remove(j)
         \/ Other
         \/ \E t \in open : Commit(t) \/ Rollback(t)
         \/ \E n \in {0, MaxLen} : TrimEvents(n)

Consume == Cursor \/ Subscribe \/ Poll \/ Wake \/ EmitRows

Next == \/ Write \/ Consume \/ RunFails \/ Close
        \/ \E w \in Watcher : \/ \E j \in Job : WaitUntilFinished(w, j)
                              \/ IsFinished(w) \/ Answer(w) \/ Expire(w)

Spec == Init /\ [][Next]_vars

\* A transaction ends, the consumer's loop runs, and a question is answered.
FairSpec ==
  /\ Spec
  /\ WF_vars(\E t \in open : Commit(t)) /\ WF_vars(Consume)
  /\ \A w \in Watcher : WF_vars(IsFinished(w) \/ Answer(w))

-----------------------------------------------------------------------------
(* Properties                                                              *)

Row == [id : 1 .. MaxId, kind : {"completed", "failed", "other"}, job : Job \union {NoJob}]

\* The variables have the values the rows and the code's locals can have.
TypeOK ==
  /\ job \in [Job -> {"active"} \union Ended]
  /\ taken \in 0 .. MaxId
  /\ open \subseteq [row : Row, job : Job \union {NoJob}, after : {"active", "none"} \union Ended,
                 trims : SUBSET (1 .. MaxId)]
  /\ log \subseteq Row /\ missed \subseteq Job /\ late \subseteq 1 .. MaxId
  /\ consumer \in [at : {"cursor", "subscribe", "poll", "wait", "emit", "ended"}, ready : BOOLEAN,
                   from : Froms, last : 0 .. MaxId, rows : {consumer.rows}]
  /\ consumer.rows \subseteq Row
  /\ watch \in [Watcher ->
       {NoWatch} \union
         [at : Unsettled, job : Job, status : {"none", "active"} \union Ended, since : SUBSET Ended]
         \union [at : {"settled"}, outcome : {"expired"} \union Ended]]
  /\ happened \subseteq Happens

\* 00_helpers.sql:36-57: however many write at once, the stream has no more rows than the length asked
\* for and a batch, and one for each writer the others do not see.
Bounded == Cardinality(log) < MaxLen + Batch + Writers

\* The stream's rows have their types, and are no more than that.
StreamOK == TypeOK /\ Bounded

\* queue-events.ts:475-507: the cursor passes no row that was there to be read, page after page and
\* whatever is written between them.
NoneSkipped ==
  [][consumer.at = "emit" =>
       \A r \in log : r.id \in consumer.last + 1 .. consumer'.last => r \in consumer.rows \/ r.id \in late]_vars

\* job.ts:1284-1326: what a call of waitUntilFinished answers was true of its job at some time since
\* the call, whichever of event and question comes first; but an older event, which a consumer
\* that is behind had still to emit, answers it as well.
AnswersHold ==
  [][\A w \in Watcher :
       watch[w].at \in Unsettled /\ watch'[w].at = "settled" =>
         watch'[w].outcome \in watch[w].since \union {"expired"}]_vars

\* job.ts:1310-1313: "there's no chance that it will miss events": a call for a job that has ended is
\* answered, unless its event is missed or the consumer is closed.
Settles ==
  \A w \in Watcher, j \in Job :
    (watch[w].at \in Unsettled /\ watch[w].job = j /\ job[j] \in Ended) ~>
      watch[w].at = "settled" \/ consumer.at = "ended" \/ job[j] = "active" \/ j \in missed

=============================================================================
