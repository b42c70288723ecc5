---------------------------- MODULE EmqScheduler ----------------------------
(***************************************************************************)
(* Job schedulers (job-scheduler.ts; 020, 410, 490): one scheduler, whose   *)
(* row says when its next iteration is, and the iterations, jobs with the   *)
(* id repeat:<scheduler>:<millis>.  The worker that has claimed an          *)
(* iteration makes the next one before it processes it: it reads the row,   *)
(* advances it, and adds the job, in three transactions.  The procedures    *)
(* take no lock beforehand: other transactions run between their statements. *)
(*                                                                         *)
(* Times are ticks.  A job is named by its time.                            *)
(***************************************************************************)
EXTENDS Naturals, FiniteSets

CONSTANTS
  Worker,      \* slots of workers, numbers: the least idle one claims, as they are alike
  Caller,      \* who may have a call of Queue.upsertJobScheduler under way, likewise
  Everys,      \* the intervals users ask for; 0 is a cron pattern
  Period,      \* the times of the pattern are the multiples of it
  Limit,       \* repeat.limit, 0 for none
  MaxTime,     \* bound of the clock
  MaxSlot,     \* bound: times of iterations
  MaxEvents,   \* bound: upserts and happenings in one behaviour, one fewer with each tick
  Happens,     \* what may happen but that
  MaxHappens   \* bound: how many happenings

ASSUME EverysAssumption == Worker \cup Caller \subseteq Nat /\ Everys \subseteq Nat /\ Period \in Nat \ {0}
ASSUME ClockAssumption  == {Limit, MaxSlot, MaxEvents, MaxHappens} \subseteq Nat /\ MaxTime \in Nat \ {0}

VARIABLES
  now,       \* the clock
  row,       \* the row of emq_job_schedulers
  job,       \* emq_jobs, by the time in the id
  worker,    \* what each worker slot does with the iteration it has claimed
  upsert,    \* what each caller's transaction has come to: found is where it found the row,
             \* gone the iterations it has deleted
  upserts,   \* how many upserts were called
  happened,  \* history: what has happened
  missed,    \* history: what has kept the next iteration from being made, since the last upsert
  astray     \* history: iterations the row had left when they were added or put back, or had been
             \* looked for by a caller that takes it away; and those it was taken from by who had
             \* found it elsewhere, or by a job with another id than its prevMillis

schedulerVars == <<now, row, job, worker, upsert, upserts, happened, missed, astray>>

Larger(a, b) == IF a > b THEN a ELSE b
Slot     == 1 .. MaxSlot
NoRow    == [next |-> 0]
Nothing  == [at |-> "none", slot |-> 0]
NoCall   == [at |-> "none", gone |-> {}]
NoJob    == [state |-> "none", by |-> {}]
Pending  == {"delayed", "wait"}

SchedulerInit ==
  /\ now = 1
  /\ row = NoRow /\ job = [s \in Slot |-> NoJob]
  /\ worker = [w \in Worker |-> Nothing]
  /\ upsert = [c \in Caller |-> NoCall] /\ upserts = 0
  /\ happened = {} /\ missed = {} /\ astray = {}

Exists(s) == s \in Slot /\ job[s].state # "none"

\* The job of an iteration, with what its opts say of it: prev is opts.prevMillis, turns
\* counts the advances made for it.
Iteration(opts, due) ==
  [state |-> "delayed", by |-> {}, due |-> due, turns |-> 0, prev |-> opts.prev,
   every |-> opts.every, offset |-> opts.offset, count |-> opts.count]

Bounded == upserts + Cardinality(happened) + now <= MaxEvents

Once(what) == /\ Bounded /\ what \in Happens \ happened
              /\ Cardinality(happened) < MaxHappens
              /\ happened' = happened \union {what}

-----------------------------------------------------------------------------
(* JobScheduler.upsertJobScheduler: when the next iteration is              *)

\* defaultRepeatStrategy: the first time of the pattern after t.
Cron(t) == (t \div Period + 1) * Period

\* The row is used only if it is for the same interval.
Known(every) == row # NoRow /\ (row.every = 0 \/ row.every = every)

\* A user's upsert keeps the time there is.
UsersNext(every) ==
  IF every = 0 THEN Cron(now) ELSE IF Known(every) THEN row.next ELSE now

\* A worker's upsert goes one interval on, and catches up when that is over already.
WorkersNext(every, offset, t) ==
  IF every = 0 THEN Cron(t)
  ELSE IF ~Known(every) THEN t
  ELSE IF row.next + every < t THEN (t \div every) * every + every + offset
  ELSE row.next + every

\* The offset that is stored: one that is known, unless it is 0, or that of next.
Offset(every, known, next) ==
  IF every = 0 THEN 0 ELSE IF known # 0 THEN known ELSE next % every

StoredOffset == IF row = NoRow THEN 0 ELSE row.offset

-----------------------------------------------------------------------------
(* Queue.upsertJobScheduler                                                 *)

\* One of the callers has deleted the iteration and not committed: it still exists for the
\* others, who skip it or wait for the row.
Deleting(callers, s) == \E c \in callers : s \in upsert[c].gone

\* One of them has looked for the iteration where it found the row, and is to move the row.
Passed(callers, s) ==
  \E c \in callers : upsert[c].at \in {"id", "slot", "write"} /\ upsert[c].found = s

\* A caller's iteration that is pending now will not be replaced.
Strays(s) == row.next # s \/ Passed(Caller, s)

Without(set) == [s \in Slot |-> IF s \in set THEN NoJob ELSE job[s]]

Idles(c) == upsert[c] = NoCall /\ \A d \in Caller : d < c => upsert[d] # NoCall

\* The row is read, and everything worked out.  prev becomes opts.prevMillis of the
\* job; what the procedure gets is not before now, and is when the job is due.
Upsert(c, every) ==
  /\ Idles(c) /\ Bounded
  /\ upserts' = upserts + 1
  /\ LET prev == UsersNext(every)
         next == Larger(prev, now)
     IN  upsert' = [upsert EXCEPT ![c] =
           [at |-> "find", every |-> every, prev |-> prev, next |-> next, due |-> next,
            offset |-> Offset(every, StoredOffset, prev), count |-> 1, found |-> 0, gone |-> {}]]
  /\ UNCHANGED <<now, row, job, worker, happened, missed, astray>>

\* emq_add_job_scheduler_v1, a statement at a time.
Find(c) ==
  /\ upsert[c].at = "find"
  /\ upsert' = [upsert EXCEPT ![c].at = "replace", ![c].found = row.next]
  /\ UNCHANGED <<now, row, job, worker, upserts, happened, missed, astray>>

\* Mutant of Replaced: as for 410, only while it is delayed.
ReplacedDelayed(c) == {s \in Slot : upsert[c].found = s /\ job[s].state = "delayed"}

\* The iteration where the row was found is deleted, unless a worker has it.
Replaced(c) == {s \in Slot : upsert[c].found = s /\ job[s].state \in Pending}

Replace(c) ==
  /\ upsert[c].at = "replace" /\ ~Deleting(Caller \ {c}, upsert[c].found)
  /\ upsert' = [upsert EXCEPT ![c].at = "id", ![c].gone = Replaced(c)]
  /\ UNCHANGED <<now, row, job, worker, upserts, happened, missed, astray>>

\* An id is taken, as far as the caller sees.
Taken(c, s) == Exists(s) /\ s \notin upsert[c].gone

\* When its id is taken an iteration goes one interval on, if that one is free; one of a pattern
\* stays if it has replaced one.
TestId(c) ==
  LET u == upsert[c]
  IN  /\ u.at = "id" /\ (Taken(c, u.next) => u.every # 0 \/ u.gone # {})
      /\ upsert' = [upsert EXCEPT ![c].at =
                      IF Taken(c, u.next) /\ u.every # 0 THEN "slot" ELSE "write"]
      /\ UNCHANGED <<now, row, job, worker, upserts, happened, missed, astray>>

TestSlot(c) ==
  LET u == upsert[c]
  IN  /\ u.at = "slot" /\ ~Taken(c, u.next + u.every)
      /\ upsert' = [upsert EXCEPT ![c].at = "write", ![c].next = u.next + u.every]
      /\ UNCHANGED <<now, row, job, worker, upserts, happened, missed, astray>>

\* When no id is free (-10, -11) what was deleted stays deleted.
AddRefused(c) ==
  LET u == upsert[c]
  IN  /\ \/ u.at = "id" /\ Taken(c, u.next) /\ u.every = 0 /\ u.gone = {}
         \/ u.at = "slot" /\ Taken(c, u.next + u.every)
      /\ job' = Without(u.gone)
      /\ missed' = missed \union {what \in {"refused"} : row.next \in u.gone}
      /\ upsert' = [upsert EXCEPT ![c] = NoCall]
      /\ UNCHANGED <<now, row, worker, upserts, happened, astray>>

\* The row is written whatever became of it, the job is added unless there is one, and the
\* transaction commits.
AddJobScheduler(c) ==
  LET u     == upsert[c]
      next  == u.next
      left  == Without(u.gone)
      taken == Taken(c, next)
      moved == {s \in Slot \ {u.found, next} : s = row.next}
  IN  /\ u.at = "write" /\ next \in Slot /\ ~Deleting(Caller \ {c}, next)
      /\ row' = [next |-> next, every |-> u.every, offset |-> u.offset]
      /\ job' = IF taken THEN [left EXCEPT ![next].turns = 0]
                ELSE [left EXCEPT ![next] = Iteration(u, u.due)]
      /\ missed' = {what \in {"renamed"} : u.prev # next} \union {what \in {"taken"} : taken}
      /\ astray' = moved \union (IF Passed(Caller \ {c}, next) THEN astray \union {next}
                                ELSE IF taken THEN astray ELSE astray \ {next})
      /\ upsert' = [upsert EXCEPT ![c] = NoCall]
      /\ UNCHANGED <<now, worker, upserts, happened>>

\* emq_remove_job_scheduler_v1: the row is read,
BeginRemove(c) ==
  /\ Idles(c) /\ row # NoRow /\ Once("remove")
  /\ upsert' = [upsert EXCEPT ![c] = [at |-> "remove", found |-> row.next, gone |-> {}]]
  /\ UNCHANGED <<now, row, job, worker, upserts, missed, astray>>

\* and deleted, with the iteration where it was if that is delayed.
RemoveJobScheduler(c) ==
  LET gone == {s \in Slot : s = upsert[c].found /\ job[s].state = "delayed"}
  IN  /\ upsert[c].at = "remove" /\ ~Deleting(Caller, upsert[c].found)
      /\ row' = NoRow
      /\ job' = Without(gone)
      /\ astray' = astray \union {s \in Slot \ gone : s = row.next}
      /\ missed' = {}
      /\ upsert' = [upsert EXCEPT ![c] = NoCall]
      /\ UNCHANGED <<now, worker, upserts, happened>>

\* A query of the call fails, a deadlock of two callers' ends one of them, or the caller is
\* lost: what it has done is undone.
CallFails(c) ==
  /\ upsert[c] # NoCall
  /\ upsert' = [upsert EXCEPT ![c] = NoCall]
  /\ UNCHANGED <<now, row, job, worker, upserts, happened, missed, astray>>

-----------------------------------------------------------------------------
(* Worker.nextJobFromJobData: the next iteration is made before this one is *)
(* processed                                                                *)

Due(s) == job[s].state = "wait" \/ (job[s].state = "delayed" /\ job[s].due <= now)

\* emq_move_to_active_v1.
Claim(w, s) ==
  /\ worker[w] = Nothing /\ \A v \in Worker : v < w => worker[v] # Nothing
  /\ Due(s) /\ ~Deleting(Caller, s)
  /\ job' = [job EXCEPT ![s].state = "active", ![s].by = {w}, ![s].due = 0]
  /\ worker' = [worker EXCEPT ![w] = [at |-> "read", slot |-> s, opts |-> job[s]]]
  /\ UNCHANGED <<now, row, upsert, upserts, happened, missed, astray>>

Running(s) == [at |-> "run", slot |-> s]
Over(o) == Limit # 0 /\ o.count + 1 > Limit

\* The row is read, unless the limit has been reached.
Read(w) ==
  LET o    == worker[w].opts
      t    == Larger(o.prev, now)
      next == WorkersNext(o.every, o.offset, t)
      known == IF o.offset # 0 THEN o.offset ELSE StoredOffset
  IN  /\ worker[w].at = "read"
      /\ worker' = [worker EXCEPT ![w] =
           IF Over(o) THEN Running(@.slot)
           ELSE [at |-> "update", slot |-> @.slot, opts |-> o, free |-> FALSE,
                 made |-> [prev |-> next, every |-> o.every, count |-> o.count + 1,
                           offset |-> Offset(o.every, known, next)]]]
      /\ missed' = missed \union {what \in {"limit"} : Over(o) /\ row.next = o.prev}
      /\ UNCHANGED <<now, row, job, upsert, upserts, happened, astray>>

\* emq_update_job_scheduler_v1, a statement at a time: the row is still at the producer's
\* iteration,
Advances(w) == row # NoRow /\ worker[w].opts.prev = row.next

UpdateJobScheduler(w) ==
  /\ worker[w].at = "update" /\ worker[w].made.prev \in Slot
  /\ worker' = [worker EXCEPT ![w] =
       IF Advances(w) THEN [@ EXCEPT !.at = "look"] ELSE Running(@.slot)]
  /\ UNCHANGED <<now, row, job, upsert, upserts, happened, missed, astray>>

\* Mutant of IsFree: whatever has the next id.
IsFreeAlways(w) == TRUE

\* the next id is not taken (the field free, a history, keeps that it was not),
IsFree(w) == ~Exists(worker[w].made.prev)

Look(w) ==
  /\ worker[w].at = "look"
  /\ worker' = [worker EXCEPT ![w] =
       IF IsFree(w) THEN [@ EXCEPT !.at = "write", !.free = ~Exists(worker[w].made.prev)]
       ELSE Running(@.slot)]
  /\ missed' = missed \union {what \in {"duplicated"} : ~IsFree(w) /\ Advances(w)}
  /\ UNCHANGED <<now, row, job, upsert, upserts, happened, astray>>

\* and the row is written wherever it is now, if it is there; it may come to an id that was
\* taken meanwhile.
Write(w) ==
  LET next == worker[w].made.prev
      slot == worker[w].slot
  IN  /\ worker[w].at = "write"
      /\ IF row # NoRow
         THEN /\ row' = [row EXCEPT !.next = next]
              /\ job' = IF Exists(slot) THEN [job EXCEPT ![slot].turns = @ + 1] ELSE job
              /\ worker' = [worker EXCEPT ![w].at = "create"]
              /\ astray' = astray \union {s \in Slot \ {slot, next} : s = row.next}
              /\ missed' = missed \union {what \in {"overtaken"} : worker[w].free /\ Exists(next)}
         ELSE /\ worker' = [worker EXCEPT ![w] = Running(slot)]
              /\ UNCHANGED <<row, job, astray, missed>>
      /\ UNCHANGED <<now, upsert, upserts, happened>>

\* Job.create: the row is not looked at again, and a job that exists is left alone.
Create(w) ==
  LET made == worker[w].made
      next == made.prev
  IN  /\ worker[w].at = "create" /\ ~Deleting(Caller, next)
      /\ worker' = [worker EXCEPT ![w] = Running(@.slot)]
      /\ IF Exists(next) THEN UNCHANGED <<job, astray>>
         ELSE /\ job' = [job EXCEPT ![next] = Iteration(made, next)]
              /\ astray' = IF Strays(next) THEN astray \union {next} ELSE astray \ {next}
      /\ UNCHANGED <<now, row, upsert, upserts, happened, missed>>

\* The iteration is processed and acknowledged, if it still is this worker's.
Finish(w) ==
  LET s == worker[w].slot
  IN  /\ worker[w].at = "run"
      /\ worker' = [worker EXCEPT ![w] = Nothing]
      /\ IF job[s].by = {w}
         THEN \E after \in {NoJob, [job[s] EXCEPT !.state = "finished", !.by = {}]} :
                job' = [job EXCEPT ![s] = after]
         ELSE UNCHANGED job
      /\ UNCHANGED <<now, row, upsert, upserts, happened, missed, astray>>

-----------------------------------------------------------------------------
(* What goes wrong                                                          *)

\* The chain ends when the row was advanced and its worker does not come to add the job.
ChainEnds(w) == missed' = missed \union {what \in {"lost"} : worker[w].at = "create"}

\* A query fails, or its answer is lost: retryIfFailed begins again with reading the row;
\* or the worker gives up making the next iteration, and processes this one.
QueryFails(w) ==
  /\ worker[w].at \in {"read", "update", "look", "write", "create"} /\ Once("error")
  /\ \/ /\ worker' = [worker EXCEPT ![w] = [at |-> "read", slot |-> @.slot, opts |-> @.opts]]
        /\ ChainEnds(w)
     \/ /\ worker' = [worker EXCEPT ![w] = Running(@.slot)]
        /\ missed' = missed \union {"lost"}
  /\ UNCHANGED <<now, row, job, upsert, upserts, astray>>

Crash(w) ==
  /\ worker[w] # Nothing /\ Once("crash")
  /\ worker' = [worker EXCEPT ![w] = Nothing]
  /\ ChainEnds(w)
  /\ UNCHANGED <<now, row, job, upsert, upserts, astray>>

\* Mutant of Abandoned: only an iteration that has made the next one is taken back.
AbandonedAdvanced(s) ==
  job[s].state = "active" /\ job[s].turns > 0 /\ \A w \in job[s].by : worker[w].slot # s

Abandoned(s) == \A w \in job[s].by : worker[w].slot # s

\* The sweep takes back a job whose worker is gone, or is only late.
Sweep(s) ==
  /\ job[s].state = "active"
  /\ IF Abandoned(s) THEN UNCHANGED happened ELSE Once("stall")
  /\ job' = [job EXCEPT ![s].state = "wait", ![s].by = {}]
  /\ astray' = astray \union {t \in {s} : Strays(t)}
  /\ UNCHANGED <<now, row, worker, upsert, upserts, missed>>

\* Or fails it, when it has stalled too often, its worker gone or not; the next one may not
\* have been made yet.
SweepFails(s) ==
  /\ job[s].state = "active" /\ Once("fail")
  /\ job' = [job EXCEPT ![s].state = "finished", ![s].by = {}]
  /\ missed' = missed \union {what \in {"failed"} : row.next = s}
  /\ UNCHANGED <<now, row, worker, upsert, upserts, astray>>

\* Job.retry: an iteration that is over is processed again.
Reprocess(s) ==
  /\ job[s].state = "finished" /\ Once("reprocess")
  /\ job' = [job EXCEPT ![s].state = "wait"]
  /\ astray' = astray \union {t \in {s} : Strays(t)}
  /\ UNCHANGED <<now, row, worker, upsert, upserts, missed>>

\* A tick is long beside a query: a client or worker that has read the row writes it
\* before the next, or is lost.
Tick == /\ now < MaxTime /\ now' = now + 1
        /\ \A c \in Caller : upsert[c] = NoCall
        /\ \A w \in Worker : worker[w].at \notin {"update", "look", "write", "create"}
        /\ UNCHANGED <<row, job, worker, upsert, upserts, happened, missed, astray>>

-----------------------------------------------------------------------------
Proceeds(c) ==
  \/ Find(c) \/ Replace(c) \/ TestId(c) \/ TestSlot(c) \/ AddJobScheduler(c) \/ AddRefused(c)
  \/ RemoveJobScheduler(c) \/ CallFails(c)

Advance(w) == Read(w) \/ UpdateJobScheduler(w) \/ Look(w) \/ Write(w) \/ Create(w)

SchedulerNext ==
  \/ \E c \in Caller, every \in Everys : Upsert(c, every)
  \/ \E c \in Caller : BeginRemove(c) \/ Proceeds(c)
  \/ \E w \in Worker, s \in Slot : Claim(w, s)
  \/ \E w \in Worker : Advance(w) \/ Finish(w) \/ QueryFails(w) \/ Crash(w)
  \/ \E s \in Slot : Sweep(s) \/ SweepFails(s) \/ Reprocess(s)
  \/ Tick

SchedulerSpec == SchedulerInit /\ [][SchedulerNext]_schedulerVars

\* Time passes, calls end, what is due is claimed, and a worker that lives goes on.
FairScheduler ==
  /\ SchedulerSpec
  /\ WF_schedulerVars(Tick) /\ \A c \in Caller : WF_schedulerVars(Proceeds(c))
  /\ WF_schedulerVars(\E w \in Worker, s \in Slot : Claim(w, s))
  /\ WF_schedulerVars(\E s \in Slot : Abandoned(s) /\ Sweep(s))
  /\ \A w \in Worker : WF_schedulerVars(Advance(w) \/ Finish(w))

-----------------------------------------------------------------------------
(* Properties                                                               *)

Opts     == [prev : Nat, every : Everys, offset : Nat, count : Nat]
JobType  == {NoJob} \union
            [state : {"delayed", "wait", "active", "finished"}, by : SUBSET Worker, due : Nat,
             turns : Nat, prev : Nat, every : Everys, offset : Nat, count : Nat]

\* The variables have the values the rows and the code's locals can have; only an active
\* job is a worker's.
SchedulerTypeOK ==
  /\ now \in 1 .. MaxTime
  /\ row = NoRow \/ row \in [next : Slot, every : Everys, offset : Nat]
  /\ \A s \in Slot : job[s] \in JobType /\ (job[s].by # {} => job[s].state = "active")
  /\ \A w \in Worker : /\ worker[w] # Nothing => worker[w].slot \in Slot
                       /\ worker[w].at \in {"update", "look", "write", "create"} => worker[w].made \in Opts
  /\ \A c \in Caller : upsert[c].gone \subseteq Slot
  /\ upserts \in Nat /\ happened \subseteq Happens
  /\ missed \subseteq {"renamed", "taken", "refused", "duplicated", "limit", "lost", "failed",
               "overtaken"}
  /\ astray \subseteq Slot

\* 020, 490: a scheduler has one iteration ahead.  Of those that have not been begun only the one
\* its row stands at is pending: a user's upsert replaces it, and a worker that comes late adds no
\* second.  Not counted are those of astray, for the procedures do not look at the row again when
\* they write: what was added or put back when the row had left it or was about to, what a caller
\* or 490 took the row from that had found it elsewhere, two first upserts among them, and a job to
\* which 020 gave the next id, whose prevMillis can be the time of a scheduler made anew.
OneAhead ==
  \A s \in Slot : job[s].state \in Pending /\ job[s].turns = 0 /\ s \notin astray => row.next = s

\* The rows have their types, and one iteration is ahead.
SlotsOK == SchedulerTypeOK /\ OneAhead

\* docs/ARCHITECTURE.md 7: every scheduler has its next iteration: it is pending, or a worker that has
\* yet to make the following one has it, or is about to add it; in every order of upserts, advances,
\* stalls and crashes.  missed says what the code does not recover from; one of these (overtaken) is
\* 490 taking the row to an id that was free when it looked.
NextIsMade ==
  row # NoRow /\ missed = {} =>
    \/ job[row.next].state \in Pending \union {"active"} /\ job[row.next].turns = 0
    \/ \E w \in Worker : worker[w].at = "create" /\ worker[w].made.prev = row.next

\* And it goes on: its row passes every time, unless the scheduler is removed.
GoesOn ==
  (row # NoRow) ~>
    \/ row = NoRow \/ missed # {} \/ row.next > MaxTime
    \/ job[row.next].state = "delayed" /\ job[row.next].due > MaxTime

=============================================================================
