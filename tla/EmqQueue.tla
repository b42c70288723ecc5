------------------------------ MODULE EmqQueue -----------------------------
(***************************************************************************)
(* One queue: its row of emq_queues, its counters, its limiter window, its *)
(* jobs, and the stored procedures clients and workers call on them, in    *)
(* any order and with any arguments.  A procedure runs in a transaction of *)
(* its own and is one action.  Flows (waiting-children, emq_job_deps),     *)
(* deduplication and schedulers are not here.                              *)
(***************************************************************************)
EXTENDS EmqJobs

CONSTANTS
  Bypass,       \* the token "0", which skips the lock checks
  NoJob,        \* a fetch that returns no row
  Concurrency,  \* emq_queues.concurrency
  RateMax,      \* the limiter's max; 0 when no limiter is configured
  MaxStarts,    \* bound: a job is claimed only while its counters are below it
  MinSeq,       \* bounds: sequence numbers stay within -MinSeq..MaxSeq
  MaxSeq

ASSUME BypassAssumption == Bypass \notin Token
ASSUME NoJobAssumption == NoJob \notin Job
ASSUME ConcurrencyAssumption == Concurrency \in Nat \ {0}
ASSUME RateAssumption == RateMax \in Nat
ASSUME BoundAssumption == {MaxStarts, MinSeq, MaxSeq} \subseteq Nat

VARIABLES
  job,          \* emq_jobs
  paused,       \* emq_queues.paused
  waitNum,      \* emq_queue_counters.wait_num
  prioNum,      \* emq_queue_counters.priority_num
  drained,      \* emq_queue_counters.drained: the event was emitted, and nothing since
  rate          \* emq_rate_limit_state.tokens while the window is open, else 0

vars == <<job, paused, waitNum, prioNum, drained, rate>>

Caller == Token \cup {Bypass}

Seqs == -MinSeq..MaxSeq

Init ==
  /\ job = [j \in Job |-> Absent]
  /\ paused = FALSE
  /\ waitNum = 0
  /\ prioNum = 0
  /\ drained = FALSE
  /\ rate = 0

-----------------------------------------------------------------------------
(* Adding jobs.                                                            *)

\* One row changes to r; its event clears the drained latch (emq_emit_event).
Put(j, r) ==
  /\ job' = [job EXCEPT ![j] = r]
  /\ drained' = FALSE
  /\ UNCHANGED <<paused, rate>>

AddStandard(j, lifo) ==
  /\ job[j].state = "absent"
  /\ \E p \in IF lifo THEN Front(job, In(job, {"wait", "paused"}), waitNum, AtTail(waitNum))
              ELSE AtTail(waitNum) :
       /\ {p.seq, p.num} \subseteq Seqs
       /\ Put(j, ToList(Absent, paused, p.seq))
       /\ waitNum' = p.num
  /\ UNCHANGED prioNum

AddPrioritized(j, priority) ==
  /\ job[j].state = "absent"
  /\ priority > 0
  /\ prioNum + 1 \in Seqs
  /\ Put(j, ToPrioritized(Fresh(priority), prioNum + 1))
  /\ prioNum' = prioNum + 1
  /\ UNCHANGED waitNum

AddDelayed(j, priority, at) ==
  /\ job[j].state = "absent"
  /\ Put(j, ToDelayed(Fresh(priority), at))
  /\ UNCHANGED <<waitNum, prioNum>>

\* An id that is taken: nothing is added and the event, duplicated, clears the
\* latch.  A custom id is looked up first; a generated one is found taken when
\* the row is inserted, with its place in the list or in the set used up.
AddDuplicated(j) ==
  /\ job[j].state # "absent"
  /\ \/ UNCHANGED <<waitNum, prioNum>>
     \/ waitNum' = waitNum + 1 /\ UNCHANGED prioNum
     \/ prioNum' = prioNum + 1 /\ UNCHANGED waitNum
  /\ {waitNum', prioNum'} \subseteq Seqs
  /\ drained' = FALSE
  /\ UNCHANGED <<job, paused, rate>>

-----------------------------------------------------------------------------
(* Handing jobs to workers.                                                *)

\* The tables promotion of the due delayed rows of T can give.
Promotions(T) ==
  {Promoted(T, paused, waitNum, prioNum, wait, prio) :
     wait \in Rankings(DueWait(T)), prio \in Rankings(DuePrio(T))}

WaitNumAfter(T) == waitNum + Cardinality(DueWait(T))

PrioNumAfter(T) == prioNum + Cardinality(DuePrio(T))

RateLimited == RateMax > 0 /\ rate >= RateMax

\* The wait list is served before the prioritized set.
Heads(R) == IF In(R, {"wait"}) # {} THEN WaitHeads(R) ELSE PrioHeads(R)

\* Mutant of Open: off by one.
OpenToOneMore(R) ==
  ~ RateLimited /\ ~ paused /\ Cardinality(Live(R)) <= Concurrency

Open(R) == ~ RateLimited /\ ~ paused /\ Cardinality(Live(R)) < Concurrency

\* The fetch claims row got of R for token t.
Claim(R, t, got) ==
  /\ Open(R)
  /\ got \in Heads(R)
  /\ {R[got].started, R[got].made, R[got].stalled} \subseteq 0..(MaxStarts - 1)
  /\ job' = [R EXCEPT ![got] = Claimed(@, t)]
  /\ rate' = IF RateMax > 0 THEN rate + 1 ELSE rate
  /\ drained' = FALSE

\* The fetch returns no row.  The polling fetch latches drained when it found
\* nothing to claim and nothing is coming; the fetch of emq_move_to_finished
\* latches it when nothing waits or runs, whatever stopped the fetch.
FindNothing(R, latch, afterFinish) ==
  /\ Open(R) => Heads(R) = {}
  /\ job' = R
  /\ drained' = \/ latch
                \/ /\ afterFinish
                   /\ In(R, {"wait", "prioritized", "active"}) = {}
                \/ /\ ~ afterFinish
                   /\ Open(R)
                   /\ In(R, {"wait", "prioritized", "delayed", "active"}) = {}
  /\ UNCHANGED rate

\* emq_move_to_active run on table T: promotes, then returns row got or NoJob.
\* latch is the drained flag the caller's own events have left.
Fetch(T, t, latch, afterFinish, got) ==
  /\ {WaitNumAfter(T), PrioNumAfter(T)} \subseteq Seqs
  /\ waitNum' = WaitNumAfter(T)
  /\ prioNum' = PrioNumAfter(T)
  /\ \E R \in Promotions(T) :
       IF got = NoJob THEN FindNothing(R, latch /\ R = T, afterFinish)
                      ELSE Claim(R, t, got)
  /\ UNCHANGED paused

MoveToActive(t, got) == Fetch(job, t, drained, FALSE, got)

-----------------------------------------------------------------------------
(* Acknowledging a job: caller c is the token of the worker that runs it,  *)
(* or Bypass.                                                              *)

HoldsLive(j, c) == c = Bypass \/ (job[j].lease = "live" /\ job[j].token = c)

\* What emq_move_to_finished answers: 0 with or without effect, or an error.
FinishReply(j, c, final) ==
  CASE job[j].state = "absent" -> IF final = "completed" THEN "already" ELSE "missing"
    [] job[j].state = final    -> "already"
    [] OTHER ->
         IF HoldsLive(j, c) THEN "done"
         ELSE IF job[j].lease # "live" THEN "lockMissing" ELSE "lockMismatch"

\* The rows a keepJobs policy may delete from T once j is finished: j itself
\* (count 0, whatever its state), or any of the finished rows (count or age).
Trims(T, j, final) == {{j}} \cup SUBSET In(T, {final})

\* Only an active row changes state, but the events are emitted, the policy
\* is applied and the next job is fetched in any case.
MoveToFinished(j, c, final, trim, fetch, got) ==
  LET T == IF job[j].state = "active"
           THEN [job EXCEPT ![j] = ToFinal(Attempted(@), final)] ELSE job
  IN  /\ FinishReply(j, c, final) = "done"
      /\ trim \in Trims(T, j, final)
      /\ IF fetch
         THEN Fetch(Deleted(T, trim), c, FALSE, TRUE, got)
         ELSE /\ got = NoJob
              /\ job' = Deleted(T, trim)
              /\ drained' = FALSE
              /\ UNCHANGED <<paused, waitNum, prioNum, rate>>

DelayReply(j, c) ==
  IF job[j].state = "absent" THEN "missing"
  ELSE IF job[j].state # "active" THEN "notActive"
  ELSE IF HoldsLive(j, c) THEN "done"
  ELSE IF job[j].lease # "live" THEN "lockMissing" ELSE "lockMismatch"

\* failed: the call carries a failure reason, which makes it an attempt.
MoveToDelayed(j, c, failed, at, fetch, got) ==
  LET T == [job EXCEPT ![j] = ToDelayed(IF failed THEN Attempted(@) ELSE @, at)]
  IN  /\ DelayReply(j, c) = "done"
      /\ IF fetch
         THEN Fetch(T, c, FALSE, FALSE, got)
         ELSE /\ got = NoJob
              /\ job' = T
              /\ drained' = FALSE
              /\ UNCHANGED <<paused, waitNum, prioNum, rate>>

\* The lease may have expired: only the token is compared.
RetryReply(j, c) ==
  CASE job[j].state = "absent" -> "missing"
    [] job[j].state = "active" /\ (c = Bypass \/ job[j].token = c) -> "done"
    [] OTHER -> "notActive"

\* The due delayed rows are promoted first.  A row with a priority goes to
\* prioritized even while the queue is paused.  The LIFO place in the list is
\* taken from the wait rows alone.
RetryJob(j, c, lifo) ==
  /\ RetryReply(j, c) = "done"
  /\ \E R \in Promotions(job) :
       IF job[j].priority > 0
       THEN \E p \in IF lifo THEN PrioFront(R, j, job[j].priority, PrioNumAfter(job))
                     ELSE AtTail(PrioNumAfter(job)) :
              /\ p.seq \in Seqs
              /\ job' = [R EXCEPT ![j] = ToPrioritized(Attempted(@), p.seq)]
              /\ prioNum' = p.num
              /\ waitNum' = WaitNumAfter(job)
       ELSE \E p \in IF lifo THEN Front(R, In(R, {"wait"}), WaitNumAfter(job),
                                        {[seq |-> 0, num |-> WaitNumAfter(job)]})
                     ELSE AtTail(WaitNumAfter(job)) :
              /\ p.seq \in Seqs
              /\ job' = [R EXCEPT ![j] = ToList(Attempted(@), paused, p.seq)]
              /\ waitNum' = p.num
              /\ prioNum' = PrioNumAfter(job)
  /\ {waitNum', prioNum'} \subseteq Seqs
  /\ drained' = FALSE
  /\ UNCHANGED <<paused, rate>>

\* A rate-limited job goes back to the head, uncounted.  Bypass is no token here.
MoveJobFromActiveToWait(j, t) ==
  /\ job[j].state = "active"
  /\ job[j].token = t
  /\ IF ~ paused /\ job[j].priority > 0
     THEN \E p \in PrioFront(job, j, job[j].priority, prioNum) :
            /\ p.seq \in Seqs
            /\ Put(j, ToPrioritized(job[j], p.seq))
            /\ UNCHANGED <<waitNum, prioNum>>
     ELSE \E p \in Front(job, In(job, {IF paused THEN "paused" ELSE "wait"}),
                         waitNum, AtTail(waitNum)) :
            /\ {p.seq, p.num} \subseteq Seqs
            /\ Put(j, ToList(job[j], paused, p.seq))
            /\ waitNum' = p.num
            /\ UNCHANGED prioNum

-----------------------------------------------------------------------------
(* Leases.                                                                 *)

\* emq_extend_lock renews a live lease, which changes nothing here.  This is
\* emq_extend_locks for one of its jobs: it renews an expired lease too.
ExtendLocks(j, t) ==
  /\ job[j].state = "active"
  /\ job[j].token = t
  /\ job' = [job EXCEPT ![j].lease = "live"]
  /\ UNCHANGED <<paused, waitNum, prioNum, drained, rate>>

MoveStalledJobsToWait ==
  LET Back == {j \in Expired(job) : ~ Worn(job[j])}
  IN  /\ Expired(job) # {}
      /\ waitNum + Cardinality(Back) \in Seqs
      /\ \E rank \in Rankings(Back) : job' = Swept(job, paused, waitNum, rank)
      /\ waitNum' = waitNum + Cardinality(Back)
      /\ drained' = FALSE
      /\ UNCHANGED <<paused, prioNum, rate>>

-----------------------------------------------------------------------------
(* Calls of the queue's clients.                                           *)

\* The wait list becomes the paused list, or the other way round.  The latch
\* is cleared by the paused or resumed event.
Pause(pause) ==
  /\ paused' = pause
  /\ job' = [j \in Job |->
               IF job[j].state = (IF pause THEN "wait" ELSE "paused")
               THEN [job[j] EXCEPT !.state = IF pause THEN "paused" ELSE "wait"]
               ELSE job[j]]
  /\ drained' = FALSE
  /\ UNCHANGED <<waitNum, prioNum, rate>>

Promote(j) ==
  /\ job[j].state = "delayed"
  /\ IF job[j].priority > 0
     THEN /\ prioNum' = prioNum + 1
          /\ Put(j, PrioReady(job[j], paused, prioNum + 1))
          /\ UNCHANGED waitNum
     ELSE /\ waitNum' = waitNum + 1
          /\ Put(j, ToList(job[j], paused, waitNum + 1))
          /\ UNCHANGED prioNum
  /\ {waitNum', prioNum'} \subseteq Seqs

ChangeDelay(j, at) ==
  /\ job[j].state = "delayed"
  /\ job' = [job EXCEPT ![j].at = at]
  /\ UNCHANGED <<paused, waitNum, prioNum, drained, rate>>

\* Only a job in a list moves; of any other just the field changes, silently.
ChangePriority(j, priority, lifo) ==
  \/ /\ job[j].state \notin {"absent", "wait", "paused", "prioritized"}
     /\ job' = [job EXCEPT ![j].priority = priority]
     /\ UNCHANGED <<paused, waitNum, prioNum, drained, rate>>
  \/ /\ job[j].state \in {"wait", "paused", "prioritized"}
     /\ priority > 0
     /\ \E p \in IF lifo THEN PrioFront(job, j, priority, prioNum) ELSE AtTail(prioNum) :
          /\ {p.seq, p.num} \subseteq Seqs
          /\ Put(j, [ToPrioritized(job[j], p.seq) EXCEPT !.priority = priority])
          /\ prioNum' = p.num
     /\ UNCHANGED waitNum
  \/ /\ job[j].state \in {"wait", "paused", "prioritized"}
     /\ priority = 0
     /\ \E p \in IF lifo THEN Front(job, In(job, {"wait", "paused"}) \ {j},
                                    waitNum, AtTail(waitNum))
                 ELSE AtTail(waitNum) :
          /\ {p.seq, p.num} \subseteq Seqs
          /\ Put(j, [ToList(job[j], paused, p.seq) EXCEPT !.priority = 0])
          /\ waitNum' = p.num
     /\ UNCHANGED prioNum

\* Puts a finished job back, whatever its priority, and emits no event.
ReprocessJob(j, final, resetMade, resetStarted) ==
  /\ job[j].state = final
  /\ waitNum + 1 \in Seqs
  /\ job' = [job EXCEPT ![j] = Recounted(ToList(Reopened(@), paused, waitNum + 1),
                                        resetMade, resetStarted)]
  /\ waitNum' = waitNum + 1
  /\ UNCHANGED <<paused, prioNum, drained, rate>>

\* Queue.retryJobs and promoteJobs: a batch S of the rows in state from.
MoveJobsToWait(from, S) ==
  LET Prio == {j \in S : from = "delayed" /\ job[j].priority > 0}
      List == S \ Prio
      Back(j) == IF from = "delayed" THEN job[j] ELSE Reopened(job[j])
  IN  /\ S # {}
      /\ S \subseteq In(job, {from})
      /\ {waitNum + Cardinality(List), prioNum + Cardinality(Prio)} \subseteq Seqs
      /\ \E list \in Rankings(List), prio \in Rankings(Prio) :
           job' = [j \in Job |->
                     IF j \in List THEN ToList(Back(j), paused, waitNum + list[j])
                     ELSE IF j \in Prio THEN PrioReady(job[j], paused, prioNum + prio[j])
                     ELSE job[j]]
      /\ waitNum' = waitNum + Cardinality(List)
      /\ prioNum' = prioNum + Cardinality(Prio)
      /\ drained' = FALSE
      /\ UNCHANGED <<paused, rate>>

\* Rows leave the table and nothing else changes but the latch, to latch.
Delete(S, latch) ==
  /\ job' = Deleted(job, S)
  /\ drained' = latch
  /\ UNCHANGED <<paused, waitNum, prioNum, rate>>

\* Emits no event in SQL; refuses a job whose lease is live.
RemoveJob(j) ==
  /\ job[j].state # "absent"
  /\ job[j].lease # "live"
  /\ Delete({j}, drained)

\* The event it emits is named drained, which leaves the latch alone.
Drain(includeDelayed) ==
  Delete(In(job, {"wait", "paused", "prioritized"}
                   \cup (IF includeDelayed THEN {"delayed"} ELSE {})), drained)

\* Queue.clean of any state, active included: leases are not looked at.
CleanJobsInSet(state, S) ==
  /\ S # {}
  /\ S \subseteq In(job, {state})
  /\ Delete(S, FALSE)

\* A batch, then, once no row is left to pick, the queue itself: the next
\* client call creates it anew.
Obliterate(force, S) ==
  LET Doomed == In(job, State \ ({"absent"} \cup (IF force THEN {} ELSE {"active"})))
  IN  /\ paused
      /\ ~ force => In(job, {"active"}) = {}
      /\ \/ S # {} /\ S \subseteq Doomed /\ S # Doomed /\ Delete(S, drained)
         \/ /\ S = Doomed
            /\ job' = Deleted(job, S)
            /\ paused' = FALSE
            /\ waitNum' = 0
            /\ prioNum' = 0
            /\ drained' = FALSE
            /\ rate' = 0

\* Queue.rateLimit and Worker.rateLimit open a window with its tokens used up.
RateLimit ==
  /\ RateMax > 0
  /\ rate' = RateMax
  /\ UNCHANGED <<job, paused, waitNum, prioNum, drained>>

-----------------------------------------------------------------------------
(* Time passes.                                                            *)

LockExpires(j) ==
  /\ job[j].lease = "live"
  /\ job' = [job EXCEPT ![j].lease = "expired"]
  /\ UNCHANGED <<paused, waitNum, prioNum, drained, rate>>

DelayElapses(j) ==
  /\ job[j].at = "later"
  /\ job' = [job EXCEPT ![j].at = "due"]
  /\ UNCHANGED <<paused, waitNum, prioNum, drained, rate>>

WindowCloses ==
  /\ rate > 0
  /\ rate' = 0
  /\ UNCHANGED <<job, paused, waitNum, prioNum, drained>>

-----------------------------------------------------------------------------
Got == Job \cup {NoJob}

Adds ==
  \E j \in Job :
    \/ \E lifo \in BOOLEAN : AddStandard(j, lifo)
    \/ \E p \in Priority : AddPrioritized(j, p)
    \/ \E p \in Priority, at \in At : AddDelayed(j, p, at)
    \/ AddDuplicated(j)

\* Only a worker asks for the next job, and never with the token "0".
Fetches ==
  \E t \in Token, got \in Got :
    \/ MoveToActive(t, got)
    \/ \E j \in Job, final \in Final, trim \in SUBSET Job :
         MoveToFinished(j, t, final, trim, TRUE, got)
    \/ \E j \in Job, failed \in BOOLEAN, at \in At :
         MoveToDelayed(j, t, failed, at, TRUE, got)

Acks ==
  \E j \in Job, c \in Caller :
    \/ \E final \in Final, trim \in SUBSET Job :
         MoveToFinished(j, c, final, trim, FALSE, NoJob)
    \/ \E failed \in BOOLEAN, at \in At : MoveToDelayed(j, c, failed, at, FALSE, NoJob)
    \/ \E lifo \in BOOLEAN : RetryJob(j, c, lifo)

Leases ==
  \/ \E j \in Job, t \in Token : MoveJobFromActiveToWait(j, t) \/ ExtendLocks(j, t)
  \/ MoveStalledJobsToWait

\* Calls of one job: Job.promote and Job.retry of a finished job.
JobCommands ==
  \E j \in Job :
    \/ Promote(j)
    \/ \E final \in Final, made, started \in BOOLEAN :
         ReprocessJob(j, final, made, started)

\* Job.changeDelay and changePriority.
Changes ==
  \E j \in Job :
    \/ \E at \in At : ChangeDelay(j, at)
    \/ \E p \in Priority, lifo \in BOOLEAN : ChangePriority(j, p, lifo)

\* Queue.retryJobs and promoteJobs call the procedure batch by batch.
Batches ==
  \E S \in SUBSET Job, from \in Final \cup {"delayed"} : MoveJobsToWait(from, S)

\* Calls that delete jobs, of which clean and obliterate go batch by batch.
Deletions ==
  \/ \E j \in Job : RemoveJob(j)
  \/ \E incl \in BOOLEAN : Drain(incl)
  \/ \E S \in SUBSET Job :
       \/ \E state \in State \ {"absent"} : CleanJobsInSet(state, S)
       \/ \E force \in BOOLEAN : Obliterate(force, S)

Commands ==
  \/ \E pause \in BOOLEAN : Pause(pause)
  \/ JobCommands
  \/ Changes
  \/ Batches
  \/ Deletions
  \/ RateLimit

Clock == WindowCloses \/ \E j \in Job : LockExpires(j) \/ DelayElapses(j)

Next == Adds \/ Fetches \/ Acks \/ Leases \/ Commands \/ Clock

Spec == Init /\ [][Next]_vars

-----------------------------------------------------------------------------
(* Properties.                                                             *)

\* The procedures keep the columns' types; the counters of emq_queue_counters
\* never go below zero, however far below it LIFO places go.
TypeOK ==
  /\ job \in Tables
  /\ paused \in BOOLEAN
  /\ waitNum \in Nat
  /\ prioNum \in Nat
  /\ drained \in BOOLEAN
  /\ rate \in Nat

\* The lock columns are set exactly on active rows, and together: a procedure
\* that leaves a lock behind, or an active row without one, makes a job no
\* sweep can recover or no client can retry.
LockShape ==
  \A j \in Job : /\ job[j].state = "active" <=> job[j].token # NoToken
                 /\ job[j].state = "active" <=> job[j].lease # "none"

\* The rows of emq_jobs have their columns' types and their locks: whatever the
\* order of the calls, no procedure leaves a row that another cannot handle.
RowsOK == TypeOK /\ LockShape

\* Twelve procedures choose between wait and paused.  None leaves a job in the
\* wait list of a paused queue, or parked in the paused list of a running one,
\* where no worker ever looks.
ListsMatchPause ==
  \A j \in Job : /\ job[j].state = "wait"   => ~ paused
                 /\ job[j].state = "paused" => paused

\* The counter stays ahead of every numbered place in the list, so a job added
\* at the tail never lands before one that is already there.
TailIsLast ==
  \A j \in Job : job[j].waitSeq # NoSeq => job[j].waitSeq <= waitNum

\* Likewise for the prioritized set.
PrioTailIsLast ==
  \A j \in Job : job[j].state = "prioritized" => job[j].prioSeq <= prioNum

\* While the drained latch is set no job runs and none is ready, but for one
\* that emq_reprocess_job put back: an event or an addition that forgot to
\* clear the latch would swallow the next drained event.
DrainedMeansIdle ==
  drained => \A j \in In(job, {"wait", "prioritized", "active"}) :
               job[j].state = "wait" /\ job[j].life # "first"

\* The lists, the pause flag, both counters and the latch agree after every
\* procedure, whichever of the twelve put a job where.
ListsAgree == ListsMatchPause /\ TailIsLast /\ PrioTailIsLast /\ DrainedMeansIdle

\* The limiter's tokens are never overdrawn.
WithinRate == rate <= RateMax

\* The concurrency cap as the claim keeps it: a step that hands a job out leaves
\* no more live leases than the cap, whatever it settled or promoted first.
\* Leases that have expired are not counted, and may come back to life.
ClaimWithinConcurrency ==
  (\E j \in Job : job'[j].started > job[j].started) => Cardinality(Live(job')) <= Concurrency

\* Both limits hold, however many workers fetch, alone or with an acknowledgement.
LimitsKept == [][WithinRate' /\ ClaimWithinConcurrency]_vars

JL == INSTANCE JobLease WITH lease <- [j \in Job |-> LeaseOf(job[j])]

\* The procedures, in any order, keep the promises of JobLease.
LeaseKept == JL!Spec

\* Of the emq_jobs columns: attempts_made + stalled_counter never exceeds
\* attempts_started, less one while the job runs.  A lost lease that is swept
\* and reported too, or an acknowledgement accepted twice, would count a
\* hand-out twice.
Accounted == JL!Accounted

\* A job no client has put back is never ready or running with more stalls
\* than maxStalledCount.
WithinStalls == JL!WithinStalls

\* Refuted: docs/ARCHITECTURE.md says a claim counts the active rows, and
\* Queue.setGlobalConcurrency that no more than so many jobs are processed at
\* any time.  The claim counts live leases only.
ActiveWithinConcurrency == Cardinality(In(job, {"active"})) <= Concurrency
=============================================================================
