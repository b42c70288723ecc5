--------------------------- MODULE EmqStatements ---------------------------
(***************************************************************************)
(* The procedures of EmqQueue taken apart into their statements.  Postgres *)
(* runs them under READ COMMITTED: a statement sees what was committed     *)
(* when it starts and what its own transaction wrote, a row another        *)
(* transaction has written is locked until that one ends, and only the     *)
(* where clause of the update itself is tested again on what it left.      *)
(* Advisory locks last as long as the transaction.                         *)
(*                                                                         *)
(* Places in the lists, priorities and the drained latch are left to       *)
(* EmqQueue: all waiting rows are numbered alike here, so any is a head.   *)
(***************************************************************************)
EXTENDS EmqJobs, Sequences

CONSTANTS
  Session,      \* the connections that run transactions
  NoSession,    \* nobody holds the queue's advisory lock
  NoJob,        \* the transaction is about no job in particular
  Calls,        \* the procedures that are called
  Concurrency,  \* emq_queues.concurrency
  RateMax,      \* the limiter's max; 0 when no limiter is configured
  MaxStarts     \* bound: a job is claimed only while its counters are below it

ASSUME SessionAssumption == NoSession \notin Session /\ NoJob \notin Job
ASSUME CallsAssumption == Calls \subseteq {"fetch", "finish", "delay", "retry", "sweep", "add", "promote",
                                          "promoteJobs", "pause", "resume", "remove"}
ASSUME LimitAssumption == Concurrency \in Nat \ {0} /\ {RateMax, MaxStarts} \subseteq Nat

VARIABLES
  job,      \* emq_jobs, as committed
  paused,   \* emq_queues.paused, as committed
  rate,     \* emq_rate_limit_state.tokens while the window is open, else 0
  lock,     \* the session that holds pg_advisory_xact_lock of the queue
  tx        \* what each session is doing

vars == <<job, paused, rate, lock, tx>>

\* The statements of a procedure, in order.  pause and resume are emq_pause
\* with either argument, promoteJobs is emq_move_jobs_to_wait of delayed rows.
Program(call) ==
  CASE call = "fetch"  -> <<"paused", "lock", "due", "ready", "gate", "claim">>
    [] call = "finish" -> <<"lock", "holds", "settle",
                            "paused", "due", "ready", "gate", "claim">>
    [] call = "delay"  -> <<"holds", "settle">>
    [] call = "retry"  -> <<"holds", "due", "ready", "settle">>
    [] call = "sweep"  -> <<"lock", "paused", "fail", "expired", "sweep">>
    [] call = "add"    -> <<"paused", "insert">>
    [] call = "promote"     -> <<"paused", "promote">>
    [] call = "promoteJobs" -> <<"paused", "due", "ready">>
    [] call \in {"pause", "resume"} -> <<"flag", "move">>
    [] call = "remove" -> <<"unlocked", "delete">>

Idle == [call |-> "none", left |-> <<>>, j |-> NoJob, token |-> NoToken,
         paused |-> FALSE, rows |-> {}, mine |-> <<>>, claims |-> 0]

Init ==
  /\ job = [j \in Job |-> Absent]
  /\ paused = FALSE
  /\ rate = 0
  /\ lock = NoSession
  /\ tx = [s \in Session |-> Idle]

-----------------------------------------------------------------------------
(* Transactions.                                                           *)

\* The rows session s sees: its own versions, else the committed ones.
View(s) == [j \in Job |-> IF j \in DOMAIN tx[s].mine THEN tx[s].mine[j] ELSE job[j]]

\* No other transaction has written a row of S.
Free(s, S) == \A o \in Session \ {s} : DOMAIN tx[o].mine \cap S = {}

\* The transaction of s once it has written New(j) for the rows j of S.
Written(s, S, New(_)) ==
  [tx[s] EXCEPT !.mine = [j \in DOMAIN @ \cup S |-> IF j \in S THEN New(j) ELSE @[j]]]

Reaches(s, statement) == tx[s].left # <<>> /\ Head(tx[s].left) = statement

\* The statement is done and the transaction is r; or it was the last.
Goes(s, r)  == tx' = [tx EXCEPT ![s] = [r EXCEPT !.left = Tail(@)]]
Stops(s, r) == tx' = [tx EXCEPT ![s] = [r EXCEPT !.left = <<>>]]

\* A worker's own calls carry its token; the others are about a job, or none.
Begin(s, call, j, t) ==
  /\ tx[s] = Idle
  /\ call \in Calls
  /\ t \in Token <=> call \in {"fetch", "finish", "delay", "retry"}
  /\ j \in Job   <=> call \in {"finish", "delay", "retry", "add", "promote", "remove"}
  /\ tx' = [tx EXCEPT ![s] = [Idle EXCEPT !.call = call, !.left = Program(call),
                                          !.j = j, !.token = t]]
  /\ UNCHANGED <<job, paused, rate, lock>>

End(s) ==
  /\ tx' = [tx EXCEPT ![s] = Idle]
  /\ lock' = IF lock = s THEN NoSession ELSE lock

Commit(s) ==
  /\ tx[s].call # "none"
  /\ tx[s].left = <<>>
  /\ job' = View(s)
  /\ paused' = IF tx[s].call \in {"pause", "resume"} THEN tx[s].call = "pause" ELSE paused
  /\ rate' = rate + tx[s].claims
  /\ End(s)

\* The connection is lost, or the transaction is the victim of a deadlock.
Abort(s) ==
  /\ tx[s].call # "none"
  /\ End(s)
  /\ UNCHANGED <<job, paused, rate>>

-----------------------------------------------------------------------------
(* Statements.                                                             *)

\* Mutant of TakeLock: the lock is not asked for.
GoWithoutLock(s) ==
  /\ Reaches(s, "lock")
  /\ Goes(s, tx[s])
  /\ UNCHANGED <<job, paused, rate, lock>>

TakeLock(s) ==
  /\ Reaches(s, "lock")
  /\ lock = NoSession
  /\ lock' = s
  /\ Goes(s, tx[s])
  /\ UNCHANGED <<job, paused, rate>>

ReadPaused(s) ==
  /\ Reaches(s, "paused")
  /\ Goes(s, [tx[s] EXCEPT !.paused = paused])
  /\ UNCHANGED <<job, paused, rate, lock>>

\* The select that decides whether the worker may end its attempt: the lease
\* is live, or, of a retry, only the token is compared and paused is read too.
CheckHolder(s) ==
  LET r == View(s)[tx[s].j]
  IN  /\ Reaches(s, "holds")
      /\ IF r.state = "active" /\ r.token = tx[s].token
            /\ (r.lease = "live" \/ tx[s].call = "retry")
         THEN Goes(s, [tx[s] EXCEPT !.paused = (tx[s].call = "retry" /\ paused)])
         ELSE Stops(s, tx[s])
      /\ UNCHANGED <<job, paused, rate, lock>>

Settled(r, call, ps) ==
  CASE call = "finish" -> ToFinal(Attempted(r), "completed")
    [] call = "delay"  -> ToDelayed(r, "later")
    [] call = "retry"  -> ToList(Attempted(r), ps, 0)

\* where state = 'active', and, of a retry, lock_token = p_token.
Settle(s) ==
  LET j == tx[s].j
      r == View(s)[j]
      New(k) == Settled(r, tx[s].call, tx[s].paused)
  IN  /\ Reaches(s, "settle")
      /\ Free(s, {j})
      /\ IF r.state = "active" /\ (tx[s].call = "retry" => r.token = tx[s].token)
         THEN Goes(s, Written(s, {j}, New))
         ELSE Goes(s, tx[s])
      /\ UNCHANGED <<job, paused, rate, lock>>

\* The cursor of the promotion loop.
FindDue(s) ==
  /\ Reaches(s, "due")
  /\ Goes(s, [tx[s] EXCEPT !.rows = DueWait(View(s))])
  /\ UNCHANGED <<job, paused, rate, lock>>

\* The updates of the loop: where job_id = ..., whatever the row is by now.
Ready(s) ==
  LET S == {j \in tx[s].rows : View(s)[j].state # "absent"}
      New(j) == [View(s)[j] EXCEPT !.state = IF tx[s].paused THEN "paused" ELSE "wait",
                                   !.waitSeq = 0, !.at = "none"]
  IN  /\ Reaches(s, "ready")
      /\ Free(s, S)
      /\ Goes(s, Written(s, S, New))
      /\ UNCHANGED <<job, paused, rate, lock>>

Gate(s) ==
  /\ Reaches(s, "gate")
  /\ IF /\ ~ tx[s].paused
        /\ RateMax > 0 => rate < RateMax
        /\ Cardinality(Live(View(s))) < Concurrency
     THEN Goes(s, tx[s])
     ELSE Stops(s, tx[s])
  /\ UNCHANGED <<job, paused, rate, lock>>

\* for update skip locked, and the update of the row that was picked.
Claim(s) ==
  LET R == View(s)
      Open == {j \in WaitHeads(R) : Free(s, {j})}
  IN  /\ Reaches(s, "claim")
      /\ \/ /\ Open = {}
            /\ Stops(s, tx[s])
         \/ \E got \in Open :
              LET New(j) == Claimed(R[j], tx[s].token)
              IN  /\ {R[got].started, R[got].made, R[got].stalled}
                        \subseteq 0..(MaxStarts - 1)
                  /\ Goes(s, [Written(s, {got}, New) EXCEPT
                                !.claims = IF RateMax > 0 THEN 1 ELSE 0])
      /\ UNCHANGED <<job, paused, rate, lock>>

\* The sweep's first update: the lease is in its where clause.  now() is the
\* start of the transaction, so no lease expires between its statements.
Fail(s) ==
  LET S == {j \in Expired(View(s)) : Worn(View(s)[j])}
      New(j) == ToFinal(Stalled(View(s)[j]), "failed")
  IN  /\ Reaches(s, "fail")
      /\ Free(s, S)
      /\ Goes(s, [Written(s, S, New) EXCEPT !.rows = Expired(View(s))])
      /\ UNCHANGED <<job, paused, rate, lock>>

\* Its second update is a join: first the ranked rows are found ...
FindExpired(s) ==
  /\ Reaches(s, "expired")
  /\ Goes(s, [tx[s] EXCEPT !.rows = @ \cap Expired(View(s))])
  /\ UNCHANGED <<job, paused, rate, lock>>

\* ... then they are written where j.pk = r.pk, whatever they are by now.
Sweep(s) ==
  LET S == {j \in tx[s].rows : View(s)[j].state # "absent"}
      New(j) == ToList(Stalled(View(s)[j]), tx[s].paused, 0)
  IN  /\ Reaches(s, "sweep")
      /\ Free(s, S)
      /\ Goes(s, Written(s, S, New))
      /\ UNCHANGED <<job, paused, rate, lock>>

\* on conflict do nothing.
Insert(s) ==
  LET j == tx[s].j
      New(k) == ToList(Absent, tx[s].paused, 0)
  IN  /\ Reaches(s, "insert")
      /\ Free(s, {j})
      /\ Goes(s, IF job[j].state = "absent" THEN Written(s, {j}, New) ELSE tx[s])
      /\ UNCHANGED <<job, paused, rate, lock>>

\* where state = 'delayed'.
PromoteOne(s) ==
  LET j == tx[s].j
      New(k) == ToList(job[j], tx[s].paused, 0)
  IN  /\ Reaches(s, "promote")
      /\ Free(s, {j})
      /\ Goes(s, IF job[j].state = "delayed" THEN Written(s, {j}, New) ELSE tx[s])
      /\ UNCHANGED <<job, paused, rate, lock>>

\* update emq_queues: the row is locked against the other pauses and resumes.
Flag(s) ==
  /\ Reaches(s, "flag")
  /\ \A o \in Session \ {s} :
       tx[o].call \in {"pause", "resume"} => Reaches(o, "flag")
  /\ Goes(s, tx[s])
  /\ UNCHANGED <<job, paused, rate, lock>>

\* The rows that are in the list when this update starts.
Move(s) ==
  LET pause == tx[s].call = "pause"
      S == In(job, {IF pause THEN "wait" ELSE "paused"})
      New(j) == [job[j] EXCEPT !.state = IF pause THEN "paused" ELSE "wait"]
  IN  /\ Reaches(s, "move")
      /\ Free(s, S)
      /\ Goes(s, Written(s, S, New))
      /\ UNCHANGED <<job, paused, rate, lock>>

\* emq_remove_job refuses a job whose lease is live ...
CheckUnlocked(s) ==
  /\ Reaches(s, "unlocked")
  /\ IF job[tx[s].j].state # "absent" /\ job[tx[s].j].lease # "live"
     THEN Goes(s, tx[s])
     ELSE Stops(s, tx[s])
  /\ UNCHANGED <<job, paused, rate, lock>>

\* ... and deletes where pk = ...
DeleteOne(s) ==
  LET New(j) == Absent
  IN  /\ Reaches(s, "delete")
      /\ Free(s, {tx[s].j})
      /\ Goes(s, Written(s, {tx[s].j}, New))
      /\ UNCHANGED <<job, paused, rate, lock>>

-----------------------------------------------------------------------------
(* Procedures of one statement, and time.                                  *)

Unwritten(j) == \A s \in Session : j \notin DOMAIN tx[s].mine

AddDelayed(j, at) ==
  /\ job[j].state = "absent"
  /\ Unwritten(j)
  /\ job' = [job EXCEPT ![j] = ToDelayed(Absent, at)]
  /\ UNCHANGED <<paused, rate, lock, tx>>

\* emq_extend_locks: the token and the state are in its where clause.
ExtendLocks(j, t) ==
  /\ job[j].state = "active"
  /\ job[j].token = t
  /\ Unwritten(j)
  /\ job' = [job EXCEPT ![j].lease = "live"]
  /\ UNCHANGED <<paused, rate, lock, tx>>

LockExpires(j) ==
  /\ job[j].lease = "live"
  /\ Unwritten(j)
  /\ job' = [job EXCEPT ![j].lease = "expired"]
  /\ UNCHANGED <<paused, rate, lock, tx>>

DelayElapses(j) ==
  /\ job[j].at = "later"
  /\ Unwritten(j)
  /\ job' = [job EXCEPT ![j].at = "due"]
  /\ UNCHANGED <<paused, rate, lock, tx>>

WindowCloses ==
  /\ rate > 0
  /\ rate' = 0
  /\ UNCHANGED <<job, paused, lock, tx>>

-----------------------------------------------------------------------------
Next ==
  \/ \E s \in Session :
       \/ \E call \in Calls, j \in Job \cup {NoJob}, t \in Token \cup {NoToken} :
            Begin(s, call, j, t)
       \/ TakeLock(s) \/ ReadPaused(s) \/ CheckHolder(s) \/ Settle(s)
       \/ FindDue(s) \/ Ready(s) \/ Gate(s) \/ Claim(s)
       \/ Fail(s) \/ FindExpired(s) \/ Sweep(s)
       \/ Insert(s) \/ PromoteOne(s) \/ Flag(s) \/ Move(s)
       \/ Commit(s) \/ Abort(s)
  \/ \E j \in Job : LockExpires(j) \/ DelayElapses(j) \/ \E at \in {"later", "due"} : AddDelayed(j, at)
  \/ WindowCloses

Spec == Init /\ [][Next]_vars

\* With workers that renew their leases.
RenewSpec == Init /\ [][Next \/ \E j \in Job, t \in Token : ExtendLocks(j, t)]_vars

\* With clients that remove jobs.
RemoveSpec == Init /\ [][Next \/ \E s \in Session : CheckUnlocked(s) \/ DeleteOne(s)]_vars

-----------------------------------------------------------------------------
(* Properties.                                                             *)

JL == INSTANCE JobLease WITH lease <- [j \in Job |-> LeaseOf(job[j])]

\* The procedures that take the queue's advisory lock, run statement by
\* statement beside clients that add, promote, pause and resume, keep the
\* promises of JobLease as they do when each runs alone.
LeaseKept == JL!Spec

\* The limiter's tokens are read and taken under the lock, so fetches that run
\* at once do not overdraw them.
WithinRate == rate <= RateMax

\* Nor do they exceed the cap that each has tested before the other commits.
ClaimWithinConcurrency ==
  (\E j \in Job : job'[j].started > job[j].started) => Cardinality(Live(job')) <= Concurrency

\* An attempt is ended for the worker that holds the job, though the token is compared in one
\* statement and the row written in another that asks for its state only.
HolderSettles ==
  \A s \in Session :
    Reaches(s, "settle") /\ tx'[s].mine \notin {<<>>, tx[s].mine}
      => View(s)[tx[s].j].token = tx[s].token

\* What the advisory lock keeps between the reads and the writes of procedures that run at
\* once: both limits, and whose attempt it is.  emq_move_to_delayed_v1 does not take it, and is refuted.
LockKeeps == [][WithinRate' /\ ClaimWithinConcurrency /\ HolderSettles]_vars

\* Refuted: a job that was added as a resume committed stays parked.
ParkedMeansPaused ==
  \A j \in Job : job[j].state = "paused" => paused

\* Refuted: emq_remove_job drops a job that was claimed after it looked.
LiveJobsStay ==
  [][\A j \in Job : job[j].lease = "live" => job'[j].state # "absent"]_vars
=============================================================================
