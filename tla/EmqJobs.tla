------------------------------ MODULE EmqJobs ------------------------------
(***************************************************************************)
(* The rows of table emq_jobs that belong to one queue, and the changes    *)
(* the stored procedures of src/sql/functions make to one row or to a      *)
(* table of rows.  No state here: EmqQueue has the queue and the           *)
(* procedures.                                                             *)
(*                                                                         *)
(* process_at and lock_expires_at are abstracted to what the procedures    *)
(* test: a delayed row is due or it is not, a lease is live or expired.    *)
(* pk, name, data, results and timestamps are left out: where the code     *)
(* orders rows by them, any order is possible.                             *)
(***************************************************************************)
EXTENDS Integers, FiniteSets, Functions

CONSTANTS
  Job,          \* the job ids a client may use in the queue
  Token,        \* the lock tokens of workers
  NoToken,      \* lock_token is null
  NoSeq,        \* wait_seq is null
  Priority,     \* the priorities jobs are given; 0 is "no priority"
  MaxStalled    \* WorkerOptions.maxStalledCount

ASSUME JobAssumption == IsFiniteSet(Job)
ASSUME TokenAssumption == NoToken \notin Token
ASSUME SeqAssumption == NoSeq \notin Int
ASSUME PriorityAssumption == 0 \in Priority /\ Priority \subseteq Nat
ASSUME StalledAssumption == MaxStalled \in Nat

\* enum emq_job_state without waiting-children, plus "absent": no such row.
State == {"absent", "wait", "paused", "prioritized", "delayed", "active",
          "completed", "failed"}

Final == {"completed", "failed"}

\* process_at of a delayed row: in the future, or not.
At == {"later", "due"}

\* life is a history variable: has the row been finished and put back, and
\* was attempts_started zeroed when it was?
Row == [state    : State,
        priority : Priority,
        waitSeq  : Int \cup {NoSeq},
        prioSeq  : Int,            \* 0 unless prioritized
        at       : {"none"} \cup At,  \* process_at: "none" unless delayed
        token    : Token \cup {NoToken},
        lease    : {"none", "live", "expired"},
        started  : Nat,            \* attempts_started
        made     : Nat,            \* attempts_made
        stalled  : Nat,            \* stalled_counter
        life     : {"first", "reopened", "reset"}]

Absent == [state |-> "absent", priority |-> 0, waitSeq |-> NoSeq, prioSeq |-> 0,
           at |-> "none", token |-> NoToken, lease |-> "none",
           started |-> 0, made |-> 0, stalled |-> 0, life |-> "first"]

\* The row an addition starts from.
Fresh(priority) == [Absent EXCEPT !.priority = priority]

Tables == [Job -> Row]

In(T, states) == {j \in Job : T[j].state \in states}

Live(T) == {j \in In(T, {"active"}) : T[j].lease = "live"}

\* Mutant of Expired: the sweep does not look at lock_expires_at.
AnyActive(T) == In(T, {"active"})

Expired(T) == {j \in In(T, {"active"}) : T[j].lease = "expired"}

-----------------------------------------------------------------------------
(* Positions in the wait list (wait_seq) and in the prioritized set.       *)

Numbered(T, S) == {j \in S : T[j].waitSeq # NoSeq}

\* The rows that hold min(wait_seq) over S; null is not counted.
Lowest(T, S) ==
  {j \in Numbered(T, S) : \A k \in Numbered(T, S) : T[j].waitSeq <= T[k].waitSeq}

\* order by wait_seq asc nulls last limit 1
WaitHeads(T) ==
  LET W == In(T, {"wait"})
  IN  IF Numbered(T, W) = {} THEN W ELSE Lowest(T, W)

\* order by priority asc, prio_seq asc limit 1
PrioHeads(T) ==
  LET P == In(T, {"prioritized"})
      Before(j, k) == \/ T[j].priority < T[k].priority
                      \/ /\ T[j].priority = T[k].priority
                         /\ T[j].prioSeq < T[k].prioSeq
  IN  {j \in P : \A k \in P : ~ Before(k, j)}

\* A place in a list: the number the row gets and the value its counter has then.
AtTail(num) == {[seq |-> num + 1, num |-> num + 1]}

\* min(wait_seq) - 1 over S; if no row of S is numbered, the default.
Front(T, S, num, default) ==
  IF Numbered(T, S) = {} THEN default
  ELSE {[seq |-> T[j].waitSeq - 1, num |-> num] : j \in Lowest(T, S)}

\* coalesce(min(prio_seq), 1) - 1 over the other prioritized rows of priority p
PrioFront(T, j, p, num) ==
  LET Peers == {k \in In(T, {"prioritized"}) \ {j} : T[k].priority = p}
  IN  IF Peers = {} THEN {[seq |-> 0, num |-> num]}
      ELSE {[seq |-> T[k].prioSeq - 1, num |-> num] :
              k \in {k \in Peers : \A m \in Peers : T[k].prioSeq <= T[m].prioSeq}}

-----------------------------------------------------------------------------
(* Changes of one row.                                                     *)

\* Mutant of Unlocked: lock_expires_at is left behind.
HalfUnlocked(r) == [r EXCEPT !.token = NoToken]

Unlocked(r) == [r EXCEPT !.token = NoToken, !.lease = "none"]

\* Mutant of ToList: the pause is not looked at.
ToWait(r, paused, seq) ==
  [Unlocked(r) EXCEPT !.state = "wait", !.waitSeq = seq, !.prioSeq = 0, !.at = "none"]

\* To wait, or to paused while the queue is paused.
ToList(r, paused, seq) ==
  [Unlocked(r) EXCEPT !.state = IF paused THEN "paused" ELSE "wait",
                      !.waitSeq = seq, !.prioSeq = 0, !.at = "none"]

\* To prioritized; wait_seq becomes null.
ToPrioritized(r, seq) ==
  [Unlocked(r) EXCEPT !.state = "prioritized", !.waitSeq = NoSeq, !.prioSeq = seq]

\* A delayed row with a priority becomes ready: prioritized, or paused while
\* the queue is paused.  wait_seq keeps what it had.
PrioReady(r, paused, seq) ==
  [r EXCEPT !.state = IF paused THEN "paused" ELSE "prioritized",
            !.prioSeq = IF paused THEN 0 ELSE seq, !.at = "none"]

ToDelayed(r, at) == [Unlocked(r) EXCEPT !.state = "delayed", !.at = at]

\* waitSeq of a finished row is never read again: every way back numbers it.
ToFinal(r, final) == [Unlocked(r) EXCEPT !.state = final, !.waitSeq = NoSeq]

Claimed(r, t) ==
  [r EXCEPT !.state = "active", !.prioSeq = 0, !.token = t, !.lease = "live",
            !.started = @ + 1]

Attempted(r) == [r EXCEPT !.made = @ + 1]

Stalled(r) == [r EXCEPT !.stalled = @ + 1]

\* One more stall is one too many.
Worn(r) == r.stalled + 1 > MaxStalled

Reopened(r) == [r EXCEPT !.life = IF @ = "reset" THEN "reset" ELSE "reopened"]

\* The counts a client asked to have zeroed.
Recounted(r, resetMade, resetStarted) ==
  [r EXCEPT !.made    = IF resetMade THEN 0 ELSE @,
            !.started = IF resetStarted THEN 0 ELSE @,
            !.life    = IF resetStarted THEN "reset" ELSE @]

-----------------------------------------------------------------------------
(* Promotion of the delayed rows that are due.                             *)

DueWait(T) == {j \in In(T, {"delayed"}) : T[j].at = "due" /\ T[j].priority = 0}

DuePrio(T) == {j \in In(T, {"delayed"}) : T[j].at = "due" /\ T[j].priority > 0}

\* The rows of S in some order, as the sort by process_at and pk gives one.
Rankings(S) == Bijection(S, 1..Cardinality(S))

Promoted(T, paused, waitNum, prioNum, wait, prio) ==
  [j \in Job |->
     IF j \in DueWait(T) THEN ToList(T[j], paused, waitNum + wait[j])
     ELSE IF j \in DuePrio(T) THEN PrioReady(T[j], paused, prioNum + prio[j])
     ELSE T[j]]

\* The stalled sweep: too many stalls end the job, the others go back.
Swept(T, paused, waitNum, rank) ==
  [j \in Job |->
     IF j \notin Expired(T) THEN T[j]
     ELSE IF Worn(T[j]) THEN ToFinal(Stalled(T[j]), "failed")
     ELSE ToList(Stalled(T[j]), paused, waitNum + rank[j])]

Deleted(T, S) == [j \in Job |-> IF j \in S THEN Absent ELSE T[j]]
-----------------------------------------------------------------------------
\* What JobLease sees of a row.
LeaseOf(r) ==
  [phase   |-> CASE r.state = "absent" -> "absent"
                 [] r.state = "active" -> "held"
                 [] r.state \in Final  -> "done"
                 [] OTHER              -> "queued",
   holder  |-> r.token,
   term    |-> r.lease,
   grants  |-> r.started,
   settles |-> r.made,
   lapses  |-> r.stalled,
   life    |-> r.life]
=============================================================================
