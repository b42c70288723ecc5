-------------------------- MODULE EmqWorker_proofs --------------------------
(***************************************************************************)
(* For any jobs, any concurrency and whatever goes wrong: the worker       *)
(* forgets no job it has claimed, renews no lease it has no use for, and    *)
(* sleeps through no job.                                                   *)
(***************************************************************************)
EXTENDS EmqWorker, FunctionTheorems, FiniteSetTheorems, SequenceTheorems, WellFoundedInduction, TLAPS

Fetching == {"woken", "parked", "claim", "claimed", "again"}
Working  == {"busy", "complete", "fail", "reclaim"}
Acked    == {"completed", "failed", "reclaimed", "retried", "limited"}

TaskType == [pc : Fetching \union Working \union Acked \union {"free", "resolved"},
             job : Job \union {NoJob}, next : Job \union {NoJob},
             until : 0 .. MaxTime, limit : 0 .. MaxTime, delay : 0 .. MaxTime]

\* What a promise has follows from what it is doing.
PhaseOK(r) ==
  /\ r.pc \in Fetching \union {"free"} => r.job = NoJob
  /\ r.pc \in Working \union Acked => r.job # NoJob
  /\ r.next # NoJob => r.pc \in Acked \union {"claimed"}

Sound == {r \in TaskType : PhaseOK(r)}

\* The results in the queue are those of promises that have resolved, each once.
ResultsOK ==
  /\ \A i \in 1 .. Len(queue) : task[queue[i]].pc = "resolved"
  /\ \A i, k \in 1 .. Len(queue) : queue[i] = queue[k] => i = k

\* What is tracked is what a promise has.
Tracked == \A j \in Job : trackedJobs[j] # NoToken => task[trackedJobs[j]].job = j

RowType == [state : {"none", "wait", "delayed", "active", "completed", "failed"},
            at : 0 .. MaxTime, token : 0 .. MaxToken, live : BOOLEAN]

RowOK(r) ==
  /\ r.token # NoToken <=> r.state = "active"
  /\ r.live => r.state = "active"

Rows == {r \in RowType : RowOK(r)}

Shape ==
  /\ TypeOK
  /\ task \in [Token -> Sound] /\ numTotal <= Concurrency
  /\ ResultsOK /\ Tracked

\* A promise whose job is settled has no lock on it, unless it has claimed it again.
Settled ==
  "reply" \notin happened =>
    \A t \in Token : task[t].pc \in Acked \union {"reclaim"} /\ Holds(task[t].job, t)
                     => task[t].next = task[t].job

\* Until somebody listens nothing is fetched; and nobody waits once the worker closes.
Started ==
  /\ listening = "never" /\ ~closing => loop = "stopped" /\ \A t \in Token : task[t].pc = "free"
  /\ closing => NoWaiters
  /\ listening = "lost" => closing \/ {"listener", "pause"} \intersect happened # {}
  /\ paused => "pause" \in happened

Calm == ~closing /\ {"listener", "pause", "reply", "limit", "lease"} \intersect happened = {}

\* Unless something went wrong, a promise holds what it has.
HasLease(j, t) == Holds(j, t) /\ job[j].live
Leased ==
  Calm => \A t \in Token :
    /\ task[t].job # NoJob /\ task[t].pc \in {"resolved", "busy", "complete", "fail"}
       => HasLease(task[t].job, t)
    /\ task[t].next # NoJob => HasLease(task[t].next, t)

\* A job waits and no marker is on its way.
Unheard == listening = "on" /\ 0 \notin Range(notes) /\ \E j \in Job : job[j].state = "wait"

Covered == Calm /\ Unheard => (\E t \in Token : Asks(t)) \/ (pendingMarker /\ NoWaiters)

IInv == Shape /\ ClaimedIsHeld /\ Settled /\ Started /\ Leased /\ Covered

-----------------------------------------------------------------------------
(* Numbers, tokens and times.                                              *)

LEMMA Bounds ==
  /\ MaxTime \in Nat /\ MaxToken \in Nat /\ Concurrency \in Nat /\ MaxHappens \in Nat
  /\ Token \subseteq Nat /\ 0 \notin Token /\ NoToken \notin Token /\ NoJob \notin Job
  /\ 0 .. MaxToken = Token \union {NoToken}
  /\ 0 \in 0 .. MaxTime /\ 1 \in 1 .. MaxTime
BY BoundAssumption, NoJobAssumption DEF Token, NoToken

LEMMA MinIs ==
  ASSUME NEW S \in SUBSET Nat, S # {}
  PROVE  Min(S) \in S
<1> DEFINE R == OpToRel(<, Nat)
<1>1. \A x, y \in Nat : <<y, x>> \in R <=> y < x
  BY DEF OpToRel
<1>2. IsWellFoundedOn(R, Nat)
  BY NatLessThanWellFounded
<1> HIDE DEF R
<1>3. PICK x \in S : \A y \in S : ~ (<<y, x>> \in R)
  BY <1>2, WFMin
<1>4. ASSUME NEW y \in S PROVE x =< y
  <2>1. x \in Nat /\ y \in Nat
    OBVIOUS
  <2>2. ~ (y < x)
    BY <1>1, <1>3, <2>1
  <2> QED BY <2>1, <2>2
<1> QED BY <1>4 DEF Min

\* There is a token for the next fetch.
LEMMA FreshIs ==
  ASSUME Shape, HasRoom
  PROVE  FreshToken \in Token /\ task[FreshToken].pc = "free" /\ \A j \in Job : job[j].token # FreshToken
<1> DEFINE used == {job[j].token : j \in Job}
<1> DEFINE fresh == {t \in Token \ Promises : \A j \in Job : t \notin {job[j].token, trackedJobs[j]}}
<1>1. IsFiniteSet(used) /\ Cardinality(used) \in Nat /\ Cardinality(used) <= Cardinality(Job) /\ Cardinality(Job) \in Nat
  <2>1. IsFiniteSet(Job)
    BY NoJobAssumption
  <2>2. [j \in Job |-> job[j].token] \in Surjection(Job, used)
    BY DEF Surjection
  <2>3. IsFiniteSet(used) /\ Cardinality(used) <= Cardinality(Job)
    BY <2>1, <2>2, FS_Surjection
  <2> QED BY <2>1, <2>3, FS_CardinalityType
<1>2. IsFiniteSet(Token) /\ Cardinality(Token) = MaxToken
  BY FS_Interval, Bounds DEF Token
<1>3. IsFiniteSet(Promises) /\ Cardinality(Promises) \in Nat /\ Cardinality(Promises) < Concurrency
  <2>1. Promises \in SUBSET Token
    BY DEF Promises
  <2> QED BY <1>2, <2>1, FS_Subset, FS_CardinalityType DEF HasRoom, numTotal
<1>4. IsFiniteSet(Promises \union used) /\ Cardinality(Promises \union used) < MaxToken
  <2>1. /\ IsFiniteSet(Promises \union used)
        /\ Cardinality(Promises \union used) = Cardinality(Promises) + Cardinality(used) - Cardinality(Promises \intersect used)
    BY <1>1, <1>3, FS_Union
  <2>2. Cardinality(Promises \intersect used) \in Nat
    BY <1>3, FS_Intersection, FS_CardinalityType
  <2>3. MaxToken >= Concurrency + Cardinality(Job)
    BY BoundAssumption
  <2> HIDE DEF used
  <2> QED BY <1>1, <1>3, <2>1, <2>2, <2>3, Bounds
<1>5. fresh # {}
  <2> SUFFICES ASSUME fresh = {} PROVE FALSE
    OBVIOUS
  <2>1. ASSUME NEW t \in Token PROVE t \in Promises \union used
    <3>1. ASSUME NEW j \in Job, trackedJobs[j] = t PROVE t \in Promises
      <4>1. task[t].job = j /\ task[t] \in Sound
        BY <3>1, Bounds DEF Shape, Tracked
      <4> QED BY <4>1, Bounds DEF Sound, PhaseOK, Promises
    <3> QED BY <3>1
  <2>2. Token \in SUBSET (Promises \union used)
    BY <2>1
  <2>3. Cardinality(Token) <= Cardinality(Promises \union used)
    BY <1>4, <2>2, FS_Subset
  <2>4. Cardinality(Promises \union used) \in Nat
    BY <1>4, FS_CardinalityType
  <2> HIDE DEF used
  <2> QED BY <1>2, <1>4, <2>3, <2>4, Bounds
<1>6. FreshToken = Min(fresh)
  BY DEF FreshToken
<1>7. fresh \in SUBSET Nat
  BY Bounds
<1>8. FreshToken \in fresh
  BY <1>5, <1>6, <1>7, MinIs
<1> QED BY <1>8 DEF Promises

\* One more promise, or none more.
LEMMA Counted ==
  ASSUME task \in [Token -> Sound], task' \in [Token -> Sound],
         \/ \A t \in Token : task'[t].pc # "free" => task[t].pc # "free"
         \/ numTotal < Concurrency /\ \E u \in Token : \A t \in Token \ {u} : task'[t] = task[t],
         numTotal <= Concurrency
  PROVE  (numTotal <= Concurrency)'
<1>1. IsFiniteSet(Token)
  BY FS_Interval, Bounds DEF Token
<1>2. Promises \in SUBSET Token /\ Promises' \in SUBSET Token
  BY DEF Promises
<1>3. IsFiniteSet(Promises) /\ IsFiniteSet(Promises') /\ Cardinality(Promises) \in Nat /\ Cardinality(Promises') \in Nat
  BY <1>1, <1>2, FS_Subset, FS_CardinalityType
<1>4. CASE \A t \in Token : task'[t].pc # "free" => task[t].pc # "free"
  <2>1. Promises' \in SUBSET Promises
    BY <1>4 DEF Promises
  <2>2. Cardinality(Promises') <= Cardinality(Promises)
    BY <1>3, <2>1, FS_Subset
  <2> QED BY <1>3, <2>2, Bounds DEF numTotal
<1>5. ASSUME NEW u \in Token, numTotal < Concurrency, \A t \in Token \ {u} : task'[t] = task[t]
      PROVE  (numTotal <= Concurrency)'
  <2>1. Promises' \in SUBSET (Promises \union {u})
    BY <1>5 DEF Promises
  <2> DEFINE more == Promises \union {u}
  <2>2. /\ IsFiniteSet(more)
        /\ Cardinality(more) = IF u \in Promises THEN Cardinality(Promises) ELSE Cardinality(Promises) + 1
    BY <1>3, FS_AddElement
  <2>3. Cardinality(more) \in Nat
    BY <2>2, FS_CardinalityType
  <2>4. Cardinality(Promises') <= Cardinality(more)
    BY <2>1, <2>2, FS_Subset
  <2> HIDE DEF more
  <2> QED BY <1>3, <1>5, <2>2, <2>3, <2>4, Bounds DEF numTotal
<1> QED BY <1>4, <1>5

-----------------------------------------------------------------------------
(* The types, by what writes them.                                         *)

Table  == job \in [Job -> Rows] /\ now \in 1 .. MaxTime
Seqs   == notes \in Seq(0 .. MaxTime) /\ queue \in Seq(Token)
Fields ==
  /\ listening \in {"never", "on", "lost"}
  /\ closing \in BOOLEAN /\ paused \in BOOLEAN /\ closed \in BOOLEAN
  /\ drained \in BOOLEAN /\ fetchedSinceDrain \in BOOLEAN /\ pendingMarker \in BOOLEAN
  /\ blockUntil \in 0 .. MaxTime /\ limitUntil \in 0 .. MaxTime
  /\ waiting \in 0 .. MaxToken /\ awaited \in 0 .. MaxToken
  /\ loop \in {"stopped", "gather", "await", "take", "blocked", "limited"}
  /\ happened \subseteq Happens
Tasks  == task \in [Token -> Sound] /\ numTotal <= Concurrency
Tracks == trackedJobs \in [Job -> 0 .. MaxToken] /\ Tracked

LEMMA ShapeIs == Shape <=> Table /\ Seqs /\ Fields /\ Tasks /\ ResultsOK /\ Tracks
<1>1. job \in [Job -> Rows] <=> /\ job \in [Job -> RowType]
                               /\ \A j \in Job : RowOK(job[j])
  BY DEF Rows
<1> QED BY <1>1 DEF Shape, TypeOK, Table, Seqs, Fields, Tasks, Tracks, RowType, RowOK

LEMMA ShapeIsNext == Shape' <=> Table' /\ Seqs' /\ Fields' /\ Tasks' /\ ResultsOK' /\ Tracks'
BY ShapeIs, PTL

LEMMA RowIs ==
  ASSUME NEW r \in Rows
  PROVE  /\ r.state \in {"none", "wait", "delayed", "active", "completed", "failed"}
         /\ r.at \in 0 .. MaxTime /\ r.token \in 0 .. MaxToken /\ r.live \in BOOLEAN
         /\ r.token # NoToken <=> r.state = "active"
         /\ r.live => r.state = "active"
BY DEF Rows, RowType, RowOK

\* The rows the procedures write.
LEMMA RowsWritten ==
  ASSUME NEW r \in Rows
  PROVE  /\ Waits(r) \in Rows /\ Waits(r).state = "wait" /\ ~Waits(r).live
         /\ \A x \in {"completed", "failed", "delayed"} :
              Ends(r, x) \in Rows /\ Ends(r, x).state = x /\ Ends(r, x).token = NoToken /\ ~Ends(r, x).live
         /\ \A at \in 0 .. MaxTime :
              LET d == [Ends(r, "delayed") EXCEPT !.at = at]
              IN  d \in Rows /\ d.state = "delayed" /\ d.token = NoToken /\ ~d.live /\ d.at = at
         /\ \A t \in Token : [r EXCEPT !.state = "active", !.token = t, !.live = TRUE] \in Rows
         /\ r.state = "active" => \A b \in BOOLEAN : [r EXCEPT !.live = b] \in Rows
<1> USE Bounds DEF Rows, RowType, RowOK
<1>1. Waits(r) \in Rows /\ Waits(r).state = "wait" /\ ~Waits(r).live
  <2>1. 0 \in 0 .. MaxTime /\ NoToken \in 0 .. MaxToken
    BY DEF NoToken
  <2>2. Waits(r) \in RowType /\ Waits(r).state = "wait" /\ Waits(r).token = NoToken /\ ~Waits(r).live
    BY <2>1 DEF Waits
  <2> QED BY <2>2
<1>2. ASSUME NEW x \in {"completed", "failed", "delayed"}
      PROVE  Ends(r, x) \in Rows /\ Ends(r, x).state = x /\ Ends(r, x).token = NoToken /\ ~Ends(r, x).live
  BY DEF Ends
<1>3. ASSUME NEW at \in 0 .. MaxTime
      PROVE  LET d == [Ends(r, "delayed") EXCEPT !.at = at]
             IN  d \in Rows /\ d.state = "delayed" /\ d.token = NoToken /\ ~d.live /\ d.at = at
  BY DEF Ends
<1>4. ASSUME NEW t \in Token PROVE [r EXCEPT !.state = "active", !.token = t, !.live = TRUE] \in Rows
  OBVIOUS
<1>5. ASSUME r.state = "active", NEW b \in BOOLEAN PROVE [r EXCEPT !.live = b] \in Rows
  BY <1>5
<1> QED BY <1>1, <1>2, <1>3, <1>4, <1>5

LEMMA PromotedIs ==
  ASSUME NEW T \in [Job -> Rows]
  PROVE  /\ Promoted(T) \in [Job -> Rows]
         /\ \A j \in Job : Promoted(T)[j] = IF j \in Due THEN Waits(T[j]) ELSE T[j]
BY RowsWritten DEF Promoted

\* The table after a claim of promise t that started from table T and was given n.
Handed(T, t, n) ==
  /\ \A j \in Job \ {n} : job'[j] = T[j] \/ (j \in Due /\ job'[j] = Waits(T[j]))
  /\ n \in Job => /\ job'[n].state = "active" /\ job'[n].token = t /\ job'[n].live
                  /\ n \in Due \/ T[n].state = "wait"
  /\ n = NoJob => "limit" \in happened' \/ \A j \in Job : job'[j].state # "wait"

LEMMA ClaimsAre ==
  ASSUME NEW T \in [Job -> Rows], NEW t \in Token, NEW c \in Claims(T, t)
  PROVE  /\ c.table \in [Job -> Rows] /\ c.next \in Job \union {NoJob} /\ c.delay \in 0 .. MaxTime
         /\ \A j \in Job \ {c.next} : c.table[j] = T[j] \/ (j \in Due /\ c.table[j] = Waits(T[j]))
         /\ c.next \in Job => /\ c.table[c.next].state = "active" /\ c.table[c.next].token = t
                              /\ c.table[c.next].live
                              /\ c.next \in Due \/ T[c.next].state = "wait"
         /\ c.next = NoJob => \A j \in Job : c.table[j].state # "wait"
<1> DEFINE ready == {j \in Job : Promoted(T)[j].state = "wait"}
           later == {T[j].at : j \in {i \in Job \ Due : T[i].state = "delayed"}}
<1>1. CASE ready = {}
  <2>1. c = [table |-> T, next |-> NoJob, delay |-> IF later = {} THEN 0 ELSE Min(later)]
    BY <1>1 DEF Claims
  <2>2. later \in SUBSET (0 .. MaxTime)
    BY RowIs
  <2>3. later # {} => Min(later) \in 0 .. MaxTime
    <3>1. later \in SUBSET Nat
      BY <2>2, Bounds
    <3> HIDE DEF later
    <3> QED BY <2>2, <3>1, MinIs
  <2>4. ASSUME NEW j \in Job PROVE T[j].state # "wait"
    <3>1. Promoted(T)[j].state # "wait"
      BY <1>1
    <3>2. CASE j \in Due
      <4>1. T[j] \in Rows /\ Promoted(T)[j] = Waits(T[j])
        BY <3>2, PromotedIs
      <4>2. Waits(T[j]).state = "wait"
        BY <4>1 DEF Rows, RowType, Waits
      <4> QED BY <3>1, <4>1, <4>2
    <3>3. CASE j \notin Due
      BY <3>1, <3>3, PromotedIs
    <3> QED BY <3>2, <3>3
  <2> HIDE DEF later
  <2>5. (IF later = {} THEN 0 ELSE Min(later)) \in 0 .. MaxTime
    BY <2>3, Bounds
  <2> QED BY <2>1, <2>4, <2>5, Bounds
<1>2. CASE ready # {}
  <2>1. PICK n \in ready :
          c = [table |-> [Promoted(T) EXCEPT ![n].state = "active", ![n].token = t, ![n].live = TRUE],
               next |-> n, delay |-> 0]
    BY <1>2 DEF Claims
  <2>2. n \in Job /\ Promoted(T)[n].state = "wait" /\ n # NoJob
    BY Bounds
  <2>3. c.table = [Promoted(T) EXCEPT ![n] = [Promoted(T)[n] EXCEPT !.state = "active", !.token = t, !.live = TRUE]]
    BY <2>1, <2>2, PromotedIs
  <2>4. [Promoted(T)[n] EXCEPT !.state = "active", !.token = t, !.live = TRUE] \in Rows
    <3>1. Promoted(T)[n] \in Rows
      BY <2>2, PromotedIs
    <3> QED BY <3>1, RowsWritten
  <2>5. /\ c.table[n].state = "active" /\ c.table[n].token = t /\ c.table[n].live
        /\ c.table \in [Job -> Rows]
    BY <2>2, <2>3, <2>4, PromotedIs DEF Rows, RowType
  <2>6. n \in Due \/ T[n].state = "wait"
    BY <2>2, PromotedIs
  <2>7. \A j \in Job \ {n} : c.table[j] = T[j] \/ (j \in Due /\ c.table[j] = Waits(T[j]))
    BY <2>3, PromotedIs
  <2>8. c.next = n /\ c.delay \in 0 .. MaxTime
    BY <2>1, Bounds
  <2> QED BY <2>2, <2>5, <2>6, <2>7, <2>8
<1> QED BY <1>1, <1>2

\* A sequence of notifications.
LEMMA Announced ==
  ASSUME Seqs, Table, NEW news \in Seq(0 .. MaxTime), Announce(news)
  PROVE  notes' \in Seq(0 .. MaxTime)
<1> DEFINE Times == 0 .. MaxTime
<1>1. notes \in Seq(Times) /\ news \in Seq(Times)
  BY DEF Seqs
<1> HIDE DEF Times
<1>2. notes \o news \in Seq(Times)
  BY <1>1, ConcatProperties
<1> QED BY <1>1, <1>2 DEF Announce, Times

LEMMA NewsAre ==
  ASSUME NEW news \in Seq(0 .. MaxTime)
  PROVE  /\ [i \in 1 .. Cardinality(Due) |-> 0] \in Seq(0 .. MaxTime)
         /\ news \o [i \in 1 .. Cardinality(Due) |-> 0] \in Seq(0 .. MaxTime)
         /\ [i \in 1 .. Cardinality(Due) |-> 0] \o news \in Seq(0 .. MaxTime)
<1>1. Due \in SUBSET Job
  BY DEF Due
<1>2. Cardinality(Due) \in Nat
  BY <1>1, NoJobAssumption, FS_Subset, FS_CardinalityType
<1>3. [i \in 1 .. Cardinality(Due) |-> 0] \in Seq(0 .. MaxTime)
  BY <1>2, Bounds
<1> QED BY <1>3

Puts(t, r) == task' = [task EXCEPT ![t] = r]

\* A query that claims.
LEMMA ClaimIs ==
  ASSUME Shape, NEW T \in [Job -> Rows], NEW t \in Token, NEW pc \in Acked \union {"claimed"},
         NEW news \in Seq(0 .. MaxTime), NEW mishaps \in SUBSET Happens,
         Claim(T, t, pc, news, mishaps)
  PROVE  /\ job' \in [Job -> Rows] /\ notes' \in Seq(0 .. MaxTime)
         /\ mishaps \subseteq happened' /\ happened' \subseteq Happens
         /\ \E r \in TaskType : /\ r.pc = pc /\ r.job = task[t].job /\ Handed(T, t, r.next)
                                /\ Puts(t, r)
         /\ Announce(news \o [i \in 1 .. Cardinality(Due) |-> 0])
<1> USE Bounds
<1>0. Table /\ Seqs /\ Fields /\ task \in [Token -> Sound] /\ pc \in Fetching \union Acked
  BY ShapeIs DEF Tasks, Fetching
<1>1. /\ Announce(news \o [i \in 1 .. Cardinality(Due) |-> 0]) /\ notes' \in Seq(0 .. MaxTime)
  BY <1>0, NewsAre, Announced DEF Claim
<1>2. ASSUME NEW n \in Job \union {NoJob}, NEW limit \in 0 .. MaxTime, NEW delay \in 0 .. MaxTime,
             Answered(t, pc, n, limit, delay)
      PROVE  \E r \in TaskType : /\ r.pc = pc /\ r.job = task[t].job /\ r.next = n
                                 /\ Puts(t, r)
  <2> DEFINE r == [task[t] EXCEPT !.pc = pc, !.next = n, !.limit = limit, !.delay = delay]
  <2>1. task[t] \in TaskType
    BY <1>0 DEF Sound
  <2>2. r \in TaskType /\ r.pc = pc /\ r.job = task[t].job /\ r.next = n
    BY <1>0, <2>1 DEF TaskType
  <2>3. Puts(t, r)
    BY <1>0, <1>2 DEF Answered, Puts
  <2> QED BY <2>2, <2>3
<1>3. CASE \E c \in Claims(T, t) : /\ job' = c.table /\ Answered(t, pc, c.next, 0, c.delay)
                                  /\ happened' = mishaps
  <2>1. PICK c \in Claims(T, t) : job' = c.table /\ Answered(t, pc, c.next, 0, c.delay) /\ happened' = mishaps
    BY <1>3
  <2>2. /\ c.table \in [Job -> Rows] /\ c.next \in Job \union {NoJob} /\ c.delay \in 0 .. MaxTime
        /\ Handed(T, t, c.next)
    BY <2>1, ClaimsAre DEF Handed
  <2>3. \E r \in TaskType : /\ r.pc = pc /\ r.job = task[t].job /\ r.next = c.next
                            /\ Puts(t, r)
    BY <1>2, <2>1, <2>2
  <2> QED BY <1>1, <2>1, <2>2, <2>3
<1>4. CASE /\ May("limit") /\ happened' = mishaps \union {"limit"} /\ job' = Promoted(T)
           /\ \E end \in now + 1 .. MaxTime : Answered(t, pc, NoJob, end, 0)
  <2>1. PICK end \in now + 1 .. MaxTime : Answered(t, pc, NoJob, end, 0)
    BY <1>4
  <2>2. end \in 0 .. MaxTime /\ 0 \in 0 .. MaxTime
    BY <1>0 DEF Table
  <2>3. \E r \in TaskType : /\ r.pc = pc /\ r.job = task[t].job /\ r.next = NoJob
                            /\ Puts(t, r)
    BY <1>2, <2>1, <2>2
  <2>4. Handed(T, t, NoJob) /\ job' \in [Job -> Rows]
    BY <1>4, PromotedIs DEF Handed
  <2>5. happened' \subseteq Happens
    BY <1>4 DEF May
  <2> QED BY <1>1, <1>4, <2>3, <2>4, <2>5
<1> QED BY <1>3, <1>4 DEF Claim

-----------------------------------------------------------------------------
(* The promises, by what writes them.                                      *)

LEMMA FreeIs ==
  /\ Free \in TaskType /\ Free.pc = "free" /\ Free.job = NoJob /\ Free.next = NoJob
  /\ \A pc \in {"resolved", "woken", "parked", "claim"} : [Free EXCEPT !.pc = pc] \in TaskType
  /\ \A j \in Job \union {NoJob} : [Free EXCEPT !.pc = "resolved", !.job = j] \in TaskType
  /\ \A j \in Job \union {NoJob} : [Free EXCEPT !.pc = "busy", !.job = j] \in TaskType
  /\ \A until \in 0 .. MaxTime : [Free EXCEPT !.pc = "parked", !.until = until] \in TaskType
<1>1. 0 \in 0 .. MaxTime
  BY Bounds
<1>2. Free \in TaskType /\ Free.pc = "free" /\ Free.job = NoJob /\ Free.next = NoJob
  BY <1>1 DEF Free, TaskType, Fetching
<1>3. \A pc \in {"resolved", "woken", "parked", "claim"} : pc \in Fetching \union Working \union Acked \union {"free", "resolved"}
  BY DEF Fetching
<1> QED BY <1>2, <1>3 DEF TaskType, Working

LEMMA TasksSame ==
  ASSUME Shape, UNCHANGED <<task, queue>>
  PROVE  Tasks' /\ ResultsOK'
BY DEF Shape, Tasks, ResultsOK, numTotal, Promises

LEMMA TracksSame ==
  ASSUME Shape, UNCHANGED trackedJobs,
         \A t \in Token : task'[t].job = task[t].job
  PROVE  Tracks'
BY Bounds DEF Shape, TypeOK, Tracks, Tracked

\* A promise goes on.
LEMMA TaskStep ==
  ASSUME Shape, NEW t \in Token, NEW r \in Sound, task' = [task EXCEPT ![t] = r], UNCHANGED queue,
         task[t].pc # "resolved", task[t].pc = "free" => numTotal < Concurrency
  PROVE  Tasks' /\ ResultsOK'
<1>1. task \in [Token -> Sound] /\ task' \in [Token -> Sound] /\ ResultsOK /\ queue \in Seq(Token) /\ numTotal <= Concurrency
  BY ShapeIs DEF Tasks, Seqs
<1>2. \A u \in Token \ {t} : task'[u] = task[u]
  BY <1>1
<1>3. (numTotal <= Concurrency)'
  <2>1. CASE task[t].pc = "free"
    BY <1>1, <1>2, <2>1, Counted
  <2>2. CASE task[t].pc # "free"
    <3>1. \A u \in Token : task'[u].pc # "free" => task[u].pc # "free"
      BY <1>2, <2>2
    <3> QED BY <1>1, <3>1, Counted
  <2> QED BY <2>1, <2>2
<1>4. \A i \in 1 .. Len(queue) : queue[i] \in Token /\ task[queue[i]].pc = "resolved"
  BY <1>1 DEF ResultsOK
<1>5. \A i \in 1 .. Len(queue) : task'[queue[i]].pc = "resolved"
  BY <1>2, <1>4
<1> QED BY <1>1, <1>3, <1>5 DEF Tasks, ResultsOK

\* A promise resolves.
LEMMA ResolveStep ==
  ASSUME Shape, NEW t \in Token, NEW j \in Job \union {NoJob}, Resolve(t, j),
         task[t].pc # "resolved", task[t].pc = "free" => numTotal < Concurrency
  PROVE  /\ Tasks' /\ ResultsOK' /\ queue' \in Seq(Token)
         /\ task'[t].pc = "resolved" /\ task'[t].job = j /\ task'[t].next = NoJob
         /\ \A u \in Token \ {t} : task'[u] = task[u]
<1> USE Bounds
<1>1. task \in [Token -> Sound] /\ ResultsOK /\ queue \in Seq(Token) /\ numTotal <= Concurrency
  BY ShapeIs DEF Tasks, Seqs
<1> DEFINE r == [Free EXCEPT !.pc = "resolved", !.job = j]
<1>2. r \in Sound /\ r.pc = "resolved" /\ r.job = j /\ r.next = NoJob
  <2>1. r \in TaskType
    BY FreeIs
  <2>2. r.pc = "resolved" /\ r.job = j /\ r.next = NoJob
    BY FreeIs DEF Free
  <2> HIDE DEF r
  <2> QED BY <2>1, <2>2 DEF Sound, PhaseOK, Fetching, Working, Acked
<1>3. task' = [task EXCEPT ![t] = r]
  BY DEF Resolve
<1> HIDE DEF r
<1>4. task' \in [Token -> Sound] /\ task'[t] = r /\ \A u \in Token \ {t} : task'[u] = task[u]
  BY <1>1, <1>2, <1>3
<1>5. (numTotal <= Concurrency)'
  <2>1. CASE task[t].pc = "free"
    BY <1>1, <1>4, <2>1, Counted
  <2>2. CASE task[t].pc # "free"
    <3>1. \A u \in Token : task'[u].pc # "free" => task[u].pc # "free"
      BY <1>4, <2>2
    <3> QED BY <1>1, <1>4, <3>1, Counted
  <2> QED BY <2>1, <2>2
<1>6. /\ queue' \in Seq(Token) /\ Len(queue') = Len(queue) + 1
      /\ \A i \in 1 .. Len(queue) : queue'[i] = queue[i]
      /\ queue'[Len(queue) + 1] = t
  BY <1>1, AppendProperties DEF Resolve
<1>7. Len(queue) \in Nat
  BY <1>1, LenProperties
<1>8. \A i \in 1 .. Len(queue) : queue[i] \in Token /\ queue[i] # t /\ task[queue[i]].pc = "resolved"
  BY <1>1 DEF ResultsOK
<1>9. ResultsOK'
  <2>1. \A i \in 1 .. Len(queue') : i \in 1 .. Len(queue) \/ i = Len(queue) + 1
    BY <1>6, <1>7
  <2>2. ASSUME NEW i \in 1 .. Len(queue') PROVE task'[queue'[i]].pc = "resolved"
    BY <1>2, <1>4, <1>6, <1>8, <2>1
  <2>3. ASSUME NEW i \in 1 .. Len(queue'), NEW k \in 1 .. Len(queue'), queue'[i] = queue'[k] PROVE i = k
    BY <1>1, <1>6, <1>8, <2>1, <2>3 DEF ResultsOK
  <2> QED BY <2>2, <2>3 DEF ResultsOK
<1> QED BY <1>2, <1>4, <1>5, <1>6, <1>9 DEF Tasks

\* The parked promises are woken.
LEMMA WokenStep ==
  ASSUME Shape, NEW at \in 0 .. MaxTime, task' = Woken(at), UNCHANGED queue
  PROVE  /\ Tasks' /\ ResultsOK'
         /\ \A t \in Token : IF task[t].pc = "parked"
                             THEN task'[t] = [task[t] EXCEPT !.pc = "woken", !.until = at]
                             ELSE task'[t] = task[t]
         /\ \A t \in Token : task[t].pc = "parked" => task'[t].pc = "woken" /\ task'[t].until = at /\
                                                      task'[t].job = task[t].job /\ task'[t].next = task[t].next
<1>1. task \in [Token -> Sound] /\ ResultsOK /\ queue \in Seq(Token) /\ numTotal <= Concurrency
  BY ShapeIs DEF Tasks, Seqs
<1>2. \A t \in Token : IF task[t].pc = "parked"
                       THEN task'[t] = [task[t] EXCEPT !.pc = "woken", !.until = at]
                       ELSE task'[t] = task[t]
  BY DEF Woken
<1>3. ASSUME NEW t \in Token, task[t].pc = "parked"
      PROVE  /\ task'[t] \in Sound /\ task'[t].pc = "woken" /\ task'[t].until = at
             /\ task'[t].job = task[t].job /\ task'[t].next = task[t].next
  <2>1. task[t] \in Sound /\ task'[t] = [task[t] EXCEPT !.pc = "woken", !.until = at]
    BY <1>1, <1>2, <1>3
  <2> QED BY <1>3, <2>1 DEF Sound, TaskType, PhaseOK, Fetching, Working, Acked
<1>4. task' \in [Token -> Sound]
  <2>1. \A t \in Token : task'[t] \in Sound
    BY <1>1, <1>2, <1>3
  <2> QED BY <2>1 DEF Woken
<1>5. (numTotal <= Concurrency)'
  <2>1. \A t \in Token : task'[t].pc # "free" => task[t].pc # "free"
    BY <1>2, <1>3
  <2> QED BY <1>1, <1>4, <2>1, Counted
<1>6. ResultsOK'
  <2>1. \A i \in 1 .. Len(queue) : queue[i] \in Token /\ task[queue[i]].pc = "resolved"
    BY <1>1 DEF ResultsOK
  <2>2. \A i \in 1 .. Len(queue) : task'[queue[i]].pc = "resolved"
    BY <1>2, <2>1
  <2> QED BY <1>1, <2>2 DEF ResultsOK
<1> QED BY <1>2, <1>3, <1>4, <1>5, <1>6 DEF Tasks

-----------------------------------------------------------------------------
(* Steps after which the table is the same and every promise has what it    *)
(* had: the main loop, the waits, the notifications, pause and close.      *)

Unsettled == {"resolved", "busy", "complete", "fail"}

Quiet ==
  /\ job' = job /\ happened \subseteq happened'
  /\ \A t \in Token :
       /\ task'[t].job = task[t].job /\ task'[t].next = task[t].next
       /\ \/ task'[t].pc = task[t].pc
          \/ task'[t].job = NoJob
          \/ task[t].pc \in Unsettled /\ task'[t].pc \in Unsettled

LEMMA RunIs == ASSUME Shape, Run PROVE Shape' /\ Quiet
<1> USE Bounds
<1>1. Table /\ Seqs /\ Fields
  BY ShapeIs
<1>2. Tasks' /\ ResultsOK' /\ Tracks'
  BY TasksSame, TracksSame DEF Run, fifo
<1>3. (blockUntil \in 0 .. MaxTime)'
  <2> DEFINE at == {job[j].at : j \in {i \in Job : job[i].state = "delayed"}}
  <2>1. at \in SUBSET (0 .. MaxTime)
    BY <1>1, RowIs DEF Table
  <2>2. at # {} => Min(at) \in at
    <3>1. at \in SUBSET Nat
      BY <2>1
    <3> HIDE DEF at
    <3> QED BY <3>1, MinIs
  <2>3. blockUntil' = blockUntil \/ blockUntil' = IF at # {} /\ Min(at) > now THEN Min(at) ELSE blockUntil
    BY DEF Run, Bootstrap
  <2> HIDE DEF at
  <2> QED BY <1>1, <2>1, <2>2, <2>3 DEF Fields
<1>4. (pendingMarker \in BOOLEAN)'
  BY <1>1 DEF Run, Bootstrap, Fields
<1>5. Fields'
  BY <1>1, <1>3, <1>4 DEF Run, Fields, life
<1>6. Table' /\ Seqs'
  BY <1>1 DEF Run, Table, Seqs, db, fifo
<1> QED BY <1>2, <1>5, <1>6, ShapeIsNext DEF Run, Quiet, db, fifo

\* Where the loop goes, a type lemma for what mainLoop calls.
LEMMA RoundIs ==
  /\ NextRound => (loop \in {"stopped", "gather"})'
  /\ RestOrGoOn => (loop \in {"stopped", "gather", "limited"})'
BY DEF NextRound, RestOrGoOn

LEMMA GatherNoMoreIs == ASSUME Shape, GatherNoMore PROVE Shape' /\ Quiet
<1>1. Table' /\ Seqs' /\ Fields'
  BY ShapeIs DEF GatherNoMore, Table, Seqs, Fields, db, wire, life, wakeup, fifo
<1>2. Tasks' /\ ResultsOK' /\ Tracks'
  BY TasksSame, TracksSame DEF GatherNoMore, fifo
<1> QED BY <1>1, <1>2, ShapeIsNext DEF GatherNoMore, Quiet, db, fifo

LEMMA AwaitIs == ASSUME Shape, Await PROVE Shape' /\ Quiet
<1>1. Table' /\ Seqs' /\ Fields'
  BY Bounds, ShapeIs DEF Await, Table, Seqs, Fields, db, wire, life, wakeup, fifo
<1>2. Tasks' /\ ResultsOK' /\ Tracks'
  BY TasksSame, TracksSame DEF Await, fifo
<1> QED BY <1>1, <1>2, ShapeIsNext DEF Await, Quiet, db, fifo

LEMMA TakeNoneIs == ASSUME Shape, TakeNone PROVE Shape' /\ Quiet
<1>1. Table' /\ Seqs' /\ Fields'
  BY ShapeIs, RoundIs DEF TakeNone, Table, Seqs, Fields, db, wire, life, wakeup
<1>2. Tasks' /\ ResultsOK' /\ Tracks'
  BY TasksSame, TracksSame DEF TakeNone
<1> QED BY <1>1, <1>2, ShapeIsNext DEF TakeNone, Quiet, db

LEMMA LimitPassesIs == ASSUME Shape, LimitPasses PROVE Shape' /\ Quiet
<1>1. Table' /\ Seqs' /\ Fields'
  BY Bounds, ShapeIs, RoundIs DEF LimitPasses, Table, Seqs, Fields, db, wire, life, fifo
<1>2. Tasks' /\ ResultsOK' /\ Tracks'
  BY TasksSame, TracksSame DEF LimitPasses, fifo
<1> QED BY <1>1, <1>2, ShapeIsNext DEF LimitPasses, Quiet, db, fifo

LEMMA ListenerIsLostIs == ASSUME Shape, ListenerIsLost PROVE Shape' /\ Quiet
<1>1. Table' /\ Seqs' /\ Fields'
  BY ShapeIs DEF ListenerIsLost, Disconnect, Once, May, Table, Seqs, Fields, db, life, wakeup, main, fifo
<1>2. Tasks' /\ ResultsOK' /\ Tracks'
  BY TasksSame, TracksSame DEF ListenerIsLost, fifo
<1> QED BY <1>1, <1>2, ShapeIsNext DEF ListenerIsLost, Once, Quiet, db, fifo

LEMMA ReconnectIs == ASSUME Shape, Reconnect PROVE Shape' /\ Quiet
<1>1. Table' /\ Seqs' /\ Fields'
  BY ShapeIs DEF Reconnect, Table, Seqs, Fields, db, life, wakeup, main, fifo
<1>2. Tasks' /\ ResultsOK' /\ Tracks'
  BY TasksSame, TracksSame DEF Reconnect, fifo
<1> QED BY <1>1, <1>2, ShapeIsNext DEF Reconnect, Quiet, db, fifo

LEMMA ResumeIs == ASSUME Shape, Resume PROVE Shape' /\ Quiet
<1>1. Table' /\ Seqs' /\ Fields'
  BY ShapeIs DEF Resume, Table, Seqs, Fields, db, wire, wakeup, main, fifo
<1>2. Tasks' /\ ResultsOK' /\ Tracks'
  BY TasksSame, TracksSame DEF Resume, fifo
<1> QED BY <1>1, <1>2, ShapeIsNext DEF Resume, Quiet, db, fifo

LEMMA ClosedIs == ASSUME Shape, Closed PROVE Shape' /\ Quiet
<1>1. Table' /\ Seqs' /\ Fields'
  BY ShapeIs DEF Closed, Table, Seqs, Fields, db, wakeup, main, fifo
<1>2. Tasks' /\ ResultsOK'
  BY TasksSame DEF Closed, fifo
<1>3. Tracks'
  BY Bounds DEF Closed, Tracks, Tracked
<1> QED BY <1>1, <1>2, <1>3, ShapeIsNext DEF Closed, Quiet, db, fifo

LEMMA TickIs == ASSUME Shape, Tick PROVE Shape' /\ Quiet
<1>1. Table' /\ Seqs' /\ Fields'
  BY Bounds, ShapeIs DEF Tick, Table, Seqs, Fields, wire, life, wakeup, main, fifo
<1>2. Tasks' /\ ResultsOK' /\ Tracks'
  BY TasksSame, TracksSame DEF Tick, fifo
<1> QED BY <1>1, <1>2, ShapeIsNext DEF Tick, Quiet, fifo

\* A fetch, up to its first await: it resolves to nothing, claims, waits no longer or is parked.
LEMMA GetNextJobIs ==
  ASSUME Shape, NEW t \in Token, task[t].pc \in {"free", "again"},
         task[t].pc = "free" => numTotal < Concurrency, getNextJob(t)
  PROVE  /\ Tasks' /\ ResultsOK' /\ queue' \in Seq(Token)
         /\ drained' \in BOOLEAN /\ fetchedSinceDrain' \in BOOLEAN /\ pendingMarker' \in BOOLEAN
         /\ blockUntil' \in 0 .. MaxTime /\ limitUntil' \in 0 .. MaxTime /\ waiting' \in 0 .. MaxToken
         /\ \A u \in Token \ {t} : task'[u] = task[u]
         /\ task[t].job = NoJob /\ task[t].next = NoJob
         /\ task'[t].job = NoJob /\ task'[t].next = NoJob
         /\ \/ task'[t].pc = "resolved" /\ UNCHANGED wakeup
            \/ task'[t].pc = "claim" /\ UNCHANGED wakeup
            \/ task'[t].pc = "woken" /\ task'[t].until = 0
            \/ task'[t].pc = "parked" /\ ~pendingMarker /\ ~closing
<1> USE Bounds
<1>1. Fields /\ queue \in Seq(Token) /\ task \in [Token -> Sound]
  BY ShapeIs DEF Seqs, Tasks
<1>2. task[t].job = NoJob /\ task[t].next = NoJob
  <2>1. task[t] \in Sound
    BY <1>1
  <2> QED BY <2>1 DEF Sound, PhaseOK, Fetching, Acked
<1>3. CASE Resolve(t, NoJob) /\ UNCHANGED wakeup
  <2>1. /\ Tasks' /\ ResultsOK' /\ queue' \in Seq(Token)
        /\ task'[t].pc = "resolved" /\ task'[t].job = NoJob /\ task'[t].next = NoJob
        /\ \A u \in Token \ {t} : task'[u] = task[u]
    BY <1>3, ResolveStep
  <2> QED BY <1>1, <1>2, <1>3, <2>1 DEF Fields, wakeup
<1>4. ASSUME NEW r \in TaskType, r.job = NoJob, r.next = NoJob, r.pc \in {"woken", "claim", "parked"},
             task' = [task EXCEPT ![t] = r], UNCHANGED queue
      PROVE  /\ Tasks' /\ ResultsOK' /\ queue' \in Seq(Token) /\ task'[t] = r
             /\ \A u \in Token \ {t} : task'[u] = task[u]
  <2>1. r \in Sound
    BY <1>4 DEF Sound, PhaseOK, Fetching, Working, Acked
  <2>2. Tasks' /\ ResultsOK'
    BY <1>4, <2>1, TaskStep
  <2> QED BY <1>1, <1>4, <2>2
<1>5. CASE task' = [task EXCEPT ![t] = [Free EXCEPT !.pc = "claim"]] /\ UNCHANGED <<queue, wakeup>>
  <2> DEFINE r == [Free EXCEPT !.pc = "claim"]
  <2>1. r \in TaskType /\ r.job = NoJob /\ r.next = NoJob /\ r.pc = "claim"
    BY FreeIs DEF Free
  <2> HIDE DEF r
  <2>2. task' = [task EXCEPT ![t] = r]
    BY <1>5 DEF r
  <2>3. /\ Tasks' /\ ResultsOK' /\ queue' \in Seq(Token) /\ task'[t] = r
        /\ \A u \in Token \ {t} : task'[u] = task[u]
    BY <1>4, <1>5, <2>1, <2>2
  <2> QED BY <1>1, <1>2, <1>5, <2>1, <2>3 DEF Fields, wakeup
<1>6. CASE ~closing /\ waitForJob(t)
  <2>1. drained' \in BOOLEAN /\ fetchedSinceDrain' \in BOOLEAN /\ pendingMarker' \in BOOLEAN
        /\ blockUntil' \in 0 .. MaxTime /\ limitUntil' \in 0 .. MaxTime /\ waiting' \in 0 .. MaxToken
    BY <1>1, <1>6 DEF Fields, waitForJob, updateDelays
  <2>2. UNCHANGED queue
    BY <1>6 DEF waitForJob
  <2>3. CASE task' = [task EXCEPT ![t] = [Free EXCEPT !.pc = "woken"]]
    <3> DEFINE r == [Free EXCEPT !.pc = "woken"]
    <3>1. r \in TaskType /\ r.job = NoJob /\ r.next = NoJob /\ r.pc = "woken" /\ r.until = 0
      BY FreeIs DEF Free
    <3> HIDE DEF r
    <3>2. task' = [task EXCEPT ![t] = r]
      BY <2>3 DEF r
    <3>3. /\ Tasks' /\ ResultsOK' /\ queue' \in Seq(Token) /\ task'[t] = r
          /\ \A u \in Token \ {t} : task'[u] = task[u]
      BY <1>4, <2>2, <3>1, <3>2
    <3> QED BY <1>2, <2>1, <3>1, <3>3
  <2>4. CASE ~pendingMarker /\ task' = [task EXCEPT ![t] = [Free EXCEPT !.pc = "parked", !.until = blockUntil]]
    <3> DEFINE r == [Free EXCEPT !.pc = "parked", !.until = blockUntil]
    <3>1. r \in TaskType /\ r.job = NoJob /\ r.next = NoJob /\ r.pc = "parked"
      BY <1>1, FreeIs DEF Free, Fields
    <3> HIDE DEF r
    <3>2. task' = [task EXCEPT ![t] = r]
      BY <2>4 DEF r
    <3>3. /\ Tasks' /\ ResultsOK' /\ queue' \in Seq(Token) /\ task'[t] = r
          /\ \A u \in Token \ {t} : task'[u] = task[u]
      BY <1>4, <2>2, <3>1, <3>2
    <3> QED BY <1>2, <1>6, <2>1, <2>4, <3>1, <3>3
  <2> QED BY <1>1, <1>6, <2>3, <2>4 DEF waitForJob, Fields
<1> QED BY <1>3, <1>5, <1>6 DEF getNextJob, wakeup

LEMMA GatherIs == ASSUME Shape, Gather PROVE Shape' /\ Quiet
<1> DEFINE t == FreshToken
<1>1. t \in Token /\ task[t].pc = "free"
  BY FreshIs DEF Gather
<1>2. getNextJob(t) /\ numTotal < Concurrency
  BY DEF Gather, HasRoom
<1>3. loop' \in {"take", "await"} /\ awaited' \in {awaited, t} /\ UNCHANGED <<job, now, notes, listening, closing, paused, closed, trackedJobs, happened>>
  BY DEF Gather, db, wire, life
<1> HIDE DEF t
<1>4. /\ Tasks' /\ ResultsOK' /\ queue' \in Seq(Token)
      /\ drained' \in BOOLEAN /\ fetchedSinceDrain' \in BOOLEAN /\ pendingMarker' \in BOOLEAN
      /\ blockUntil' \in 0 .. MaxTime /\ limitUntil' \in 0 .. MaxTime /\ waiting' \in 0 .. MaxToken
      /\ \A u \in Token \ {t} : task'[u] = task[u]
      /\ task[t].job = NoJob /\ task[t].next = NoJob /\ task'[t].job = NoJob /\ task'[t].next = NoJob
  BY <1>1, <1>2, GetNextJobIs
<1>5. Table' /\ Seqs' /\ Fields'
  BY <1>1, <1>3, <1>4, Bounds, ShapeIs DEF Table, Seqs, Fields
<1>6. Tracks'
  BY <1>1, <1>3, <1>4, TracksSame
<1> QED BY <1>1, <1>3, <1>4, <1>5, <1>6, ShapeIsNext DEF Quiet

LEMMA FetchAgainIs == ASSUME Shape, NEW t \in Token, FetchAgain(t) PROVE Shape' /\ Quiet
<1>1. task[t].pc = "again" /\ getNextJob(t)
  BY DEF FetchAgain
<1>2. UNCHANGED <<job, now, notes, listening, closing, paused, closed, trackedJobs, loop, awaited, happened>>
  BY DEF FetchAgain, db, wire, life, main
<1>3. /\ Tasks' /\ ResultsOK' /\ queue' \in Seq(Token)
      /\ drained' \in BOOLEAN /\ fetchedSinceDrain' \in BOOLEAN /\ pendingMarker' \in BOOLEAN
      /\ blockUntil' \in 0 .. MaxTime /\ limitUntil' \in 0 .. MaxTime /\ waiting' \in 0 .. MaxToken
      /\ \A u \in Token \ {t} : task'[u] = task[u]
      /\ task[t].job = NoJob /\ task[t].next = NoJob /\ task'[t].job = NoJob /\ task'[t].next = NoJob
  BY <1>1, GetNextJobIs
<1>4. Table' /\ Seqs' /\ Fields'
  BY <1>2, <1>3, ShapeIs DEF Table, Seqs, Fields
<1>5. Tracks'
  BY <1>2, <1>3, TracksSame
<1> QED BY <1>2, <1>3, <1>4, <1>5, ShapeIsNext DEF Quiet

LEMMA TakeIs == ASSUME Shape, Take PROVE Shape' /\ Quiet
<1> USE Bounds
<1> DEFINE t == Head(queue)
           j == task[t].job
<1>1. task \in [Token -> Sound] /\ queue \in Seq(Token) /\ queue # <<>> /\ ResultsOK /\ numTotal <= Concurrency
  BY ShapeIs DEF Take, Seqs, Tasks
<1>2. /\ Len(queue) \in Nat \ {0} /\ t = queue[1] /\ t \in Token /\ queue' \in Seq(Token)
      /\ Len(queue') = Len(queue) - 1 /\ \A i \in 1 .. Len(queue') : queue'[i] = queue[i + 1]
  BY <1>1, EmptySeq, HeadTailProperties DEF Take
<1>3. task[t].pc = "resolved"
  BY <1>1, <1>2 DEF ResultsOK
<1>4. task[t] \in Sound /\ task[t].next = NoJob /\ j \in Job \union {NoJob}
  <2>1. task[t] \in Sound
    BY <1>1, <1>2
  <2> QED BY <1>3, <2>1 DEF Sound, PhaseOK, TaskType, Acked
<1>5. PICK r \in Sound : /\ task' = [task EXCEPT ![t] = r] /\ r.job = j /\ r.next = NoJob
                         /\ r.pc = IF j = NoJob THEN "free" ELSE "busy"
  <2>1. CASE j = NoJob
    <3>1. Free \in Sound
      BY FreeIs DEF Sound, PhaseOK, Working, Acked
    <3> QED BY <2>1, <3>1, FreeIs DEF Take
  <2>2. CASE j # NoJob
    <3> DEFINE r == [Free EXCEPT !.pc = "busy", !.job = j]
    <3>1. r \in TaskType /\ r.pc = "busy" /\ r.job = j /\ r.next = NoJob
      <4>1. r \in TaskType
        BY <1>4, FreeIs
      <4>2. r.pc = "busy" /\ r.job = j /\ r.next = NoJob
        BY DEF Free
      <4> QED BY <4>1, <4>2
    <3> HIDE DEF r
    <3>2. r \in Sound
      BY <2>2, <3>1 DEF Sound, PhaseOK, Fetching
    <3>3. task' = [task EXCEPT ![t] = r]
      BY <2>2 DEF Take, r
    <3> QED BY <2>2, <3>1, <3>2, <3>3
  <2> QED BY <2>1, <2>2
<1>6. /\ task' \in [Token -> Sound] /\ task'[t] = r /\ \A u \in Token \ {t} : task'[u] = task[u]
      /\ \A u \in Token : task'[u].job = task[u].job /\ task'[u].next = task[u].next
  BY <1>1, <1>2, <1>4, <1>5
<1>7. (loop \in {"stopped", "gather", "limited", "take"})'
  BY RoundIs DEF Take
<1>8. UNCHANGED <<job, now, notes, listening, closing, paused, closed, drained, fetchedSinceDrain, pendingMarker, blockUntil, limitUntil, waiting, awaited, happened>>
  BY DEF Take, db, wire, life, wakeup
<1>9. \/ UNCHANGED trackedJobs
      \/ j # NoJob /\ trackedJobs' = [trackedJobs EXCEPT ![j] = t]
  BY DEF Take
<1> HIDE DEF t, j
<1>10. Tracks'
  <2>1. CASE UNCHANGED trackedJobs
    BY <1>6, <2>1, TracksSame
  <2>2. CASE j # NoJob /\ trackedJobs' = [trackedJobs EXCEPT ![j] = t]
    <3>1. trackedJobs \in [Job -> 0 .. MaxToken] /\ j \in Job /\ t \in 0 .. MaxToken /\ Tracked
      BY <1>2, <1>4, <2>2, ShapeIs DEF Tracks
    <3>2. trackedJobs' \in [Job -> 0 .. MaxToken]
      BY <2>2, <3>1
    <3>3. ASSUME NEW k \in Job, trackedJobs'[k] # NoToken PROVE task'[trackedJobs'[k]].job = k
      <4>1. CASE k = j
        BY <1>2, <1>5, <1>6, <2>2, <3>1, <4>1
      <4>2. CASE k # j
        <5>1. trackedJobs'[k] = trackedJobs[k] /\ trackedJobs[k] \in Token /\ task[trackedJobs[k]].job = k
          BY <2>2, <3>1, <3>3, <4>2 DEF Tracked
        <5> QED BY <1>6, <5>1
      <4> QED BY <4>1, <4>2
    <3> QED BY <3>2, <3>3 DEF Tracks, Tracked
  <2> QED BY <1>9, <2>1, <2>2
<1>11. Tasks'
  <2>1. \A u \in Token : task'[u].pc # "free" => task[u].pc # "free"
    BY <1>3, <1>6
  <2> QED BY <1>1, <1>6, <2>1, Counted DEF Tasks
<1>12. ResultsOK'
  <2>1. ASSUME NEW i \in 1 .. Len(queue') PROVE queue'[i] \in Token /\ queue'[i] # t /\ task'[queue'[i]].pc = "resolved"
    <3>1. i + 1 \in 1 .. Len(queue) /\ i + 1 # 1 /\ 1 \in 1 .. Len(queue)
      BY <1>2
    <3>2. queue[i + 1] \in Token /\ queue[i + 1] # queue[1] /\ task[queue[i + 1]].pc = "resolved"
      BY <1>1, <3>1 DEF ResultsOK
    <3> QED BY <1>2, <1>6, <3>2
  <2>2. ASSUME NEW i \in 1 .. Len(queue'), NEW k \in 1 .. Len(queue'), queue'[i] = queue'[k] PROVE i = k
    <3>1. i + 1 \in 1 .. Len(queue) /\ k + 1 \in 1 .. Len(queue)
      BY <1>2
    <3>2. i + 1 = k + 1
      BY <1>1, <1>2, <2>2, <3>1 DEF ResultsOK
    <3> QED BY <3>2
  <2> QED BY <2>1, <2>2 DEF ResultsOK
<1>13. Table' /\ Seqs' /\ Fields'
  BY <1>2, <1>7, <1>8, ShapeIs DEF Table, Seqs, Fields
<1>14. Quiet
  BY <1>3, <1>5, <1>6, <1>8 DEF Quiet, Unsettled
<1> QED BY <1>10, <1>11, <1>12, <1>13, <1>14, ShapeIsNext

\* A promise goes on with what it has.
LEMMA GoesOn ==
  ASSUME Shape, NEW t \in Token, NEW r \in Sound, task' = [task EXCEPT ![t] = r], UNCHANGED <<queue, trackedJobs>>,
         r.job = task[t].job, r.next = task[t].next, task[t].pc \notin {"resolved", "free"}
  PROVE  /\ Tasks' /\ ResultsOK' /\ Tracks'
         /\ task'[t] = r /\ \A u \in Token \ {t} : task'[u] = task[u]
         /\ \A u \in Token : task'[u].job = task[u].job /\ task'[u].next = task[u].next
<1>1. task \in [Token -> Sound]
  BY ShapeIs DEF Tasks
<1>2. /\ task'[t] = r /\ \A u \in Token \ {t} : task'[u] = task[u]
      /\ \A u \in Token : task'[u].job = task[u].job /\ task'[u].next = task[u].next
  BY <1>1
<1> QED BY <1>2, TaskStep, TracksSame

LEMMA BlockTimeoutIs == ASSUME Shape, NEW t \in Token, BlockTimeout(t) PROVE Shape' /\ Quiet
<1> DEFINE r == [task[t] EXCEPT !.pc = "woken", !.until = 0]
<1>1. task \in [Token -> Sound] /\ task[t].pc = "parked" /\ task[t] \in Sound
  BY ShapeIs DEF Tasks, BlockTimeout
<1>2. r \in TaskType /\ r.pc = "woken" /\ r.job = task[t].job /\ r.next = task[t].next
  BY <1>1, Bounds DEF Sound, TaskType, Fetching
<1>3. task' = [task EXCEPT ![t] = r]
  BY <1>1 DEF BlockTimeout
<1> HIDE DEF r
<1>4. r \in Sound /\ r.job = NoJob
  BY <1>1, <1>2 DEF Sound, PhaseOK, Fetching, Working, Acked
<1>5. UNCHANGED <<queue, trackedJobs>>
  BY DEF BlockTimeout
<1>6. /\ Tasks' /\ ResultsOK' /\ Tracks'
      /\ task'[t] = r /\ \A u \in Token \ {t} : task'[u] = task[u]
      /\ \A u \in Token : task'[u].job = task[u].job /\ task'[u].next = task[u].next
  BY <1>1, <1>2, <1>3, <1>4, <1>5, GoesOn
<1>7. Table' /\ Seqs' /\ Fields'
  BY ShapeIs DEF BlockTimeout, Table, Seqs, Fields, db, wire, life, wakeup, main
<1> QED BY <1>4, <1>6, <1>7, ShapeIsNext DEF Quiet, BlockTimeout, db

LEMMA ReturnsIs == ASSUME Shape, NEW t \in Token, Returns(t) PROVE Shape' /\ Quiet
<1>1. task \in [Token -> Sound] /\ task[t].pc = "busy" /\ task[t] \in Sound
  BY ShapeIs DEF Tasks, Returns
<1>2. PICK pc \in {"complete", "fail"} : task' = [task EXCEPT ![t].pc = pc]
  BY DEF Returns
<1> DEFINE r == [task[t] EXCEPT !.pc = pc]
<1>3. r \in TaskType /\ r.pc = pc /\ r.job = task[t].job /\ r.next = task[t].next
  BY <1>1 DEF Sound, TaskType, Working
<1>4. task' = [task EXCEPT ![t] = r]
  BY <1>1, <1>2
<1> HIDE DEF r
<1>5. r \in Sound
  BY <1>1, <1>3 DEF Sound, PhaseOK, Fetching, Working, Acked
<1>6. UNCHANGED <<queue, trackedJobs>>
  BY DEF Returns
<1>7. /\ Tasks' /\ ResultsOK' /\ Tracks'
      /\ task'[t] = r /\ \A u \in Token \ {t} : task'[u] = task[u]
      /\ \A u \in Token : task'[u].job = task[u].job /\ task'[u].next = task[u].next
  BY <1>1, <1>3, <1>4, <1>5, <1>6, GoesOn
<1>8. Table' /\ Seqs' /\ Fields'
  BY ShapeIs DEF Returns, Table, Seqs, Fields, db, wire, life, wakeup, main
<1> QED BY <1>1, <1>3, <1>7, <1>8, ShapeIsNext DEF Quiet, Unsettled, Returns, db

LEMMA AfterWaitIs == ASSUME Shape, NEW t \in Token, AfterWait(t) PROVE Shape' /\ Quiet
<1> USE Bounds
<1>1. task \in [Token -> Sound] /\ task[t].pc = "woken" /\ task[t] \in Sound /\ waiting \in 0 .. MaxToken
  BY ShapeIs DEF Tasks, AfterWait, Fields
<1>2. task[t].until \in 0 .. MaxTime /\ task[t].job = NoJob /\ task[t].next = NoJob
  BY <1>1 DEF Sound, TaskType, PhaseOK, Fetching, Acked
<1>3. UNCHANGED <<job, now, notes, listening, closing, paused, closed, drained, fetchedSinceDrain,
                  pendingMarker, limitUntil, trackedJobs, loop, awaited, happened>>
  BY DEF AfterWait, db, wire, life, main
<1>4. blockUntil' = task[t].until
  BY DEF AfterWait
<1>5. CASE Resolve(t, NoJob) /\ waiting' = EndsWait(t)
  <2>1. /\ Tasks' /\ ResultsOK' /\ queue' \in Seq(Token)
        /\ task'[t].pc = "resolved" /\ task'[t].job = NoJob /\ task'[t].next = NoJob
        /\ \A u \in Token \ {t} : task'[u] = task[u]
    BY <1>1, <1>5, ResolveStep
  <2>2. \A u \in Token : task'[u].job = task[u].job /\ task'[u].next = task[u].next
    BY <1>2, <2>1
  <2>3. Tracks'
    BY <1>3, <2>2, TracksSame
  <2>4. waiting' \in 0 .. MaxToken
    BY <1>1, <1>5 DEF EndsWait
  <2>5. Table' /\ Seqs' /\ Fields'
    BY <1>2, <1>3, <1>4, <2>1, <2>4, ShapeIs DEF Table, Seqs, Fields
  <2> QED BY <1>2, <1>3, <2>1, <2>2, <2>3, <2>5, ShapeIsNext DEF Quiet
<1>6. CASE task' = [task EXCEPT ![t].pc = "claim"] /\ UNCHANGED <<queue, waiting>>
  <2> DEFINE r == [task[t] EXCEPT !.pc = "claim"]
  <2>1. r \in TaskType /\ r.pc = "claim" /\ r.job = task[t].job /\ r.next = task[t].next
    BY <1>1 DEF Sound, TaskType, Fetching
  <2>2. task' = [task EXCEPT ![t] = r]
    BY <1>1, <1>6
  <2> HIDE DEF r
  <2>3. r \in Sound
    BY <1>1, <1>2, <2>1 DEF Sound, PhaseOK, Fetching, Working, Acked
  <2>4. UNCHANGED <<queue, trackedJobs>>
    BY <1>3, <1>6
  <2>5. /\ Tasks' /\ ResultsOK' /\ Tracks'
        /\ task'[t] = r /\ \A u \in Token \ {t} : task'[u] = task[u]
        /\ \A u \in Token : task'[u].job = task[u].job /\ task'[u].next = task[u].next
    BY <1>1, <2>1, <2>2, <2>3, <2>4, GoesOn
  <2>6. Table' /\ Seqs' /\ Fields'
    BY <1>2, <1>3, <1>4, <1>6, ShapeIs DEF Table, Seqs, Fields
  <2> QED BY <1>2, <1>3, <2>5, <2>6, ShapeIsNext DEF Quiet
<1> QED BY <1>5, <1>6 DEF AfterWait

\* The parked promises are woken, by a notification, pause or close.
LEMMA WokenIs ==
  ASSUME Shape, NEW at \in 0 .. MaxTime, task' = Woken(at), UNCHANGED <<job, queue, trackedJobs>>,
         happened \subseteq happened'
  PROVE  Tasks' /\ ResultsOK' /\ Tracks' /\ Quiet
<1>1. /\ Tasks' /\ ResultsOK'
      /\ \A t \in Token : IF task[t].pc = "parked"
                          THEN task'[t] = [task[t] EXCEPT !.pc = "woken", !.until = at]
                          ELSE task'[t] = task[t]
      /\ \A t \in Token : task[t].pc = "parked" => task'[t].pc = "woken" /\ task'[t].until = at /\
                                                   task'[t].job = task[t].job /\ task'[t].next = task[t].next
  BY WokenStep
<1>2. \A t \in Token : task'[t].job = task[t].job /\ task'[t].next = task[t].next
  BY <1>1
<1>3. \A t \in Token : task[t].pc = "parked" => task[t].job = NoJob
  <2>1. \A t \in Token : task[t] \in Sound
    BY ShapeIs DEF Tasks
  <2> QED BY <2>1 DEF Sound, PhaseOK, Fetching
<1>4. Tracks'
  BY <1>2, TracksSame
<1> QED BY <1>1, <1>2, <1>3, <1>4 DEF Quiet

LEMMA NotifiedIs == ASSUME Shape, Notified PROVE Shape' /\ Quiet
<1> USE Bounds
<1>1. /\ notes \in Seq(0 .. MaxTime) /\ notes # <<>> /\ Fields
  BY ShapeIs DEF Seqs, Notified
<1>2. Head(notes) \in 0 .. MaxTime /\ notes' \in Seq(0 .. MaxTime)
  <2> DEFINE Times == 0 .. MaxTime
  <2>1. notes \in Seq(Times)
    BY <1>1
  <2> HIDE DEF Times
  <2>2. Head(notes) \in Times /\ Tail(notes) \in Seq(Times)
    BY <1>1, <2>1, HeadTailProperties
  <2> QED BY <2>2 DEF Notified, Times
<1>3. PICK v \in 0 .. MaxTime : task' = Woken(v)
  BY <1>1, <1>2 DEF Notified, Fields
<1>4. UNCHANGED <<job, now, listening, closing, paused, closed, drained, fetchedSinceDrain, limitUntil,
                  waiting, trackedJobs, loop, awaited, queue, happened>>
  BY DEF Notified, db, life, main
<1>5. blockUntil' \in 0 .. MaxTime /\ pendingMarker' \in BOOLEAN
  BY <1>1, <1>2 DEF Notified, Fields, LatchesMarker, NoWaiters
<1>6. Table' /\ Seqs' /\ Fields'
  BY <1>2, <1>4, <1>5, ShapeIs DEF Table, Seqs, Fields
<1> QED BY <1>3, <1>4, <1>6, WokenIs, ShapeIsNext

LEMMA InterruptIs ==
  ASSUME Shape, NEW waits \in BOOLEAN, Interrupt(waits)
  PROVE  /\ task' = Woken(0) /\ 0 \in 0 .. MaxTime
         /\ notes' \in Seq(0 .. MaxTime) /\ listening' \in {"never", "on", "lost"}
         /\ UNCHANGED wire \/ (notes' = <<>> /\ listening' = "lost")
<1>1. notes \in Seq(0 .. MaxTime) /\ listening \in {"never", "on", "lost"}
  BY ShapeIs DEF Seqs, Fields
<1>2. UNCHANGED wire \/ (notes' = <<>> /\ listening' = "lost")
  BY DEF Interrupt, Disconnect
<1>3. notes' \in Seq(0 .. MaxTime) /\ listening' \in {"never", "on", "lost"}
  <2> DEFINE Times == 0 .. MaxTime
  <2>1. notes \in Seq(Times) /\ <<>> \in Seq(Times)
    BY <1>1, EmptySeq
  <2> HIDE DEF Times
  <2>2. notes' \in Seq(Times)
    BY <1>2, <2>1 DEF wire
  <2> QED BY <1>1, <1>2, <2>2 DEF wire, Times
<1> QED BY <1>2, <1>3, Bounds DEF Interrupt

LEMMA PauseIs == ASSUME Shape, Pause PROVE Shape' /\ Quiet
<1>1. /\ task' = Woken(0) /\ 0 \in 0 .. MaxTime
      /\ notes' \in Seq(0 .. MaxTime) /\ listening' \in {"never", "on", "lost"}
  BY InterruptIs DEF Pause
<1>2. UNCHANGED <<job, now, queue, trackedJobs, closing, closed, drained, fetchedSinceDrain, pendingMarker,
                  blockUntil, limitUntil, waiting, loop, awaited>> /\ happened \subseteq happened'
  BY DEF Pause, Once, db, wakeup, main
<1>3. happened' \subseteq Happens /\ paused' \in BOOLEAN
  BY ShapeIs DEF Pause, Once, May, Fields
<1>4. Table' /\ Seqs' /\ Fields'
  BY <1>1, <1>2, <1>3, ShapeIs DEF Table, Seqs, Fields
<1> QED BY <1>1, <1>2, <1>4, WokenIs, ShapeIsNext

LEMMA CloseIs == ASSUME Shape, Close PROVE Shape' /\ Quiet
<1>1. /\ task' = Woken(0) /\ 0 \in 0 .. MaxTime
      /\ notes' \in Seq(0 .. MaxTime) /\ listening' \in {"never", "on", "lost"}
  BY InterruptIs DEF Close
<1>2. UNCHANGED <<job, now, queue, trackedJobs, paused, closed, drained, fetchedSinceDrain, pendingMarker,
                  blockUntil, limitUntil, waiting, loop, awaited, happened>> /\ closing' = TRUE
  BY DEF Close, db, wakeup, main
<1>3. Table' /\ Seqs' /\ Fields'
  BY <1>1, <1>2, ShapeIs DEF Table, Seqs, Fields
<1> QED BY <1>1, <1>2, <1>3, WokenIs, ShapeIsNext

-----------------------------------------------------------------------------
(* What is announced.                                                      *)

LEMMA RangeOfConcat ==
  ASSUME NEW S, NEW u \in Seq(S), NEW v \in Seq(S)
  PROVE  Range(u \o v) = Range(u) \union Range(v)
<1>1. /\ Len(u) \in Nat /\ Len(v) \in Nat /\ DOMAIN u = 1 .. Len(u) /\ DOMAIN v = 1 .. Len(v)
      /\ u \o v \in Seq(S) /\ Len(u \o v) = Len(u) + Len(v) /\ DOMAIN (u \o v) = 1 .. Len(u) + Len(v)
      /\ \A i \in 1 .. Len(u) + Len(v) : (u \o v)[i] = IF i <= Len(u) THEN u[i] ELSE v[i - Len(u)]
  BY ConcatProperties, LenProperties
<1>2. ASSUME NEW x \in Range(u \o v) PROVE x \in Range(u) \union Range(v)
  <2>1. PICK i \in 1 .. Len(u) + Len(v) : x = (u \o v)[i]
    BY <1>1 DEF Range
  <2>2. CASE i <= Len(u)
    BY <1>1, <2>1, <2>2 DEF Range
  <2>3. CASE ~(i <= Len(u))
    <3>1. x = v[i - Len(u)] /\ i - Len(u) \in 1 .. Len(v)
      BY <1>1, <2>1, <2>3
    <3> QED BY <1>1, <3>1 DEF Range
  <2> QED BY <2>2, <2>3
<1>3. ASSUME NEW x \in Range(u) PROVE x \in Range(u \o v)
  <2>1. PICK i \in 1 .. Len(u) : x = u[i]
    BY <1>1 DEF Range
  <2>2. i \in 1 .. Len(u) + Len(v) /\ (u \o v)[i] = x
    BY <1>1, <2>1
  <2> QED BY <1>1, <2>2 DEF Range
<1>4. ASSUME NEW x \in Range(v) PROVE x \in Range(u \o v)
  <2>1. PICK i \in 1 .. Len(v) : x = v[i]
    BY <1>1 DEF Range
  <2> DEFINE k == Len(u) + i
  <2>2. k \in 1 .. Len(u) + Len(v) /\ ~(k <= Len(u)) /\ k - Len(u) = i
    BY <1>1, <2>1
  <2>3. (u \o v)[k] = x
    BY <1>1, <2>1, <2>2
  <2> QED BY <1>1, <2>2, <2>3 DEF Range
<1> QED BY <1>2, <1>3, <1>4

\* A marker on its way stays on its way, and a 0 that is announced is one.
LEMMA HeardOf ==
  ASSUME Shape, NEW news \in Seq(0 .. MaxTime), Announce(news)
  PROVE  /\ notes' \in Seq(0 .. MaxTime)
         /\ 0 \in Range(notes) => (0 \in Range(notes))'
         /\ listening = "on" /\ 0 \in Range(news) => (0 \in Range(notes))'
<1> DEFINE Times == 0 .. MaxTime
<1>1. notes \in Seq(Times) /\ news \in Seq(Times)
  BY ShapeIs DEF Seqs
<1> HIDE DEF Times
<1>2. CASE listening = "on"
  <2>1. notes' = notes \o news
    BY <1>2 DEF Announce
  <2>2. notes' \in Seq(Times) /\ Range(notes') = Range(notes) \union Range(news)
    BY <1>1, <2>1, ConcatProperties, RangeOfConcat
  <2> QED BY <2>2 DEF Times
<1>3. CASE listening # "on"
  <2>1. notes' = notes
    BY <1>3 DEF Announce
  <2> QED BY <1>1, <1>3, <2>1 DEF Times
<1> QED BY <1>2, <1>3

LEMMA OneNote ==
  ASSUME NEW at \in 0 .. MaxTime
  PROVE  <<at>> \in Seq(0 .. MaxTime) /\ (at = 0 => 0 \in Range(<<at>>))
<1>1. <<at>>[1] = at /\ 1 \in DOMAIN <<at>>
  OBVIOUS
<1> QED BY <1>1 DEF Range

-----------------------------------------------------------------------------
(* Quiet steps keep what is claimed; other steps change one row.           *)

LEMMA QuietKeeps ==
  ASSUME IInv, Shape', Quiet, closing => closing'
  PROVE  ClaimedIsHeld' /\ Settled' /\ Leased'
<1>1. \A t \in Token : task[t] \in Sound /\ task'[t] \in Sound
  BY ShapeIs, ShapeIsNext DEF IInv, Tasks
<1>2. \A j \in Job, t \in Token : Holds(j, t)' = Holds(j, t) /\ HasLease(j, t)' = HasLease(j, t)
  BY DEF Quiet, Holds, HasLease
<1>3. ClaimedIsHeld'
  <2> SUFFICES ASSUME "reply" \notin happened, NEW j \in Job, job[j].state = "active", job[j].live
               PROVE  HasJob(job[j].token, j)'
    BY DEF ClaimedIsHeld, Quiet
  <2>1. job[j].token \in Token
    <3>1. job[j] \in Rows
      BY ShapeIs DEF IInv, Table
    <3> QED BY <3>1, RowIs, Bounds
  <2>2. HasJob(job[j].token, j)
    BY DEF IInv, ClaimedIsHeld
  <2> QED BY <2>1, <2>2 DEF HasJob, Quiet
<1>4. Settled'
  <2> SUFFICES ASSUME "reply" \notin happened, NEW t \in Token, task'[t].pc \in Acked \union {"reclaim"},
                      Holds(task[t].job, t)
               PROVE  task[t].next = task[t].job
    BY DEF Settled, Quiet, Holds
  <2>1. task'[t].job # NoJob /\ task'[t].pc \notin Unsettled
    BY <1>1 DEF Sound, PhaseOK, Working, Acked, Unsettled
  <2>2. task[t].pc = task'[t].pc
    BY <2>1 DEF Quiet
  <2> QED BY <2>2 DEF IInv, Settled
<1>5. Leased'
  <2> SUFFICES ASSUME Calm', NEW t \in Token
               PROVE  (/\ task[t].job # NoJob /\ task[t].pc \in {"resolved", "busy", "complete", "fail"}
                          => HasLease(task[t].job, t)
                       /\ task[t].next # NoJob => HasLease(task[t].next, t))'
    BY DEF Leased
  <2>1. Calm
    BY DEF Calm, Quiet
  <2>2. task[t].job \in Job \union {NoJob} /\ task[t].next \in Job \union {NoJob}
    BY <1>1 DEF Sound, TaskType
  <2>3. task'[t].job # NoJob /\ task'[t].pc \in Unsettled => task[t].pc \in Unsettled
    BY DEF Quiet
  <2>4. task'[t].job = task[t].job /\ task'[t].next = task[t].next
    BY DEF Quiet
  <2> QED BY <1>2, <2>1, <2>2, <2>3, <2>4 DEF IInv, Leased, Unsettled
<1> QED BY <1>3, <1>4, <1>5

\* A step of somebody else on the rows: what is held was held, and what a
\* promise holds it holds after, as long as nothing goes wrong.
LEMMA RowsKeep ==
  ASSUME IInv, Shape', UNCHANGED task, happened \subseteq happened', closing => closing',
         \A j \in Job : job'[j].state = "active" =>
                          /\ job[j].state = "active" /\ job'[j].token = job[j].token
                          /\ job'[j].live => job[j].live \/ HasJob(job[j].token, j),
         Calm' => \A j \in Job, t \in Token : HasLease(j, t) /\ HasJob(t, j) => HasLease(j, t)'
  PROVE  ClaimedIsHeld' /\ Settled' /\ Leased'
<1>1. \A t \in Token : task[t] \in Sound
  BY ShapeIs DEF IInv, Tasks
<1>2. ClaimedIsHeld'
  BY DEF IInv, ClaimedIsHeld, HasJob
<1>3. Settled'
  <2>1. \A t \in Token : task[t].pc \in Acked \union {"reclaim"} => task[t].job \in Job
    BY <1>1 DEF Sound, PhaseOK, TaskType, Working, Acked
  <2> QED BY <2>1 DEF IInv, Settled, Holds
<1>4. Leased'
  <2> SUFFICES ASSUME Calm', NEW t \in Token
               PROVE  (/\ task[t].job # NoJob /\ task[t].pc \in {"resolved", "busy", "complete", "fail"}
                          => HasLease(task[t].job, t)
                       /\ task[t].next # NoJob => HasLease(task[t].next, t))'
    BY DEF Leased
  <2>1. Calm
    BY DEF Calm
  <2>2. task[t].job \in Job \union {NoJob} /\ task[t].next \in Job \union {NoJob}
    BY <1>1 DEF Sound, TaskType
  <2> QED BY <2>1, <2>2 DEF IInv, Leased, HasJob
<1> QED BY <1>2, <1>3, <1>4

LEMMA StartedKept ==
  ASSUME Started, UNCHANGED <<listening, closing, paused, loop, task>>, happened \subseteq happened'
  PROVE  Started'
BY DEF Started, NoWaiters

LEMMA CoveredKept ==
  ASSUME Covered, UNCHANGED <<closing, pendingMarker, now, task>>, happened \subseteq happened', Unheard' => Unheard
  PROVE  Covered'
BY DEF Covered, Calm, Asks, Woke, NoWaiters

LEMMA ExtendLocksKeeps == ASSUME IInv, ExtendLocks PROVE IInv'
<1> USE Bounds DEF IInv
<1>1. Table /\ Tracks /\ task \in [Token -> Sound]
  BY ShapeIs DEF Tasks
<1> DEFINE kept == {j \in Job : trackedJobs[j] # NoToken /\ Holds(j, trackedJobs[j])}
<1>2. UNCHANGED <<now, notes, listening, closing, paused, closed, drained, fetchedSinceDrain, pendingMarker, blockUntil,
                  limitUntil, waiting, trackedJobs, loop, awaited, task, queue, happened>>
  BY DEF ExtendLocks, wire, life, wakeup, main, fifo
<1>3. job' = [j \in Job |-> IF j \in kept THEN [job[j] EXCEPT !.live = TRUE] ELSE job[j]]
  BY DEF ExtendLocks
<1>4. \A j \in kept : job[j].state = "active" /\ job[j].token = trackedJobs[j] /\ task[job[j].token].job = j
  BY <1>1 DEF Tracks, Tracked, Holds
<1> HIDE DEF kept
<1>5. \A j \in Job : /\ job'[j] \in Rows /\ job'[j].state = job[j].state /\ job'[j].token = job[j].token
                     /\ IF j \in kept THEN job'[j].live ELSE job'[j].live = job[j].live
  <2> SUFFICES ASSUME NEW j \in Job
               PROVE  /\ job'[j] \in Rows /\ job'[j].state = job[j].state /\ job'[j].token = job[j].token
                      /\ IF j \in kept THEN job'[j].live ELSE job'[j].live = job[j].live
    OBVIOUS
  <2>1. job[j] \in Rows
    BY <1>1 DEF Table
  <2>2. CASE j \in kept
    <3>1. [job[j] EXCEPT !.live = TRUE] \in Rows
      BY <1>4, <2>1, <2>2, RowsWritten
    <3> QED BY <1>3, <2>1, <2>2, <3>1 DEF Rows, RowType
  <2>3. CASE j \notin kept
    BY <1>3, <2>1, <2>3
  <2> QED BY <2>2, <2>3
<1>6. Table' /\ Seqs' /\ Fields'
  BY <1>1, <1>2, <1>3, <1>5, ShapeIs DEF Table, Seqs, Fields
<1>7. Shape'
  BY <1>2, <1>6, TasksSame, TracksSame, ShapeIsNext
<1>8. ClaimedIsHeld' /\ Settled' /\ Leased'
  <2>1. \A j \in Job : job'[j].state = "active" =>
                          /\ job[j].state = "active" /\ job'[j].token = job[j].token
                          /\ job'[j].live => job[j].live \/ HasJob(job[j].token, j)
    BY <1>4, <1>5 DEF HasJob
  <2>2. \A j \in Job, t \in Token : HasLease(j, t) /\ HasJob(t, j) => HasLease(j, t)'
    BY <1>5 DEF HasLease, Holds
  <2> QED BY <1>2, <1>7, <2>1, <2>2, RowsKeep
<1>9. Unheard' => Unheard
  BY <1>2, <1>5 DEF Unheard
<1> QED BY <1>2, <1>7, <1>8, <1>9, StartedKept, CoveredKept

\* The lease of one row runs out.
LEMMA LeaseKeeps ==
  ASSUME IInv, NEW j \in Job, job[j].state = "active", job[j].live, job' = [job EXCEPT ![j].live = FALSE],
         UNCHANGED <<now, wire, life, wakeup, trackedJobs, main, fifo>>,
         happened \subseteq happened', happened' \subseteq Happens,
         Calm' => ~HasJob(job[j].token, j)
  PROVE  IInv'
<1> USE Bounds DEF IInv
<1>1. Table /\ Tracks /\ task \in [Token -> Sound] /\ job[j] \in Rows
  BY ShapeIs DEF Tasks, Table
<1>2. UNCHANGED <<now, notes, listening, closing, paused, closed, drained, fetchedSinceDrain, pendingMarker, blockUntil,
                  limitUntil, waiting, trackedJobs, loop, awaited, task, queue>>
  BY DEF wire, life, wakeup, main, fifo
<1>3. /\ job'[j] \in Rows /\ job'[j].state = "active" /\ job'[j].token = job[j].token /\ ~job'[j].live
      /\ \A k \in Job \ {j} : job'[k] = job[k]
  <2> DEFINE r == [job[j] EXCEPT !.live = FALSE]
  <2>1. r \in Rows /\ r.state = "active" /\ r.token = job[j].token /\ ~r.live
    BY <1>1, RowsWritten DEF Rows, RowType
  <2>2. job' = [job EXCEPT ![j] = r]
    BY <1>1 DEF Table
  <2> HIDE DEF r
  <2> QED BY <1>1, <2>1, <2>2 DEF Table
<1>4. job' \in [Job -> Rows]
  <2>1. \A k \in Job : job'[k] \in Rows
    BY <1>1, <1>3 DEF Table
  <2> QED BY <1>1, <2>1 DEF Table
<1>5. Shape'
  <2>1. Table' /\ Seqs' /\ Fields'
    BY <1>1, <1>2, <1>4, ShapeIs DEF Table, Seqs, Fields
  <2> QED BY <1>2, <2>1, TasksSame, TracksSame, ShapeIsNext
<1>6. ClaimedIsHeld' /\ Settled' /\ Leased'
  <2>1. \A k \in Job : job'[k].state = "active" =>
                          /\ job[k].state = "active" /\ job'[k].token = job[k].token
                          /\ job'[k].live => job[k].live \/ HasJob(job[k].token, k)
    BY <1>3
  <2>2. Calm' => \A k \in Job, t \in Token : HasLease(k, t) /\ HasJob(t, k) => HasLease(k, t)'
    BY <1>3 DEF HasLease, Holds
  <2> QED BY <1>2, <1>5, <2>1, <2>2, RowsKeep
<1>7. Unheard' => Unheard
  BY <1>2, <1>3 DEF Unheard
<1> QED BY <1>2, <1>5, <1>6, <1>7, StartedKept, CoveredKept

LEMMA LeaseEndsKeeps == ASSUME IInv, NEW j \in Job, LeaseEnds(j) PROVE IInv'
<1>1. happened' = happened /\ happened' \subseteq Happens
  BY ShapeIs DEF LeaseEnds, IInv, Fields
<1> QED BY <1>1, LeaseKeeps DEF LeaseEnds

LEMMA LeaseIsLostKeeps == ASSUME IInv, NEW j \in Job, LeaseIsLost(j) PROVE IInv'
<1>1. happened \subseteq happened' /\ happened' \subseteq Happens /\ "lease" \in happened'
  BY ShapeIs DEF LeaseIsLost, Once, May, IInv, Fields
<1>2. ~Calm'
  BY <1>1 DEF Calm
<1> QED BY <1>1, <1>2, LeaseKeeps DEF LeaseIsLost

\* A row that no promise has a live lease on is written anew, not to be active.
LEMMA RowKeeps ==
  ASSUME IInv, NEW j \in Job, NEW r \in Rows, r.state # "active", job' = [job EXCEPT ![j] = r],
         job[j].state = "active" => ~job[j].live,
         UNCHANGED <<now, listening, life, wakeup, trackedJobs, main, fifo, happened>>,
         notes' \in Seq(0 .. MaxTime), Unheard' => Unheard
  PROVE  IInv'
<1> USE Bounds DEF IInv
<1>1. Table /\ Tracks /\ task \in [Token -> Sound]
  BY ShapeIs DEF Tasks
<1>2. UNCHANGED <<now, listening, closing, paused, closed, drained, fetchedSinceDrain, pendingMarker, blockUntil,
                  limitUntil, waiting, trackedJobs, loop, awaited, task, queue, happened>>
  BY DEF life, wakeup, main, fifo
<1>3. job' \in [Job -> Rows] /\ job'[j] = r /\ \A k \in Job \ {j} : job'[k] = job[k]
  BY <1>1 DEF Table
<1>4. Shape'
  <2>1. Table' /\ Seqs' /\ Fields'
    BY <1>1, <1>2, <1>3, ShapeIs DEF Table, Seqs, Fields
  <2> QED BY <1>2, <2>1, TasksSame, TracksSame, ShapeIsNext
<1>5. ClaimedIsHeld' /\ Settled' /\ Leased'
  <2>1. \A k \in Job : job'[k].state = "active" =>
                          /\ job[k].state = "active" /\ job'[k].token = job[k].token
                          /\ job'[k].live => job[k].live \/ HasJob(job[k].token, k)
    BY <1>3
  <2>2. \A k \in Job, t \in Token : HasLease(k, t) /\ HasJob(t, k) => HasLease(k, t)'
    BY <1>3 DEF HasLease, Holds
  <2> QED BY <1>2, <1>4, <2>1, <2>2, RowsKeep
<1> QED BY <1>2, <1>4, <1>5, StartedKept, CoveredKept

LEMMA SweepKeeps == ASSUME IInv, NEW j \in Job, Sweep(j) PROVE IInv'
<1>1. job \in [Job -> Rows] /\ job[j] \in Rows
  BY ShapeIs DEF IInv, Table
<1>2. Waits(job[j]) \in Rows /\ Waits(job[j]).state = "wait"
  BY <1>1, RowsWritten
<1>3. job' = [job EXCEPT ![j] = Waits(job[j])]
  BY <1>1 DEF Sweep
<1>4. << 0 >> \in Seq(0 .. MaxTime) /\ 0 \in Range(<< 0 >>) /\ Announce(<< 0 >>)
  BY Bounds, OneNote DEF Sweep
<1>5. notes' \in Seq(0 .. MaxTime) /\ (listening = "on" => (0 \in Range(notes))')
  BY <1>4, HeardOf DEF IInv
<1>6. ~Unheard'
  BY <1>5 DEF Unheard, Sweep
<1>7. job[j].state = "active" => ~job[j].live
  BY DEF Sweep
<1>8. UNCHANGED <<now, listening, life, wakeup, trackedJobs, main, fifo, happened>>
  BY DEF Sweep
<1>9. Waits(job[j]).state # "active"
  BY <1>2
<1> QED BY <1>2, <1>3, <1>5, <1>6, <1>7, <1>8, <1>9, RowKeeps

LEMMA AddKeeps == ASSUME IInv, NEW j \in Job, Add(j) PROVE IInv'
<1>1. job \in [Job -> Rows] /\ job[j] \in Rows /\ job[j].state = "none" /\ now \in 1 .. MaxTime
  BY ShapeIs DEF IInv, Table, Add
<1>2. UNCHANGED <<now, listening, life, wakeup, trackedJobs, main, fifo, happened>>
  BY DEF Add
<1>3. CASE job' = [job EXCEPT ![j].state = "wait"] /\ Announce(<< 0 >>)
  <2> DEFINE r == [job[j] EXCEPT !.state = "wait"]
  <2>1. r \in Rows /\ r.state # "active"
    BY <1>1 DEF Rows, RowType, RowOK
  <2>2. job' = [job EXCEPT ![j] = r]
    BY <1>1, <1>3
  <2> HIDE DEF r
  <2>3. << 0 >> \in Seq(0 .. MaxTime) /\ 0 \in Range(<< 0 >>)
    BY Bounds, OneNote
  <2>4. notes' \in Seq(0 .. MaxTime) /\ (listening = "on" => (0 \in Range(notes))')
    BY <1>3, <2>3, HeardOf DEF IInv
  <2>5. ~Unheard'
    BY <1>2, <2>4 DEF Unheard
  <2> QED BY <1>1, <1>2, <2>1, <2>2, <2>4, <2>5, RowKeeps
<1>4. ASSUME NEW at \in now + 1 .. MaxTime,
             job' = [job EXCEPT ![j].state = "delayed", ![j].at = at], Announce(<<at>>)
      PROVE  IInv'
  <2> DEFINE r == [job[j] EXCEPT !.state = "delayed", !.at = at]
  <2>1. at \in 0 .. MaxTime
    BY <1>1, Bounds
  <2>2. r \in Rows /\ r.state = "delayed"
    BY <1>1, <2>1 DEF Rows, RowType, RowOK
  <2>3. job' = [job EXCEPT ![j] = r]
    BY <1>1, <1>4
  <2> HIDE DEF r
  <2>4. <<at>> \in Seq(0 .. MaxTime)
    BY <2>1, OneNote
  <2>5. notes' \in Seq(0 .. MaxTime) /\ (0 \in Range(notes) => (0 \in Range(notes))')
    BY <1>4, <2>4, HeardOf DEF IInv
  <2>6. \A k \in Job : job'[k].state = "wait" => job[k].state = "wait"
    BY <1>1, <2>2, <2>3
  <2>7. Unheard' => Unheard
    BY <1>2, <2>5, <2>6 DEF Unheard
  <2>8. r.state # "active"
    BY <2>2
  <2> QED BY <1>1, <1>2, <2>2, <2>3, <2>5, <2>7, <2>8, RowKeeps
<1> QED BY <1>3, <1>4 DEF Add

LEMMA ElsewhereKeeps == ASSUME IInv, NEW j \in Job, Elsewhere(j) PROVE IInv'
<1>1. job \in [Job -> Rows] /\ job[j] \in Rows /\ job[j].state = "wait" /\ notes \in Seq(0 .. MaxTime)
  BY ShapeIs DEF IInv, Table, Seqs, Elsewhere
<1>2. UNCHANGED <<now, notes, listening, life, wakeup, trackedJobs, main, fifo, happened>>
  BY DEF Elsewhere, wire
<1>3. Ends(job[j], "completed") \in Rows /\ Ends(job[j], "completed").state = "completed"
  BY <1>1, RowsWritten
<1>4. job' = [job EXCEPT ![j] = Ends(job[j], "completed")]
  BY <1>1 DEF Elsewhere
<1>5. \A k \in Job : job'[k].state = "wait" => job[k].state = "wait"
  BY <1>1, <1>3, <1>4
<1>6. Unheard' => Unheard
  BY <1>2, <1>5 DEF Unheard
<1>7. Ends(job[j], "completed").state # "active"
  BY <1>3
<1> QED BY <1>1, <1>2, <1>3, <1>4, <1>6, <1>7, RowKeeps

-----------------------------------------------------------------------------
(* The quiet steps, one by one.                                            *)

LEMMA RunKeeps == ASSUME IInv, Run PROVE IInv'
<1> USE DEF IInv
<1>1. Shape' /\ Quiet /\ UNCHANGED <<closing, paused, task, happened, now, job, notes>> /\ ~closing
  BY RunIs DEF Run, life, fifo, db
<1>2. ClaimedIsHeld' /\ Settled' /\ Leased'
  BY <1>1, QuietKeeps
<1>3. listening' = (IF listening = "never" THEN "on" ELSE listening) /\ (listening # "never" => UNCHANGED pendingMarker)
  BY DEF Run
<1>4. Started'
  BY <1>1, <1>3 DEF Started, NoWaiters
<1>5. Covered'
  <2>1. CASE listening # "never"
    <3>1. Unheard' => Unheard
      BY <1>1, <1>3, <2>1 DEF Unheard
    <3> QED BY <1>1, <1>3, <2>1, <3>1, CoveredKept
  <2>2. CASE listening = "never"
    <3>1. \A t \in Token : task'[t].pc = "free"
      BY <1>1, <2>2 DEF Started
    <3>2. NoWaiters'
      BY <3>1 DEF NoWaiters
    <3>3. (\E j \in Job : job'[j].state = "wait") => pendingMarker'
      BY <1>1, <2>2 DEF Run, Bootstrap
    <3> QED BY <3>2, <3>3 DEF Covered, Unheard
  <2> QED BY <2>1, <2>2
<1> QED BY <1>1, <1>2, <1>4, <1>5

\* A step of the loop that has started, and of nothing else.
LEMMA LoopKeeps ==
  ASSUME IInv, Shape', Quiet, loop # "stopped",
         UNCHANGED <<listening, closing, paused, pendingMarker, now, task, notes, happened>>
  PROVE  IInv'
<1> USE DEF IInv
<1>1. ClaimedIsHeld' /\ Settled' /\ Leased'
  BY QuietKeeps
<1>2. Started'
  BY DEF Started, NoWaiters
<1>3. Unheard' => Unheard
  BY DEF Unheard, Quiet
<1> QED BY <1>1, <1>2, <1>3, CoveredKept

LEMMA GatherNoMoreKeeps == ASSUME IInv, GatherNoMore PROVE IInv'
BY GatherNoMoreIs, LoopKeeps DEF IInv, GatherNoMore, db, wire, life, wakeup, fifo

LEMMA AwaitKeeps == ASSUME IInv, Await PROVE IInv'
BY AwaitIs, LoopKeeps DEF IInv, Await, db, wire, life, wakeup, fifo

LEMMA TakeNoneKeeps == ASSUME IInv, TakeNone PROVE IInv'
BY TakeNoneIs, LoopKeeps DEF IInv, TakeNone, db, wire, life, wakeup

LEMMA LimitPassesKeeps == ASSUME IInv, LimitPasses PROVE IInv'
BY LimitPassesIs, LoopKeeps DEF IInv, LimitPasses, db, wire, life, fifo

LEMMA ListenerIsLostKeeps == ASSUME IInv, ListenerIsLost PROVE IInv'
<1> USE DEF IInv
<1>1. Shape' /\ Quiet /\ UNCHANGED <<closing, paused, loop, task>> /\ "listener" \in happened' /\ listening' = "lost"
  BY ListenerIsLostIs DEF ListenerIsLost, Once, Disconnect, life, main, fifo
<1>2. ClaimedIsHeld' /\ Settled' /\ Leased'
  BY <1>1, QuietKeeps
<1>3. Started' /\ Covered'
  BY <1>1 DEF Started, Covered, Calm, NoWaiters, Quiet
<1> QED BY <1>1, <1>2, <1>3

LEMMA ReconnectKeeps == ASSUME IInv, Reconnect PROVE IInv'
<1> USE DEF IInv
<1>1. Shape' /\ Quiet /\ UNCHANGED <<closing, paused, loop, task, happened>> /\ listening = "lost" /\ listening' = "on" /\ ~closing
  BY ReconnectIs DEF Reconnect, life, main, fifo
<1>2. ClaimedIsHeld' /\ Settled' /\ Leased'
  BY <1>1, QuietKeeps
<1>3. Started' /\ Covered'
  BY <1>1 DEF Started, Covered, Calm, NoWaiters
<1> QED BY <1>1, <1>2, <1>3

LEMMA ResumeKeeps == ASSUME IInv, Resume PROVE IInv'
<1> USE DEF IInv
<1>1. /\ Shape' /\ Quiet /\ ~paused'
      /\ UNCHANGED <<closing, loop, task, happened, listening, notes, job, now, pendingMarker>>
  BY ResumeIs DEF Resume, wire, main, fifo, db, wakeup
<1>2. ClaimedIsHeld' /\ Settled' /\ Leased'
  BY <1>1, QuietKeeps
<1>3. Started'
  BY <1>1 DEF Started, NoWaiters
<1>4. Unheard' => Unheard
  BY <1>1 DEF Unheard
<1> QED BY <1>1, <1>2, <1>3, <1>4, CoveredKept

LEMMA ClosedKeeps == ASSUME IInv, Closed PROVE IInv'
<1> USE DEF IInv
<1>1. Shape' /\ Quiet /\ UNCHANGED <<closing, paused, task, happened>> /\ closing /\ listening' = "never"
  BY ClosedIs DEF Closed, fifo
<1>2. ClaimedIsHeld' /\ Settled' /\ Leased'
  BY <1>1, QuietKeeps
<1>3. Started' /\ Covered'
  BY <1>1 DEF Started, Covered, Calm, NoWaiters
<1> QED BY <1>1, <1>2, <1>3

LEMMA TickKeeps == ASSUME IInv, Tick PROVE IInv'
<1> USE DEF IInv
<1>1. /\ Shape' /\ Quiet /\ now' = now + 1
      /\ UNCHANGED <<closing, paused, loop, task, happened, listening, notes, job, pendingMarker>>
  BY TickIs DEF Tick, wire, life, wakeup, main, fifo
<1>2. ClaimedIsHeld' /\ Settled' /\ Leased'
  BY <1>1, QuietKeeps
<1>3. Started'
  BY <1>1, StartedKept
<1>4. \A t \in Token : Asks(t) => Asks(t)'
  <2>1. now \in Nat /\ \A t \in Token : task[t].until \in Nat
    <3>1. \A t \in Token : task[t] \in Sound
      BY ShapeIs DEF Tasks
    <3> QED BY <3>1, ShapeIs, Bounds DEF Table, Sound, TaskType
  <2> QED BY <1>1, <2>1 DEF Asks, Woke
<1>5. Covered'
  BY <1>1, <1>4 DEF Covered, Calm, Unheard, NoWaiters
<1> QED BY <1>1, <1>2, <1>3, <1>5

\* A fetch keeps what is covered: a marker that was kept for it lets it claim.
LEMMA FetchCovers ==
  ASSUME IInv, NEW t \in Token, task[t].pc \in {"free", "again"},
         task[t].pc = "free" => numTotal < Concurrency, getNextJob(t),
         listening # "never" \/ closing,
         UNCHANGED <<job, now, notes, listening, closing, paused, happened>>
  PROVE  Started' /\ Covered'
<1> USE DEF IInv
<1>1. /\ \A u \in Token \ {t} : task'[u] = task[u]
      /\ task[t].job = NoJob /\ task[t].next = NoJob
      /\ \/ task'[t].pc = "resolved" /\ UNCHANGED wakeup
         \/ task'[t].pc = "claim" /\ UNCHANGED wakeup
         \/ task'[t].pc = "woken" /\ task'[t].until = 0
         \/ task'[t].pc = "parked" /\ ~pendingMarker /\ ~closing
  BY GetNextJobIs
<1>2. Started'
  BY <1>1 DEF Started, NoWaiters
<1>3. ~Asks(t)
  BY <1>1 DEF Asks, Woke
<1>4. \A u \in Token \ {t} : Asks(u) => Asks(u)'
  BY <1>1 DEF Asks, Woke
<1>5. 0 <= now
  BY ShapeIs, Bounds DEF Table
<1>6. Asks(t)' \/ (pendingMarker /\ NoWaiters => (pendingMarker /\ NoWaiters)') \/ ~pendingMarker
  BY <1>1, <1>5 DEF Asks, Woke, NoWaiters, wakeup
<1>7. Calm' /\ Unheard' => Calm /\ Unheard
  BY DEF Calm, Unheard
<1> QED BY <1>2, <1>3, <1>4, <1>6, <1>7 DEF Covered

LEMMA GatherKeeps == ASSUME IInv, Gather PROVE IInv'
<1> USE DEF IInv
<1>1. Shape' /\ Quiet
  BY GatherIs
<1>2. FreshToken \in Token /\ task[FreshToken].pc = "free"
  BY FreshIs DEF Gather
<1>3. getNextJob(FreshToken) /\ numTotal < Concurrency /\ loop = "gather"
  BY DEF Gather, HasRoom
<1>4. UNCHANGED <<job, now, notes, listening, closing, paused, happened>>
  BY DEF Gather, db, wire, life
<1>5. listening # "never" \/ closing
  BY <1>3 DEF Started
<1>6. Started' /\ Covered'
  BY <1>2, <1>3, <1>4, <1>5, FetchCovers
<1> QED BY <1>1, <1>4, <1>6, QuietKeeps

LEMMA FetchAgainKeeps == ASSUME IInv, NEW t \in Token, FetchAgain(t) PROVE IInv'
<1> USE DEF IInv
<1>1. Shape' /\ Quiet
  BY FetchAgainIs
<1>2. getNextJob(t) /\ task[t].pc = "again" /\ UNCHANGED <<job, now, notes, listening, closing, paused, happened>>
  BY DEF FetchAgain, db, wire, life
<1>3. listening # "never" \/ closing
  BY <1>2 DEF Started
<1>4. Started' /\ Covered'
  BY <1>2, <1>3, FetchCovers
<1> QED BY <1>1, <1>2, <1>4, QuietKeeps

\* A promise that asks for a job goes on to ask, or one that did not goes on not waiting.
LEMMA AskingKeeps ==
  ASSUME IInv, NEW t \in Token, Shape', Quiet,
         \A u \in Token \ {t} : task'[u] = task[u],
         UNCHANGED <<now, notes, listening, closing, paused, happened, pendingMarker>>,
         task[t].pc # "free" \/ listening # "never" \/ closing, task'[t].pc # "parked",
         Asks(t) \/ task[t].pc = "parked" => Asks(t)'
  PROVE  IInv'
<1> USE DEF IInv
<1>1. Started'
  BY DEF Started, NoWaiters
<1>2. \A u \in Token : Asks(u) => Asks(u)'
  BY DEF Asks, Woke
<1>3. Covered'
  BY <1>2 DEF Covered, Calm, Unheard, NoWaiters, Quiet
<1> QED BY <1>1, <1>3, QuietKeeps

LEMMA TakeKeeps == ASSUME IInv, Take PROVE IInv'
<1> USE DEF IInv
<1>1. Shape' /\ Quiet
  BY TakeIs
<1>2. task \in [Token -> Sound] /\ queue \in Seq(Token) /\ queue # <<>> /\ ResultsOK
  BY ShapeIs DEF Take, Seqs, Tasks
<1>3. PICK t \in Token : t = Head(queue) /\ task[t].pc = "resolved"
  <2>1. Len(queue) \in Nat \ {0} /\ Head(queue) = queue[1] /\ queue[1] \in Token
    BY <1>2, EmptySeq, HeadTailProperties
  <2> QED BY <1>2, <2>1 DEF ResultsOK
<1>4. UNCHANGED <<now, notes, listening, closing, paused, happened, pendingMarker>> /\ loop \in {"take", "blocked"}
  BY DEF Take, db, wire, life, wakeup
<1>5. PICK r : /\ task' = [task EXCEPT ![t] = r]
               /\ r.pc = IF task[t].job = NoJob THEN "free" ELSE "busy"
  <2>1. CASE task[t].job = NoJob
    BY <1>3, <2>1, FreeIs DEF Take
  <2>2. CASE task[t].job # NoJob
    <3>1. task' = [task EXCEPT ![t] = [Free EXCEPT !.pc = "busy", !.job = task[t].job]]
      BY <1>3, <2>2 DEF Take
    <3>2. [Free EXCEPT !.pc = "busy", !.job = task[t].job].pc = "busy"
      BY DEF Free
    <3> QED BY <2>2, <3>1, <3>2
  <2> QED BY <2>1, <2>2
<1>6. task'[t].pc = r.pc /\ \A u \in Token \ {t} : task'[u] = task[u]
  BY <1>2, <1>5
<1>7. task'[t].job = task[t].job /\ task'[t].next = task[t].next
  BY <1>1 DEF Quiet
<1>8. Asks(t) => Asks(t)'
  BY <1>3, <1>5, <1>6, <1>7 DEF Asks, Woke
<1>9. task'[t].pc # "parked" /\ task[t].pc # "free" /\ task[t].pc # "parked"
  BY <1>3, <1>5, <1>6
<1> QED BY <1>1, <1>4, <1>6, <1>8, <1>9, AskingKeeps

LEMMA BlockTimeoutKeeps == ASSUME IInv, NEW t \in Token, BlockTimeout(t) PROVE IInv'
<1> USE DEF IInv
<1>1. Shape' /\ Quiet
  BY BlockTimeoutIs
<1>2. UNCHANGED <<now, notes, listening, closing, paused, happened, pendingMarker>> /\ task[t].pc = "parked"
  BY DEF BlockTimeout, db, wire, life, wakeup
<1>3. task \in [Token -> Sound] /\ now \in 1 .. MaxTime
  BY ShapeIs DEF Tasks, Table
<1>4. task'[t].pc = "woken" /\ task'[t].until = 0 /\ \A u \in Token \ {t} : task'[u] = task[u]
  <2>1. task[t] \in TaskType
    BY <1>3 DEF Sound
  <2> QED BY <1>3, <2>1 DEF BlockTimeout, TaskType
<1>5. Asks(t)' /\ task'[t].pc # "parked"
  BY <1>2, <1>3, <1>4, Bounds DEF Asks, Woke
<1>6. task[t].pc # "free"
  BY <1>2
<1> QED BY <1>1, <1>2, <1>4, <1>5, <1>6, AskingKeeps

LEMMA AfterWaitKeeps == ASSUME IInv, NEW t \in Token, AfterWait(t) PROVE IInv'
<1> USE DEF IInv
<1>1. Shape' /\ Quiet
  BY AfterWaitIs
<1>2. UNCHANGED <<now, notes, listening, closing, paused, happened, pendingMarker>> /\ task[t].pc = "woken"
  BY DEF AfterWait, db, wire, life
<1>3. task \in [Token -> Sound] /\ task[t] \in Sound
  BY ShapeIs DEF Tasks
<1>4. task[t].job = NoJob /\ task[t].next = NoJob
  BY <1>2, <1>3 DEF Sound, PhaseOK, Fetching, Acked
<1>5. CASE task[t].until <= now
  <2>1. task' = [task EXCEPT ![t].pc = "claim"]
    BY <1>5 DEF AfterWait
  <2>2. task'[t].pc = "claim" /\ \A u \in Token \ {t} : task'[u] = task[u]
    BY <1>3, <2>1 DEF Sound, TaskType
  <2>3. Asks(t)' /\ task'[t].pc # "parked" /\ task[t].pc # "free"
    BY <1>2, <2>2 DEF Asks
  <2> QED BY <1>1, <1>2, <2>2, <2>3, AskingKeeps
<1>6. CASE ~(task[t].until <= now)
  <2>1. Resolve(t, NoJob)
    BY <1>6 DEF AfterWait
  <2>2. task'[t].pc = "resolved" /\ \A u \in Token \ {t} : task'[u] = task[u]
    BY <1>3, <2>1 DEF Resolve, Free
  <2>3. ~Asks(t) /\ task'[t].pc # "parked" /\ task[t].pc # "free" /\ task[t].pc # "parked"
    BY <1>2, <1>4, <1>6, <2>2 DEF Asks
  <2> QED BY <1>1, <1>2, <2>2, <2>3, AskingKeeps
<1> QED BY <1>5, <1>6

LEMMA ReturnsKeeps == ASSUME IInv, NEW t \in Token, Returns(t) PROVE IInv'
<1> USE DEF IInv
<1>1. Shape' /\ Quiet
  BY ReturnsIs
<1>2. UNCHANGED <<now, notes, listening, closing, paused, happened, pendingMarker>> /\ task[t].pc = "busy"
  BY DEF Returns, db, wire, life, wakeup
<1>3. task \in [Token -> Sound] /\ task[t] \in Sound
  BY ShapeIs DEF Tasks
<1>4. PICK pc \in {"complete", "fail"} : task' = [task EXCEPT ![t].pc = pc]
  BY DEF Returns
<1>5. task'[t].pc = pc /\ task'[t].job # NoJob /\ \A u \in Token \ {t} : task'[u] = task[u]
  BY <1>2, <1>3, <1>4 DEF Sound, TaskType, PhaseOK, Working
<1>6. Asks(t)' /\ task'[t].pc # "parked" /\ task[t].pc # "free"
  BY <1>2, <1>5 DEF Asks
<1> QED BY <1>1, <1>2, <1>5, <1>6, AskingKeeps

LEMMA NotifiedKeeps == ASSUME IInv, Notified PROVE IInv'
<1> USE DEF IInv
<1>1. Shape' /\ Quiet
  BY NotifiedIs
<1>2. UNCHANGED <<now, listening, closing, paused, loop, happened, job>> /\ listening = "on"
  BY DEF Notified, db, life, main
<1> DEFINE at == Head(notes)
           v  == IF at # 0 /\ blockUntil # 0 /\ at > blockUntil THEN blockUntil ELSE at
           Times == 0 .. MaxTime
<1>3. /\ notes # <<>> /\ notes \in Seq(Times) /\ notes' = Tail(notes) /\ blockUntil \in Times
      /\ task' = Woken(v) /\ pendingMarker' = (pendingMarker \/ LatchesMarker(at))
  BY ShapeIs DEF Notified, Seqs, Fields
<1> HIDE DEF Times
<1>4. at \in Times /\ \A x \in Range(notes) : x = at \/ x \in Range(notes')
  <2>1. /\ Len(notes) \in Nat \ {0} /\ at = notes[1] /\ at \in Times /\ notes' \in Seq(Times)
        /\ Len(notes') = Len(notes) - 1 /\ \A i \in 1 .. Len(notes') : notes'[i] = notes[i + 1]
        /\ DOMAIN notes = 1 .. Len(notes) /\ DOMAIN notes' = 1 .. Len(notes')
    BY <1>3, EmptySeq, HeadTailProperties, LenProperties
  <2>2. ASSUME NEW x \in Range(notes), x # at PROVE x \in Range(notes')
    <3>1. PICK i \in 1 .. Len(notes) : x = notes[i]
      BY <2>1 DEF Range
    <3>2. i - 1 \in 1 .. Len(notes') /\ notes'[i - 1] = x
      BY <2>1, <2>2, <3>1
    <3> QED BY <2>1, <3>2 DEF Range
  <2> QED BY <2>1, <2>2
<1>5. v \in 0 .. MaxTime
  BY <1>3, <1>4 DEF Times
<1>6. at = 0 => v = 0
  OBVIOUS
<1> HIDE DEF v, at
<1>7. UNCHANGED queue
  BY DEF Notified
<1>8. /\ \A t \in Token : IF task[t].pc = "parked"
                          THEN task'[t] = [task[t] EXCEPT !.pc = "woken", !.until = v]
                          ELSE task'[t] = task[t]
      /\ \A t \in Token : task[t].pc = "parked" => task'[t].pc = "woken" /\ task'[t].until = v
  BY <1>3, <1>5, <1>7, WokenStep
<1>9. NoWaiters'
  BY <1>8 DEF NoWaiters
<1>10. Started'
  <2>1. \A t \in Token : task[t].pc = "free" => task'[t].pc = "free"
    BY <1>8
  <2> QED BY <1>2, <1>9, <2>1 DEF Started
<1>11. Covered'
  <2> SUFFICES ASSUME Calm, Unheard' PROVE (\E t \in Token : Asks(t)') \/ pendingMarker'
    BY <1>2, <1>9 DEF Covered, Calm
  <2>1. CASE at = 0
    <3>1. CASE NoWaiters
      BY <1>3, <2>1, <3>1 DEF LatchesMarker
    <3>2. CASE ~NoWaiters
      <4>1. PICK t \in Token : task[t].pc = "parked"
        BY <3>2 DEF NoWaiters
      <4>2. Asks(t)'
        <5>1. 0 <= now
          BY ShapeIs, Bounds DEF Table
        <5>2. task'[t].pc = "woken" /\ task'[t].until = 0
          BY <1>6, <1>8, <2>1, <4>1
        <5> QED BY <1>2, <5>1, <5>2 DEF Asks, Woke
      <4> QED BY <4>2
    <3> QED BY <3>1, <3>2
  <2>2. CASE at # 0
    <3>1. Unheard
      BY <1>2, <1>4, <2>2 DEF Unheard
    <3>2. (\E t \in Token : Asks(t)) \/ pendingMarker
      BY <3>1 DEF Covered
    <3>3. ASSUME NEW t \in Token, Asks(t) PROVE Asks(t)'
      <4>1. task[t].pc # "parked"
        <5>1. task[t] \in Sound
          BY ShapeIs DEF Tasks
        <5> QED BY <3>3, <5>1 DEF Sound, PhaseOK, Acked, Asks, Woke
      <4>2. task'[t] = task[t]
        BY <1>8, <4>1
      <4> QED BY <1>2, <3>3, <4>2 DEF Asks, Woke
    <3> QED BY <1>3, <3>2, <3>3
  <2> QED BY <2>1, <2>2
<1> QED BY <1>1, <1>2, <1>10, <1>11, QuietKeeps

\* Nobody is parked after pause or close.
LEMMA InterruptedIs ==
  ASSUME Shape, NEW waits \in BOOLEAN, Interrupt(waits), UNCHANGED queue
  PROVE  /\ NoWaiters' /\ \A t \in Token : task[t].pc = "free" => task'[t].pc = "free"
         /\ listening' = listening \/ listening' = "lost"
<1>1. task' = Woken(0) /\ 0 \in 0 .. MaxTime /\ (UNCHANGED wire \/ (notes' = <<>> /\ listening' = "lost"))
  BY InterruptIs
<1>2. /\ \A t \in Token : IF task[t].pc = "parked"
                          THEN task'[t] = [task[t] EXCEPT !.pc = "woken", !.until = 0]
                          ELSE task'[t] = task[t]
      /\ \A t \in Token : task[t].pc = "parked" => task'[t].pc = "woken"
  BY <1>1, WokenStep
<1> QED BY <1>1, <1>2 DEF NoWaiters, wire

LEMMA PauseKeeps == ASSUME IInv, Pause PROVE IInv'
<1> USE DEF IInv
<1>1. Shape' /\ Quiet /\ UNCHANGED <<closing, loop, queue>> /\ "pause" \in happened' /\ ~closing /\ loop # "stopped"
  BY PauseIs DEF Pause, Once, main
<1>2. listening' = listening \/ listening' = "lost"
  BY <1>1, InterruptedIs DEF Pause
<1>3. Started'
  BY <1>1, <1>2 DEF Started
<1>4. Covered'
  BY <1>1 DEF Covered, Calm
<1> QED BY <1>1, <1>3, <1>4, QuietKeeps

LEMMA CloseKeeps == ASSUME IInv, Close PROVE IInv'
<1> USE DEF IInv
<1>1. Shape' /\ Quiet /\ UNCHANGED <<paused, happened, queue>> /\ closing'
  BY CloseIs DEF Close
<1>2. NoWaiters'
  BY <1>1, InterruptedIs DEF Close
<1>3. Started' /\ Covered'
  BY <1>1, <1>2 DEF Started, Covered, Calm
<1> QED BY <1>1, <1>3, QuietKeeps

-----------------------------------------------------------------------------
(* The steps of a promise on the table.                                    *)

\* A query of promise t that claims, from the table T that its own job is settled in.
LEMMA ClaimKeeps ==
  ASSUME IInv, NEW T \in [Job -> Rows], NEW t \in Token, NEW pc \in Acked \union {"claimed"},
         NEW news \in Seq(0 .. MaxTime), NEW mishaps \in SUBSET Happens, happened \subseteq mishaps,
         Claim(T, t, pc, news, mishaps),
         UNCHANGED <<now, listening, life, wakeup, trackedJobs, main, queue>>,
         task[t].pc \in Working \union {"claim"}, task[t].pc = "claim" <=> pc = "claimed",
         \A k \in Job : T[k] = job[k] \/ (k = task[t].job /\ T[k].state \notin {"active", "wait"} /\ HasLease(k, t)),
         "reply" \notin happened => \A k \in Job : k = task[t].job => ~(T[k].state = "active" /\ T[k].token = t)
  PROVE  IInv'
<1>0. Shape
  BY DEF IInv
<1>2. /\ job' \in [Job -> Rows] /\ notes' \in Seq(0 .. MaxTime)
      /\ happened \subseteq happened' /\ happened' \subseteq Happens
      /\ \E r \in TaskType : r.pc = pc /\ r.job = task[t].job /\ Handed(T, t, r.next) /\ Puts(t, r)
  BY <1>0, ClaimIs
<1> USE Bounds DEF IInv
<1>1. Table /\ Seqs /\ Fields /\ task \in [Token -> Sound] /\ task[t] \in Sound
  BY ShapeIs DEF Tasks
<1>3. PICK r \in TaskType : /\ r.pc = pc /\ r.job = task[t].job /\ Handed(T, t, r.next)
                            /\ task' = [task EXCEPT ![t] = r]
  BY <1>2 DEF Puts
<1>4. r \in Sound /\ task[t].next = NoJob /\ r.next \in Job \union {NoJob} /\ task[t].pc \notin {"resolved", "free"}
  BY <1>1, <1>3 DEF Sound, PhaseOK, TaskType, Fetching, Working, Acked
<1>5. task'[t] = r /\ \A u \in Token \ {t} : task'[u] = task[u]
  BY <1>1, <1>3
<1>6. \A u \in Token : task'[u].job = task[u].job
  BY <1>3, <1>5
<1>7. Shape'
  <2>1. Tasks' /\ ResultsOK'
    BY <1>3, <1>4, TaskStep
  <2>2. Tracks'
    BY <1>6, TracksSame
  <2>3. Table' /\ Seqs' /\ Fields'
    BY <1>1, <1>2 DEF Table, Seqs, Fields, life, wakeup, main
  <2> QED BY <2>1, <2>2, <2>3, ShapeIsNext
<1>8. \A k \in Job : k # r.next /\ job'[k].state = "active" => job'[k] = job[k]
  <2> SUFFICES ASSUME NEW k \in Job, k # r.next, job'[k].state = "active" PROVE job'[k] = job[k]
    OBVIOUS
  <2>1. job'[k] = T[k] \/ (k \in Due /\ job'[k] = Waits(T[k]))
    BY <1>3 DEF Handed
  <2>2. Waits(T[k]).state = "wait"
    <3>1. T[k] \in Rows
      OBVIOUS
    <3> QED BY <3>1, RowsWritten
  <2>3. job'[k] = T[k]
    BY <2>1, <2>2
  <2> QED BY <2>3
<1>9. r.next \in Job => HasLease(r.next, t)'
  BY <1>3 DEF Handed, HasLease, Holds
<1>10. ClaimedIsHeld'
  <2> SUFFICES ASSUME "reply" \notin happened, NEW k \in Job, job'[k].state = "active", job'[k].live
               PROVE  HasJob(job[k].token, k)'
    BY <1>2 DEF ClaimedIsHeld
  <2>1. CASE k = r.next
    BY <1>3, <1>5, <2>1 DEF HasJob, Handed
  <2>2. CASE k # r.next
    <3>1. job'[k] = job[k] /\ HasJob(job[k].token, k)
      BY <1>8, <2>2 DEF ClaimedIsHeld
    <3>2. job[k].token \in Token
      <4>1. job[k] \in Rows
        BY <1>1 DEF Table
      <4> QED BY <3>1, <4>1, RowIs
    <3>3. k # NoJob
      OBVIOUS
    <3> QED BY <1>3, <1>4, <1>5, <3>1, <3>2, <3>3 DEF HasJob
  <2> QED BY <2>1, <2>2
<1>11. Settled'
  <2> SUFFICES ASSUME "reply" \notin happened, NEW u \in Token, task'[u].pc \in Acked \union {"reclaim"},
                      Holds(task[u].job, u)'
               PROVE  task'[u].next = task'[u].job
    BY <1>2 DEF Settled
  <2>1. task'[u].job \in Job
    BY <1>7, ShapeIsNext DEF Tasks, Sound, PhaseOK, TaskType, Working, Acked
  <2>2. CASE u = t
    <3>1. task'[u].job # r.next => job'[r.job] = T[r.job]
      <4>1. ASSUME task'[u].job # r.next PROVE job'[r.job] = T[r.job] \/ job'[r.job] = Waits(T[r.job])
        BY <1>3, <1>5, <2>1, <2>2, <4>1 DEF Handed
      <4>2. T[r.job] \in Rows
        BY <1>5, <2>1, <2>2
      <4>3. Waits(T[r.job]).state = "wait"
        BY <4>2, RowsWritten
      <4> QED BY <1>5, <2>2, <4>1, <4>3 DEF Holds
    <3> QED BY <1>3, <1>5, <2>1, <2>2, <3>1 DEF Holds
  <2>3. CASE u # t
    <3>1. task'[u].job # r.next
      BY <1>3, <2>1, <2>3 DEF Handed, Holds
    <3>2. Holds(task[u].job, u)
      BY <1>5, <1>8, <2>1, <2>3, <3>1 DEF Holds
    <3> QED BY <1>5, <2>3, <3>2 DEF Settled
  <2> QED BY <2>2, <2>3
<1>12. closing' = closing /\ (Calm' => Calm)
  BY <1>2 DEF life, Calm
<1>13. Leased'
  <2> SUFFICES ASSUME Calm', NEW u \in Token
               PROVE  (/\ task[u].job # NoJob /\ task[u].pc \in {"resolved", "busy", "complete", "fail"}
                          => HasLease(task[u].job, u)
                       /\ task[u].next # NoJob => HasLease(task[u].next, u))'
    BY DEF Leased
  <2>1. CASE u = t
    BY <1>3, <1>4, <1>5, <1>9, <2>1 DEF Acked
  <2>2. CASE u # t
    <3>1. ASSUME NEW k \in Job, HasLease(k, u) PROVE HasLease(k, u)'
      <4>1. T[k] = job[k]
        BY <2>2, <3>1 DEF HasLease, Holds
      <4>2. k \notin Due /\ T[k].state # "wait"
        BY <3>1, <4>1 DEF Due, HasLease, Holds
      <4>3. k # r.next
        BY <1>3, <4>2 DEF Handed
      <4>4. job'[k] = job[k]
        BY <1>3, <4>1, <4>2, <4>3 DEF Handed
      <4> QED BY <3>1, <4>4 DEF HasLease, Holds
    <3>2. task[u].job \in Job \union {NoJob} /\ task[u].next \in Job \union {NoJob} /\ task'[u] = task[u]
      BY <1>1, <1>5, <2>2 DEF Sound, TaskType
    <3> QED BY <1>12, <3>1, <3>2 DEF Leased
  <2> QED BY <2>1, <2>2
<1>14. Started'
  BY <1>2, <1>3, <1>4, <1>5 DEF Started, NoWaiters, life, main, Acked
<1>15. Covered'
  <2> SUFFICES ASSUME Calm', Unheard' PROVE Asks(t)'
    BY DEF Covered
  <2>1. r.next # NoJob
    BY <1>3 DEF Handed, Calm, Unheard
  <2> QED BY <1>5, <2>1 DEF Asks
<1> QED BY <1>7, <1>10, <1>11, <1>13, <1>14, <1>15

\* A step of promise t that gives its job up, or finds that it has none: it claims none.
LEMMA GiveUpKeeps ==
  ASSUME IInv, NEW t \in Token, NEW r \in Sound, task' = [task EXCEPT ![t] = r], task[t].pc \in Working,
         r.job = task[t].job, r.next = NoJob, r.pc \in Acked \union {"reclaim", "fail"},
         job' \in [Job -> Rows], notes' \in Seq(0 .. MaxTime), happened \subseteq happened', happened' \subseteq Happens,
         UNCHANGED <<now, listening, life, wakeup, trackedJobs, main, queue>>,
         \A k \in Job : \/ job'[k] = job[k]
                        \/ job'[k].state # "active" /\ (k \in Due \/ Holds(k, t)),
         r.pc # "fail" => ~Holds(r.job, t)',
         r.pc = "fail" => ~Calm',
         Calm' => ~Unheard' \/ r.pc = "reclaim"
  PROVE  IInv'
<1> USE Bounds DEF IInv
<1>1. Table /\ Seqs /\ Fields /\ task \in [Token -> Sound] /\ task[t] \in Sound
  BY ShapeIs DEF Tasks
<1>2. task'[t] = r /\ \A u \in Token \ {t} : task'[u] = task[u]
  BY <1>1
<1>3. task[t].next = NoJob /\ r.job \in Job /\ r.job # NoJob /\ task[t].pc \notin {"resolved", "free"}
  BY <1>1 DEF Sound, PhaseOK, TaskType, Working, Acked
<1>4. Shape'
  <2>1. Tasks' /\ ResultsOK'
    BY <1>3, TaskStep
  <2>2. Tracks'
    BY <1>2, TracksSame
  <2>3. Table' /\ Seqs' /\ Fields'
    BY <1>1 DEF Table, Seqs, Fields, life, wakeup, main
  <2> QED BY <2>1, <2>2, <2>3, ShapeIsNext
<1>5. ClaimedIsHeld'
  <2> SUFFICES ASSUME "reply" \notin happened, NEW k \in Job, job'[k].state = "active", job'[k].live
               PROVE  HasJob(job[k].token, k)'
    BY DEF ClaimedIsHeld
  <2>1. job'[k] = job[k] /\ HasJob(job[k].token, k)
    BY DEF ClaimedIsHeld
  <2>2. job[k].token \in Token
    <3>1. job[k] \in Rows
      BY <1>1 DEF Table
    <3> QED BY <2>1, <3>1, RowIs
  <2>3. k # NoJob
    OBVIOUS
  <2> QED BY <1>2, <1>3, <2>1, <2>2, <2>3 DEF HasJob
<1>6. Settled'
  <2> SUFFICES ASSUME "reply" \notin happened, NEW u \in Token, task'[u].pc \in Acked \union {"reclaim"},
                      Holds(task[u].job, u)'
               PROVE  task'[u].next = task'[u].job
    BY DEF Settled
  <2>1. CASE u = t
    BY <1>2, <2>1 DEF Acked, Holds
  <2>2. CASE u # t
    <3>1. task[u].job \in Job
      BY <1>1, <1>2, <2>2 DEF Sound, PhaseOK, TaskType, Working, Acked
    <3>2. Holds(task[u].job, u)
      BY <1>2, <2>2, <3>1 DEF Holds
    <3> QED BY <1>2, <2>2, <3>2 DEF Settled
  <2> QED BY <2>1, <2>2
<1>7. Calm' => Calm
  BY DEF life, Calm
<1>8. Leased'
  <2> SUFFICES ASSUME Calm', NEW u \in Token
               PROVE  (/\ task[u].job # NoJob /\ task[u].pc \in {"resolved", "busy", "complete", "fail"}
                          => HasLease(task[u].job, u)
                       /\ task[u].next # NoJob => HasLease(task[u].next, u))'
    BY DEF Leased
  <2>1. CASE u = t
    BY <1>2, <2>1 DEF Acked
  <2>2. CASE u # t
    <3>1. ASSUME NEW k \in Job, HasLease(k, u) PROVE HasLease(k, u)'
      <4>1. job'[k] = job[k]
        BY <2>2, <3>1 DEF Due, HasLease, Holds
      <4> QED BY <3>1, <4>1 DEF HasLease, Holds
    <3>2. task[u].job \in Job \union {NoJob} /\ task[u].next \in Job \union {NoJob} /\ task'[u] = task[u]
      BY <1>1, <1>2, <2>2 DEF Sound, TaskType
    <3> QED BY <1>7, <3>1, <3>2 DEF Leased
  <2> QED BY <2>1, <2>2
<1>9. Started'
  BY <1>2, <1>3 DEF Started, NoWaiters, life, main, Acked
<1>10. Covered'
  BY <1>2, <1>3 DEF Covered, Asks
<1> QED BY <1>4, <1>5, <1>6, <1>8, <1>9, <1>10

\* Where a query leaves the promise.
LEMMA AnsweredIs ==
  ASSUME Shape, NEW t \in Token, task[t].pc \in Working, NEW pc \in Acked, NEW limit \in 0 .. MaxTime,
         Answered(t, pc, NoJob, limit, 0)
  PROVE  \E r \in Sound : task' = [task EXCEPT ![t] = r] /\ r.pc = pc /\ r.job = task[t].job /\ r.next = NoJob
<1> DEFINE r == [task[t] EXCEPT !.pc = pc, !.next = NoJob, !.limit = limit, !.delay = 0]
<1>1. task \in [Token -> Sound] /\ task[t] \in Sound
  BY ShapeIs DEF Tasks
<1>2. r \in TaskType /\ r.pc = pc /\ r.job = task[t].job /\ r.next = NoJob
  BY <1>1, Bounds DEF Sound, TaskType
<1>3. task' = [task EXCEPT ![t] = r]
  BY <1>1 DEF Answered
<1> HIDE DEF r
<1>4. r \in Sound
  BY <1>1, <1>2 DEF Sound, PhaseOK, Fetching, Working, Acked
<1> QED BY <1>2, <1>3, <1>4

LEMMA NoNews == <<>> \in Seq(0 .. MaxTime) /\ happened \subseteq happened
BY EmptySeq

LEMMA MoveToActiveKeeps == ASSUME IInv, NEW t \in Token, MoveToActive(t) PROVE IInv'
<1>1. /\ job \in [Job -> Rows] /\ happened \in SUBSET Happens /\ happened \subseteq happened
      /\ task[t] \in Sound /\ <<>> \in Seq(0 .. MaxTime)
  BY ShapeIs, NoNews DEF IInv, Table, Fields, Tasks
<1> DEFINE pc == IF task[t].pc = "claim" THEN "claimed" ELSE "reclaimed"
<1>2. /\ Claim(job, t, pc, <<>>, happened) /\ task[t].pc \in {"claim", "reclaim"}
      /\ UNCHANGED <<now, listening, life, wakeup, trackedJobs, main, queue>>
  BY DEF MoveToActive
<1>3. pc \in Acked \union {"claimed"} /\ task[t].pc \in Working \union {"claim"} /\ (task[t].pc = "claim" <=> pc = "claimed")
  BY <1>2 DEF Acked, Working
<1>4. ASSUME "reply" \notin happened, NEW k \in Job, k = task[t].job PROVE ~(job[k].state = "active" /\ job[k].token = t)
  <2>1. task[t].pc = "reclaim" /\ task[t].next = NoJob /\ k # NoJob
    BY <1>1, <1>2, <1>4, Bounds DEF Sound, PhaseOK, Fetching, Acked
  <2> QED BY <1>4, <2>1 DEF IInv, Settled, Holds
<1> HIDE DEF pc
<1> QED BY <1>1, <1>2, <1>3, <1>4, ClaimKeeps

LEMMA PutsBackKeeps == ASSUME IInv, NEW t \in Token, PutsBack(t) PROVE IInv'
<1> USE Bounds
<1>1. /\ task \in [Token -> Sound] /\ task[t] \in Sound /\ task[t].pc = "busy"
      /\ now \in 1 .. MaxTime /\ job \in [Job -> Rows]
  BY ShapeIs DEF IInv, Tasks, PutsBack, Table
<1>2. PICK j \in Job : j = task[t].job /\ task[t].next = NoJob /\ job[j] \in Rows
  BY <1>1 DEF Sound, PhaseOK, TaskType, Working, Acked
<1>3. PICK r \in TaskType : task' = [task EXCEPT ![t] = r] /\ r.pc = "reclaim" /\ r.job = j /\ r.next = NoJob
  <2> DEFINE r == [task[t] EXCEPT !.pc = "reclaim"]
  <2>1. r \in TaskType /\ r.pc = "reclaim" /\ r.job = j /\ r.next = NoJob
    BY <1>1, <1>2 DEF Sound, TaskType, Working
  <2>2. task' = [task EXCEPT ![t] = r]
    BY <1>1 DEF PutsBack
  <2> QED BY <2>1, <2>2
<1>5. r \in Sound
  BY <1>2, <1>3 DEF Sound, PhaseOK, Fetching, Working, Acked
<1>6. /\ happened \subseteq happened' /\ happened' \subseteq Happens /\ Holds(j, t)
      /\ UNCHANGED <<now, listening, life, wakeup, trackedJobs, main, queue>>
  BY <1>2, ShapeIs DEF PutsBack, Once, May, IInv, Fields
<1>7. \E row \in Rows, at \in 0 .. MaxTime :
        job' = [job EXCEPT ![j] = row] /\ row.state # "active" /\ Announce(<<at>>)
  <2>1. CASE job' = [job EXCEPT ![j] = Waits(@)] /\ Announce(<< 0 >>)
    <3>1. Waits(job[j]) \in Rows /\ Waits(job[j]).state = "wait"
      BY <1>2, RowsWritten
    <3>2. job' = [job EXCEPT ![j] = Waits(job[j])]
      BY <1>1, <2>1
    <3>3. Waits(job[j]).state # "active"
      BY <3>1
    <3> QED BY <2>1, <3>1, <3>2, <3>3
  <2>2. ASSUME NEW at \in now + 1 .. MaxTime,
               job' = [job EXCEPT ![j] = [Ends(@, "delayed") EXCEPT !.at = at]], Announce(<<at>>)
        PROVE  \E row \in Rows, at2 \in 0 .. MaxTime :
                 job' = [job EXCEPT ![j] = row] /\ row.state # "active" /\ Announce(<<at2>>)
    <3> DEFINE row == [Ends(job[j], "delayed") EXCEPT !.at = at]
    <3>1. at \in 0 .. MaxTime
      BY <1>1
    <3>2. row \in Rows /\ row.state = "delayed"
      BY <1>2, <3>1, RowsWritten
    <3>3. job' = [job EXCEPT ![j] = row]
      BY <1>1, <2>2
    <3> HIDE DEF row
    <3>4. row.state # "active"
      BY <3>2
    <3> QED BY <2>2, <3>1, <3>2, <3>3, <3>4
  <2> QED BY <1>2, <2>1, <2>2 DEF PutsBack
<1>8. PICK row \in Rows, at \in 0 .. MaxTime :
        job' = [job EXCEPT ![j] = row] /\ row.state # "active" /\ Announce(<<at>>)
  BY <1>7
<1>9. job' \in [Job -> Rows] /\ job'[j] = row /\ \A k \in Job \ {j} : job'[k] = job[k]
  BY <1>1, <1>8
<1>10. notes' \in Seq(0 .. MaxTime)
  BY <1>8, OneNote, HeardOf DEF IInv
<1>11. \A k \in Job : \/ job'[k] = job[k]
                      \/ job'[k].state # "active" /\ (k \in Due \/ Holds(k, t))
  BY <1>6, <1>8, <1>9
<1>12. ~Holds(r.job, t)'
  BY <1>3, <1>8, <1>9 DEF Holds
<1>13. task[t].pc \in Working /\ r.pc \in Acked \union {"reclaim", "fail"} /\ r.pc # "fail"
  BY <1>1, <1>3 DEF Working
<1> QED BY <1>2, <1>3, <1>5, <1>6, <1>9, <1>10, <1>11, <1>12, <1>13, GiveUpKeeps

LEMMA AnswerIsLostKeeps == ASSUME IInv, NEW t \in Token, AnswerIsLost(t) PROVE IInv'
<1> USE Bounds DEF IInv
<1>1. task \in [Token -> Sound] /\ task[t] \in Sound /\ task[t].pc \in Acked \union {"claimed"}
  BY ShapeIs DEF Tasks, AnswerIsLost, Before, Acked
<1> DEFINE back == Before[task[t].pc]
           r == [task[t] EXCEPT !.pc = back, !.next = NoJob, !.limit = 0, !.delay = 0]
<1>2. back \in Working \union {"again"} /\ (back = "again" <=> task[t].pc = "claimed")
  BY <1>1 DEF Before, Acked, Working
<1>3. task' = [task EXCEPT ![t] = r]
  BY <1>1 DEF AnswerIsLost
<1> HIDE DEF back
<1>4. r \in TaskType /\ r.pc = back /\ r.job = task[t].job /\ r.next = NoJob
  BY <1>1, <1>2 DEF Sound, TaskType, Fetching
<1> HIDE DEF r
<1>5. r \in Sound
  BY <1>1, <1>2, <1>4 DEF Sound, PhaseOK, Fetching, Working, Acked
<1>6. task'[t] = r /\ \A u \in Token \ {t} : task'[u] = task[u]
  BY <1>1, <1>3
<1>7. /\ UNCHANGED <<job, now, notes, listening, closing, paused, closed, drained, fetchedSinceDrain, pendingMarker,
                     blockUntil, limitUntil, trackedJobs, loop, awaited, queue>>
      /\ happened' \subseteq Happens /\ "reply" \in happened' /\ happened \subseteq happened'
      /\ waiting' \in {waiting, NoToken}
  BY ShapeIs DEF AnswerIsLost, Once, May, Fields, db, wire, life, main, EndsWait
<1>8. task[t].pc \notin {"resolved", "free"}
  BY <1>1 DEF Acked
<1>9. Shape'
  <2>1. Tasks' /\ ResultsOK'
    BY <1>3, <1>5, <1>7, <1>8, TaskStep
  <2>2. Tracks'
    BY <1>4, <1>6, <1>7, TracksSame
  <2>3. Table' /\ Seqs' /\ Fields'
    BY <1>7, ShapeIs DEF Table, Seqs, Fields
  <2> QED BY <2>1, <2>2, <2>3, ShapeIsNext
<1>10. ClaimedIsHeld' /\ Settled' /\ Leased' /\ Covered'
  BY <1>7 DEF ClaimedIsHeld, Settled, Leased, Covered, Calm
<1>11. Started'
  BY <1>2, <1>4, <1>6, <1>7, <1>8 DEF Started, NoWaiters, Working
<1> QED BY <1>9, <1>10, <1>11

\* The answer of a claim, with the lock tracked; and the end of an acknowledgement, with the lock
\* of the job that is settled untracked.  The promise resolves to the job it was handed, and
\* what it leaves untracked it does not hold.
LEMMA ResolveKeeps ==
  ASSUME IInv, NEW t \in Token, task[t].pc \in Acked \union {"claimed"}, Resolve(t, task[t].next),
         UNCHANGED <<job, now, notes, listening, closing, paused, closed, loop, awaited, happened>>,
         Tracks', Fields', pendingMarker => pendingMarker'
  PROVE  IInv'
<1> USE Bounds DEF IInv
<1>1. /\ Table /\ Seqs /\ task \in [Token -> Sound] /\ task[t] \in Sound
  BY ShapeIs DEF Tasks
<1>2. PICK n \in Job \union {NoJob} : n = task[t].next
  BY <1>1 DEF Sound, TaskType
<1>3. /\ Tasks' /\ ResultsOK' /\ queue' \in Seq(Token)
      /\ task'[t].pc = "resolved" /\ task'[t].job = n /\ task'[t].next = NoJob
      /\ \A u \in Token \ {t} : task'[u] = task[u]
  <2>1. Resolve(t, n) /\ task[t].pc \notin {"resolved", "free"}
    BY <1>2 DEF Acked
  <2> QED BY <2>1, ResolveStep
<1>4. Shape'
  <2>1. Table' /\ Seqs'
    BY <1>1, <1>3 DEF Table, Seqs
  <2> QED BY <1>3, <2>1, ShapeIsNext
<1>5. ClaimedIsHeld'
  <2> SUFFICES ASSUME "reply" \notin happened, NEW k \in Job, job[k].state = "active", job[k].live
               PROVE  HasJob(job[k].token, k)'
    BY DEF ClaimedIsHeld
  <2>1. HasJob(job[k].token, k)
    BY DEF ClaimedIsHeld
  <2>2. job[k].token \in Token /\ k # NoJob
    <3>1. job[k] \in Rows
      BY <1>1 DEF Table
    <3> QED BY <3>1, RowIs
  <2>3. CASE job[k].token = t
    <3>1. k = task[t].job => k = n
      <4> SUFFICES ASSUME k = task[t].job PROVE k = n
        OBVIOUS
      <4>1. task[t].pc \in Acked
        BY <1>1, <2>2 DEF Sound, PhaseOK, Fetching
      <4> QED BY <1>2, <2>3, <4>1 DEF Settled, Holds
    <3> QED BY <1>2, <1>3, <2>1, <2>3, <3>1 DEF HasJob
  <2>4. CASE job[k].token # t
    BY <1>3, <2>1, <2>2, <2>4 DEF HasJob
  <2> QED BY <2>3, <2>4
<1>6. Settled'
  <2> SUFFICES ASSUME "reply" \notin happened, NEW u \in Token, task'[u].pc \in Acked \union {"reclaim"},
                      Holds(task[u].job, u)'
               PROVE  task'[u].next = task'[u].job
    BY DEF Settled
  <2>1. u # t
    BY <1>3 DEF Acked
  <2> QED BY <1>3, <2>1 DEF Settled, Holds
<1>7. Leased'
  <2> SUFFICES ASSUME Calm', NEW u \in Token
               PROVE  (/\ task[u].job # NoJob /\ task[u].pc \in {"resolved", "busy", "complete", "fail"}
                          => HasLease(task[u].job, u)
                       /\ task[u].next # NoJob => HasLease(task[u].next, u))'
    BY DEF Leased
  <2>1. Calm /\ \A k \in Job : HasLease(k, u) => HasLease(k, u)'
    BY DEF Calm, HasLease, Holds
  <2>2. CASE u = t
    BY <1>2, <1>3, <2>1, <2>2 DEF Leased
  <2>3. CASE u # t
    <3>1. task[u].job \in Job \union {NoJob} /\ task[u].next \in Job \union {NoJob} /\ task'[u] = task[u]
      BY <1>1, <1>3, <2>3 DEF Sound, TaskType
    <3> QED BY <2>1, <3>1 DEF Leased
  <2> QED BY <2>2, <2>3
<1>8. Started'
  BY <1>3 DEF Started, NoWaiters, Acked
<1>9. Covered'
  <2> SUFFICES ASSUME Calm', Unheard' PROVE (\E u \in Token : Asks(u)') \/ (pendingMarker /\ NoWaiters)'
    BY DEF Covered
  <2>1. (\E u \in Token : Asks(u)) \/ (pendingMarker /\ NoWaiters)
    BY DEF Covered, Calm, Unheard
  <2>2. CASE n # NoJob
    BY <1>3, <2>2 DEF Asks
  <2>3. CASE n = NoJob
    <3>1. ~Asks(t)
      BY <1>2, <2>3 DEF Asks, Woke, Acked
    <3>2. \A u \in Token \ {t} : Asks(u) => Asks(u)'
      BY <1>3 DEF Asks, Woke
    <3> QED BY <1>3, <2>1, <3>1, <3>2 DEF NoWaiters
  <2> QED BY <2>2, <2>3
<1> QED BY <1>4, <1>5, <1>6, <1>7, <1>8, <1>9

LEMMA NextJobIs ==
  ASSUME Fields, NEW t \in Token, NEW latches \in BOOLEAN, nextJob(t, latches)
  PROVE  /\ drained' \in BOOLEAN /\ fetchedSinceDrain' \in BOOLEAN /\ pendingMarker' \in BOOLEAN
         /\ pendingMarker => pendingMarker'
BY DEF Fields, nextJob

LEMMA FetchedKeeps == ASSUME IInv, NEW t \in Token, Fetched(t) PROVE IInv'
<1> USE Bounds
<1>1. /\ task \in [Token -> Sound] /\ task[t] \in Sound /\ task[t].pc = "claimed" /\ Fields /\ queue \in Seq(Token)
      /\ trackedJobs \in [Job -> 0 .. MaxToken] /\ Tracked
  BY ShapeIs DEF IInv, Tasks, Fetched, Seqs, Tracks
<1>2. PICK n \in Job \union {NoJob} : n = task[t].next /\ task[t].job = NoJob
  BY <1>1 DEF Sound, TaskType, PhaseOK, Fetching
<1>3. /\ UNCHANGED <<job, now, notes, listening, closing, paused, closed, loop, awaited, happened>>
      /\ Resolve(t, task[t].next)
  BY DEF Fetched, db, wire, life, main
<1>4. /\ task'[t].job = n /\ \A u \in Token \ {t} : task'[u] = task[u]
  <2>1. Shape /\ Resolve(t, n) /\ task[t].pc \notin {"resolved", "free"}
    BY <1>1, <1>2, <1>3 DEF IInv
  <2> QED BY <2>1, ResolveStep
<1>5. trackedJobs' = IF n = NoJob THEN trackedJobs ELSE [trackedJobs EXCEPT ![n] = t]
  BY <1>2 DEF Fetched
<1>6. Tracks'
  <2>1. trackedJobs' \in [Job -> 0 .. MaxToken]
    BY <1>1, <1>5
  <2>2. ASSUME NEW k \in Job, trackedJobs'[k] # NoToken PROVE task'[trackedJobs'[k]].job = k
    <3>1. CASE n # NoJob /\ k = n
      BY <1>1, <1>4, <1>5, <3>1
    <3>2. CASE n = NoJob \/ k # n
      <4>1. trackedJobs'[k] = trackedJobs[k] /\ trackedJobs[k] \in Token /\ task[trackedJobs[k]].job = k
        BY <1>1, <1>5, <2>2, <3>2 DEF Tracked
      <4> QED BY <1>2, <1>4, <4>1
    <3> QED BY <3>1, <3>2
  <2> QED BY <2>1, <2>2 DEF Tracks, Tracked
<1>7. nextJob(t, TRUE) /\ TRUE \in BOOLEAN
  BY DEF Fetched
<1>8. /\ drained' \in BOOLEAN /\ fetchedSinceDrain' \in BOOLEAN /\ pendingMarker' \in BOOLEAN
      /\ pendingMarker => pendingMarker'
  BY <1>1, <1>7, NextJobIs
<1>9. Fields'
  <2>1. limitUntil' = task[t].limit /\ blockUntil' = task[t].delay /\ waiting' \in {waiting, NoToken}
    BY DEF Fetched, updateDelays, EndsWait
  <2>2. task[t].limit \in 0 .. MaxTime /\ task[t].delay \in 0 .. MaxTime
    BY <1>1 DEF Sound, TaskType
  <2> QED BY <1>1, <1>3, <1>8, <2>1, <2>2 DEF Fields
<1>10. task[t].pc \in Acked \union {"claimed"}
  BY <1>1
<1> QED BY <1>3, <1>6, <1>8, <1>9, <1>10, ResolveKeeps

LEMMA ProcessedKeeps == ASSUME IInv, NEW t \in Token, Processed(t) PROVE IInv'
<1> USE Bounds
<1>1. task[t].pc \in Acked
  BY DEF Processed, Acked
<1>2. /\ task \in [Token -> Sound] /\ task[t] \in Sound /\ Fields /\ queue \in Seq(Token)
      /\ trackedJobs \in [Job -> 0 .. MaxToken] /\ Tracked
  BY ShapeIs DEF IInv, Tasks, Seqs, Tracks
<1>3. PICK n \in Job \union {NoJob}, j \in Job : n = task[t].next /\ j = task[t].job
  BY <1>1, <1>2 DEF Sound, TaskType, PhaseOK
<1>4. /\ UNCHANGED <<job, now, notes, listening, closing, paused, closed, waiting, loop, awaited, happened>>
      /\ Resolve(t, task[t].next)
  BY DEF Processed, db, wire, life, main
<1>5. \A u \in Token \ {t} : task'[u] = task[u]
  <2>1. Shape /\ Resolve(t, n) /\ task[t].pc \notin {"resolved", "free"}
    BY <1>1, <1>3, <1>4 DEF IInv, Acked
  <2> QED BY <2>1, ResolveStep
<1>6. trackedJobs' = [trackedJobs EXCEPT ![j] = NoToken]
  BY <1>3 DEF Processed, untrackJob
<1>7. Tracks'
  <2>1. trackedJobs' \in [Job -> 0 .. MaxToken]
    BY <1>2, <1>6
  <2>2. ASSUME NEW k \in Job, trackedJobs'[k] # NoToken PROVE task'[trackedJobs'[k]].job = k
    <3>1. k # j /\ trackedJobs'[k] = trackedJobs[k]
      BY <1>2, <1>6, <2>2
    <3>2. trackedJobs[k] \in Token /\ task[trackedJobs[k]].job = k
      BY <1>2, <2>2, <3>1 DEF Tracked
    <3> QED BY <1>3, <1>5, <3>1, <3>2
  <2> QED BY <2>1, <2>2 DEF Tracks, Tracked
<1>8. /\ drained' \in BOOLEAN /\ fetchedSinceDrain' \in BOOLEAN /\ pendingMarker' \in BOOLEAN
      /\ pendingMarker => pendingMarker'
  <2>1. CASE \E latches \in BOOLEAN : nextJob(t, latches)
    BY <1>2, <2>1, NextJobIs
  <2>2. CASE UNCHANGED <<drained, fetchedSinceDrain, pendingMarker>>
    BY <1>2, <2>2 DEF Fields
  <2>3. (task[t].pc = "reclaimed") \in BOOLEAN
    OBVIOUS
  <2> QED BY <2>1, <2>2, <2>3 DEF Processed
<1>9. Fields'
  <2>1. limitUntil' \in {limitUntil, task[t].limit} /\ blockUntil' \in {blockUntil, task[t].delay}
    BY DEF Processed, updateDelays
  <2>2. task[t].limit \in 0 .. MaxTime /\ task[t].delay \in 0 .. MaxTime
    BY <1>2 DEF Sound, TaskType
  <2> QED BY <1>2, <1>4, <1>8, <2>1, <2>2 DEF Fields
<1> QED BY <1>1, <1>4, <1>7, <1>8, <1>9, ResolveKeeps

\* An acknowledgement that is refused twice leaves the promise rejected and the lock untracked.
LEMMA RejectKeeps ==
  ASSUME IInv, NEW t \in Token, NEW j \in Job, task[t].pc = "fail", j = task[t].job,
         ~(Holds(j, t) /\ job[j].live), Reject(t), untrackJob(j),
         UNCHANGED <<job, now, notes, listening, life, wakeup, main, happened>>
  PROVE  IInv'
<1> USE Bounds DEF IInv
<1>1. /\ Table /\ Seqs /\ Fields /\ task \in [Token -> Sound] /\ task[t] \in Sound
      /\ trackedJobs \in [Job -> 0 .. MaxToken] /\ Tracked
  BY ShapeIs DEF Tasks, Tracks
<1>2. Free \in Sound /\ Free.pc = "free" /\ Free.job = NoJob /\ Free.next = NoJob
  BY FreeIs DEF Sound, PhaseOK, Working, Acked
<1>3. task' = [task EXCEPT ![t] = Free] /\ UNCHANGED queue /\ trackedJobs' = [trackedJobs EXCEPT ![j] = NoToken]
  BY DEF Reject, untrackJob
<1>4. task'[t] = Free /\ \A u \in Token \ {t} : task'[u] = task[u]
  BY <1>1, <1>3
<1>5. task[t].next = NoJob
  BY <1>1 DEF Sound, PhaseOK, Acked
<1>6. Tracks'
  <2>1. trackedJobs' \in [Job -> 0 .. MaxToken]
    BY <1>1, <1>3
  <2>2. ASSUME NEW k \in Job, trackedJobs'[k] # NoToken PROVE task'[trackedJobs'[k]].job = k
    <3>1. k # j /\ trackedJobs'[k] = trackedJobs[k]
      BY <1>1, <1>3, <2>2
    <3>2. trackedJobs[k] \in Token /\ task[trackedJobs[k]].job = k
      BY <1>1, <2>2, <3>1 DEF Tracked
    <3> QED BY <1>4, <3>1, <3>2
  <2> QED BY <2>1, <2>2 DEF Tracks, Tracked
<1>7. Shape'
  <2>1. Tasks' /\ ResultsOK'
    BY <1>2, <1>3, TaskStep
  <2>2. Table' /\ Seqs' /\ Fields'
    BY <1>1, <1>3 DEF Table, Seqs, Fields, life, wakeup, main
  <2> QED BY <1>6, <2>1, <2>2, ShapeIsNext
<1>8. ClaimedIsHeld'
  <2> SUFFICES ASSUME "reply" \notin happened, NEW k \in Job, job[k].state = "active", job[k].live
               PROVE  HasJob(job[k].token, k)'
    BY DEF ClaimedIsHeld
  <2>1. HasJob(job[k].token, k)
    BY DEF ClaimedIsHeld
  <2>2. job[k].token \in Token /\ k # NoJob
    <3>1. job[k] \in Rows
      BY <1>1 DEF Table
    <3> QED BY <3>1, RowIs
  <2>3. job[k].token # t
    BY <1>5, <2>1, <2>2 DEF HasJob, Holds
  <2> QED BY <1>4, <2>1, <2>2, <2>3 DEF HasJob
<1>9. Settled'
  BY <1>2, <1>4 DEF Settled, Holds, Acked
<1>10. ~Calm'
  BY DEF Leased, Calm, HasLease, life
<1>11. Leased' /\ Covered'
  BY <1>10 DEF Leased, Covered
<1>12. Started'
  BY <1>2, <1>4 DEF Started, NoWaiters, life, main
<1> QED BY <1>7, <1>8, <1>9, <1>11, <1>12

LEMMA MoveToFinishedKeeps == ASSUME IInv, NEW t \in Token, MoveToFinished(t) PROVE IInv'
<1> USE Bounds
<1>1. /\ Table /\ Seqs /\ Fields /\ task \in [Token -> Sound] /\ task[t] \in Sound /\ task[t].pc \in {"complete", "fail"}
  BY ShapeIs DEF IInv, Tasks, MoveToFinished
<1>2. PICK j \in Job : j = task[t].job /\ job[j] \in Rows /\ task[t].next = NoJob
  BY <1>1 DEF Table, Sound, PhaseOK, TaskType, Working, Acked
<1>3. PICK target \in {"completed", "failed"} : target = IF task[t].pc = "complete" THEN "completed" ELSE "failed"
  OBVIOUS
<1>4. UNCHANGED <<now, listening, life, wakeup, main>>
  BY DEF MoveToFinished
<1>5. task[t].pc \in Working /\ target \in Acked /\ task[t].pc # "claim" /\ target # "claimed"
  BY <1>1, <1>3 DEF Working, Acked
<1>6. Calm => HasLease(j, t)
  BY <1>1, <1>2 DEF IInv, Leased
<1>7. ASSUME Answered(t, target, NoJob, 0, 0), UNCHANGED <<notes, trackedJobs, happened, queue>>, ~Calm',
             job' \in [Job -> Rows], \A k \in Job \ {j} : job'[k] = job[k],
             job'[j].state # "active", job'[j] = job[j] \/ Holds(j, t)
      PROVE  IInv'
  <2>1. PICK r \in Sound : task' = [task EXCEPT ![t] = r] /\ r.pc = target /\ r.job = j /\ r.next = NoJob
    BY <1>1, <1>2, <1>5, <1>7, AnsweredIs DEF IInv
  <2>2. ~Holds(r.job, t)' /\ r.pc # "fail"
    BY <1>7, <2>1 DEF Holds
  <2>3. notes' \in Seq(0 .. MaxTime) /\ happened \subseteq happened' /\ happened' \subseteq Happens
    BY <1>1, <1>7 DEF Seqs, Fields
  <2>4. \A k \in Job : \/ job'[k] = job[k]
                       \/ job'[k].state # "active" /\ (k \in Due \/ Holds(k, t))
    BY <1>7
  <2>5. r.pc \in Acked \union {"reclaim", "fail"} /\ r.job = task[t].job
    BY <1>2, <1>5, <2>1
  <2> QED BY <1>4, <1>5, <1>7, <2>1, <2>2, <2>3, <2>4, <2>5, GiveUpKeeps
<1>8. CASE /\ job[j].state = target /\ Answered(t, target, NoJob, 0, 0)
           /\ UNCHANGED <<job, notes, trackedJobs, happened, queue>>
  <2>1. ~Calm'
    BY <1>4, <1>6, <1>8 DEF Calm, life, HasLease, Holds
  <2> QED BY <1>1, <1>7, <1>8, <2>1 DEF Table
<1>9. CASE /\ Holds(j, t) /\ job[j].live
           /\ IF FetchesNext
              THEN Claim([job EXCEPT ![j] = Ends(@, target)], t, target, <<>>, happened)
              ELSE /\ job' = [job EXCEPT ![j] = Ends(@, target)]
                   /\ Answered(t, target, NoJob, 0, 0)
                   /\ UNCHANGED <<notes, happened>>
           /\ UNCHANGED <<trackedJobs, queue>>
  <2> DEFINE T == [job EXCEPT ![j] = Ends(@, target)]
  <2>1. /\ Ends(job[j], target) \in Rows /\ Ends(job[j], target).state = target
    <3>1. target \in {"completed", "failed", "delayed"}
      OBVIOUS
    <3> QED BY <1>2, <3>1, RowsWritten
  <2>2. T \in [Job -> Rows] /\ T[j].state = target /\ \A k \in Job \ {j} : T[k] = job[k]
    BY <1>1, <2>1 DEF Table
  <2>3. CASE FetchesNext
    <3>1. Claim(T, t, target, <<>>, happened)
      BY <1>9, <2>3
    <3> HIDE DEF T
    <3>2. \A k \in Job : T[k] = job[k] \/ (k = task[t].job /\ T[k].state \notin {"active", "wait"} /\ HasLease(k, t))
      BY <1>2, <1>9, <2>2 DEF HasLease
    <3>3. \A k \in Job : k = task[t].job => ~(T[k].state = "active" /\ T[k].token = t)
      BY <1>2, <2>2
    <3>4. /\ <<>> \in Seq(0 .. MaxTime) /\ happened \in SUBSET Happens /\ happened \subseteq happened
          /\ target \in Acked \union {"claimed"} /\ task[t].pc \in Working \union {"claim"}
          /\ (task[t].pc = "claim" <=> target = "claimed")
      BY <1>1, <1>5, NoNews DEF Fields
    <3>5. UNCHANGED <<now, listening, life, wakeup, trackedJobs, main, queue>>
      BY <1>4, <1>9
    <3> QED BY <2>2, <3>1, <3>2, <3>3, <3>4, <3>5, ClaimKeeps
  <2>4. CASE ~FetchesNext
    <3>1. job' = T /\ Answered(t, target, NoJob, 0, 0) /\ UNCHANGED <<notes, happened, trackedJobs, queue>>
      BY <1>9, <2>4
    <3>2. ~Calm'
      BY <1>4, <2>4, <3>1, ShapeIs DEF IInv, FetchesNext, Tasks, Calm, Started, life
    <3> HIDE DEF T
    <3>3. job' \in [Job -> Rows] /\ job'[j].state # "active" /\ \A k \in Job \ {j} : job'[k] = job[k]
      BY <2>2, <3>1
    <3> QED BY <1>7, <1>9, <3>1, <3>2, <3>3
  <2> QED BY <2>3, <2>4
<1>10. CASE /\ job[j].state # target /\ ~(Holds(j, t) /\ job[j].live)
            /\ IF target = "completed"
               THEN task' = [task EXCEPT ![t].pc = "fail"] /\ UNCHANGED <<queue, trackedJobs>>
               ELSE Reject(t) /\ untrackJob(j)
            /\ UNCHANGED <<job, notes, happened>>
  <2>1. CASE target = "completed"
    <3>1. PICK r \in TaskType : task' = [task EXCEPT ![t] = r] /\ r.pc = "fail" /\ r.job = j /\ r.next = NoJob
      <4> DEFINE r == [task[t] EXCEPT !.pc = "fail"]
      <4>1. r \in TaskType /\ r.pc = "fail" /\ r.job = j /\ r.next = NoJob
        BY <1>1, <1>2 DEF Sound, TaskType, Working
      <4>2. task' = [task EXCEPT ![t] = r]
        BY <1>1, <1>10, <2>1
      <4> QED BY <4>1, <4>2
    <3>2. r \in Sound
      BY <1>2, <3>1 DEF Sound, PhaseOK, Fetching, Working, Acked
    <3>3. ~Calm'
      BY <1>4, <1>6, <1>10 DEF Calm, life, HasLease
    <3>4. /\ job' \in [Job -> Rows] /\ notes' \in Seq(0 .. MaxTime) /\ happened \subseteq happened' /\ happened' \subseteq Happens
          /\ \A k \in Job : job'[k] = job[k]
      BY <1>1, <1>10 DEF Table, Seqs, Fields
    <3>5. UNCHANGED <<now, listening, life, wakeup, trackedJobs, main, queue>>
      BY <1>4, <1>10, <2>1
    <3>6. r.job = task[t].job /\ r.pc \in Acked \union {"reclaim", "fail"}
      BY <1>2, <3>1
    <3> QED BY <1>5, <3>1, <3>2, <3>3, <3>4, <3>5, <3>6, GiveUpKeeps
  <2>2. CASE target # "completed"
    <3>1. task[t].pc = "fail"
      BY <1>1, <1>3, <2>2
    <3> QED BY <1>2, <1>4, <1>10, <2>2, <3>1, RejectKeeps
  <2> QED BY <2>1, <2>2
<1> QED BY <1>2, <1>3, <1>8, <1>9, <1>10 DEF MoveToFinished

LEMMA PutBackKeeps == ASSUME IInv, NEW t \in Token, PutBack(t) PROVE IInv'
<1> USE Bounds
<1>1. /\ Table /\ Seqs /\ Fields /\ task \in [Token -> Sound] /\ task[t] \in Sound /\ task[t].pc = "fail"
      /\ now \in 1 .. MaxTime
  BY ShapeIs DEF IInv, Tasks, PutBack, Table
<1>2. PICK j \in Job : j = task[t].job /\ job[j] \in Rows /\ task[t].next = NoJob
  BY <1>1 DEF Table, Sound, PhaseOK, TaskType, Working, Acked
<1>3. UNCHANGED <<now, listening, life, wakeup, trackedJobs, main, queue>> /\ Holds(j, t)
  BY <1>2 DEF PutBack
<1>4. task[t].pc \in Working /\ j \notin Due
  BY <1>1, <1>3 DEF Working, Holds, Due
<1>5. ASSUME NEW pc \in Acked, NEW limit \in 0 .. MaxTime, Answered(t, pc, NoJob, limit, 0),
             notes' \in Seq(0 .. MaxTime), happened \subseteq happened', happened' \subseteq Happens,
             job' \in [Job -> Rows], \A k \in Job \ {j} : job'[k] = job[k] \/ (k \in Due /\ job'[k].state # "active"),
             job'[j].state # "active", Calm' => ~Unheard'
      PROVE  IInv'
  <2>1. PICK r \in Sound : task' = [task EXCEPT ![t] = r] /\ r.pc = pc /\ r.job = j /\ r.next = NoJob
    BY <1>2, <1>4, <1>5, AnsweredIs DEF IInv
  <2>2. ~Holds(r.job, t)' /\ r.pc # "fail"
    BY <1>5, <2>1 DEF Holds, Acked
  <2>3. \A k \in Job : \/ job'[k] = job[k]
                       \/ job'[k].state # "active" /\ (k \in Due \/ Holds(k, t))
    BY <1>3, <1>5
  <2>4. r.pc \in Acked \union {"reclaim", "fail"} /\ r.job = task[t].job
    BY <1>2, <2>1
  <2> QED BY <1>3, <1>4, <1>5, <2>1, <2>2, <2>3, <2>4, GiveUpKeeps
<1>6. ASSUME Announce(<< 0 >>) \/ Announce([i \in 1 .. Cardinality(Due) |-> 0] \o << 0 >>)
      PROVE  notes' \in Seq(0 .. MaxTime) /\ ~Unheard'
  <2>1. << 0 >> \in Seq(0 .. MaxTime) /\ 0 \in Range(<< 0 >>)
    BY OneNote
  <2> DEFINE due == [i \in 1 .. Cardinality(Due) |-> 0]
             more == due \o << 0 >>
  <2>2. due \in Seq(0 .. MaxTime) /\ more \in Seq(0 .. MaxTime)
    BY <2>1, NewsAre
  <2> HIDE DEF due
  <2>3. 0 \in Range(more)
    <3> DEFINE Times == 0 .. MaxTime
    <3>1. due \in Seq(Times) /\ << 0 >> \in Seq(Times)
      BY <2>1, <2>2
    <3> HIDE DEF Times
    <3>2. Range(due \o << 0 >>) = Range(due) \union Range(<< 0 >>)
      BY <3>1, RangeOfConcat
    <3> QED BY <2>1, <3>2
  <2> HIDE DEF more
  <2>4. Announce(<< 0 >>) \/ Announce(more)
    BY <1>6 DEF more, due
  <2>5. notes' \in Seq(0 .. MaxTime) /\ (listening = "on" => (0 \in Range(notes))')
    BY <2>1, <2>2, <2>3, <2>4, HeardOf DEF IInv
  <2> QED BY <1>3, <2>5 DEF Unheard
<1>7. Waits(job[j]) \in Rows /\ Waits(job[j]).state = "wait"
  BY <1>2, RowsWritten
<1>8. CASE /\ Once("retry") /\ job' = [Promoted(job) EXCEPT ![j] = Waits(@)]
           /\ Announce([i \in 1 .. Cardinality(Due) |-> 0] \o << 0 >>)
           /\ Answered(t, "retried", NoJob, 0, 0)
  <2>1. Promoted(job) \in [Job -> Rows] /\ \A k \in Job : Promoted(job)[k] = IF k \in Due THEN Waits(job[k]) ELSE job[k]
    BY <1>1, PromotedIs DEF Table
  <2>2. job' = [Promoted(job) EXCEPT ![j] = Waits(job[j])]
    BY <1>4, <1>8, <2>1
  <2>3. job' \in [Job -> Rows] /\ job'[j] = Waits(job[j]) /\ \A k \in Job \ {j} : job'[k] = Promoted(job)[k]
    BY <1>7, <2>1, <2>2
  <2>4. ASSUME NEW k \in Job \ {j}, k \in Due PROVE job'[k].state # "active"
    <3>1. job[k] \in Rows /\ job'[k] = Waits(job[k])
      BY <1>1, <2>1, <2>3, <2>4 DEF Table
    <3>2. Waits(job[k]).state = "wait"
      BY <3>1, RowsWritten
    <3> QED BY <3>1, <3>2
  <2>5. \A k \in Job \ {j} : job'[k] = job[k] \/ (k \in Due /\ job'[k].state # "active")
    BY <2>1, <2>3, <2>4
  <2>6. happened \subseteq happened' /\ happened' \subseteq Happens /\ "retried" \in Acked
    BY <1>1, <1>8 DEF Once, May, Fields, Acked
  <2>7. notes' \in Seq(0 .. MaxTime) /\ ~Unheard' /\ job'[j].state # "active"
    BY <1>6, <1>7, <1>8, <2>3
  <2> QED BY <1>5, <1>8, <2>3, <2>5, <2>6, <2>7
<1>9. CASE /\ Once("back") /\ job' = [job EXCEPT ![j] = Waits(@)] /\ Announce(<< 0 >>)
           /\ \E end \in {0} \union (now + 1 .. MaxTime) : Answered(t, "limited", NoJob, end, 0)
  <2>1. PICK end \in {0} \union (now + 1 .. MaxTime) : Answered(t, "limited", NoJob, end, 0)
    BY <1>9
  <2>2. end \in 0 .. MaxTime
    BY <1>1
  <2>3. job' = [job EXCEPT ![j] = Waits(job[j])]
    BY <1>1, <1>9 DEF Table
  <2>4. job' \in [Job -> Rows] /\ job'[j] = Waits(job[j]) /\ \A k \in Job \ {j} : job'[k] = job[k]
    BY <1>1, <1>7, <2>3 DEF Table
  <2>5. happened \subseteq happened' /\ happened' \subseteq Happens /\ "limited" \in Acked
    BY <1>1, <1>9 DEF Once, May, Fields, Acked
  <2>6. notes' \in Seq(0 .. MaxTime) /\ ~Unheard' /\ job'[j].state # "active"
    BY <1>6, <1>7, <1>9, <2>4
  <2> QED BY <1>5, <2>1, <2>2, <2>4, <2>5, <2>6
<1>10. ASSUME job[j].live, May("retry"), NEW at \in now + 1 .. MaxTime,
              LET table == [job EXCEPT ![j] = [Ends(@, "delayed") EXCEPT !.at = at]]
              IN  IF FetchesNext
                  THEN Claim(table, t, "failed", <<at>>, happened \union {"retry"})
                  ELSE /\ job' = table
                       /\ Announce(<<at>>)
                       /\ Answered(t, "failed", NoJob, 0, 0)
                       /\ Once("retry")
       PROVE  IInv'
  <2> DEFINE row == [Ends(job[j], "delayed") EXCEPT !.at = at]
             T == [job EXCEPT ![j] = row]
  <2>1. at \in 0 .. MaxTime
    BY <1>1
  <2>2. row \in Rows /\ row.state = "delayed"
    BY <1>2, <2>1, RowsWritten
  <2>3. T = [job EXCEPT ![j] = [Ends(@, "delayed") EXCEPT !.at = at]]
    BY <1>1 DEF Table
  <2> HIDE DEF row
  <2>4. T \in [Job -> Rows] /\ T[j] = row /\ \A k \in Job \ {j} : T[k] = job[k]
    BY <1>1, <2>2 DEF Table
  <2>5. <<at>> \in Seq(0 .. MaxTime)
    BY <2>1, OneNote
  <2>6. happened \union {"retry"} \in SUBSET Happens
    BY <1>1, <1>10 DEF Fields, May
  <2>7. CASE FetchesNext
    <3>1. Claim(T, t, "failed", <<at>>, happened \union {"retry"})
      BY <1>10, <2>3, <2>7
    <3> HIDE DEF T
    <3>2. \A k \in Job : T[k] = job[k] \/ (k = task[t].job /\ T[k].state \notin {"active", "wait"} /\ HasLease(k, t))
      BY <1>2, <1>3, <1>10, <2>2, <2>4 DEF HasLease
    <3>3. \A k \in Job : k = task[t].job => ~(T[k].state = "active" /\ T[k].token = t)
      BY <1>2, <2>2, <2>4
    <3>4. /\ happened \subseteq (happened \union {"retry"}) /\ "failed" \in Acked \union {"claimed"}
          /\ task[t].pc \in Working \union {"claim"} /\ (task[t].pc = "claim" <=> "failed" = "claimed")
      BY <1>1, <1>4 DEF Acked
    <3> QED BY <1>3, <2>4, <2>5, <2>6, <3>1, <3>2, <3>3, <3>4, ClaimKeeps
  <2>8. CASE ~FetchesNext
    <3>1. job' = T /\ Announce(<<at>>) /\ Answered(t, "failed", NoJob, 0, 0) /\ Once("retry")
      BY <1>10, <2>3, <2>8
    <3> HIDE DEF T
    <3>2. happened \subseteq happened' /\ happened' \subseteq Happens /\ "failed" \in Acked
      BY <2>6, <3>1 DEF Once, Acked
    <3>3. ~Calm'
      BY <1>3, <2>8, <3>2, ShapeIs DEF IInv, FetchesNext, Tasks, Calm, Started, life
    <3>4. notes' \in Seq(0 .. MaxTime)
      BY <2>5, <3>1, HeardOf DEF IInv
    <3>5. job' \in [Job -> Rows] /\ job'[j].state # "active" /\ \A k \in Job \ {j} : job'[k] = job[k]
      BY <2>2, <2>4, <3>1
    <3> QED BY <1>5, <3>1, <3>2, <3>3, <3>4, <3>5
  <2> QED BY <2>7, <2>8
<1> QED BY <1>2, <1>8, <1>9, <1>10 DEF PutBack

-----------------------------------------------------------------------------
(* The theorems.                                                           *)

LEMMA InitHolds == Init => IInv
<1> SUFFICES ASSUME Init PROVE IInv
  OBVIOUS
<1> USE Bounds
<1>1. Table
  <2>1. [state |-> "none", at |-> 0, token |-> NoToken, live |-> FALSE] \in Rows
    BY DEF Rows, RowType, RowOK
  <2> QED BY <2>1 DEF Init, Table
<1>2. task \in [Token -> Sound] /\ \A t \in Token : task[t] = Free
  <2>1. Free \in Sound
    BY FreeIs DEF Sound, PhaseOK, Working, Acked
  <2> QED BY <2>1 DEF Init
<1>3. numTotal <= Concurrency
  <2>1. Promises = {}
    BY <1>2, FreeIs DEF Promises
  <2> QED BY <2>1, FS_EmptySet DEF numTotal
<1>4. queue = <<>> /\ notes = <<>> /\ Len(queue) = 0
  BY DEF Init
<1>5. Seqs /\ ResultsOK
  BY <1>4, EmptySeq DEF Seqs, ResultsOK
<1>6. Fields
  BY DEF Init, Fields
<1>7. Tracks
  BY DEF Init, Tracks, Tracked
<1>8. Shape
  BY <1>1, <1>2, <1>3, <1>5, <1>6, <1>7, ShapeIs DEF Tasks
<1>9. \A j \in Job : job[j].state = "none"
  BY DEF Init
<1> QED BY <1>2, <1>8, <1>9, FreeIs
    DEF IInv, Init, ClaimedIsHeld, Settled, Started, Leased, Covered, Unheard, Holds, HasLease, NoWaiters, Calm

LEMMA StutterKeeps == ASSUME IInv, UNCHANGED vars PROVE IInv'
<1>1. UNCHANGED <<job, now, notes, listening, closing, paused, closed, drained, fetchedSinceDrain, pendingMarker,
                  blockUntil, limitUntil, waiting, trackedJobs, loop, awaited, task, queue, happened>>
  BY DEF vars, db, wire, life, wakeup, main, fifo
<1>2. Shape'
  <2>1. Table' /\ Seqs' /\ Fields'
    BY <1>1, ShapeIs DEF IInv, Table, Seqs, Fields
  <2> QED BY <1>1, <2>1, TasksSame, TracksSame, ShapeIsNext DEF IInv
<1>3. Quiet
  BY <1>1 DEF Quiet
<1>4. Unheard' => Unheard
  BY <1>1 DEF Unheard
<1> QED BY <1>1, <1>2, <1>3, <1>4, QuietKeeps, StartedKept, CoveredKept DEF IInv

\* Every step of the worker and of the rest of the world keeps the invariant.
LEMMA StepKeeps == IInv /\ [Next]_vars => IInv'
<1> SUFFICES ASSUME IInv, [Next]_vars PROVE IInv'
  OBVIOUS
<1>1. CASE Run
  BY <1>1, RunKeeps
<1>2. CASE Gather
  BY <1>2, GatherKeeps
<1>3. CASE GatherNoMore
  BY <1>3, GatherNoMoreKeeps
<1>4. CASE Await
  BY <1>4, AwaitKeeps
<1>5. CASE Take
  BY <1>5, TakeKeeps
<1>6. CASE TakeNone
  BY <1>6, TakeNoneKeeps
<1>7. CASE LimitPasses
  BY <1>7, LimitPassesKeeps
<1>8. ASSUME NEW t \in Token, Promise(t) \/ PutsBack(t) \/ PutBack(t) \/ AnswerIsLost(t)
      PROVE  IInv'
  <2>1. CASE BlockTimeout(t)
    BY <2>1, BlockTimeoutKeeps
  <2>2. CASE AfterWait(t)
    BY <2>2, AfterWaitKeeps
  <2>3. CASE MoveToActive(t)
    BY <2>3, MoveToActiveKeeps
  <2>4. CASE Fetched(t)
    BY <2>4, FetchedKeeps
  <2>5. CASE FetchAgain(t)
    BY <2>5, FetchAgainKeeps
  <2>6. CASE Returns(t)
    BY <2>6, ReturnsKeeps
  <2>7. CASE MoveToFinished(t)
    BY <2>7, MoveToFinishedKeeps
  <2>8. CASE Processed(t)
    BY <2>8, ProcessedKeeps
  <2>9. CASE PutsBack(t)
    BY <2>9, PutsBackKeeps
  <2>10. CASE PutBack(t)
    BY <2>10, PutBackKeeps
  <2>11. CASE AnswerIsLost(t)
    BY <2>11, AnswerIsLostKeeps
  <2> QED BY <1>8, <2>1, <2>2, <2>3, <2>4, <2>5, <2>6, <2>7, <2>8, <2>9, <2>10, <2>11 DEF Promise
<1>9. CASE Notified
  BY <1>9, NotifiedKeeps
<1>10. CASE ListenerIsLost
  BY <1>10, ListenerIsLostKeeps
<1>11. CASE Reconnect
  BY <1>11, ReconnectKeeps
<1>12. CASE Pause
  BY <1>12, PauseKeeps
<1>13. CASE Resume
  BY <1>13, ResumeKeeps
<1>14. CASE Close
  BY <1>14, CloseKeeps
<1>15. CASE Closed
  BY <1>15, ClosedKeeps
<1>16. CASE ExtendLocks
  BY <1>16, ExtendLocksKeeps
<1>17. CASE Tick
  BY <1>17, TickKeeps
<1>18. ASSUME NEW j \in Job, LeaseEnds(j) \/ LeaseIsLost(j) \/ Sweep(j) \/ Add(j) \/ Elsewhere(j)
       PROVE  IInv'
  BY <1>18, LeaseEndsKeeps, LeaseIsLostKeeps, SweepKeeps, AddKeeps, ElsewhereKeeps
<1>19. CASE UNCHANGED vars
  BY <1>19, StutterKeeps
<1> QED BY <1>1, <1>2, <1>3, <1>4, <1>5, <1>6, <1>7, <1>8, <1>9, <1>10, <1>11, <1>12, <1>13, <1>14, <1>15,
           <1>16, <1>17, <1>18, <1>19 DEF Next

\* What the invariant says of the properties.
LEMMA Consequences == IInv => ClaimedIsHeld /\ LocksOK /\ SleepIsCovered
<1> SUFFICES ASSUME IInv PROVE LocksOK /\ SleepIsCovered
  BY DEF IInv
<1> USE DEF IInv
<1>1. TypeOK /\ RenewedIsHeld
  BY DEF Shape, Tracked, RenewedIsHeld, HasJob
<1>2. SleepIsCovered
  <2> SUFFICES ASSUME {"listener", "pause", "reply", "limit", "lease"} \intersect happened = {},
                      NEW t \in Token, task[t].pc = "parked", NEW j \in Job, job[j].state = "wait",
                      0 \notin Range(notes)
               PROVE  \E u \in Token : Asks(u)
    BY DEF SleepIsCovered
  <2>1. ~closing /\ listening # "never"
    BY DEF Started, NoWaiters
  <2>2. listening # "lost"
    BY <2>1 DEF Started
  <2>3. listening = "on"
    BY <2>1, <2>2, ShapeIs DEF Fields
  <2>4. Calm /\ Unheard
    BY <2>1, <2>3 DEF Calm, Unheard
  <2> QED BY <2>4 DEF Covered, NoWaiters
<1> QED BY <1>1, <1>2 DEF LocksOK

LEMMA AlwaysIInv == Spec => []IInv
BY InitHolds, StepKeeps, PTL DEF Spec

\* No job is claimed and forgotten (worker.ts, handing out and acknowledging): unless an answer
\* was lost, the promise whose token a live lease has also has the job.
THEOREM ClaimedAreHeld == Spec => []ClaimedIsHeld
BY AlwaysIInv, Consequences, PTL

\* Every variable has its type, and the lock manager renews no lease that the worker has no
\* use for (lock-manager.ts): what it tracks is what the promise of that token has.
THEOREM RenewedAreHeld == Spec => []LocksOK
BY AlwaysIInv, Consequences, PTL

\* No job is slept through (worker.ts waitForJob and its marker latch): unless one of five
\* mishaps befell the worker, a job that waits while a fetch is parked has a marker on its
\* way or a slot that will ask for it.
THEOREM WaitersAreCovered == Spec => []SleepIsCovered
BY AlwaysIInv, Consequences, PTL

=============================================================================
