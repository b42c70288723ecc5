-------------------------- MODULE EmqQueue_proofs --------------------------
(***************************************************************************)
(* For every set of jobs and tokens, every limit and every bound: the      *)
(* invariants of EmqQueue, and that it implements JobLease.                *)
(*                                                                         *)
(* All the invariants but one speak of a single row and of the queue's     *)
(* fields; RowInv is their conjunction for one row, and is inductive.  A   *)
(* lemma says of each row operator that it keeps RowInv and what it does   *)
(* to the row's lease; a lemma says the same of promotion and of a fetch,  *)
(* which act on a whole table; then there is one lemma for each action.    *)
(***************************************************************************)
EXTENDS EmqQueue, FiniteSetTheorems, TLAPS

Shape(r) == /\ r.state = "active" <=> r.token # NoToken
            /\ r.state = "active" <=> r.lease # "none"

RowInv(r, ps, wn, pn) ==
  /\ r \in Row
  /\ Shape(r)
  /\ r.state = "absent" => r = Absent
  /\ r.state = "wait"   => ~ ps
  /\ r.state = "paused" => ps
  /\ r.waitSeq # NoSeq  => r.waitSeq <= wn
  /\ r.state = "prioritized" => r.prioSeq <= pn

TableInv(T, ps, wn, pn) ==
  T \in Tables /\ \A j \in Job : RowInv(T[j], ps, wn, pn)

IInv == TypeOK /\ TableInv(job, paused, waitNum, prioNum) /\ DrainedMeansIdle

-----------------------------------------------------------------------------
(* Rows.                                                                   *)

\* No row is a good row, and no lease.
LEMMA AbsentRow ==
  ASSUME NEW ps \in BOOLEAN, NEW wn \in Nat, NEW pn \in Nat
  PROVE  RowInv(Absent, ps, wn, pn) /\ LeaseOf(Absent) = JL!NoLease
BY PriorityAssumption, TokenAssumption, 0 \in Int
   DEF RowInv, Shape, Row, State, Absent, LeaseOf, JL!NoLease, Final

\* What JobLease sees of a row is a lease, with its grants.
LEMMA LeaseFields ==
  ASSUME NEW r \in Row
  PROVE  /\ LeaseOf(r) \in JL!Lease
         /\ LeaseOf(r).grants = r.started
BY DEF LeaseOf, JL!Lease, Row, State, Final

\* Counters that grow keep every row good.
LEMMA LaterCounters ==
  ASSUME NEW r, NEW ps \in BOOLEAN, NEW wn \in Nat, NEW pn \in Nat,
         NEW wn2 \in Nat, NEW pn2 \in Nat, wn <= wn2, pn <= pn2,
         RowInv(r, ps, wn, pn)
  PROVE  RowInv(r, ps, wn2, pn2)
BY DEF RowInv, Row

\* A row put in a list at a number the counter has reached.
LEMMA ListRow ==
  ASSUME NEW r \in Row, NEW ps \in BOOLEAN, NEW seq \in Int,
         NEW wn \in Nat, NEW pn \in Nat, seq <= wn
  PROVE  LET s == ToList(r, ps, seq)
         IN  /\ RowInv(s, ps, wn, pn)
             /\ s.state \in {"wait", "paused"}
             /\ s.started = r.started
             /\ s.life = r.life
BY 0 \in Int, TokenAssumption DEF ToList, Unlocked, RowInv, Shape, Row, State

\* A row put in the prioritized set.
LEMMA PrioritizedRow ==
  ASSUME NEW r \in Row, NEW ps \in BOOLEAN, NEW seq \in Int,
         NEW wn \in Nat, NEW pn \in Nat, seq <= pn
  PROVE  LET s == ToPrioritized(r, seq)
         IN  /\ RowInv(s, ps, wn, pn)
             /\ s.state = "prioritized"
             /\ s.started = r.started
BY 0 \in Int, TokenAssumption DEF ToPrioritized, Unlocked, RowInv, Shape, Row, State

\* A delayed row with a priority that becomes ready; its lease is as it was.
LEMMA PrioReadyRow ==
  ASSUME NEW r, NEW ps \in BOOLEAN, NEW seq \in Int,
         NEW wn \in Nat, NEW pn \in Nat, seq <= pn,
         RowInv(r, ps, wn, pn), r.state = "delayed"
  PROVE  LET s == PrioReady(r, ps, seq)
         IN  /\ RowInv(s, ps, wn, pn)
             /\ s.state \in {"prioritized", "paused"}
             /\ LeaseOf(s) = LeaseOf(r)
BY 0 \in Int DEF PrioReady, RowInv, Shape, Row, State, LeaseOf, Final

\* A row that is delayed.
LEMMA DelayedRow ==
  ASSUME NEW r \in Row, NEW ps \in BOOLEAN, NEW at \in At,
         NEW wn \in Nat, NEW pn \in Nat, r.waitSeq # NoSeq => r.waitSeq <= wn
  PROVE  LET s == ToDelayed(r, at)
         IN  /\ RowInv(s, ps, wn, pn)
             /\ s.state = "delayed"
             /\ s.started = r.started
BY TokenAssumption DEF ToDelayed, Unlocked, RowInv, Shape, Row, State

\* A row that is finished.
LEMMA FinalRow ==
  ASSUME NEW r \in Row, NEW ps \in BOOLEAN, NEW final \in Final,
         NEW wn \in Nat, NEW pn \in Nat
  PROVE  LET s == ToFinal(r, final)
         IN  /\ RowInv(s, ps, wn, pn)
             /\ s.state = final
             /\ s.started = r.started
BY TokenAssumption DEF ToFinal, Unlocked, RowInv, Shape, Row, State, Final

\* A row of a list that is claimed: JobLease grants its lease.
LEMMA ClaimedRow ==
  ASSUME NEW r, NEW ps \in BOOLEAN, NEW t \in Token,
         NEW wn \in Nat, NEW pn \in Nat, RowInv(r, ps, wn, pn),
         r.state \in {"wait", "prioritized"}
  PROVE  LET s == Claimed(r, t)
         IN  /\ RowInv(s, ps, wn, pn)
             /\ s.state = "active"
             /\ JL!Grant(LeaseOf(r), LeaseOf(s))
<1>0. r \in Row /\ r.started \in Nat /\ r.started + 1 \in Nat
  BY DEF RowInv, Row
<1>1. /\ Claimed(r, t) \in Row
      /\ Claimed(r, t).state = "active"
      /\ Claimed(r, t).token = t
      /\ Claimed(r, t).lease = "live"
      /\ Claimed(r, t).waitSeq = r.waitSeq
  BY <1>0, 0 \in Int DEF Claimed, Row, State
<1>3. RowInv(Claimed(r, t), ps, wn, pn)
  BY <1>1, TokenAssumption DEF RowInv, Shape
<1>2. JL!Grant(LeaseOf(r), LeaseOf(Claimed(r, t)))
  BY 0 \in Int DEF Claimed, RowInv, Row, State, LeaseOf, Final,
                   JL!Grant, JL!Handed, JL!Counts
<1> QED BY <1>1, <1>2, <1>3

\* Counting an attempt or a stall changes nothing else.
LEMMA CountedRow ==
  ASSUME NEW r, NEW ps \in BOOLEAN, NEW wn \in Nat, NEW pn \in Nat,
         RowInv(r, ps, wn, pn)
  PROVE  /\ Attempted(r) \in Row
         /\ Stalled(r) \in Row
         /\ Attempted(r).waitSeq # NoSeq => Attempted(r).waitSeq <= wn
         /\ Attempted(r).started = r.started
         /\ Stalled(r).started = r.started
BY DEF Attempted, Stalled, RowInv, Row

-----------------------------------------------------------------------------
(* What the row operators do to the lease.                                 *)

Goes(r, s) == LeaseOf(s) = LeaseOf(r) \/ JL!Step(LeaseOf(r), LeaseOf(s))

\* A row that leaves active by its worker's own call.
LEMMA SettleRow ==
  ASSUME NEW r \in Row, r.state = "active", NEW ps \in BOOLEAN, NEW seq \in Int,
         NEW at \in At, NEW final \in Final
  PROVE  /\ JL!Settle(LeaseOf(r), LeaseOf(ToList(r, ps, seq)))
         /\ JL!Settle(LeaseOf(r), LeaseOf(ToList(Attempted(r), ps, seq)))
         /\ JL!Settle(LeaseOf(r), LeaseOf(ToPrioritized(r, seq)))
         /\ JL!Settle(LeaseOf(r), LeaseOf(ToPrioritized(Attempted(r), seq)))
         /\ JL!Settle(LeaseOf(r), LeaseOf(ToDelayed(r, at)))
         /\ JL!Settle(LeaseOf(r), LeaseOf(ToDelayed(Attempted(r), at)))
         /\ JL!Settle(LeaseOf(r), LeaseOf(ToFinal(Attempted(r), final)))
<1> USE 0 \in Int DEF Row, State, Final, LeaseOf, Unlocked, Attempted,
                      JL!Settle, JL!Free, JL!Counts
<1>1. /\ JL!Settle(LeaseOf(r), LeaseOf(ToList(r, ps, seq)))
      /\ JL!Settle(LeaseOf(r), LeaseOf(ToList(Attempted(r), ps, seq)))
  BY DEF ToList
<1>2. /\ JL!Settle(LeaseOf(r), LeaseOf(ToPrioritized(r, seq)))
      /\ JL!Settle(LeaseOf(r), LeaseOf(ToPrioritized(Attempted(r), seq)))
  BY DEF ToPrioritized
<1>3. /\ JL!Settle(LeaseOf(r), LeaseOf(ToDelayed(r, at)))
      /\ JL!Settle(LeaseOf(r), LeaseOf(ToDelayed(Attempted(r), at)))
  BY DEF ToDelayed
<1>4. JL!Settle(LeaseOf(r), LeaseOf(ToFinal(Attempted(r), final)))
  BY DEF ToFinal
<1> QED BY <1>1, <1>2, <1>3, <1>4

\* A row that moves between the lists of jobs that wait.
LEMMA QueuedRow ==
  ASSUME NEW r \in Row, Shape(r), NEW ps \in BOOLEAN, NEW seq \in Int,
         r.state \in {"wait", "paused", "prioritized", "delayed"}
  PROVE  /\ LeaseOf(ToList(r, ps, seq)) = LeaseOf(r)
         /\ LeaseOf(ToPrioritized(r, seq)) = LeaseOf(r)
BY 0 \in Int DEF Row, State, Shape, Final, LeaseOf, Unlocked, ToList, ToPrioritized

\* An expired row the sweep fails or puts back: JobLease revokes its lease.
LEMMA SweptRow ==
  ASSUME NEW r \in Row, r.state = "active", r.lease = "expired",
         NEW ps \in BOOLEAN, NEW seq \in Int
  PROVE  /\ Worn(r) =>
              JL!Revoke(LeaseOf(r), LeaseOf(ToFinal(Stalled(r), "failed")))
         /\ ~ Worn(r) =>
              JL!Revoke(LeaseOf(r), LeaseOf(ToList(Stalled(r), ps, seq)))
<1> USE 0 \in Int DEF Row, State, Final, LeaseOf, Unlocked, Stalled, Worn,
                      JL!Revoke, JL!Free, JL!Counts
<1>1. Worn(r) =>
        JL!Revoke(LeaseOf(r), LeaseOf(ToFinal(Stalled(r), "failed")))
  BY DEF ToFinal
<1>2. ~ Worn(r) =>
        JL!Revoke(LeaseOf(r), LeaseOf(ToList(Stalled(r), ps, seq)))
  BY DEF ToList
<1> QED BY <1>1, <1>2

-----------------------------------------------------------------------------
(* Promotion.                                                              *)

\* The sets of jobs that are counted are finite.
LEMMA FiniteSets ==
  ASSUME NEW S, S \subseteq Job
  PROVE  IsFiniteSet(S) /\ Cardinality(S) \in Nat
BY JobAssumption, FS_Subset, FS_CardinalityType

\* A ranking of S numbers its members from 1.
LEMMA RankingType ==
  ASSUME NEW S, S \subseteq Job, NEW f \in Rankings(S), NEW j \in S
  PROVE  f[j] \in 1..Cardinality(S)
BY DEF Rankings, Bijection, Injection, Surjection

\* Promotion keeps all rows good under the counters it leaves, and all leases.
LEMMA PromotionTable ==
  ASSUME NEW T, paused \in BOOLEAN, waitNum \in Nat, prioNum \in Nat,
         TableInv(T, paused, waitNum, prioNum),
         NEW R \in Promotions(T)
  PROVE  /\ WaitNumAfter(T) \in Nat /\ waitNum <= WaitNumAfter(T)
         /\ PrioNumAfter(T) \in Nat /\ prioNum <= PrioNumAfter(T)
         /\ TableInv(R, paused, WaitNumAfter(T), PrioNumAfter(T))
         /\ \A j \in Job : /\ LeaseOf(R[j]) = LeaseOf(T[j])
                           /\ T[j].state = "active" => R[j] = T[j]
<1>1. PICK wait \in Rankings(DueWait(T)), prio \in Rankings(DuePrio(T)) :
        R = Promoted(T, paused, waitNum, prioNum, wait, prio)
  BY DEF Promotions
<1>2. DueWait(T) \subseteq Job /\ DuePrio(T) \subseteq Job
  BY DEF DueWait, DuePrio, In
<1>3. Cardinality(DueWait(T)) \in Nat /\ Cardinality(DuePrio(T)) \in Nat
  BY <1>2, FiniteSets
<1>4. /\ WaitNumAfter(T) \in Nat /\ waitNum <= WaitNumAfter(T)
      /\ PrioNumAfter(T) \in Nat /\ prioNum <= PrioNumAfter(T)
  BY <1>3 DEF WaitNumAfter, PrioNumAfter
<1>5. ASSUME NEW j \in Job
      PROVE  /\ RowInv(R[j], paused, WaitNumAfter(T), PrioNumAfter(T))
             /\ LeaseOf(R[j]) = LeaseOf(T[j])
             /\ T[j].state = "active" => R[j] = T[j]
  <2>1. RowInv(T[j], paused, waitNum, prioNum) /\ T[j] \in Row
    BY DEF TableInv, RowInv
  <2>2. RowInv(T[j], paused, WaitNumAfter(T), PrioNumAfter(T))
    BY <2>1, <1>4, LaterCounters
  <2>3. CASE j \in DueWait(T)
    <3>1. R[j] = ToList(T[j], paused, waitNum + wait[j])
      BY <1>1, <2>3 DEF Promoted
    <3>2. waitNum + wait[j] \in Int /\ waitNum + wait[j] <= WaitNumAfter(T)
      BY <1>2, <1>3, <2>3, RankingType DEF WaitNumAfter
    <3>3. T[j].state = "delayed"
      BY <2>3 DEF DueWait, In
    <3>4. Shape(T[j])
      BY <2>1 DEF RowInv
    <3> QED BY <1>4, <2>1, <3>1, <3>2, <3>3, <3>4, ListRow, QueuedRow
  <2>4. CASE j \notin DueWait(T) /\ j \in DuePrio(T)
    <3>1. R[j] = PrioReady(T[j], paused, prioNum + prio[j])
      BY <1>1, <2>4 DEF Promoted
    <3>2. prioNum + prio[j] \in Int /\ prioNum + prio[j] <= PrioNumAfter(T)
      BY <1>2, <1>3, <2>4, RankingType DEF PrioNumAfter
    <3>3. T[j].state = "delayed"
      BY <2>4 DEF DuePrio, In
    <3> QED BY <1>4, <2>2, <3>1, <3>2, <3>3, PrioReadyRow
  <2>5. CASE j \notin DueWait(T) /\ j \notin DuePrio(T)
    BY <1>1, <2>2, <2>5 DEF Promoted
  <2> QED BY <2>3, <2>4, <2>5
<1>6. R \in Tables
  BY <1>1, <1>5 DEF Promoted, RowInv, Tables
<1> QED BY <1>4, <1>5, <1>6 DEF TableInv

-----------------------------------------------------------------------------
(* The fetch.                                                              *)

\* The head of the lists is a job that waits.
LEMMA HeadState ==
  ASSUME NEW R, NEW j \in Heads(R)
  PROVE  j \in Job /\ R[j].state \in {"wait", "prioritized"}
BY DEF Heads, WaitHeads, PrioHeads, Lowest, Numbered, In

\* T is the table the procedure left when it began to fetch.
LEMMA FetchTable ==
  ASSUME NEW T, TypeOK, TableInv(T, paused, waitNum, prioNum),
         NEW t \in Token, NEW latch \in BOOLEAN, NEW after \in BOOLEAN,
         NEW got \in Got, Fetch(T, t, latch, after, got),
         latch => T = job /\ DrainedMeansIdle /\ drained
  PROVE  /\ IInv'
         /\ \A j \in Job : j # got => LeaseOf(job'[j]) = LeaseOf(T[j])
         /\ \A j \in Job : T[j].state = "active" => j # got /\ job'[j] = T[j]
         /\ got \in Job => JL!Grant(LeaseOf(T[got]), LeaseOf(job'[got]))
         /\ got \in Job => Cardinality(Live(job')) <= Concurrency
<1>1. PICK R \in Promotions(T) :
        IF got = NoJob THEN FindNothing(R, latch /\ R = T, after) ELSE Claim(R, t, got)
  BY DEF Fetch
<1>2. /\ WaitNumAfter(T) \in Nat /\ PrioNumAfter(T) \in Nat
      /\ TableInv(R, paused, WaitNumAfter(T), PrioNumAfter(T))
      /\ \A j \in Job : /\ LeaseOf(R[j]) = LeaseOf(T[j])
                        /\ T[j].state = "active" => R[j] = T[j]
  BY PromotionTable DEF TypeOK
<1>3. waitNum' = WaitNumAfter(T) /\ prioNum' = PrioNumAfter(T) /\ paused' = paused
  BY DEF Fetch
<1>4. CASE got = NoJob
  <2>1. FindNothing(R, latch /\ R = T, after) /\ got \notin Job
    BY <1>1, <1>4, NoJobAssumption
  <2>2. job' = R /\ rate' = rate /\ drained' \in BOOLEAN
    BY <2>1 DEF FindNothing
  <2>3. DrainedMeansIdle'
    <3>1. SUFFICES ASSUME drained',
                          NEW j \in Job, R[j].state \in {"wait", "prioritized", "active"}
                   PROVE  R[j].state = "wait" /\ R[j].life # "first"
      BY <2>2 DEF DrainedMeansIdle, In
    <3>2. CASE latch /\ R = T
      BY <3>1, <3>2 DEF DrainedMeansIdle, In
    <3>3. CASE In(R, {"wait", "prioritized", "active"}) = {}
      BY <3>1, <3>3 DEF In
    <3>4. CASE In(R, {"wait", "prioritized", "delayed", "active"}) = {}
      BY <3>1, <3>4 DEF In
    <3> QED BY <2>1, <3>1, <3>2, <3>3, <3>4 DEF FindNothing
  <2>4. IInv'
    BY <1>2, <1>3, <2>2, <2>3 DEF IInv, TypeOK, TableInv
  <2> QED BY <1>2, <2>1, <2>2, <2>4
<1>5. CASE got # NoJob
  <2>1. Claim(R, t, got)
    BY <1>1, <1>5
  <2>2. got \in Job /\ R[got].state \in {"wait", "prioritized"}
    BY <2>1, HeadState DEF Claim
  <2>3. /\ job' = [R EXCEPT ![got] = Claimed(R[got], t)]
        /\ drained' = FALSE
        /\ rate' \in Nat
    BY <2>1 DEF Claim, TypeOK
  <2>4. RowInv(R[got], paused, WaitNumAfter(T), PrioNumAfter(T)) /\ R \in Tables
    BY <1>2, <2>2 DEF TableInv
  <2>5. /\ RowInv(Claimed(R[got], t), paused, WaitNumAfter(T), PrioNumAfter(T))
        /\ JL!Grant(LeaseOf(R[got]), LeaseOf(Claimed(R[got], t)))
    BY <1>2, <2>2, <2>4, ClaimedRow DEF TypeOK
  <2>6. job'[got] = Claimed(R[got], t) /\ \A j \in Job : j # got => job'[j] = R[j]
    BY <2>2, <2>3, <2>4 DEF Tables
  <2>7. TableInv(job', paused', waitNum', prioNum')
    BY <1>2, <1>3, <2>3, <2>4, <2>5, <2>6 DEF TableInv, Tables, RowInv
  <2>8. IInv'
    BY <1>2, <1>3, <2>3, <2>7 DEF IInv, TypeOK, TableInv, DrainedMeansIdle
  <2>9. Cardinality(Live(job')) <= Concurrency
    <3>1. Live(job') \subseteq Live(R) \cup {got}
      BY <2>6 DEF Live, In
    <3>2. Live(R) \subseteq Job /\ Live(job') \subseteq Job
      BY DEF Live, In
    <3>3. /\ IsFiniteSet(Live(R)) /\ Cardinality(Live(R)) \in Nat
          /\ Cardinality(Live(job')) \in Nat
      BY <3>2, FiniteSets
    <3>4. /\ IsFiniteSet(Live(R) \cup {got})
          /\ Cardinality(Live(R) \cup {got}) \in Nat
          /\ Cardinality(Live(R) \cup {got}) <= Cardinality(Live(R)) + 1
      <4>1. Live(R) \cup {got} \subseteq Job
        BY <2>2, <3>2
      <4>2. IsFiniteSet(Live(R) \cup {got}) /\ Cardinality(Live(R) \cup {got}) \in Nat
        BY <4>1, FiniteSets
      <4>3. Cardinality(Live(R) \cup {got})
              = IF got \in Live(R) THEN Cardinality(Live(R)) ELSE Cardinality(Live(R)) + 1
        BY <3>3, FS_AddElement, Zenon
      <4> QED BY <3>3, <4>2, <4>3
    <3>5. Cardinality(Live(job')) <= Cardinality(Live(R) \cup {got})
      BY <3>1, <3>4, FS_Subset
    <3>6. Cardinality(Live(R)) < Concurrency
      BY <2>1 DEF Claim, Open
    <3> QED BY <3>3, <3>4, <3>5, <3>6, ConcurrencyAssumption
  <2> QED BY <1>2, <2>2, <2>5, <2>6, <2>8, <2>9
<1> QED BY <1>4, <1>5

-----------------------------------------------------------------------------
(* Steps.                                                                  *)

Moved == \A j \in Job : Goes(job[j], job'[j])

\* The counters only go up.
Grow ==
  /\ waitNum' \in Nat /\ waitNum <= waitNum'
  /\ prioNum' \in Nat /\ prioNum <= prioNum'

OneGrant ==
  \A j, k \in Job :
    job'[j].started > job[j].started /\ job'[k].started > job[k].started => j = k

\* A step that hands a job out leaves no more live leases than the cap.
Capped ==
  (\E j \in Job : job'[j].started > job[j].started) => Cardinality(Live(job')) <= Concurrency

Kept == IInv' /\ Moved /\ OneGrant /\ Capped

\* What the invariant says of one row.
LEMMA RowTypes ==
  ASSUME IInv, NEW j \in Job
  PROVE  /\ RowInv(job[j], paused, waitNum, prioNum)
         /\ job[j] \in Row
         /\ Shape(job[j])
         /\ job[j].started \in Nat
BY DEF IInv, TableInv, RowInv, Row

\* A procedure that changes one row, of job j, and hands out nothing.
LEMMA OneRow ==
  ASSUME IInv, NEW j \in Job, NEW r,
         job' = [job EXCEPT ![j] = r],
         paused' = paused, Grow, rate' \in Nat,
         RowInv(r, paused, waitNum', prioNum'),
         \/ drained' = FALSE
         \/ /\ drained' = drained
            /\ r.state \in {"wait", "prioritized", "active"} =>
                 \/ r.state = "wait" /\ r.life # "first"
                 \/ r.state = job[j].state /\ r.life = job[j].life,
         Goes(job[j], r),
         r.started <= job[j].started
  PROVE  Kept
<1>1. /\ job'[j] = r
      /\ \A k \in Job : k # j => job'[k] = job[k]
      /\ job' = [k \in Job |-> job'[k]]
  BY DEF IInv, TypeOK, Tables
<1>2. \A k \in Job : RowInv(job'[k], paused, waitNum', prioNum')
  BY <1>1, RowTypes, LaterCounters DEF IInv, TypeOK, Grow
<1>3. TableInv(job', paused', waitNum', prioNum')
  BY <1>1, <1>2 DEF TableInv, Tables, RowInv
<1>4. DrainedMeansIdle'
  BY <1>1 DEF IInv, DrainedMeansIdle, In
<1>5. TypeOK'
  BY <1>3 DEF IInv, TypeOK, TableInv, Grow
<1>6. Moved
  BY <1>1 DEF Moved, Goes
<1>7. OneGrant /\ Capped
  BY <1>1, RowTypes DEF OneGrant, Capped, RowInv, Row
<1> QED BY <1>3, <1>4, <1>5, <1>6, <1>7 DEF IInv, Kept

\* The same when the row's event clears the latch.
LEMMA PutRow ==
  ASSUME IInv, NEW j \in Job, NEW r, Put(j, r), Grow,
         RowInv(r, paused, waitNum', prioNum'),
         Goes(job[j], r),
         r.started <= job[j].started
  PROVE  Kept
BY OneRow DEF Put, IInv, TypeOK

\* A procedure that makes table T of the rows and ends with a fetch.
LEMMA FetchStep ==
  ASSUME IInv, NEW T, TableInv(T, paused, waitNum, prioNum),
         NEW t \in Token, NEW latch \in BOOLEAN, NEW after \in BOOLEAN,
         NEW got \in Got, Fetch(T, t, latch, after, got),
         latch => T = job /\ drained,
         \A j \in Job : \/ LeaseOf(T[j]) = LeaseOf(job[j])
                        \/ JL!Settle(LeaseOf(job[j]), LeaseOf(T[j]))
                        \/ T[j] = Absent /\ job[j].state # "absent"
  PROVE  Kept
<1>1. /\ IInv'
      /\ \A j \in Job : j # got => LeaseOf(job'[j]) = LeaseOf(T[j])
      /\ got \in Job => JL!Grant(LeaseOf(T[got]), LeaseOf(job'[got]))
      /\ got \in Job => Cardinality(Live(job')) <= Concurrency
  BY FetchTable DEF IInv
<1>2. LeaseOf(Absent) = JL!NoLease
  BY AbsentRow DEF IInv, TypeOK
<1>3. \A j \in Job : job[j].state # "absent" => LeaseOf(job[j]).phase # "absent"
  BY DEF LeaseOf
<1>4. ASSUME NEW j \in Job, j # got
      PROVE  Goes(job[j], job'[j])
  BY <1>1, <1>2, <1>3, <1>4 DEF Goes, JL!Step, JL!Discard
<1>5. ASSUME got \in Job
      PROVE  JL!Step(LeaseOf(job[got]), LeaseOf(job'[got]))
  <2>1. CASE LeaseOf(T[got]) = LeaseOf(job[got])
    BY <1>1, <1>5, <2>1 DEF JL!Step
  <2>2. CASE JL!Settle(LeaseOf(job[got]), LeaseOf(T[got]))
    <3>1. JL!Resume(LeaseOf(job[got]), LeaseOf(job'[got]))
      BY <1>1, <1>5, <2>2 DEF JL!Settle, JL!Grant, JL!Resume, JL!Counts
    <3> QED BY <3>1 DEF JL!Step
  <2>3. CASE T[got] = Absent
    BY <1>1, <1>2, <1>5, <2>3 DEF JL!Grant, JL!NoLease
  <2> QED BY <1>5, <2>1, <2>2, <2>3
<1>6. Moved
  BY <1>4, <1>5 DEF Moved, Goes
<1>7. ASSUME NEW j \in Job, j # got
      PROVE  ~ (job'[j].started > job[j].started)
  <2>1. /\ LeaseOf(job'[j]).grants = job'[j].started
        /\ LeaseOf(job[j]).grants = job[j].started
        /\ job'[j].started \in Nat /\ job[j].started \in Nat
    BY <1>1, RowTypes, LeaseFields DEF IInv, TableInv, RowInv, Row
  <2>2. \/ LeaseOf(job'[j]).grants = LeaseOf(job[j]).grants
        \/ LeaseOf(job'[j]).grants = 0
    BY <1>1, <1>2, <1>7 DEF JL!Settle, JL!Counts, JL!NoLease
  <2> QED BY <2>1, <2>2
<1>8. OneGrant /\ Capped
  BY <1>1, <1>7 DEF OneGrant, Capped
<1> QED BY <1>1, <1>6, <1>8 DEF Kept

-----------------------------------------------------------------------------
(* Places.                                                                 *)

Place(p, num) ==
  p.seq \in Int /\ p.num \in Nat /\ num <= p.num /\ p.seq <= p.num

\* The tail of a list is a place: a number its counter has reached.
LEMMA TailPlace ==
  ASSUME NEW num \in Nat, NEW p \in AtTail(num)
  PROVE  Place(p, num)
BY DEF Place, AtTail

\* So is its front, whose number lies below every other.
LEMMA FrontPlace ==
  ASSUME NEW T, NEW ps, NEW num \in Nat, NEW pn \in Nat, TableInv(T, ps, num, pn),
         NEW S, S \subseteq Job, NEW default,
         default = AtTail(num) \/ default = {[seq |-> 0, num |-> num]},
         NEW p \in Front(T, S, num, default)
  PROVE  Place(p, num)
<1>1. CASE Numbered(T, S) = {}
  BY <1>1, TailPlace DEF Front, Place
<1>2. CASE Numbered(T, S) # {}
  <2>1. PICK j \in Lowest(T, S) : p = [seq |-> T[j].waitSeq - 1, num |-> num]
    BY <1>2 DEF Front
  <2>2. j \in Job /\ T[j].waitSeq # NoSeq
    BY <2>1 DEF Lowest, Numbered
  <2>3. T[j].waitSeq \in Int /\ T[j].waitSeq <= num
    BY <2>2 DEF TableInv, RowInv, Row
  <2> QED BY <2>1, <2>3 DEF Place
<1> QED BY <1>1, <1>2

\* And so is the front of a priority.
LEMMA PrioFrontPlace ==
  ASSUME NEW T, NEW ps, NEW wn \in Nat, NEW num \in Nat, TableInv(T, ps, wn, num),
         NEW j, NEW priority, NEW p \in PrioFront(T, j, priority, num)
  PROVE  Place(p, num)
<1> DEFINE Peers == {k \in In(T, {"prioritized"}) \ {j} : T[k].priority = priority}
<1>1. CASE Peers = {}
  BY <1>1 DEF PrioFront, Place
<1>2. CASE Peers # {}
  <2>1. PICK k \in Peers : p = [seq |-> T[k].prioSeq - 1, num |-> num]
    BY <1>2 DEF PrioFront
  <2>2. T[k].prioSeq \in Int /\ T[k].prioSeq <= num
    BY <2>1 DEF TableInv, RowInv, Row, In
  <2> QED BY <2>1, <2>2 DEF Place
<1> QED BY <1>1, <1>2

-----------------------------------------------------------------------------
(* Actions.                                                                *)

\* The row an addition starts from is a row.
LEMMA AbsentType == Absent \in Row
BY PriorityAssumption, 0 \in Int DEF Absent, Row, State

\* Also when it is given a priority.
LEMMA FreshType ==
  ASSUME NEW priority \in Priority
  PROVE  /\ Fresh(priority) \in Row
         /\ Fresh(priority).started = 0
         /\ Shape(Fresh(priority))
         /\ Fresh(priority).state = "absent"
         /\ Fresh(priority).waitSeq = NoSeq
BY AbsentType, 0 \in Int DEF Fresh, Absent, Row, Shape

\* A row that is added, to whichever list: JobLease submits it.
LEMMA SubmitRow ==
  ASSUME NEW r \in Row, r.state = "absent", NEW ps \in BOOLEAN, NEW seq \in Int,
         NEW priority \in Priority, NEW at \in At
  PROVE  /\ Goes(r, ToList(Absent, ps, seq))
         /\ Goes(r, ToPrioritized(Fresh(priority), seq))
         /\ Goes(r, ToDelayed(Fresh(priority), at))
<1>1. /\ JL!Submit(LeaseOf(r), LeaseOf(ToList(Absent, ps, seq)))
      /\ JL!Submit(LeaseOf(r), LeaseOf(ToPrioritized(Fresh(priority), seq)))
      /\ JL!Submit(LeaseOf(r), LeaseOf(ToDelayed(Fresh(priority), at)))
  BY PriorityAssumption, 0 \in Int
     DEF Fresh, Absent, Row, State, ToList, ToPrioritized, ToDelayed, Unlocked, LeaseOf,
         Final, JL!Submit, JL!Free, JL!Counts
<1> QED BY <1>1 DEF Goes, JL!Step

\* Action AddStandard keeps the invariant and makes steps of JobLease.
LEMMA AddStandardStep ==
  ASSUME IInv, NEW j \in Job, NEW lifo \in BOOLEAN, AddStandard(j, lifo)
  PROVE  Kept
<1>1. PICK p \in IF lifo THEN Front(job, In(job, {"wait", "paused"}), waitNum, AtTail(waitNum))
                 ELSE AtTail(waitNum) :
        Put(j, ToList(Absent, paused, p.seq)) /\ waitNum' = p.num
  BY DEF AddStandard
<1>2. Place(p, waitNum)
  BY FrontPlace, TailPlace DEF IInv, TypeOK, In
<1>3. /\ RowInv(ToList(Absent, paused, p.seq), paused, p.num, prioNum)
      /\ ToList(Absent, paused, p.seq).started = Absent.started
  BY <1>2, ListRow, AbsentType DEF Place, IInv, TypeOK
<1>4. Goes(job[j], ToList(Absent, paused, p.seq))
  BY <1>2, RowTypes, SubmitRow, PriorityAssumption DEF AddStandard, Place, IInv, TypeOK, At
<1>5. Absent.started = 0
  BY DEF Absent
<1>6. Grow
  BY <1>1, <1>2 DEF Place, Grow, AddStandard, IInv, TypeOK
<1> QED
  BY <1>1, <1>3, <1>4, <1>5, <1>6, PutRow, RowTypes DEF AddStandard

\* Action AddPrioritized keeps the invariant and makes steps of JobLease.
LEMMA AddPrioritizedStep ==
  ASSUME IInv, NEW j \in Job, NEW priority \in Priority, AddPrioritized(j, priority)
  PROVE  Kept
<1> DEFINE r == ToPrioritized(Fresh(priority), prioNum + 1)
<1>1. prioNum + 1 \in Nat /\ prioNum <= prioNum + 1 /\ prioNum + 1 \in Int
  BY DEF IInv, TypeOK
<1>2. Goes(job[j], r)
  <2>1. "later" \in At /\ TRUE \in BOOLEAN
    BY DEF At
  <2>2. job[j] \in Row /\ job[j].state = "absent"
    BY RowTypes DEF AddPrioritized
  <2> QED BY <1>1, <2>1, <2>2, SubmitRow
<1>3. RowInv(r, paused, waitNum, prioNum + 1) /\ r.started = 0
  BY <1>1, FreshType, PrioritizedRow DEF IInv, TypeOK
<1>4. Grow /\ Put(j, r) /\ prioNum' = prioNum + 1 /\ waitNum' = waitNum
  BY <1>1 DEF AddPrioritized, Grow, IInv, TypeOK
<1> QED
  BY <1>2, <1>3, <1>4, PutRow, RowTypes

\* Action AddDelayed keeps the invariant and makes steps of JobLease.
LEMMA AddDelayedStep ==
  ASSUME IInv, NEW j \in Job, NEW priority \in Priority, NEW at \in At,
         AddDelayed(j, priority, at)
  PROVE  Kept
<1> DEFINE r == ToDelayed(Fresh(priority), at)
<1>1. Goes(job[j], r)
  BY RowTypes, SubmitRow, 0 \in Int DEF AddDelayed
<1>2. RowInv(r, paused, waitNum, prioNum) /\ r.started = 0
  BY FreshType, DelayedRow DEF IInv, TypeOK
<1> QED
  BY <1>1, <1>2, PutRow, RowTypes DEF AddDelayed, Grow, IInv, TypeOK

\* Action AddDuplicated keeps the invariant and makes steps of JobLease.
LEMMA AddDuplicatedStep ==
  ASSUME IInv, NEW j \in Job, AddDuplicated(j)
  PROVE  Kept
<1>1. Grow
  BY DEF AddDuplicated, Grow, IInv, TypeOK
<1>2. RowInv(job[j], paused, waitNum', prioNum')
  BY <1>1, RowTypes, LaterCounters DEF IInv, TypeOK, Grow
<1>3. job' = [job EXCEPT ![j] = job[j]]
  BY DEF AddDuplicated, IInv, TypeOK, Tables
<1>4. job[j].started <= job[j].started
  BY RowTypes DEF RowInv, Row
<1> QED BY <1>1, <1>2, <1>3, <1>4, OneRow DEF AddDuplicated, Goes, IInv, TypeOK

\* Action MoveToActive keeps the invariant and makes steps of JobLease.
LEMMA MoveToActiveStep ==
  ASSUME IInv, NEW t \in Token, NEW got \in Got, MoveToActive(t, got)
  PROVE  Kept
<1>1. Fetch(job, t, drained, FALSE, got)
  BY DEF MoveToActive
<1>2. /\ TableInv(job, paused, waitNum, prioNum)
      /\ drained \in BOOLEAN
      /\ drained => job = job /\ drained
  BY DEF IInv, TypeOK
<1> QED BY <1>1, <1>2, FetchStep

\* Rows deleted from a table that a procedure is about to fetch from or to leave.
LEMMA DeletedTable ==
  ASSUME IInv, NEW T, TableInv(T, paused, waitNum, prioNum), NEW S,
         NEW j \in Job
  PROVE  /\ TableInv(Deleted(T, S), paused, waitNum, prioNum)
         /\ Deleted(T, S)[j] = IF j \in S THEN Absent ELSE T[j]
<1>1. \A k \in Job : Deleted(T, S)[k] = IF k \in S THEN Absent ELSE T[k]
  BY DEF Deleted
<1>2. RowInv(Absent, paused, waitNum, prioNum)
  BY AbsentRow DEF IInv, TypeOK
<1>3. \A k \in Job : RowInv(Deleted(T, S)[k], paused, waitNum, prioNum)
  BY <1>1, <1>2 DEF TableInv
<1>4. Deleted(T, S) \in Tables
  BY <1>3 DEF Deleted, Tables, RowInv
<1> QED BY <1>1, <1>3, <1>4 DEF TableInv

\* A procedure that leaves table T, hands out nothing and emits an event.
LEMMA TableStep ==
  ASSUME IInv, NEW T, job' = T, paused' = paused, drained' = FALSE, rate' \in Nat, Grow,
         TableInv(T, paused, waitNum', prioNum'),
         \A j \in Job : Goes(job[j], T[j]) /\ T[j].started <= job[j].started
  PROVE  Kept
<1>1. IInv'
  BY DEF IInv, TypeOK, TableInv, Grow, DrainedMeansIdle
<1>2. Moved
  BY DEF Moved
<1>3. OneGrant /\ Capped
  BY RowTypes DEF OneGrant, Capped, TableInv, RowInv, Row
<1> QED BY <1>1, <1>2, <1>3 DEF Kept

\* Action MoveToFinished keeps the invariant and makes steps of JobLease.
LEMMA MoveToFinishedStep ==
  ASSUME IInv, NEW j \in Job, NEW c \in Caller, NEW final \in Final,
         NEW trim \in SUBSET Job, NEW fetch \in BOOLEAN, NEW got \in Got,
         fetch => c \in Token,
         MoveToFinished(j, c, final, trim, fetch, got)
  PROVE  Kept
<1> DEFINE T == IF job[j].state = "active"
                THEN [job EXCEPT ![j] = ToFinal(Attempted(@), final)] ELSE job
           D == Deleted(T, trim)
<1>1. job[j].state # "absent" /\ trim \in Trims(T, j, final)
  BY DEF MoveToFinished, FinishReply
<1>2. \A k \in Job : T[k] = IF k = j /\ job[j].state = "active"
                            THEN ToFinal(Attempted(job[j]), final) ELSE job[k]
  BY DEF IInv, TypeOK, Tables
<1>3. ASSUME job[j].state = "active"
      PROVE  /\ RowInv(ToFinal(Attempted(job[j]), final), paused, waitNum, prioNum)
             /\ JL!Settle(LeaseOf(job[j]), LeaseOf(ToFinal(Attempted(job[j]), final)))
             /\ ToFinal(Attempted(job[j]), final).started = job[j].started
             /\ ToFinal(Attempted(job[j]), final).state = final
  <2>1. RowInv(job[j], paused, waitNum, prioNum) /\ job[j] \in Row
    BY RowTypes
  <2>2. "later" \in At /\ 0 \in Int
    BY DEF At
  <2>3. paused \in BOOLEAN /\ waitNum \in Nat /\ prioNum \in Nat
    BY DEF IInv, TypeOK
  <2>4. Attempted(job[j]) \in Row /\ Attempted(job[j]).started = job[j].started
    BY <2>1, <2>3, CountedRow
  <2> QED BY <1>3, <2>1, <2>2, <2>3, <2>4, FinalRow, SettleRow
<1>4. TableInv(T, paused, waitNum, prioNum)
  <2>1. T \in [Job -> Row]
    BY <1>3 DEF IInv, TypeOK, Tables, RowInv
  <2> QED BY <1>2, <1>3, <2>1, RowTypes DEF TableInv, Tables
<1>5. TableInv(D, paused, waitNum, prioNum)
      /\ \A k \in Job : D[k] = IF k \in trim THEN Absent ELSE T[k]
  <2> HIDE DEF T
  <2>1. \A k \in Job : /\ TableInv(D, paused, waitNum, prioNum)
                       /\ D[k] = IF k \in trim THEN Absent ELSE T[k]
    BY <1>4, DeletedTable
  <2> QED BY <2>1
<1> HIDE DEF D
<1>6. ASSUME NEW k \in Job
      PROVE  \/ LeaseOf(D[k]) = LeaseOf(job[k])
             \/ JL!Settle(LeaseOf(job[k]), LeaseOf(D[k]))
             \/ D[k] = Absent /\ job[k].state # "absent"
  <2>1. CASE k \notin trim
    BY <1>2, <1>3, <1>5, <2>1
  <2>2. CASE k \in trim
    <3>1. k = j \/ T[k].state = final
      BY <1>1, <2>2 DEF Trims, In
    <3>2. job[k].state # "absent"
      BY <1>1, <1>2, <3>1 DEF Final
    <3> QED BY <1>5, <2>2, <3>2
  <2> QED BY <2>1, <2>2
<1>7. CASE fetch
  <2>1. Fetch(D, c, FALSE, TRUE, got)
    BY <1>7 DEF MoveToFinished, D
  <2> QED BY <1>5, <1>6, <1>7, <2>1, FetchStep
<1>8. CASE ~ fetch
  <2>1. /\ job' = D /\ drained' = FALSE
        /\ UNCHANGED <<paused, waitNum, prioNum, rate>>
    BY <1>8 DEF MoveToFinished, D
  <2>2. ASSUME NEW k \in Job
        PROVE  Goes(job[k], D[k]) /\ D[k].started <= job[k].started
    <3>1. LeaseOf(Absent) = JL!NoLease /\ Absent.started = 0
      BY AbsentRow DEF IInv, TypeOK, Absent
    <3>2. job[k].state # "absent" => LeaseOf(job[k]).phase # "absent"
      BY DEF LeaseOf
    <3>3. Goes(job[k], D[k])
      BY <1>6, <3>1, <3>2 DEF Goes, JL!Step, JL!Discard
    <3>4. D[k].started <= job[k].started
      <4>1. job[k].started \in Nat
        BY RowTypes
      <4> HIDE DEF T
      <4>2. T[k].started = job[k].started
        BY <1>2, <1>3
      <4> QED BY <1>5, <3>1, <4>1, <4>2
    <3> QED BY <3>3, <3>4
  <2>3. Grow /\ rate' \in Nat /\ TableInv(D, paused, waitNum', prioNum')
    BY <1>5, <2>1 DEF Grow, IInv, TypeOK
  <2> QED BY <2>1, <2>2, <2>3, TableStep
<1> QED BY <1>7, <1>8

\* Action MoveToDelayed keeps the invariant and makes steps of JobLease.
LEMMA MoveToDelayedStep ==
  ASSUME IInv, NEW j \in Job, NEW c \in Caller, NEW failed \in BOOLEAN, NEW at \in At,
         NEW fetch \in BOOLEAN, NEW got \in Got, fetch => c \in Token,
         MoveToDelayed(j, c, failed, at, fetch, got)
  PROVE  Kept
<1> DEFINE r == ToDelayed(IF failed THEN Attempted(job[j]) ELSE job[j], at)
           T == [job EXCEPT ![j] = r]
<1>1. job[j].state = "active"
  BY DEF MoveToDelayed, DelayReply
<1>2. RowInv(job[j], paused, waitNum, prioNum) /\ job[j] \in Row
  BY RowTypes
<1>3. /\ Attempted(job[j]) \in Row
      /\ Attempted(job[j]).waitSeq # NoSeq => Attempted(job[j]).waitSeq <= waitNum
      /\ Attempted(job[j]).started = job[j].started
  BY <1>2, CountedRow DEF IInv, TypeOK
<1>4. RowInv(r, paused, waitNum, prioNum) /\ r.started = job[j].started
  <2>1. CASE failed
    BY <1>3, <2>1, DelayedRow DEF IInv, TypeOK
  <2>2. CASE ~ failed
    <3>1. job[j].waitSeq # NoSeq => job[j].waitSeq <= waitNum
      BY <1>2 DEF RowInv
    <3> QED BY <1>2, <2>2, <3>1, DelayedRow DEF IInv, TypeOK
  <2> QED BY <2>1, <2>2
<1>5. JL!Settle(LeaseOf(job[j]), LeaseOf(r))
  <2>1. 0 \in Int /\ "completed" \in Final
    BY DEF Final
  <2>2. CASE failed
    BY <1>1, <1>2, <2>1, <2>2, SettleRow DEF IInv, TypeOK
  <2>3. CASE ~ failed
    BY <1>1, <1>2, <2>1, <2>3, SettleRow DEF IInv, TypeOK
  <2> QED BY <2>2, <2>3
<1> HIDE DEF r
<1>6. T \in Tables /\ \A k \in Job : T[k] = IF k = j THEN r ELSE job[k]
  BY <1>4 DEF IInv, TypeOK, Tables, RowInv
<1>7. TableInv(T, paused, waitNum, prioNum)
  BY <1>4, <1>6, RowTypes DEF TableInv
<1>8. CASE fetch
  <2>1. Fetch(T, c, FALSE, FALSE, got)
    BY <1>8 DEF MoveToDelayed, r
  <2>2. \A k \in Job : \/ LeaseOf(T[k]) = LeaseOf(job[k])
                       \/ JL!Settle(LeaseOf(job[k]), LeaseOf(T[k]))
    BY <1>5, <1>6
  <2> HIDE DEF T
  <2> QED BY <1>7, <1>8, <2>1, <2>2, FetchStep
<1>9. CASE ~ fetch
  <2>1. /\ job' = T /\ drained' = FALSE
        /\ UNCHANGED <<paused, waitNum, prioNum, rate>>
    BY <1>9 DEF MoveToDelayed, r
  <2>2. Grow /\ rate' \in Nat /\ paused' = paused
        /\ RowInv(r, paused, waitNum', prioNum')
    BY <1>4, <2>1 DEF Grow, IInv, TypeOK
  <2>3. Goes(job[j], r) /\ r.started <= job[j].started
    BY <1>4, <1>5, RowTypes DEF Goes, JL!Step
  <2> QED BY <2>1, <2>2, <2>3, OneRow
<1> QED BY <1>8, <1>9

\* An active row is put back by its worker, to list or set, after promotion.
LEMMA RetryJobStep ==
  ASSUME IInv, NEW j \in Job, NEW c \in Caller, NEW lifo \in BOOLEAN, RetryJob(j, c, lifo)
  PROVE  Kept
<1> DEFINE wn == WaitNumAfter(job)
           pn == PrioNumAfter(job)
           Placed(R) ==
             IF job[j].priority > 0
             THEN \E p \in IF lifo THEN PrioFront(R, j, job[j].priority, pn) ELSE AtTail(pn) :
                    /\ job' = [R EXCEPT ![j] = ToPrioritized(Attempted(@), p.seq)]
                    /\ prioNum' = p.num
                    /\ waitNum' = wn
             ELSE \E p \in IF lifo THEN Front(R, In(R, {"wait"}), wn,
                                              {[seq |-> 0, num |-> wn]})
                           ELSE AtTail(wn) :
                    /\ job' = [R EXCEPT ![j] = ToList(Attempted(@), paused, p.seq)]
                    /\ waitNum' = p.num
                    /\ prioNum' = pn
<1>1. PICK R \in Promotions(job) : Placed(R)
  BY DEF RetryJob
<1>2. /\ job[j].state = "active" /\ drained' = FALSE
      /\ UNCHANGED <<paused, rate>>
  BY DEF RetryJob, RetryReply
<1>3. /\ wn \in Nat /\ waitNum <= wn
      /\ pn \in Nat /\ prioNum <= pn
      /\ TableInv(R, paused, wn, pn)
      /\ \A k \in Job : /\ LeaseOf(R[k]) = LeaseOf(job[k])
                        /\ job[k].state = "active" => R[k] = job[k]
  BY PromotionTable DEF IInv, TypeOK
<1> HIDE DEF wn, pn
<1>4. R[j] = job[j] /\ R \in Tables /\ job[j] \in Row /\ job[j].started \in Nat
  BY <1>2, <1>3, RowTypes DEF TableInv
<1>5. Attempted(job[j]) \in Row
      /\ Attempted(job[j]).started = job[j].started
  <2>1. RowInv(job[j], paused, wn, pn)
    BY <1>3, <1>4 DEF TableInv
  <2> QED BY <1>3, <2>1, CountedRow DEF IInv, TypeOK, RowInv
<1>6. PICK r : /\ job' = [R EXCEPT ![j] = r]
               /\ waitNum' \in Nat /\ wn <= waitNum'
               /\ prioNum' \in Nat /\ pn <= prioNum'
               /\ RowInv(r, paused, waitNum', prioNum')
               /\ JL!Settle(LeaseOf(job[j]), LeaseOf(r))
               /\ r.started = job[j].started
  <2>1. "later" \in At /\ "completed" \in Final /\ paused \in BOOLEAN
    BY DEF At, Final, IInv, TypeOK
  <2>2. CASE job[j].priority > 0
    <3>1. PICK p \in IF lifo THEN PrioFront(R, j, job[j].priority, pn) ELSE AtTail(pn) :
            /\ job' = [R EXCEPT ![j] = ToPrioritized(Attempted(job[j]), p.seq)]
            /\ prioNum' = p.num
            /\ waitNum' = wn
      BY <1>1, <1>4, <2>2
    <3>2. Place(p, pn)
      BY <1>3, <3>1, PrioFrontPlace, TailPlace
    <3>3. p.seq \in Int /\ p.num \in Nat /\ pn <= p.num /\ p.seq <= p.num
      BY <3>2 DEF Place
    <3>4. JL!Settle(LeaseOf(job[j]), LeaseOf(ToPrioritized(Attempted(job[j]), p.seq)))
      BY <1>2, <1>4, <2>1, <3>3, SettleRow
    <3>5. /\ RowInv(ToPrioritized(Attempted(job[j]), p.seq), paused, wn, p.num)
          /\ ToPrioritized(Attempted(job[j]), p.seq).started = job[j].started
      BY <1>3, <1>5, <2>1, <3>3, PrioritizedRow
    <3> WITNESS ToPrioritized(Attempted(job[j]), p.seq)
    <3> QED BY <1>3, <3>1, <3>3, <3>4, <3>5
  <2>3. CASE ~ (job[j].priority > 0)
    <3>1. PICK p \in IF lifo THEN Front(R, In(R, {"wait"}), wn, {[seq |-> 0, num |-> wn]})
                     ELSE AtTail(wn) :
            /\ job' = [R EXCEPT ![j] = ToList(Attempted(job[j]), paused, p.seq)]
            /\ waitNum' = p.num
            /\ prioNum' = pn
      BY <1>1, <1>4, <2>3
    <3>2. In(R, {"wait"}) \subseteq Job
      BY DEF In
    <3>3. Place(p, wn)
      BY <1>3, <3>1, <3>2, FrontPlace, TailPlace
    <3>4. p.seq \in Int /\ p.num \in Nat /\ wn <= p.num /\ p.seq <= p.num
      BY <3>3 DEF Place
    <3>5. JL!Settle(LeaseOf(job[j]), LeaseOf(ToList(Attempted(job[j]), paused, p.seq)))
      BY <1>2, <1>4, <2>1, <3>4, SettleRow
    <3>6. /\ RowInv(ToList(Attempted(job[j]), paused, p.seq), paused, p.num, pn)
          /\ ToList(Attempted(job[j]), paused, p.seq).started = job[j].started
      BY <1>3, <1>5, <2>1, <3>4, ListRow
    <3> WITNESS ToList(Attempted(job[j]), paused, p.seq)
    <3> QED BY <1>3, <3>1, <3>4, <3>5, <3>6
  <2> QED BY <2>2, <2>3
<1>7. Grow
  BY <1>3, <1>6 DEF Grow, IInv, TypeOK
<1>8. job' \in Tables /\ \A k \in Job : job'[k] = IF k = j THEN r ELSE R[k]
  BY <1>4, <1>6 DEF Tables, RowInv
<1>9. TableInv(job', paused, waitNum', prioNum')
  <2>1. \A k \in Job : RowInv(R[k], paused, waitNum', prioNum')
    BY <1>3, <1>6, LaterCounters DEF TableInv, IInv, TypeOK
  <2> QED BY <1>6, <1>8, <2>1 DEF TableInv
<1>10. ASSUME NEW k \in Job
       PROVE  Goes(job[k], job'[k]) /\ job'[k].started <= job[k].started
  <2>1. CASE k = j
    BY <1>4, <1>6, <1>8, <2>1 DEF Goes, JL!Step
  <2>2. CASE k # j
    <3>1. job'[k] = R[k] /\ R[k] \in Row /\ job[k] \in Row /\ job[k].started \in Nat
      BY <1>3, <1>8, <2>2, RowTypes DEF TableInv, RowInv
    <3>2. R[k].started = job[k].started
      BY <1>3, <3>1, LeaseFields
    <3> QED BY <1>3, <3>1, <3>2 DEF Goes
  <2> QED BY <2>1, <2>2
<1> QED BY <1>2, <1>7, <1>9, <1>10, TableStep DEF IInv, TypeOK

\* A place at either end of the wait list or of the prioritized set.
LEMMA PlaceFacts ==
  ASSUME NEW p, NEW num \in Nat, Place(p, num)
  PROVE  p.seq \in Int /\ p.num \in Nat /\ num <= p.num /\ p.seq <= p.num
BY DEF Place

\* Action MoveJobFromActiveToWait keeps the invariant and makes steps of JobLease.
LEMMA MoveJobFromActiveToWaitStep ==
  ASSUME IInv, NEW j \in Job, NEW t \in Token, MoveJobFromActiveToWait(j, t)
  PROVE  Kept
<1>1. /\ job[j].state = "active" /\ job[j] \in Row /\ job[j].started \in Nat
      /\ TableInv(job, paused, waitNum, prioNum)
      /\ paused \in BOOLEAN /\ waitNum \in Nat /\ prioNum \in Nat
      /\ "later" \in At /\ "completed" \in Final
  BY RowTypes DEF MoveJobFromActiveToWait, IInv, TypeOK, At, Final
<1>2. CASE ~ paused /\ job[j].priority > 0
  <2>1. PICK p \in PrioFront(job, j, job[j].priority, prioNum) :
          Put(j, ToPrioritized(job[j], p.seq)) /\ UNCHANGED <<waitNum, prioNum>>
    BY <1>2 DEF MoveJobFromActiveToWait
  <2>2. p.seq \in Int /\ p.seq <= p.num
    BY <1>1, <2>1, PrioFrontPlace, PlaceFacts
  <2>3. p.num = prioNum
    BY <2>1 DEF PrioFront
  <2>4. JL!Settle(LeaseOf(job[j]), LeaseOf(ToPrioritized(job[j], p.seq)))
    BY <1>1, <2>2, SettleRow
  <2>5. /\ RowInv(ToPrioritized(job[j], p.seq), paused, waitNum, prioNum)
        /\ ToPrioritized(job[j], p.seq).started = job[j].started
    BY <1>1, <2>2, <2>3, PrioritizedRow
  <2> QED BY <1>1, <2>1, <2>4, <2>5, PutRow DEF Grow, Goes, JL!Step
<1>3. CASE ~ (~ paused /\ job[j].priority > 0)
  <2>1. PICK p \in Front(job, In(job, {IF paused THEN "paused" ELSE "wait"}),
                         waitNum, AtTail(waitNum)) :
          /\ Put(j, ToList(job[j], paused, p.seq))
          /\ waitNum' = p.num /\ prioNum' = prioNum
    BY <1>3 DEF MoveJobFromActiveToWait
  <2>2. In(job, {IF paused THEN "paused" ELSE "wait"}) \subseteq Job
    BY DEF In
  <2>3. Place(p, waitNum)
    BY <1>1, <2>1, <2>2, FrontPlace
  <2>4. p.seq \in Int /\ p.num \in Nat /\ waitNum <= p.num /\ p.seq <= p.num
    BY <1>1, <2>3, PlaceFacts
  <2>5. JL!Settle(LeaseOf(job[j]), LeaseOf(ToList(job[j], paused, p.seq)))
    BY <1>1, <2>4, SettleRow
  <2>6. /\ RowInv(ToList(job[j], paused, p.seq), paused, p.num, prioNum)
        /\ ToList(job[j], paused, p.seq).started = job[j].started
    BY <1>1, <2>4, ListRow
  <2>7. Grow
    BY <1>1, <2>1, <2>4 DEF Grow
  <2> QED BY <1>1, <2>1, <2>5, <2>6, <2>7, PutRow DEF Goes, JL!Step
<1> QED BY <1>2, <1>3

\* A lease that is renewed or expires: the row stays active.
LEMMA TickRow ==
  ASSUME NEW r, NEW ps \in BOOLEAN, NEW wn \in Nat, NEW pn \in Nat,
         RowInv(r, ps, wn, pn), r.state = "active", NEW term \in {"live", "expired"}
  PROVE  LET s == [r EXCEPT !.lease = term]
         IN  /\ RowInv(s, ps, wn, pn)
             /\ s.state = r.state
             /\ s.life = r.life
             /\ s.started = r.started
             /\ Goes(r, s)
<1> DEFINE s == [r EXCEPT !.lease = term]
<1>1. RowInv(s, ps, wn, pn) /\ s.state = r.state /\ s.life = r.life
      /\ s.started = r.started
  BY DEF RowInv, Shape, Row, State
<1>2. JL!Tick(LeaseOf(r), LeaseOf(s))
  BY DEF RowInv, Row, LeaseOf, Final, JL!Tick, JL!Counts
<1> QED BY <1>1, <1>2 DEF Goes, JL!Step

\* A step that changes only the lease of an active row.
LEMMA TickStep ==
  ASSUME IInv, NEW j \in Job, job[j].state = "active", NEW term \in {"live", "expired"},
         job' = [job EXCEPT ![j].lease = term],
         UNCHANGED <<paused, waitNum, prioNum, drained, rate>>
  PROVE  Kept
<1> DEFINE r == [job[j] EXCEPT !.lease = term]
<1>1. /\ RowInv(r, paused, waitNum, prioNum)
      /\ r.state = job[j].state /\ r.life = job[j].life /\ r.started = job[j].started
      /\ Goes(job[j], r)
  BY RowTypes, TickRow DEF IInv, TypeOK
<1>2. job' = [job EXCEPT ![j] = r]
  BY DEF IInv, TypeOK
<1>3. Grow /\ rate' \in Nat /\ job[j].started \in Nat
  BY RowTypes DEF Grow, IInv, TypeOK
<1> HIDE DEF r
<1>4. r.started <= job[j].started
  BY <1>1, <1>3
<1> QED BY <1>1, <1>2, <1>3, <1>4, OneRow

\* Action ExtendLocks keeps the invariant and makes steps of JobLease.
LEMMA ExtendLocksStep ==
  ASSUME IInv, NEW j \in Job, NEW t \in Token, ExtendLocks(j, t)
  PROVE  Kept
BY TickStep DEF ExtendLocks

\* Action LockExpires keeps the invariant and makes steps of JobLease.
LEMMA LockExpiresStep ==
  ASSUME IInv, NEW j \in Job, LockExpires(j)
  PROVE  Kept
<1>1. job[j].state = "active"
  BY RowTypes DEF LockExpires, Shape
<1> QED BY <1>1, TickStep DEF LockExpires

\* A row becomes due, or is made to: nothing else of it changes.
LEMMA AtStep ==
  ASSUME IInv, NEW j \in Job, job[j].state # "absent", NEW at \in At,
         job' = [job EXCEPT ![j].at = at],
         UNCHANGED <<paused, waitNum, prioNum, drained, rate>>
  PROVE  Kept
<1> DEFINE r == [job[j] EXCEPT !.at = at]
<1>1. /\ RowInv(r, paused, waitNum, prioNum)
      /\ r.state = job[j].state /\ r.life = job[j].life /\ r.started = job[j].started
      /\ LeaseOf(r) = LeaseOf(job[j])
  BY RowTypes DEF RowInv, Shape, Row, LeaseOf
<1>2. job' = [job EXCEPT ![j] = r]
  BY DEF IInv, TypeOK
<1>3. Grow /\ rate' \in Nat /\ job[j].started \in Nat
  BY RowTypes DEF Grow, IInv, TypeOK
<1> HIDE DEF r
<1>4. r.started <= job[j].started /\ Goes(job[j], r)
  BY <1>1, <1>3 DEF Goes
<1> QED BY <1>1, <1>2, <1>3, <1>4, OneRow

\* Action ChangeDelay keeps the invariant and makes steps of JobLease.
LEMMA ChangeDelayStep ==
  ASSUME IInv, NEW j \in Job, NEW at \in At, ChangeDelay(j, at)
  PROVE  Kept
BY AtStep DEF ChangeDelay

\* Action DelayElapses keeps the invariant and makes steps of JobLease.
LEMMA DelayElapsesStep ==
  ASSUME IInv, NEW j \in Job, DelayElapses(j)
  PROVE  Kept
<1>1. "due" \in At
  BY DEF At
<1>2. job[j].state # "absent"
  BY RowTypes DEF DelayElapses, RowInv, Absent
<1> QED BY <1>1, <1>2, AtStep DEF DelayElapses

\* A new limiter count changes no row.
LEMMA RateStep ==
  ASSUME IInv, rate' \in Nat, UNCHANGED <<job, paused, waitNum, prioNum, drained>>
  PROVE  Kept
<1>1. IInv'
  BY DEF IInv, TypeOK, TableInv, DrainedMeansIdle, In
<1>2. Moved
  BY DEF Moved, Goes
<1>3. OneGrant /\ Capped
  BY RowTypes DEF OneGrant, Capped
<1> QED BY <1>1, <1>2, <1>3 DEF Kept

\* Action RateLimit keeps the invariant and makes steps of JobLease.
LEMMA RateLimitStep ==
  ASSUME IInv, RateLimit \/ WindowCloses
  PROVE  Kept
BY RateStep, RateAssumption DEF RateLimit, WindowCloses

\* The wait list becomes the paused list, or the other way round.
LEMMA PauseStep ==
  ASSUME IInv, NEW pause \in BOOLEAN, Pause(pause)
  PROVE  Kept
<1> DEFINE from == IF pause THEN "wait" ELSE "paused"
           to   == IF pause THEN "paused" ELSE "wait"
<1>1. \A j \in Job : job'[j] = IF job[j].state = from
                              THEN [job[j] EXCEPT !.state = to] ELSE job[j]
  BY DEF Pause
<1>2. ASSUME NEW j \in Job
      PROVE  /\ RowInv(job'[j], pause, waitNum, prioNum)
             /\ LeaseOf(job'[j]) = LeaseOf(job[j])
             /\ job'[j].started = job[j].started
  <2>1. RowInv(job[j], paused, waitNum, prioNum)
    BY RowTypes
  <2>2. CASE job[j].state = from
    <3>1. job'[j] = [job[j] EXCEPT !.state = to]
      BY <1>1, <2>2
    <3>2. RowInv([job[j] EXCEPT !.state = to], pause, waitNum, prioNum)
      BY <2>1, <2>2 DEF RowInv, Shape, Row, State
    <3>3. /\ LeaseOf([job[j] EXCEPT !.state = to]) = LeaseOf(job[j])
          /\ [job[j] EXCEPT !.state = to].started = job[j].started
      BY <2>1, <2>2 DEF RowInv, Row, State, LeaseOf, Final
    <3> QED BY <3>1, <3>2, <3>3
  <2>3. CASE job[j].state # from
    <3>1. job'[j] = job[j]
      BY <1>1, <2>3
    <3>2. RowInv(job[j], pause, waitNum, prioNum)
      BY <2>1, <2>3 DEF RowInv, IInv, TypeOK
    <3> QED BY <3>1, <3>2
  <2> QED BY <2>2, <2>3
<1>3. TableInv(job', paused', waitNum', prioNum')
  <2>1. job' = [j \in Job |-> job'[j]]
    BY DEF Pause
  <2> QED BY <1>2, <2>1 DEF Pause, TableInv, Tables, RowInv
<1>4. IInv'
  BY <1>3 DEF Pause, IInv, TypeOK, TableInv, DrainedMeansIdle
<1>5. Moved
  BY <1>2 DEF Moved, Goes
<1>6. OneGrant /\ Capped
  BY <1>2, RowTypes DEF OneGrant, Capped
<1> QED BY <1>4, <1>5, <1>6 DEF Kept

\* Action Promote keeps the invariant and makes steps of JobLease.
LEMMA PromoteStep ==
  ASSUME IInv, NEW j \in Job, Promote(j)
  PROVE  Kept
<1>1. /\ RowInv(job[j], paused, waitNum, prioNum) /\ job[j] \in Row /\ Shape(job[j])
      /\ job[j].started \in Nat /\ job[j].state = "delayed"
      /\ paused \in BOOLEAN /\ waitNum \in Nat /\ prioNum \in Nat
  BY RowTypes DEF Promote, IInv, TypeOK
<1>2. CASE job[j].priority > 0
  <2> DEFINE r == PrioReady(job[j], paused, prioNum + 1)
  <2>1. Put(j, r) /\ prioNum' = prioNum + 1 /\ waitNum' = waitNum
    BY <1>2 DEF Promote
  <2>2. RowInv(job[j], paused, waitNum, prioNum + 1)
    BY <1>1, LaterCounters
  <2>3. RowInv(r, paused, waitNum, prioNum + 1) /\ LeaseOf(r) = LeaseOf(job[j])
    BY <1>1, <2>2, PrioReadyRow
  <2>4. r.started = job[j].started
    BY <1>1 DEF PrioReady, Row
  <2> HIDE DEF r
  <2> QED BY <1>1, <2>1, <2>3, <2>4, PutRow DEF Grow, Goes
<1>3. CASE ~ (job[j].priority > 0)
  <2> DEFINE r == ToList(job[j], paused, waitNum + 1)
  <2>1. Put(j, r) /\ waitNum' = waitNum + 1 /\ prioNum' = prioNum
    BY <1>3 DEF Promote
  <2>2. RowInv(r, paused, waitNum + 1, prioNum) /\ r.started = job[j].started
    BY <1>1, ListRow
  <2>3. LeaseOf(r) = LeaseOf(job[j])
    BY <1>1, QueuedRow
  <2> HIDE DEF r
  <2> QED BY <1>1, <2>1, <2>2, <2>3, PutRow DEF Grow, Goes
<1> QED BY <1>2, <1>3

\* A priority written into a row that keeps its place.
LEMMA PriorityRow ==
  ASSUME NEW r, NEW ps \in BOOLEAN, NEW wn \in Nat, NEW pn \in Nat,
         RowInv(r, ps, wn, pn), r.state # "absent", NEW priority \in Priority
  PROVE  LET s == [r EXCEPT !.priority = priority]
         IN  /\ RowInv(s, ps, wn, pn)
             /\ s.state = r.state
             /\ s.life = r.life
             /\ s.started = r.started
             /\ LeaseOf(s) = LeaseOf(r)
BY DEF RowInv, Shape, Row, LeaseOf, Final

\* Action ChangePriority keeps the invariant and makes steps of JobLease.
LEMMA ChangePriorityStep ==
  ASSUME IInv, NEW j \in Job, NEW priority \in Priority, NEW lifo \in BOOLEAN,
         ChangePriority(j, priority, lifo)
  PROVE  Kept
<1>1. /\ RowInv(job[j], paused, waitNum, prioNum) /\ job[j] \in Row /\ Shape(job[j])
      /\ job[j].started \in Nat
      /\ TableInv(job, paused, waitNum, prioNum)
      /\ paused \in BOOLEAN /\ waitNum \in Nat /\ prioNum \in Nat
  BY RowTypes DEF IInv, TypeOK
<1>2. CASE /\ job[j].state # "absent"
           /\ job' = [job EXCEPT ![j].priority = priority]
           /\ UNCHANGED <<paused, waitNum, prioNum, drained, rate>>
  <2> DEFINE r == [job[j] EXCEPT !.priority = priority]
  <2>1. /\ RowInv(r, paused, waitNum, prioNum)
        /\ r.state = job[j].state /\ r.life = job[j].life
        /\ r.started = job[j].started /\ LeaseOf(r) = LeaseOf(job[j])
    BY <1>1, <1>2, PriorityRow
  <2>2. job' = [job EXCEPT ![j] = r] /\ Grow /\ rate' \in Nat
    BY <1>2 DEF IInv, TypeOK, Grow
  <2> HIDE DEF r
  <2>3. r.started <= job[j].started /\ Goes(job[j], r)
    BY <1>1, <2>1 DEF Goes
  <2> QED BY <1>2, <2>1, <2>2, <2>3, OneRow
<1>3. CASE /\ job[j].state \in {"wait", "paused", "prioritized"}
           /\ priority > 0
           /\ \E p \in IF lifo THEN PrioFront(job, j, priority, prioNum)
                       ELSE AtTail(prioNum) :
                /\ Put(j, [ToPrioritized(job[j], p.seq) EXCEPT !.priority = priority])
                /\ prioNum' = p.num
           /\ UNCHANGED waitNum
  <2>1. PICK p \in IF lifo THEN PrioFront(job, j, priority, prioNum) ELSE AtTail(prioNum) :
          /\ Put(j, [ToPrioritized(job[j], p.seq) EXCEPT !.priority = priority])
          /\ prioNum' = p.num /\ waitNum' = waitNum
    BY <1>3
  <2>2. Place(p, prioNum)
    BY <1>1, <2>1, PrioFrontPlace, TailPlace
  <2>3. p.seq \in Int /\ p.num \in Nat /\ prioNum <= p.num /\ p.seq <= p.num
    BY <1>1, <2>2, PlaceFacts
  <2> DEFINE q == ToPrioritized(job[j], p.seq)
             r == [q EXCEPT !.priority = priority]
  <2>4. /\ RowInv(q, paused, waitNum, p.num)
        /\ q.started = job[j].started /\ q.state = "prioritized"
    BY <1>1, <2>3, PrioritizedRow
  <2>5. LeaseOf(q) = LeaseOf(job[j])
    BY <1>1, <1>3, <2>3, QueuedRow
  <2>6. /\ RowInv(r, paused, waitNum, p.num)
        /\ r.started = job[j].started /\ LeaseOf(r) = LeaseOf(job[j])
    <3> HIDE DEF q
    <3> QED BY <1>1, <2>3, <2>4, <2>5, PriorityRow
  <2> HIDE DEF r
  <2>7. r.started <= job[j].started /\ Goes(job[j], r) /\ Grow
    BY <1>1, <2>1, <2>3, <2>6 DEF Goes, Grow
  <2> QED BY <2>1, <2>6, <2>7, PutRow DEF r
<1>4. CASE /\ job[j].state \in {"wait", "paused", "prioritized"}
           /\ \E p \in IF lifo THEN Front(job, In(job, {"wait", "paused"}) \ {j},
                                          waitNum, AtTail(waitNum))
                       ELSE AtTail(waitNum) :
                /\ Put(j, [ToList(job[j], paused, p.seq) EXCEPT !.priority = 0])
                /\ waitNum' = p.num
           /\ UNCHANGED prioNum
  <2>1. PICK p \in IF lifo THEN Front(job, In(job, {"wait", "paused"}) \ {j},
                                     waitNum, AtTail(waitNum))
                   ELSE AtTail(waitNum) :
          /\ Put(j, [ToList(job[j], paused, p.seq) EXCEPT !.priority = 0])
          /\ waitNum' = p.num /\ prioNum' = prioNum
    BY <1>4
  <2>2. In(job, {"wait", "paused"}) \ {j} \subseteq Job
    BY DEF In
  <2>3. Place(p, waitNum)
    BY <1>1, <2>1, <2>2, FrontPlace, TailPlace
  <2>4. p.seq \in Int /\ p.num \in Nat /\ waitNum <= p.num /\ p.seq <= p.num
    BY <1>1, <2>3, PlaceFacts
  <2> DEFINE q == ToList(job[j], paused, p.seq)
             r == [q EXCEPT !.priority = 0]
  <2>5. /\ RowInv(q, paused, p.num, prioNum)
        /\ q.started = job[j].started /\ q.state \in {"wait", "paused"}
    BY <1>1, <2>4, ListRow
  <2>6. LeaseOf(q) = LeaseOf(job[j])
    BY <1>1, <1>4, <2>4, QueuedRow
  <2>7. /\ RowInv(r, paused, p.num, prioNum)
        /\ r.started = job[j].started /\ LeaseOf(r) = LeaseOf(job[j])
    <3> HIDE DEF q
    <3> QED BY <1>1, <2>4, <2>5, <2>6, PriorityRow, PriorityAssumption
  <2> HIDE DEF r
  <2>8. r.started <= job[j].started /\ Goes(job[j], r) /\ Grow
    BY <1>1, <2>1, <2>4, <2>7 DEF Goes, Grow
  <2> QED BY <2>1, <2>7, <2>8, PutRow DEF r
<1> QED BY <1>2, <1>3, <1>4 DEF ChangePriority

\* A finished row that is put back, its counts kept or zeroed.
LEMMA ReopenedRow ==
  ASSUME NEW r \in Row, Shape(r), r.state \in Final,
         NEW ps \in BOOLEAN, NEW seq \in Int
  PROVE  /\ JL!Reopen(LeaseOf(r), LeaseOf(ToList(Reopened(r), ps, seq)))
         /\ Reopened(r).life # "first"
         /\ Reopened(r) \in Row
         /\ Reopened(r).started = r.started
BY 0 \in Int DEF Row, State, Final, Shape, LeaseOf, Unlocked, Reopened, ToList,
                 JL!Reopen, JL!Free, JL!Counts

\* A finished row put back, with counts zeroed or not: JobLease reopens it.
LEMMA RecountedRow ==
  ASSUME NEW q, NEW ps \in BOOLEAN, NEW wn \in Nat, NEW pn \in Nat,
         RowInv(q, ps, wn, pn), q.life # "first",
         NEW resetMade \in BOOLEAN, NEW resetStarted \in BOOLEAN
  PROVE  LET r == Recounted(q, resetMade, resetStarted)
         IN  /\ RowInv(r, ps, wn, pn)
             /\ r.state = q.state
             /\ r.life # "first"
             /\ r.started <= q.started
<1> DEFINE r == Recounted(q, resetMade, resetStarted)
<1>1. q \in Row /\ q.started \in Nat
  BY DEF RowInv, Row
<1>2. /\ r \in Row
      /\ r.state = q.state /\ r.token = q.token /\ r.lease = q.lease
      /\ r.waitSeq = q.waitSeq /\ r.prioSeq = q.prioSeq
      /\ r.started = IF resetStarted THEN 0 ELSE q.started
  BY <1>1 DEF Recounted, Row
<1>3. r.life # "first"
  BY <1>1 DEF Recounted, Row
<1>4. r.started <= q.started
  BY <1>1, <1>2
<1>5. RowInv(r, ps, wn, pn)
  <2> HIDE DEF r
  <2> QED BY <1>2 DEF RowInv, Shape, Absent
<1> QED BY <1>2, <1>3, <1>4, <1>5

\* Action ReprocessJob keeps the invariant and makes steps of JobLease.
LEMMA ReprocessJobStep ==
  ASSUME IInv, NEW j \in Job, NEW final \in Final,
         NEW resetMade \in BOOLEAN, NEW resetStarted \in BOOLEAN,
         ReprocessJob(j, final, resetMade, resetStarted)
  PROVE  Kept
<1> DEFINE q == ToList(Reopened(job[j]), paused, waitNum + 1)
           r == Recounted(q, resetMade, resetStarted)
<1>1. /\ job[j] \in Row /\ Shape(job[j]) /\ job[j].state \in Final
      /\ job[j].started \in Nat
      /\ paused \in BOOLEAN /\ waitNum \in Nat /\ prioNum \in Nat /\ rate \in Nat
      /\ waitNum + 1 \in Nat /\ waitNum <= waitNum + 1
  BY RowTypes DEF ReprocessJob, IInv, TypeOK
<1>2. /\ JL!Reopen(LeaseOf(job[j]), LeaseOf(q))
      /\ Reopened(job[j]).life # "first"
      /\ Reopened(job[j]) \in Row
      /\ Reopened(job[j]).started = job[j].started
  BY <1>1, ReopenedRow
<1>3. /\ RowInv(q, paused, waitNum + 1, prioNum)
      /\ q.state \in {"wait", "paused"}
      /\ q.started = job[j].started
      /\ q.life # "first"
  <2>1. Reopened(job[j]).life = q.life
    BY <1>1, <1>2, ListRow
  <2> QED BY <1>1, <1>2, <2>1, ListRow
<1>4. job' = [job EXCEPT ![j] = r] /\ waitNum' = waitNum + 1
      /\ UNCHANGED <<paused, prioNum, drained, rate>>
  BY DEF ReprocessJob
<1> HIDE DEF q
<1>5. /\ RowInv(r, paused, waitNum + 1, prioNum)
      /\ r.state = q.state
      /\ r.life # "first"
      /\ r.started <= job[j].started
  BY <1>1, <1>3, RecountedRow
<1>6. JL!Reopen(LeaseOf(job[j]), LeaseOf(r))
  <2>1. q \in Row
    BY <1>3 DEF RowInv
  <2>2. /\ LeaseOf(r).phase = LeaseOf(q).phase /\ LeaseOf(r).holder = LeaseOf(q).holder
        /\ LeaseOf(r).term = LeaseOf(q).term /\ LeaseOf(r).lapses = LeaseOf(q).lapses
        /\ LeaseOf(r).settles \in {LeaseOf(q).settles, 0}
        /\ \/ LeaseOf(r).grants = LeaseOf(q).grants /\ LeaseOf(r).life = LeaseOf(q).life
           \/ LeaseOf(r).grants = 0 /\ LeaseOf(r).life = "reset"
    BY <2>1 DEF LeaseOf, Row, Recounted
  <2> HIDE DEF r
  <2> QED BY <1>2, <2>2 DEF JL!Reopen, JL!Free
<1> HIDE DEF r
<1>7. r.state \in {"wait", "prioritized", "active"} => r.state = "wait" /\ r.life # "first"
  BY <1>3, <1>5
<1>8. Grow /\ Goes(job[j], r) /\ rate' \in Nat
  BY <1>1, <1>4, <1>6 DEF Grow, Goes, JL!Step
<1> QED BY <1>1, <1>4, <1>5, <1>7, <1>8, OneRow

\* Action MoveStalledJobsToWait keeps the invariant and makes steps of JobLease.
LEMMA MoveStalledJobsToWaitStep ==
  ASSUME IInv, MoveStalledJobsToWait
  PROVE  Kept
<1> DEFINE Back == {j \in Expired(job) : ~ Worn(job[j])}
           wn == waitNum + Cardinality(Back)
<1>1. Back \subseteq Job
  BY DEF Expired, In
<1>2. Cardinality(Back) \in Nat
  BY <1>1, FiniteSets
<1>3. PICK rank \in Rankings(Back) : job' = Swept(job, paused, waitNum, rank)
  BY DEF MoveStalledJobsToWait
<1>4. /\ waitNum' = wn /\ drained' = FALSE
      /\ UNCHANGED <<paused, prioNum, rate>>
  BY DEF MoveStalledJobsToWait
<1>5. /\ wn \in Nat /\ waitNum <= wn
      /\ paused \in BOOLEAN /\ waitNum \in Nat /\ prioNum \in Nat /\ rate \in Nat
  BY <1>2 DEF IInv, TypeOK
<1>6. ASSUME NEW j \in Job
      PROVE  /\ RowInv(job'[j], paused, wn, prioNum)
             /\ Goes(job[j], job'[j])
             /\ job'[j].started <= job[j].started
  <2>1. /\ RowInv(job[j], paused, wn, prioNum) /\ job[j] \in Row
        /\ job[j].started \in Nat /\ job[j].stalled \in Nat
    BY <1>5, RowTypes, LaterCounters DEF Row
  <2>2. /\ Stalled(job[j]) \in Row
        /\ Stalled(job[j]).started = job[j].started
    <3> HIDE DEF wn
    <3> QED BY <1>5, <2>1, CountedRow DEF RowInv
  <2>3. CASE j \notin Expired(job)
    <3>1. job'[j] = job[j]
      BY <1>3, <2>3 DEF Swept
    <3> QED BY <2>1, <3>1 DEF Goes
  <2>4. CASE j \in Expired(job) /\ Worn(job[j])
    <3>1. job'[j] = ToFinal(Stalled(job[j]), "failed")
      BY <1>3, <2>4 DEF Swept
    <3>2. job[j].state = "active" /\ job[j].lease = "expired" /\ 0 \in Int
          /\ "failed" \in Final
      BY <2>4 DEF Expired, In, Final
    <3>3. JL!Revoke(LeaseOf(job[j]), LeaseOf(ToFinal(Stalled(job[j]), "failed")))
      BY <1>5, <2>1, <2>4, <3>2, SweptRow
    <3>4. /\ RowInv(ToFinal(Stalled(job[j]), "failed"), paused, wn, prioNum)
          /\ ToFinal(Stalled(job[j]), "failed").started = job[j].started
      <4> HIDE DEF wn
      <4> QED BY <1>5, <2>2, <3>2, FinalRow
    <3> QED BY <2>1, <3>1, <3>3, <3>4 DEF Goes, JL!Step
  <2>5. CASE j \in Expired(job) /\ ~ Worn(job[j])
    <3>1. job'[j] = ToList(Stalled(job[j]), paused, waitNum + rank[j])
      BY <1>3, <2>5 DEF Swept
    <3>2. job[j].state = "active" /\ job[j].lease = "expired"
      BY <2>5 DEF Expired, In
    <3>3. j \in Back
      BY <2>5
    <3>4. rank[j] \in 1..Cardinality(Back)
      BY <1>1, <3>3, RankingType
    <3>5. waitNum + rank[j] \in Int /\ waitNum + rank[j] <= wn
      BY <1>2, <1>5, <3>4
    <3>6. JL!Revoke(LeaseOf(job[j]), LeaseOf(ToList(Stalled(job[j]), paused, waitNum + rank[j])))
      BY <1>5, <2>1, <2>5, <3>2, <3>5, SweptRow
    <3>7. /\ RowInv(ToList(Stalled(job[j]), paused, waitNum + rank[j]), paused, wn, prioNum)
          /\ ToList(Stalled(job[j]), paused, waitNum + rank[j]).started = job[j].started
      <4> HIDE DEF wn
      <4> QED BY <1>5, <2>2, <3>5, ListRow
    <3> QED BY <2>1, <3>1, <3>6, <3>7 DEF Goes, JL!Step
  <2> QED BY <2>3, <2>4, <2>5
<1>7. TableInv(job', paused, waitNum', prioNum')
  <2>1. job' = [j \in Job |-> job'[j]]
    BY <1>3 DEF Swept
  <2> HIDE DEF wn
  <2> QED BY <1>4, <1>6, <2>1 DEF TableInv, Tables, RowInv
<1>8. Grow
  BY <1>4, <1>5 DEF Grow
<1> QED BY <1>4, <1>5, <1>6, <1>7, <1>8, TableStep

\* Action MoveJobsToWait keeps the invariant and makes steps of JobLease.
LEMMA MoveJobsToWaitStep ==
  ASSUME IInv, NEW from \in Final \cup {"delayed"}, NEW S \in SUBSET Job,
         MoveJobsToWait(from, S)
  PROVE  Kept
<1> DEFINE Prio == {j \in S : from = "delayed" /\ job[j].priority > 0}
           List == S \ Prio
           Back(j) == IF from = "delayed" THEN job[j] ELSE Reopened(job[j])
           wn == waitNum + Cardinality(List)
           pn == prioNum + Cardinality(Prio)
<1>1. Cardinality(List) \in Nat /\ Cardinality(Prio) \in Nat
  BY FiniteSets
<1>2. PICK list \in Rankings(List), prio \in Rankings(Prio) :
        job' = [j \in Job |->
                  IF j \in List THEN ToList(Back(j), paused, waitNum + list[j])
                  ELSE IF j \in Prio THEN PrioReady(job[j], paused, prioNum + prio[j])
                  ELSE job[j]]
  BY DEF MoveJobsToWait
<1>3. /\ waitNum' = wn /\ prioNum' = pn /\ drained' = FALSE
      /\ UNCHANGED <<paused, rate>>
  BY DEF MoveJobsToWait
<1>4. /\ wn \in Nat /\ waitNum <= wn /\ pn \in Nat /\ prioNum <= pn
      /\ paused \in BOOLEAN /\ waitNum \in Nat /\ prioNum \in Nat /\ rate \in Nat
  BY <1>1 DEF IInv, TypeOK
<1>5. \A j \in S : job[j].state = from
  BY DEF MoveJobsToWait, In
<1>6. ASSUME NEW j \in Job
      PROVE  /\ RowInv(job'[j], paused, wn, pn)
             /\ Goes(job[j], job'[j])
             /\ job'[j].started <= job[j].started
  <2>1. /\ job[j] \in Row /\ Shape(job[j])
        /\ job[j].started \in Nat
    BY RowTypes
  <2>2. RowInv(job[j], paused, wn, pn)
    <3> HIDE DEF wn, pn
    <3> QED BY <1>4, RowTypes, LaterCounters
  <2>3. CASE j \in List
    <3> DEFINE seq == waitNum + list[j]
    <3>1. job'[j] = ToList(Back(j), paused, seq) /\ job[j].state = from
      BY <1>2, <1>5, <2>3
    <3>2. list[j] \in 1..Cardinality(List)
      BY <2>3, RankingType
    <3>3. seq \in Int /\ seq <= wn
      BY <1>1, <1>4, <3>2
    <3>4. CASE from = "delayed"
      <4>1. Back(j) = job[j]
        BY <3>4
      <4>2. LeaseOf(ToList(job[j], paused, seq)) = LeaseOf(job[j])
        BY <1>4, <2>1, <3>1, <3>3, <3>4, QueuedRow
      <4>3. /\ RowInv(ToList(job[j], paused, seq), paused, wn, pn)
            /\ ToList(job[j], paused, seq).started = job[j].started
        <5> HIDE DEF wn, pn, seq
        <5> QED BY <1>4, <2>1, <3>3, ListRow
      <4> QED BY <2>1, <3>1, <4>1, <4>2, <4>3 DEF Goes
    <3>5. CASE from \in Final
      <4>1. Back(j) = Reopened(job[j])
        BY <3>5 DEF Final
      <4>2. /\ JL!Reopen(LeaseOf(job[j]), LeaseOf(ToList(Reopened(job[j]), paused, seq)))
            /\ Reopened(job[j]) \in Row
            /\ Reopened(job[j]).started = job[j].started
        BY <1>4, <2>1, <3>1, <3>3, <3>5, ReopenedRow
      <4>3. /\ RowInv(ToList(Reopened(job[j]), paused, seq), paused, wn, pn)
            /\ ToList(Reopened(job[j]), paused, seq).started = Reopened(job[j]).started
        <5> HIDE DEF wn, pn, seq
        <5> QED BY <1>4, <4>2, <3>3, ListRow
      <4> QED BY <2>1, <3>1, <4>1, <4>2, <4>3 DEF Goes, JL!Step
    <3> QED BY <3>4, <3>5
  <2>4. CASE j \in Prio
    <3> DEFINE seq == prioNum + prio[j]
    <3>1. job'[j] = PrioReady(job[j], paused, seq) /\ job[j].state = "delayed"
      BY <1>2, <1>5, <2>4
    <3>2. prio[j] \in 1..Cardinality(Prio)
      BY <2>4, RankingType
    <3>3. seq \in Int /\ seq <= pn
      BY <1>1, <1>4, <3>2
    <3> HIDE DEF wn, pn, seq
    <3>4. /\ RowInv(PrioReady(job[j], paused, seq), paused, wn, pn)
          /\ LeaseOf(PrioReady(job[j], paused, seq)) = LeaseOf(job[j])
      BY <1>4, <2>2, <3>1, <3>3, PrioReadyRow
    <3>5. PrioReady(job[j], paused, seq).started = job[j].started
      BY <2>1 DEF PrioReady, Row
    <3> QED BY <2>1, <3>1, <3>4, <3>5 DEF Goes
  <2>5. CASE j \notin S
    <3>1. job'[j] = job[j]
      BY <1>2, <2>5
    <3> QED BY <2>1, <2>2, <3>1 DEF Goes
  <2> QED BY <2>3, <2>4, <2>5
<1>7. TableInv(job', paused, waitNum', prioNum')
  <2>1. job' = [j \in Job |-> job'[j]]
    BY <1>2
  <2> HIDE DEF wn, pn
  <2> QED BY <1>3, <1>6, <2>1 DEF TableInv, Tables, RowInv
<1>8. Grow
  BY <1>3, <1>4 DEF Grow
<1> QED BY <1>3, <1>4, <1>6, <1>7, <1>8, TableStep

-----------------------------------------------------------------------------
(* Deletions.                                                              *)

\* Rows that are deleted: JobLease discards their leases.
LEMMA DeleteStep ==
  ASSUME IInv, NEW S \in SUBSET Job, NEW latch \in BOOLEAN, latch => drained,
         \A j \in S : job[j].state # "absent",
         Delete(S, latch)
  PROVE  Kept
<1>1. /\ job' = Deleted(job, S) /\ drained' = latch
      /\ UNCHANGED <<paused, waitNum, prioNum, rate>>
  BY DEF Delete
<1>2. /\ LeaseOf(Absent) = JL!NoLease /\ Absent.started = 0
      /\ RowInv(Absent, paused, waitNum, prioNum)
      /\ Absent.state = "absent"
  BY AbsentRow DEF IInv, TypeOK, Absent
<1>3. \A j \in Job : job'[j] = IF j \in S THEN Absent ELSE job[j]
  BY <1>1 DEF Deleted
<1>4. TableInv(job', paused', waitNum', prioNum')
  <2>1. job' = [j \in Job |-> job'[j]]
    BY <1>1 DEF Deleted
  <2> QED BY <1>1, <1>2, <1>3, <2>1, RowTypes DEF TableInv, Tables, RowInv
<1>5. DrainedMeansIdle'
  BY <1>1, <1>2, <1>3 DEF IInv, DrainedMeansIdle, In
<1>6. IInv'
  BY <1>1, <1>4, <1>5 DEF IInv, TypeOK, TableInv
<1>7. Moved
  <2>1. ASSUME NEW j \in S
        PROVE  Goes(job[j], job'[j])
    BY <1>2, <1>3 DEF Goes, JL!Step, JL!Discard, LeaseOf
  <2>2. ASSUME NEW j \in Job \ S
        PROVE  Goes(job[j], job'[j])
    BY <1>3 DEF Goes
  <2> QED BY <2>1, <2>2 DEF Moved
<1>8. OneGrant /\ Capped
  BY <1>2, <1>3, RowTypes DEF OneGrant, Capped
<1> QED BY <1>6, <1>7, <1>8 DEF Kept

\* Action RemoveJob keeps the invariant and makes steps of JobLease.
LEMMA RemoveJobStep ==
  ASSUME IInv, NEW j \in Job, RemoveJob(j)
  PROVE  Kept
<1>1. drained \in BOOLEAN
  BY DEF IInv, TypeOK
<1> QED BY <1>1, DeleteStep DEF RemoveJob

\* Action Drain keeps the invariant and makes steps of JobLease.
LEMMA DrainStep ==
  ASSUME IInv, NEW includeDelayed \in BOOLEAN, Drain(includeDelayed)
  PROVE  Kept
<1> DEFINE S == In(job, {"wait", "paused", "prioritized"}
                          \cup (IF includeDelayed THEN {"delayed"} ELSE {}))
<1>1. S \in SUBSET Job /\ \A j \in S : job[j].state # "absent"
  BY DEF In
<1>2. Delete(S, drained) /\ drained \in BOOLEAN
  BY DEF Drain, IInv, TypeOK
<1> QED BY <1>1, <1>2, DeleteStep

\* Action CleanJobsInSet keeps the invariant and makes steps of JobLease.
LEMMA CleanJobsInSetStep ==
  ASSUME IInv, NEW state \in State \ {"absent"}, NEW S \in SUBSET Job,
         CleanJobsInSet(state, S)
  PROVE  Kept
<1>1. Delete(S, FALSE) /\ \A j \in S : job[j].state # "absent"
  BY DEF CleanJobsInSet, In
<1> QED BY <1>1, DeleteStep

\* Action Obliterate keeps the invariant and makes steps of JobLease.
LEMMA ObliterateStep ==
  ASSUME IInv, NEW force \in BOOLEAN, NEW S \in SUBSET Job, Obliterate(force, S)
  PROVE  Kept
<1> DEFINE Doomed == In(job, State \ ({"absent"} \cup (IF force THEN {} ELSE {"active"})))
<1>1. drained \in BOOLEAN /\ \A j \in Doomed : job[j].state # "absent"
  BY DEF IInv, TypeOK, In
<1>2. CASE S \subseteq Doomed /\ Delete(S, drained)
  BY <1>1, <1>2, DeleteStep
<1>3. CASE /\ S = Doomed
           /\ job' = Deleted(job, S)
           /\ paused' = FALSE /\ waitNum' = 0 /\ prioNum' = 0
           /\ drained' = FALSE /\ rate' = 0
  <2>1. /\ LeaseOf(Absent) = JL!NoLease /\ Absent.started = 0
        /\ RowInv(Absent, FALSE, 0, 0)
    BY AbsentRow DEF Absent
  <2>2. ASSUME NEW j \in Job
        PROVE  job'[j] = Absent /\ (job[j] = Absent \/ job[j].state # "absent")
    <3>1. job[j].state \in State /\ (job[j].state = "absent" => job[j] = Absent)
      BY RowTypes DEF Row, RowInv
    <3>2. job[j].state = "active" => force
      BY DEF Obliterate, In
    <3> QED BY <1>3, <3>1, <3>2 DEF Deleted, In
  <2>3. TableInv(job', FALSE, 0, 0)
    BY <1>3, <2>1, <2>2 DEF Deleted, TableInv, Tables, RowInv
  <2>4. IInv'
    BY <1>3, <2>3 DEF IInv, TypeOK, TableInv, DrainedMeansIdle
  <2>5. Moved
    BY <2>1, <2>2 DEF Moved, Goes, JL!Step, JL!Discard, LeaseOf
  <2>6. OneGrant /\ Capped
    BY <2>1, <2>2, RowTypes DEF OneGrant, Capped
  <2> QED BY <2>4, <2>5, <2>6 DEF Kept
<1> QED BY <1>2, <1>3 DEF Obliterate

-----------------------------------------------------------------------------
(* The specification.                                                      *)

\* The invariant holds at first.
LEMMA InitKept ==
  ASSUME Init
  PROVE  IInv
<1>1. RowInv(Absent, paused, waitNum, prioNum)
  BY AbsentRow DEF Init
<1>2. TableInv(job, paused, waitNum, prioNum)
  BY <1>1 DEF Init, TableInv, Tables, RowInv
<1> QED BY <1>2 DEF Init, IInv, TypeOK, TableInv, DrainedMeansIdle

\* Every step keeps it and makes one step, or none, of each lease.
LEMMA NextKept ==
  ASSUME IInv, Next
  PROVE  Kept
<1>1. CASE Adds
  BY <1>1, AddStandardStep, AddPrioritizedStep, AddDelayedStep, AddDuplicatedStep
     DEF Adds
<1>2. CASE Fetches
  <2>1. ASSUME NEW t \in Token, NEW got \in Got, MoveToActive(t, got)
        PROVE  Kept
    BY <2>1, MoveToActiveStep
  <2>2. ASSUME NEW t \in Token, NEW got \in Got,
               NEW j \in Job, NEW final \in Final, NEW trim \in SUBSET Job,
               MoveToFinished(j, t, final, trim, TRUE, got)
        PROVE  Kept
    BY <2>2, MoveToFinishedStep DEF Caller
  <2>3. ASSUME NEW t \in Token, NEW got \in Got,
               NEW j \in Job, NEW failed \in BOOLEAN, NEW at \in At,
               MoveToDelayed(j, t, failed, at, TRUE, got)
        PROVE  Kept
    BY <2>3, MoveToDelayedStep DEF Caller
  <2> QED BY <1>2, <2>1, <2>2, <2>3 DEF Fetches
<1>3. CASE Acks
  <2>1. NoJob \in Got
    BY DEF Got
  <2>2. ASSUME NEW j \in Job, NEW c \in Caller, NEW final \in Final, NEW trim \in SUBSET Job,
               MoveToFinished(j, c, final, trim, FALSE, NoJob)
        PROVE  Kept
    BY <2>1, <2>2, MoveToFinishedStep
  <2>3. ASSUME NEW j \in Job, NEW c \in Caller, NEW failed \in BOOLEAN, NEW at \in At,
               MoveToDelayed(j, c, failed, at, FALSE, NoJob)
        PROVE  Kept
    BY <2>1, <2>3, MoveToDelayedStep
  <2>4. ASSUME NEW j \in Job, NEW c \in Caller, NEW lifo \in BOOLEAN, RetryJob(j, c, lifo)
        PROVE  Kept
    BY <2>4, RetryJobStep
  <2> QED BY <1>3, <2>2, <2>3, <2>4 DEF Acks
<1>4. CASE Leases
  BY <1>4, MoveJobFromActiveToWaitStep, ExtendLocksStep, MoveStalledJobsToWaitStep
     DEF Leases
<1>5. CASE Commands
  <2>1. ASSUME NEW j \in Job,
               \/ Promote(j)
               \/ RemoveJob(j)
               \/ \E at \in At : ChangeDelay(j, at)
               \/ \E p \in Priority, lifo \in BOOLEAN : ChangePriority(j, p, lifo)
               \/ \E final \in Final, made, started \in BOOLEAN :
                    ReprocessJob(j, final, made, started)
        PROVE  Kept
    BY <2>1, PromoteStep, RemoveJobStep, ChangeDelayStep, ChangePriorityStep,
       ReprocessJobStep
  <2>2. ASSUME NEW S \in SUBSET Job,
               \/ \E from \in Final \cup {"delayed"} : MoveJobsToWait(from, S)
               \/ \E state \in State \ {"absent"} : CleanJobsInSet(state, S)
               \/ \E force \in BOOLEAN : Obliterate(force, S)
        PROVE  Kept
    BY <2>2, MoveJobsToWaitStep, CleanJobsInSetStep, ObliterateStep
  <2> QED
    BY <1>5, <2>1, <2>2, PauseStep, DrainStep, RateLimitStep
    DEF Commands, JobCommands, Changes, Batches, Deletions
<1>6. CASE Clock
  BY <1>6, RateLimitStep, LockExpiresStep, DelayElapsesStep DEF Clock
<1> QED BY <1>1, <1>2, <1>3, <1>4, <1>5, <1>6 DEF Next

\* IInv is an invariant: it is inductive as it stands.
LEMMA Inductive == Spec => []IInv
<1>1. IInv /\ UNCHANGED vars => IInv'
  BY DEF vars, IInv, TypeOK, TableInv, DrainedMeansIdle, In
<1>2. IInv /\ [Next]_vars => IInv'
  BY <1>1, NextKept DEF Kept
<1> QED BY InitKept, <1>2, PTL DEF Spec

\* The columns of a row and the fields of a queue have values of their types
\* whatever the procedures do: the counters stay naturals although LIFO places
\* are negative.
THEOREM TypeCorrect == Spec => []TypeOK
<1>1. IInv => TypeOK
  BY DEF IInv
<1> QED BY <1>1, Inductive, PTL

\* No procedure leaves a lock on a row that is not active, or an active row
\* without one.
THEOREM LocksAreShaped == Spec => []LockShape
<1>1. IInv => LockShape
  BY DEF IInv, TableInv, RowInv, Shape, LockShape
<1> QED BY <1>1, Inductive, PTL

\* No job waits in the list of a paused queue, or is parked in a running one.
THEOREM ListsFollowPause == Spec => []ListsMatchPause
<1>1. IInv => ListsMatchPause
  BY DEF IInv, TableInv, RowInv, ListsMatchPause
<1> QED BY <1>1, Inductive, PTL

\* A job added at the tail is behind every numbered job of the list.
THEOREM TailStaysLast == Spec => []TailIsLast
<1>1. IInv => TailIsLast
  BY DEF IInv, TableInv, RowInv, TailIsLast
<1> QED BY <1>1, Inductive, PTL

\* A job added to the prioritized set is behind every one of its priority.
THEOREM PrioTailStaysLast == Spec => []PrioTailIsLast
<1>1. IInv => PrioTailIsLast
  BY DEF IInv, TableInv, RowInv, PrioTailIsLast
<1> QED BY <1>1, Inductive, PTL

\* Nothing runs or is ready while the drained event is latched, but for what
\* emq_reprocess_job put back.
THEOREM DrainedIsIdle == Spec => []DrainedMeansIdle
<1>1. IInv => DrainedMeansIdle
  BY DEF IInv
<1> QED BY <1>1, Inductive, PTL

\* Whatever the order of the calls, the rows have their types and their locks.
THEOREM RowsStayOK == Spec => []RowsOK
BY TypeCorrect, LocksAreShaped, PTL DEF RowsOK

\* After every procedure the lists, the pause flag, both counters and the latch
\* agree.
THEOREM ListsStayAgreed == Spec => []ListsAgree
BY ListsFollowPause, TailStaysLast, PrioTailStaysLast, DrainedIsIdle, PTL
   DEF ListsAgree

-----------------------------------------------------------------------------
(* Refinement.                                                             *)

\* The queue's first state is JobLease's.
LEMMA InitLease == Init => JL!Init
BY AbsentRow DEF Init, JL!Init

\* A step of the queue is one of JobLease, or changes no lease.
LEMMA NextLease ==
  ASSUME IInv, Kept
  PROVE  JL!Next
<1> DEFINE L == [j \in Job |-> LeaseOf(job[j])]
           M == [j \in Job |-> LeaseOf(job'[j])]
<1>1. \A j \in Job : job[j] \in Row /\ job'[j] \in Row
  BY RowTypes DEF Kept, IInv, TypeOK, Tables
<1>2. M \in [Job -> JL!Lease]
  BY <1>1, LeaseFields
<1>3. \A j \in Job : M[j] = L[j] \/ JL!Step(L[j], M[j])
  BY DEF Kept, Moved, Goes
<1>4. \A j \in Job : L[j].grants = job[j].started /\ M[j].grants = job'[j].started
  BY <1>1, LeaseFields
<1>5. \A j, k \in Job :
        M[j].grants > L[j].grants /\ M[k].grants > L[k].grants => j = k
  BY <1>4 DEF Kept, OneGrant
<1> QED BY <1>2, <1>3, <1>5 DEF JL!Next

\* Whatever calls are made, in whatever order, each job is handed out, held,
\* ended and counted as JobLease says: the procedures implement it.
THEOREM Refinement == Spec => LeaseKept
<1>1. ASSUME IInv, [Next]_vars
      PROVE  [JL!Next]_([j \in Job |-> LeaseOf(job[j])])
  <2>1. CASE Next
    BY <1>1, <2>1, NextKept, NextLease
  <2>2. CASE UNCHANGED vars
    BY <2>2 DEF vars
  <2> QED BY <1>1, <2>1, <2>2
<1> QED BY <1>1, InitLease, Inductive, PTL DEF Spec, LeaseKept, JL!Spec

-----------------------------------------------------------------------------
(* What JobLease promises follows from its steps alone.  Every promise      *)
(* speaks of one job, so the invariant is one formula about one lease.     *)

LeaseInv(r) ==
  /\ r \in JL!Lease
  /\ r.phase = "held" <=> r.holder # NoToken
  /\ r.phase = "held" <=> r.term # "none"
  /\ r.life # "reset" =>
       r.settles + r.lapses + (IF r.phase = "held" THEN 1 ELSE 0) <= r.grants
  /\ r.life = "first" /\ r.phase \in {"queued", "held"} => r.lapses <= MaxStalled

LeasesInv == \A j \in Job : LeaseInv(LeaseOf(job[j]))

\* One step of one lease keeps the invariant.
LEMMA StepInv ==
  ASSUME NEW r, NEW s \in JL!Lease, LeaseInv(r), JL!Step(r, s)
  PROVE  LeaseInv(s)
<1> USE StalledAssumption, TokenAssumption DEF LeaseInv, JL!Lease, JL!Counts
<1>1. CASE JL!Submit(r, s)
  BY <1>1 DEF JL!Submit, JL!Free
<1>2. CASE JL!Grant(r, s)
  BY <1>2 DEF JL!Grant, JL!Handed
<1>3. CASE JL!Tick(r, s)
  BY <1>3 DEF JL!Tick
<1>4. CASE JL!Settle(r, s)
  BY <1>4 DEF JL!Settle, JL!Free
<1>5. CASE JL!Resume(r, s)
  BY <1>5 DEF JL!Resume, JL!Handed
<1>6. CASE JL!Revoke(r, s)
  BY <1>6 DEF JL!Revoke, JL!Free
<1>7. CASE JL!Reopen(r, s)
  BY <1>7 DEF JL!Reopen, JL!Free
<1>8. CASE JL!Discard(r, s)
  BY <1>8 DEF JL!Discard, JL!NoLease
<1> QED BY <1>1, <1>2, <1>3, <1>4, <1>5, <1>6, <1>7, <1>8 DEF JL!Step

\* The leases of every behaviour of JobLease keep it,
LEMMA LeasesKeep == JL!Spec => []LeasesInv
<1> DEFINE L == [j \in Job |-> LeaseOf(job[j])]
<1>1. JL!Init => LeasesInv
  <2>1. LeaseInv(JL!NoLease)
    BY StalledAssumption, TokenAssumption DEF LeaseInv, JL!NoLease, JL!Lease
  <2>2. JL!Init => \A j \in Job : LeaseOf(job[j]) = JL!NoLease
    BY DEF JL!Init
  <2> QED BY <2>1, <2>2 DEF LeasesInv
<1>2. LeasesInv /\ [JL!Next]_L => LeasesInv'
  <2> SUFFICES ASSUME LeasesInv, [JL!Next]_L, NEW j \in Job
               PROVE  LeaseInv(LeaseOf(job[j]))'
    BY DEF LeasesInv
  <2>1. PICK r, s : r = LeaseOf(job[j]) /\ s = LeaseOf(job[j])'
    OBVIOUS
  <2>2. LeaseInv(r)
    BY <2>1 DEF LeasesInv
  <2>3. CASE JL!Next
    <3>1. s \in JL!Lease /\ (s = r \/ JL!Step(r, s))
      BY <2>1, <2>3 DEF JL!Next
    <3>2. LeaseInv(s)
      BY <2>2, <3>1, StepInv
    <3> QED BY <2>1, <3>2 DEF LeaseInv
  <2>4. CASE L' = L
    <3>1. s = r
      BY <2>1, <2>4
    <3> QED BY <2>1, <2>2, <3>1 DEF LeaseInv
  <2> QED BY <2>3, <2>4
<1> QED BY <1>1, <1>2, PTL DEF JL!Spec

\* and so do those of the queue.
LEMMA Promises == Spec => []LeasesInv
BY LeasesKeep, Refinement, PTL DEF LeaseKept

\* Whatever list a job is in, it has a holder, and a lease live or expired, exactly while it is held.
THEOREM HeldIsByOne == Spec => []JL!HeldByOne
<1>1. LeasesInv => JL!HeldByOne
  BY DEF LeasesInv, LeaseInv, JL!HeldByOne
<1> QED BY <1>1, Promises, PTL

\* No hand-out of a job is counted both as an attempt and as a stall, or twice.
THEOREM AttemptsAreAccounted == Spec => []Accounted
<1>1. LeasesInv => Accounted
  BY DEF LeasesInv, LeaseInv, Accounted, JL!Accounted
<1> QED BY <1>1, Promises, PTL

\* A job no client has put back is never ready or running with more stalls than
\* maxStalledCount.
THEOREM StallsAreWithin == Spec => []WithinStalls
<1>1. LeasesInv => WithinStalls
  BY DEF LeasesInv, LeaseInv, WithinStalls, JL!WithinStalls
<1> QED BY <1>1, Promises, PTL

-----------------------------------------------------------------------------
(* The limiter.                                                            *)

\* No step overdraws the limiter.
LEMMA RateKept ==
  ASSUME WithinRate, rate \in Nat, Next
  PROVE  WithinRate'
<1>1. ASSUME NEW T, NEW t, NEW latch, NEW after, NEW got, Fetch(T, t, latch, after, got)
      PROVE  WithinRate'
  <2>1. PICK R \in Promotions(T) :
          IF got = NoJob THEN FindNothing(R, latch /\ R = T, after) ELSE Claim(R, t, got)
    BY <1>1 DEF Fetch
  <2>2. CASE FindNothing(R, latch /\ R = T, after)
    BY <2>2 DEF FindNothing, WithinRate
  <2>3. CASE Claim(R, t, got)
    BY <2>3, RateAssumption DEF Claim, Open, RateLimited, WithinRate
  <2> QED BY <2>1, <2>2, <2>3
<1>2. rate' = rate \/ rate' = 0 \/ rate' = RateMax => WithinRate'
  BY RateAssumption DEF WithinRate
<1>3. CASE Adds
  BY <1>2, <1>3 DEF Adds, AddStandard, AddPrioritized, AddDelayed, AddDuplicated, Put
<1>4. CASE Fetches
  <2>1. ASSUME NEW t, NEW got, MoveToActive(t, got)
        PROVE  WithinRate'
    BY <1>1, <2>1 DEF MoveToActive
  <2>2. ASSUME NEW t, NEW got, NEW j, NEW final, NEW trim,
               MoveToFinished(j, t, final, trim, TRUE, got)
        PROVE  WithinRate'
    BY <1>1, <2>2 DEF MoveToFinished
  <2>3. ASSUME NEW t, NEW got, NEW j, NEW failed, NEW at,
               MoveToDelayed(j, t, failed, at, TRUE, got)
        PROVE  WithinRate'
    BY <1>1, <2>3 DEF MoveToDelayed
  <2> QED BY <1>4, <2>1, <2>2, <2>3 DEF Fetches
<1>5. CASE Acks
  BY <1>2, <1>5 DEF Acks, MoveToFinished, MoveToDelayed, RetryJob
<1>6. CASE Leases
  BY <1>2, <1>6 DEF Leases, MoveJobFromActiveToWait, ExtendLocks, MoveStalledJobsToWait, Put
<1>7. CASE Commands
  BY <1>2, <1>7 DEF Commands, JobCommands, Changes, Batches, Deletions, Pause, Promote,
                    RemoveJob, ChangeDelay, ChangePriority,
                    ReprocessJob, MoveJobsToWait, CleanJobsInSet, Obliterate, Drain,
                    RateLimit, Put, Delete
<1>8. CASE Clock
  BY <1>2, <1>8 DEF Clock, WindowCloses, LockExpires, DelayElapses
<1> QED BY <1>3, <1>4, <1>5, <1>6, <1>7, <1>8 DEF Next

\* The limiter's window never holds more claims than its max.
THEOREM RateIsKept == Spec => []WithinRate
<1>1. Init => WithinRate
  BY RateAssumption DEF Init, WithinRate
<1>2. WithinRate /\ TypeOK /\ [Next]_vars => WithinRate'
  <2>1. UNCHANGED vars /\ WithinRate => WithinRate'
    BY DEF vars, WithinRate
  <2> QED BY <2>1, RateKept DEF TypeOK
<1> QED BY <1>1, <1>2, TypeCorrect, PTL DEF Spec

\* The concurrency cap as the claim keeps it: the step that hands a job out,
\* alone or at the end of an acknowledgement, leaves no more live leases.
THEOREM CapIsKept == Spec => [][ClaimWithinConcurrency]_vars
<1>1. IInv /\ [Next]_vars => [ClaimWithinConcurrency]_vars
  BY NextKept DEF Kept, Capped, ClaimWithinConcurrency
<1> QED BY <1>1, Inductive, PTL DEF Spec

\* Both limits hold whatever is fetched, acknowledged or removed in between.
THEOREM LimitsAreKept == Spec => LimitsKept
<1>1. []WithinRate /\ [][ClaimWithinConcurrency]_vars => LimitsKept
  BY PTL DEF LimitsKept
<1> QED BY <1>1, RateIsKept, CapIsKept, PTL
=============================================================================
