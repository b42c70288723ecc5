-------------------------- MODULE EmqEvents_proofs --------------------------
(***************************************************************************)
(* For every number of jobs, waiting calls, writers and ids, and any page:  *)
(* the stream has its bound, the consumer skips no row and a call is told   *)
(* the truth.                                                              *)
(*                                                                         *)
(* The bound holds because a writer counts the rows it sees, and the ones   *)
(* it does not see are of writers that began before it: Room.  No row is    *)
(* skipped because a page ends at an id, and ids are of one row each: Ids,  *)
(* Reads.  And a call knows whatever may be told it before it is: Known.    *)
(***************************************************************************)
EXTENDS EmqEvents, FiniteSetTheorems, TLAPS

-----------------------------------------------------------------------------
(* The inductive invariant.                                                *)


\* No two rows of the stream have one id, written or still to be.
Ids ==
  /\ \A r \in log : r.id <= taken
  /\ \A r, q \in log : r.id = q.id => r = q
  /\ \A t \in open : t.row.id <= taken /\ \A r \in log : r.id # t.row.id
  /\ \A t, u \in open : t.row.id = u.row.id => t = u

\* What is left of some rows when t has added its own.
Left(t, rows) == {r \in rows \union {t.row} : r.id \notin t.trims}

\* The writers that had begun, and have not ended, when t looked at what to trim.
Older(t) == {u \in open : u.row.id < t.row.id}

Most == MaxLen + Batch + Writers

\* What t leaves has room for a row of each writer that t did not see; so has the stream.
Room ==
  /\ IsFiniteSet(open) /\ IsFiniteSet(log)
  /\ Cardinality(open) <= Writers /\ Cardinality(log) < Most
  /\ \A t \in open : Cardinality(Left(t, log)) + Cardinality(Older(t)) < Most

\* A row says of its job that it has ended, or of none; a writer has no other job.
SaysEnd(row) == (row.job # NoJob) = (row.kind \in Ended)
RowsSayEnds ==
  /\ \A r \in log \union consumer.rows : SaysEnd(r)
  /\ \A t \in open : SaysEnd(t.row) /\ t.row.job \in {t.job, NoJob} /\ (t.after = "none") = (t.job = NoJob)

\* Between its cursor and the last row it has, the consumer has every row but the late ones.
Reads ==
  /\ consumer.at = "cursor" => consumer.last = 0
  /\ consumer.at # "emit" => consumer.rows = {}
  /\ consumer.at = "emit" => consumer.rows # {}
  /\ \A r \in consumer.rows : r.id > consumer.last
  /\ consumer.at = "emit" =>
       \A r \in log : r.id \in consumer.last + 1 .. Newest(consumer.rows) => r \in consumer.rows \/ r.id \in late

\* A call knows all that could answer it: the state of its job, what it was told of it, and the ends
\* the consumer has still to emit.
Known ==
  \A w \in Watcher : watch[w].at \in Unsettled =>
    /\ {job[watch[w].job]} \intersect Ended \subseteq watch[w].since
    /\ Ahead(watch[w].job) \subseteq watch[w].since
    /\ {watch[w].status} \intersect Ended \subseteq watch[w].since

\* What a call of waitUntilFinished may be.
Call  == [at : Unsettled, job : Job, status : {"none", "active"} \union Ended, since : SUBSET Ended]
Calls == {NoWatch} \union Call \union [at : {"settled"}, outcome : {"expired"} \union Ended]

\* The inductive invariant.
EventsInv == TypeOK /\ Ids /\ Room /\ RowsSayEnds /\ Reads /\ Known

-----------------------------------------------------------------------------
(* Numbers.                                                                *)

\* Every set of natural numbers has a least.
LEMMA Least ==
  ASSUME NEW S \in SUBSET Nat, S # {}
  PROVE  \E m \in S : \A n \in S : m <= n
<1> DEFINE R == OpToRel(<, Nat)
<1>1. PICK m \in S : \A n \in S : ~ (<<n, m>> \in R)
  <2>1. IsWellFoundedOn(R, Nat)
    BY NatLessThanWellFounded
  <2> HIDE DEF R
  <2> QED BY <2>1, WFMin
<1>2. ASSUME NEW n \in S
      PROVE  m <= n
  <2>1. ~ (<<n, m>> \in {ss \in Nat \X Nat : ss[1] < ss[2]})
    BY <1>1 DEF OpToRel
  <2>2. <<n, m>> \in Nat \X Nat
    OBVIOUS
  <2> QED BY <2>1, <2>2
<1> QED BY <1>2

\* And one that is bounded has a greatest.
LEMMA Greatest ==
  ASSUME NEW S \in SUBSET Nat, S # {}, NEW b \in Nat, \A n \in S : n <= b
  PROVE  \E m \in S : \A n \in S : n <= m
<1> DEFINE U == {u \in Nat : \A n \in S : n <= u}
<1>1. PICK u \in U : \A v \in U : u <= v
  BY Least
<1>2. PICK s \in S : TRUE
  OBVIOUS
<1>3. CASE u \in S
  BY <1>3
<1>4. CASE u \notin S
  <2>1. \A n \in S : n < u
    BY <1>4
  <2>2. u - 1 \in Nat /\ \A n \in S : n <= u - 1
    BY <2>1, <1>2
  <2>3. u - 1 \in U
    BY <2>2
  <2> QED BY <1>1, <2>3
<1> QED BY <1>3, <1>4

\* The newest row of some is one of them, and no older than any.
LEMMA NewestIs ==
  ASSUME NEW rows \in SUBSET Row
  PROVE  /\ Newest(rows) \in 0 .. MaxId
         /\ rows = {} => Newest(rows) = 0
         /\ rows # {} => \E r \in rows : r.id = Newest(rows)
         /\ \A r \in rows : r.id \in Nat /\ r.id <= Newest(rows)
<1>1. MaxId \in Nat /\ \A r \in rows : r.id \in 1 .. MaxId
  BY EventsAssumption DEF Row
<1>2. CASE rows = {}
  BY <1>1, <1>2 DEF Newest
<1>3. CASE rows # {}
  <2> DEFINE S == {r.id : r \in rows}
  <2>1. S \in SUBSET Nat /\ S # {} /\ \A n \in S : n <= MaxId
    BY <1>1, <1>3
  <2>2. PICK m \in S : \A n \in S : n <= m
    <3> HIDE DEF S
    <3> QED BY <1>1, <2>1, Greatest
  <2>3. \A r \in rows : r.id <= m
    BY <2>2
  <2>4. Newest(rows) \in S /\ \A r \in rows : r.id <= Newest(rows)
    BY <1>3, <2>2, <2>3 DEF Newest
  <2>5. PICK r \in rows : r.id = Newest(rows)
    BY <2>4
  <2> QED BY <1>1, <1>3, <2>4, <2>5
<1> QED BY <1>2, <1>3

LEMMA BatchIs ==
  Batch \in Nat /\ Batch >= 2 /\ MaxLen \in Nat /\ Writers \in Nat /\ Most \in Nat /\ MaxId \in Nat
<1>1. MaxLen \in Nat /\ Writers \in Nat /\ MaxId \in Nat
  BY EventsAssumption
<1>2. MaxLen \div 2 \in Nat
  BY <1>1
<1>3. Batch \in Nat /\ Batch >= 2
  BY <1>1, <1>2 DEF Batch, Larger
<1> QED BY <1>1, <1>3 DEF Most

-----------------------------------------------------------------------------
(* How many rows there are.                                                *)

\* What an insert does not delete of the rows it sees is no more than there may be when nobody
\* else writes: the ids that are left are the last ones, and each is of one row.
LEMMA SurplusLeaves ==
  ASSUME NEW rows \in SUBSET Row, IsFiniteSet(rows),
         \A r, q \in rows : r.id = q.id => r = q
  PROVE  /\ IsFiniteSet(rows \ Surplus(rows))
         /\ Cardinality(rows \ Surplus(rows)) <= MaxLen + Batch
<1>1. CASE Cardinality(rows) <= MaxLen + Batch
  <2>1. Surplus(rows) = {}
    BY <1>1 DEF Surplus
  <2> QED BY <1>1, <2>1
<1>2. CASE ~ (Cardinality(rows) <= MaxLen + Batch)
  <2> DEFINE n == Newest(rows)
             rest == rows \ Surplus(rows)
             keep == MaxLen + Batch
             ids == (n - keep + 1) .. n
  <2>1. n \in Nat /\ keep \in Nat /\ \A r \in rows : r.id \in Nat /\ r.id <= n
    BY NewestIs, BatchIs
  <2>2. \A r \in rest : r.id \in ids
    <3>1. \A r \in rest : ~ (r.id + MaxLen + Batch <= n)
      BY <1>2 DEF Surplus
    <3> QED BY <2>1, <3>1, BatchIs
  <2>3. IsFiniteSet(rest)
    BY FS_Difference
  <2>4. IsFiniteSet(ids) /\ Cardinality(ids) = keep
    <3>1. n - keep + 1 \in Int /\ n \in Int
      BY <2>1
    <3>2. /\ IsFiniteSet(ids)
          /\ Cardinality(ids) = IF n - keep + 1 > n THEN 0 ELSE n - (n - keep + 1) + 1
      <4> HIDE DEF n, keep
      <4> QED BY <3>1, FS_Interval
    <3> QED BY <2>1, <3>2
  <2> DEFINE f == [r \in rest |-> r.id]
  <2>5. f \in Injection(rest, ids)
    <3>1. f \in [rest -> ids]
      BY <2>2
    <3>2. \A r, q \in rest : f[r] = f[q] => r = q
      OBVIOUS
    <3> HIDE DEF f
    <3> QED BY <3>1, <3>2 DEF Injection, IsInjective
  <2>6. Cardinality(rest) <= Cardinality(ids)
    <3> HIDE DEF f, rest, ids
    <3> QED BY <2>4, <2>5, FS_Injection
  <2> QED BY <2>3, <2>4, <2>6
<1> QED BY <1>1, <1>2

\* A bound on the rows holds of fewer rows.
LEMMA Fewer ==
  ASSUME NEW S, NEW T \in SUBSET S, IsFiniteSet(S)
  PROVE  IsFiniteSet(T) /\ Cardinality(T) \in Nat /\ Cardinality(S) \in Nat /\ Cardinality(T) <= Cardinality(S)
BY FS_Subset, FS_CardinalityType

LEMMA OneMore ==
  ASSUME NEW S, NEW e, IsFiniteSet(S)
  PROVE  IsFiniteSet(S \union {e}) /\ Cardinality(S \union {e}) <= Cardinality(S) + 1
<1>1. /\ IsFiniteSet(S \union {e}) /\ Cardinality(S) \in Nat
      /\ Cardinality(S \union {e}) \in {Cardinality(S), Cardinality(S) + 1}
  BY FS_AddElement, FS_CardinalityType
<1> QED BY <1>1

\* The counts are numbers.
LEMMA Counted ==
  ASSUME Room, NEW t \in open
  PROVE  /\ IsFiniteSet(log \union {t.row}) /\ IsFiniteSet(Left(t, log)) /\ IsFiniteSet(Older(t))
         /\ Cardinality(Left(t, log)) \in Nat /\ Cardinality(Older(t)) \in Nat
         /\ Left(t, log) \subseteq log \union {t.row} /\ Older(t) \subseteq open
         /\ Most \in Nat /\ Cardinality(Left(t, log)) + Cardinality(Older(t)) < Most
<1>1. IsFiniteSet(log \union {t.row})
  BY FS_AddElement DEF Room
<1>2. Left(t, log) \subseteq log \union {t.row} /\ Older(t) \subseteq open
  BY DEF Left, Older
<1>3. IsFiniteSet(Left(t, log)) /\ Cardinality(Left(t, log)) \in Nat
  BY <1>1, <1>2, Fewer
<1>4. IsFiniteSet(Older(t)) /\ Cardinality(Older(t)) \in Nat
  BY <1>2, Fewer DEF Room
<1> QED BY <1>1, <1>2, <1>3, <1>4, BatchIs DEF Room

-----------------------------------------------------------------------------
(* Writers.                                                                *)

\* A writer that begins has counted the rows it sees; all others began before it.
LEMMA EmitHasRoom ==
  ASSUME EventsInv, NEW kind \in {"completed", "failed", "other"}, NEW j \in Job \union {NoJob},
         NEW after, Emit(kind, j, after)
  PROVE  /\ Ids' /\ Room'
         /\ \E t : /\ open' = open \union {t} /\ t \notin open /\ t.job = j /\ t.after = after
                   /\ t.row \in Row
                   /\ t.row = [id |-> taken + 1, kind |-> kind, job |-> IF kind \in Ended THEN j ELSE NoJob]
                   /\ t.trims \subseteq 1 .. MaxId /\ DOMAIN t = {"row", "job", "after", "trims"}
                   /\ t = [row |-> t.row, job |-> t.job, after |-> t.after, trims |-> t.trims]
<1> DEFINE row == [id |-> taken + 1, kind |-> kind, job |-> IF kind \in Ended THEN j ELSE NoJob]
           rows == log \union {row}
           new == [row |-> row, job |-> j, after |-> after, trims |-> {r.id : r \in Surplus(rows)}]
<1>1. /\ taken < MaxId /\ Cardinality(open) < Writers /\ taken' = taken + 1 /\ open' = open \union {new}
      /\ UNCHANGED log
  BY DEF Emit
<1>2. taken \in Nat /\ log \in SUBSET Row /\ IsFiniteSet(log) /\ IsFiniteSet(open) /\ MaxId \in Nat
  BY BatchIs DEF EventsInv, TypeOK, Room
<1>3. row \in Row /\ row.id = taken + 1
  BY <1>1, <1>2 DEF Row
<1>4. /\ rows \in SUBSET Row /\ IsFiniteSet(rows) /\ \A r, q \in rows : r.id = q.id => r = q
  <2>1. IsFiniteSet(rows)
    BY <1>2, FS_AddElement
  <2>2. \A r \in log : r.id \in Nat /\ r.id <= taken
    BY <1>2 DEF EventsInv, Ids, Row
  <2>3. \A r \in log : r.id # row.id
    BY <1>2, <1>3, <2>2
  <2> QED BY <1>2, <1>3, <2>1, <2>3 DEF EventsInv, Ids
<1>5. new \notin open /\ \A t \in open : t.row.id \in Nat /\ t.row.id < taken + 1
  BY <1>2, <1>3 DEF EventsInv, Ids, TypeOK, Row
<1>6. /\ new.row = row /\ new.trims = {r.id : r \in Surplus(rows)}
      /\ Surplus(rows) \subseteq rows
  BY DEF Surplus
<1>7. Ids'
  <2>1. \A r \in log : r.id \in Nat
    BY <1>2 DEF Row
  <2>2. \A r \in log : r.id <= taken' /\ r.id # new.row.id
    BY <1>1, <1>2, <1>3, <1>6, <2>1 DEF EventsInv, Ids
  <2>3. \A t \in open' : t.row.id <= taken' /\ \A r \in log : r.id # t.row.id
    BY <1>1, <1>2, <1>3, <1>5, <1>6, <2>2 DEF EventsInv, Ids
  <2>4. \A t, u \in open' : t.row.id = u.row.id => t = u
    <3> HIDE DEF new
    <3> QED BY <1>1, <1>2, <1>3, <1>5, <1>6 DEF EventsInv, Ids
  <2>5. \A r, q \in log : r.id = q.id => r = q
    BY DEF EventsInv, Ids
  <2> QED BY <1>1, <2>2, <2>3, <2>4, <2>5 DEF Ids
<1>8. /\ Cardinality(open') <= Writers /\ IsFiniteSet(open') /\ Cardinality(open) \in Nat
  <2>1. Cardinality(open') = Cardinality(open) + 1 /\ IsFiniteSet(open')
    <3> HIDE DEF new
    <3> QED BY <1>1, <1>2, <1>5, FS_AddElement
  <2>2. Cardinality(open) \in Nat
    BY <1>2, FS_CardinalityType
  <2> QED BY <1>1, <2>1, <2>2, BatchIs
<1>9. PICK t : t = new
  OBVIOUS
<1>13. Cardinality(Left(t, log)) + Cardinality(Older(t)') < Most
  <2>1. Left(t, log) \subseteq rows \ Surplus(rows)
    BY <1>6, <1>9 DEF Left
  <2>2. IsFiniteSet(rows \ Surplus(rows)) /\ Cardinality(rows \ Surplus(rows)) <= MaxLen + Batch
    <3> HIDE DEF rows
    <3> QED BY <1>4, SurplusLeaves
  <2>3. Cardinality(Left(t, log)) \in Nat /\ Cardinality(Left(t, log)) <= MaxLen + Batch
    <3> HIDE DEF rows, new
    <3> QED BY <2>1, <2>2, Fewer, BatchIs
  <2>4. Older(t)' = open
    <3>1. t.row.id = taken + 1
      BY <1>3, <1>6, <1>9
    <3>2. ~ (t.row.id < taken + 1) /\ open' = open \union {t}
      BY <1>1, <1>2, <1>9, <3>1
    <3> HIDE DEF new
    <3> QED BY <1>5, <3>1, <3>2 DEF Older
  <2> QED BY <1>1, <1>8, <2>3, <2>4, BatchIs DEF Most
<1>10. ASSUME NEW u \in open
       PROVE  Left(u, log)' = Left(u, log) /\ Older(u)' = Older(u)
  <2>1. ~ (t.row.id < u.row.id) /\ open' = open \union {t}
    BY <1>1, <1>2, <1>3, <1>5, <1>6, <1>9
  <2>2. Older(u)' = Older(u)
    <3> HIDE DEF new
    <3> QED BY <2>1 DEF Older
  <2> QED BY <1>1, <2>2 DEF Left
<1>11. Room'
  <2>1. \A u \in open : Cardinality(Left(u, log)') + Cardinality(Older(u)') < Most
    BY <1>10 DEF EventsInv, Room
  <2>2. Left(t, log)' = Left(t, log) /\ open' = open \union {t}
    BY <1>1, <1>9 DEF Left
  <2>3. \A u \in open' : Cardinality(Left(u, log)') + Cardinality(Older(u)') < Most
    <3> HIDE DEF new
    <3> QED BY <1>13, <2>1, <2>2
  <2> QED BY <1>1, <1>8, <2>3 DEF EventsInv, Room, Most
<1>12. new.trims \subseteq 1 .. MaxId
  <2>1. \A r \in rows : r.id \in 1 .. MaxId
    BY <1>4 DEF Row
  <2> HIDE DEF rows
  <2> QED BY <1>6, <2>1
<1>14. /\ t.job = j /\ t.after = after /\ t.row = row /\ t.trims = new.trims
       /\ DOMAIN t = {"row", "job", "after", "trims"}
  BY <1>9
<1>15. t = [row |-> t.row, job |-> t.job, after |-> t.after, trims |-> t.trims]
  BY <1>9
<1>16. open' = open \union {t} /\ t \notin open /\ t.trims \subseteq 1 .. MaxId
  BY <1>1, <1>5, <1>9, <1>12
<1> HIDE DEF new
<1> QED BY <1>3, <1>7, <1>11, <1>14, <1>15, <1>16

LEMMA EmitKeeps ==
  ASSUME EventsInv, NEW kind \in {"completed", "failed", "other"}, NEW j \in Job \union {NoJob},
         NEW after \in {"active", "none"} \union Ended, (after = "none") = (j = NoJob),
         kind \in Ended => j \in Job,
         Emit(kind, j, after), happened' \subseteq Happens
  PROVE  EventsInv'
<1>1. PICK t : /\ open' = open \union {t} /\ t \notin open /\ t.job = j /\ t.after = after
               /\ t.row \in Row
               /\ t.row = [id |-> taken + 1, kind |-> kind, job |-> IF kind \in Ended THEN j ELSE NoJob]
               /\ t.trims \subseteq 1 .. MaxId
               /\ t = [row |-> t.row, job |-> t.job, after |-> t.after, trims |-> t.trims]
  BY EmitHasRoom
<1>2. taken < MaxId /\ taken' = taken + 1 /\ UNCHANGED <<job, log, consumer, watch, late, missed>>
  BY DEF Emit
<1>3. TypeOK'
  <2>1. t \in [row : Row, job : Job \union {NoJob}, after : {"active", "none"} \union Ended,
              trims : SUBSET (1 .. MaxId)]
    BY <1>1
  <2>2. taken' \in 0 .. MaxId
    BY <1>2, BatchIs DEF EventsInv, TypeOK
  <2> QED BY <1>1, <1>2, <2>1, <2>2 DEF EventsInv, TypeOK
<1>4. RowsSayEnds'
  <2>1. SaysEnd(t.row) /\ t.row.job \in {t.job, NoJob} /\ (t.after = "none") = (t.job = NoJob)
    BY <1>1, EventsAssumption DEF SaysEnd
  <2> QED BY <1>1, <1>2, <2>1 DEF EventsInv, RowsSayEnds
<1>5. Reads' /\ Known'
  BY <1>2 DEF EventsInv, Reads, Known, Ahead, Past
<1> QED BY <1>3, <1>4, <1>5, EmitHasRoom DEF EventsInv

\* A transaction that ends without a row leaves more room for the others.
LEMMA RollbackKeeps ==
  ASSUME EventsInv, NEW t \in open, Rollback(t)
  PROVE  EventsInv'
<1>1. /\ open' = open \ {t} /\ UNCHANGED <<job, taken, log, consumer, watch, late, missed>>
      /\ happened' \subseteq Happens
  BY DEF Rollback, Once, EventsInv, TypeOK
<1>2. TypeOK' /\ Ids' /\ RowsSayEnds'
  BY <1>1 DEF EventsInv, TypeOK, Ids, RowsSayEnds
<1>3. Reads' /\ Known'
  BY <1>1 DEF EventsInv, Reads, Known, Ahead, Past
<1>4. IsFiniteSet(open') /\ Cardinality(open') <= Writers
  <2>1. open' \in SUBSET open /\ IsFiniteSet(open) /\ Cardinality(open) <= Writers
    BY <1>1 DEF EventsInv, Room
  <2> QED BY <2>1, Fewer, BatchIs
<1>5. ASSUME NEW u \in open'
      PROVE  Cardinality(Left(u, log)') + Cardinality(Older(u)') < Most
  <2>1. Left(u, log)' = Left(u, log) /\ Older(u)' \subseteq Older(u) /\ u \in open
    BY <1>1 DEF Left, Older
  <2>2. Cardinality(Older(u)') \in Nat /\ Cardinality(Older(u)') <= Cardinality(Older(u))
    <3> DEFINE S == Older(u)
               T == Older(u)'
    <3>1. IsFiniteSet(S) /\ T \in SUBSET S
      BY <2>1, Counted DEF EventsInv
    <3> HIDE DEF S, T
    <3>2. Cardinality(T) \in Nat /\ Cardinality(T) <= Cardinality(S)
      BY <3>1, Fewer
    <3> QED BY <3>2 DEF S, T
  <2>3. /\ Cardinality(Left(u, log)) \in Nat /\ Cardinality(Older(u)) \in Nat /\ Most \in Nat
        /\ Cardinality(Left(u, log)) + Cardinality(Older(u)) < Most
    BY <2>1, Counted DEF EventsInv
  <2> QED BY <2>1, <2>2, <2>3
<1>6. Room'
  BY <1>1, <1>4, <1>5 DEF EventsInv, Room, Most
<1> QED BY <1>2, <1>3, <1>6 DEF EventsInv

\* A commit leaves room: who began before has one fewer to come before it, and who began after
\* had not counted this row, nor will count it again.
LEMMA CommitHasRoom ==
  ASSUME EventsInv, NEW t \in open, Commit(t)
  PROVE  Ids' /\ Room'
<1>1. open' = open \ {t} /\ log' = Left(t, log) /\ taken' = taken
  BY DEF Commit, Left
<1>2. /\ IsFiniteSet(log') /\ Cardinality(log') \in Nat /\ log' \subseteq log \union {t.row}
      /\ Cardinality(log') + Cardinality(Older(t)) < Most /\ Cardinality(Older(t)) \in Nat /\ Most \in Nat
  BY <1>1, Counted DEF EventsInv
<1>3. IsFiniteSet(open') /\ Cardinality(open') <= Writers
  <2>1. open' \in SUBSET open /\ IsFiniteSet(open) /\ Cardinality(open) <= Writers
    BY <1>1 DEF EventsInv, Room
  <2> QED BY <2>1, Fewer, BatchIs
<1>4. ASSUME NEW u \in open'
      PROVE  Cardinality(Left(u, log)') + Cardinality(Older(u)') < Most
  <2>1. u \in open /\ u # t /\ u.row.id # t.row.id
    BY <1>1 DEF EventsInv, Ids
  <2>2. /\ Cardinality(Left(u, log)) \in Nat /\ Cardinality(Older(u)) \in Nat /\ IsFiniteSet(Left(u, log))
        /\ Cardinality(Left(u, log)) + Cardinality(Older(u)) < Most /\ IsFiniteSet(Older(u))
    BY <2>1, Counted DEF EventsInv
  <2>3. u.row.id \in Nat /\ t.row.id \in Nat
    BY <2>1 DEF EventsInv, TypeOK, Row
  <2>4. Older(u)' = Older(u) \ {t}
    BY <1>1 DEF Older
  <2> DEFINE L == Left(u, log')
             O == Older(u) \ {t}
  <2>5. CASE u.row.id < t.row.id
    <3>1. L \subseteq log' \union {u.row}
      BY DEF Left
    <3>2. IsFiniteSet(L) /\ Cardinality(L) \in Nat /\ Cardinality(L) <= Cardinality(log') + 1
      <4>1. IsFiniteSet(log' \union {u.row}) /\ Cardinality(log' \union {u.row}) <= Cardinality(log') + 1
        <5>1. PICK S, e : S = log' /\ e = u.row
          OBVIOUS
        <5>2. IsFiniteSet(S)
          BY <1>2, <5>1
        <5>3. IsFiniteSet(S \union {e}) /\ Cardinality(S \union {e}) <= Cardinality(S) + 1
          BY <5>2, OneMore
        <5> QED BY <5>1, <5>3
      <4> HIDE DEF L
      <4> QED BY <1>2, <3>1, <4>1, Fewer
    <3>3. O \subseteq Older(t) \ {u} /\ u \in Older(t)
      BY <2>1, <2>3, <2>5 DEF Older, EventsInv, TypeOK, Row
    <3>4. Cardinality(O) \in Nat /\ Cardinality(O) + 1 <= Cardinality(Older(t))
      <4>1. IsFiniteSet(Older(t))
        BY Counted DEF EventsInv
      <4>2. IsFiniteSet(Older(t) \ {u}) /\ Cardinality(Older(t) \ {u}) = Cardinality(Older(t)) - 1
        BY <3>3, <4>1, FS_RemoveElement
      <4> HIDE DEF O
      <4> QED BY <1>2, <3>3, <4>2, Fewer
    <3> QED BY <1>2, <2>4, <3>2, <3>4
  <2>6. CASE t.row.id < u.row.id
    <3>1. L \subseteq Left(u, log) \union {t.row}
      BY <1>2 DEF Left
    <3>2. Cardinality(L) \in Nat /\ Cardinality(L) <= Cardinality(Left(u, log)) + 1
      <4>1. /\ IsFiniteSet(Left(u, log) \union {t.row})
            /\ Cardinality(Left(u, log) \union {t.row}) <= Cardinality(Left(u, log)) + 1
        <5>1. PICK S, e : S = Left(u, log) /\ e = t.row
          OBVIOUS
        <5>2. IsFiniteSet(S)
          BY <2>2, <5>1
        <5>3. IsFiniteSet(S \union {e}) /\ Cardinality(S \union {e}) <= Cardinality(S) + 1
          BY <5>2, OneMore
        <5> QED BY <5>1, <5>3
      <4> HIDE DEF L
      <4> QED BY <2>2, <3>1, <4>1, Fewer
    <3>3. t \in Older(u)
      BY <2>6 DEF Older
    <3>4. Cardinality(O) \in Nat /\ Cardinality(O) = Cardinality(Older(u)) - 1
      <4>1. Cardinality(O) = Cardinality(Older(u)) - 1 /\ IsFiniteSet(O)
        BY <2>2, <3>3, FS_RemoveElement
      <4> HIDE DEF O
      <4> QED BY <4>1, FS_CardinalityType
    <3> QED BY <2>2, <2>4, <3>2, <3>4, <1>2
  <2> QED BY <2>1, <2>3, <2>5, <2>6
<1>5. Ids'
  <2>1. \A r \in log' : r \in log \/ r = t.row
    BY <1>2
  <2> QED BY <1>1, <2>1 DEF EventsInv, Ids
<1>6. Most' = Most
  BY DEF Most
<1> QED BY <1>2, <1>3, <1>4, <1>5, <1>6 DEF Room

\* What a commit adds is late, or past all the consumer has; and its end is told to who waits.
LEMMA CommitKeeps ==
  ASSUME EventsInv, NEW t \in open, Commit(t)
  PROVE  EventsInv'
<1>1. /\ open' = open \ {t} /\ log' \subseteq log \union {t.row}
      /\ UNCHANGED <<taken, consumer, happened>>
  BY DEF Commit
<1> DEFINE ends == {t.row.kind, t.after} \intersect Ended
<1>2. /\ t.row \in Row /\ t.job \in Job \union {NoJob} /\ t.after \in {"active", "none"} \union Ended
      /\ t.row.job \in {t.job, NoJob} /\ (t.after = "none") = (t.job = NoJob) /\ SaysEnd(t.row)
      /\ log \in SUBSET Row /\ consumer.rows \in SUBSET Row /\ NoJob \notin Job
      /\ \A r \in log \union consumer.rows : SaysEnd(r)
  BY EventsAssumption DEF EventsInv, TypeOK, RowsSayEnds
<1>3. /\ job' = IF t.job = NoJob THEN job ELSE [job EXCEPT ![t.job] = t.after]
      /\ job' \in [Job -> {"active"} \union Ended]
  BY <1>2 DEF Commit, EventsInv, TypeOK
<1>4. /\ late' = IF Late(t.row) THEN late \union {t.row.id} ELSE late
      /\ late' \subseteq 1 .. MaxId
  BY <1>2 DEF Commit, EventsInv, TypeOK, Row
<1>5. missed' \subseteq Job
  <2>1. \A S \in SUBSET (log \union {t.row}) : Unseen(S) \subseteq Job
    <3>1. \A r \in log \union {t.row} : r.kind \in Ended => r.job \in Job
      BY <1>2 DEF SaysEnd, Row
    <3> QED BY <3>1 DEF Unseen
  <2>2. \A j \in {t.row.job} \ {NoJob} : j \in Job
    BY <1>2
  <2>3. ends = {"gone"} => t.job \in Job
    <3>1. "gone" # t.row.kind
      BY <1>2 DEF Row
    <3> QED BY <1>2, <3>1 DEF Ended
  <2>4. missed \subseteq Job
    BY DEF EventsInv, TypeOK
  <2>5. PICK old \in SUBSET (log \union {t.row}) :
          missed' = missed \union Unseen(old)
                           \union {j \in {t.row.job} \ {NoJob} : Late(t.row)}
                           \union {j \in {t.job} : ends = {"gone"} /\ job[j] = "active"}
    BY DEF Commit
  <2> HIDE DEF ends
  <2> QED BY <2>1, <2>2, <2>3, <2>4, <2>5
<1>6. ASSUME NEW w \in Watcher
      PROVE  watch'[w] = IF watch[w].at \in Unsettled /\ watch[w].job = t.job
                         THEN [watch[w] EXCEPT !.since = watch[w].since \union ends] ELSE watch[w]
  BY DEF Commit
<1>7. ASSUME NEW w \in Watcher, watch'[w].at \in Unsettled
      PROVE  /\ watch[w].at \in Unsettled /\ watch[w].job \in Job
             /\ watch'[w].at = watch[w].at /\ watch'[w].job = watch[w].job /\ watch'[w].status = watch[w].status
             /\ watch'[w].since = IF watch[w].job = t.job THEN watch[w].since \union ends ELSE watch[w].since
  <2>1. watch[w].at \in Unsettled
    <3> HIDE DEF ends
    <3> QED BY <1>6, <1>7
  <2>2. watch[w] \in Call
    BY <2>1 DEF EventsInv, TypeOK, NoWatch, Unsettled, Call
  <2> HIDE DEF ends
  <2> QED BY <1>6, <2>1, <2>2 DEF Call
<1>8. TypeOK'
  <2>1. ASSUME NEW w \in Watcher
        PROVE  watch'[w] \in Calls
    <3>1. CASE watch[w].at \in Unsettled
      <4>1. watch[w] \in Call
        BY <3>1 DEF EventsInv, TypeOK, NoWatch, Unsettled, Call
      <4>2. PICK r \in Call :
              r = watch[w]
        BY <4>1
      <4>3. PICK S \in SUBSET Ended : S = r.since \union ends
        BY <4>2 DEF Call
      <4>4. [r EXCEPT !.since = S] \in Call
        BY <4>2 DEF Call
      <4>5. watch'[w] = IF r.job = t.job THEN [r EXCEPT !.since = S] ELSE r
        BY <1>6, <3>1, <4>2, <4>3
      <4>6. Call \subseteq Calls
        BY DEF Calls
      <4> HIDE DEF ends
      <4> QED BY <4>4, <4>5, <4>6 DEF Call
    <3>2. CASE watch[w].at \notin Unsettled
      <4>1. watch'[w] = watch[w]
        BY <1>6, <3>2
      <4> QED BY <4>1 DEF EventsInv, TypeOK, Calls, Call
    <3> QED BY <3>1, <3>2
  <2>2. log' \subseteq Row
    BY <1>1, <1>2
  <2>3. watch' \in [Watcher -> Calls]
    <3>1. watch' = [w \in Watcher |-> watch'[w]]
      BY DEF Commit
    <3> QED BY <2>1, <3>1
  <2> QED BY <1>1, <1>3, <1>4, <1>5, <2>2, <2>3 DEF EventsInv, TypeOK, Calls, Call
<1>9. RowsSayEnds'
  BY <1>1, <1>2 DEF EventsInv, RowsSayEnds
<1>10. Reads'
  <2>1. ASSUME consumer.at = "emit", NEW r \in log', r.id \in consumer.last + 1 .. Newest(consumer.rows)
        PROVE  r \in consumer.rows \/ r.id \in late'
    <3>1. CASE r \in log
      BY <1>4, <2>1, <3>1 DEF EventsInv, Reads
    <3>2. CASE r = t.row
      <4>1. Newest(consumer.rows) \in Nat /\ consumer.last \in Nat /\ r.id \in Nat
        BY <1>2, <3>2, NewestIs, BatchIs DEF EventsInv, TypeOK, Row
      <4>2. r.id <= Newest(consumer.rows) /\ r.id <= Reach
        BY <2>1, <4>1 DEF Reach, Larger
      <4> QED BY <1>4, <2>1, <3>2, <4>2 DEF Late
    <3> QED BY <1>1, <3>1, <3>2
  <2> QED BY <1>1, <2>1 DEF EventsInv, Reads, Newest
<1>11. Known'
  <2>1. ASSUME NEW w \in Watcher, watch'[w].at \in Unsettled
        PROVE  /\ {job'[watch'[w].job]} \intersect Ended \subseteq watch'[w].since
               /\ Ahead(watch[w].job)' \subseteq watch'[w].since
               /\ {watch'[w].status} \intersect Ended \subseteq watch'[w].since
    <3> DEFINE j == watch[w].job
    <3>1. /\ watch[w].at \in Unsettled /\ j \in Job /\ watch'[w].job = j /\ watch'[w].status = watch[w].status
          /\ watch'[w].since = IF j = t.job THEN watch[w].since \union ends ELSE watch[w].since
      BY <1>7, <2>1
    <3>2. /\ {job[j]} \intersect Ended \subseteq watch[w].since
          /\ Ahead(j) \subseteq watch[w].since
          /\ {watch[w].status} \intersect Ended \subseteq watch[w].since
      BY <3>1 DEF EventsInv, Known
    <3>3. {job'[j]} \intersect Ended \subseteq watch'[w].since
      BY <1>2, <1>3, <3>1, <3>2 DEF EventsInv, TypeOK
    <3>4. ASSUME NEW r \in Past(consumer.last)' \union consumer.rows', r.job = j
          PROVE  r.kind \in watch'[w].since
      <4>1. CASE r \in Past(consumer.last) \union consumer.rows
        <5>1. r.kind \in Ahead(j)
          BY <3>4, <4>1 DEF Ahead
        <5> QED BY <3>1, <3>2, <5>1
      <4>2. CASE r = t.row
        <5>1. t.job = j /\ r.kind \in Ended
          BY <1>2, <3>1, <3>4, <4>2 DEF SaysEnd
        <5> QED BY <3>1, <4>2, <5>1
      <4> QED BY <1>1, <4>1, <4>2 DEF Past
    <3>5. Ahead(watch[w].job)' \subseteq watch'[w].since
      <4>1. PICK k : k = j
        OBVIOUS
      <4>2. Ahead(k)' \subseteq watch'[w].since
        <5> HIDE DEF j
        <5> QED BY <3>4, <4>1 DEF Ahead
      <4>3. Ahead(watch[w].job)' = Ahead(k)'
        BY <3>1, <4>1 DEF Ahead
      <4> QED BY <4>2, <4>3
    <3> QED BY <3>1, <3>2, <3>3, <3>5
  <2> QED BY <2>1 DEF Known
<1> QED BY <1>8, <1>9, <1>10, <1>11, CommitHasRoom DEF EventsInv

\* Fewer rows are fewer to count, to read and to wait for.
LEMMA TrimKeeps ==
  ASSUME EventsInv, NEW n, TrimEvents(n)
  PROVE  EventsInv'
<1>1. /\ log' \subseteq log /\ happened' \subseteq Happens /\ UNCHANGED <<job, taken, open, consumer, watch, late>>
  BY DEF TrimEvents, Once, EventsInv, TypeOK
<1>2. missed' \subseteq Job
  <2>1. PICK old \in SUBSET log : missed' = missed \union Unseen(old)
    BY DEF TrimEvents
  <2>2. \A r \in log : r.kind \in Ended => r.job \in Job
    BY DEF EventsInv, RowsSayEnds, SaysEnd, TypeOK, Row
  <2>3. Unseen(old) \subseteq Job
    BY <2>2 DEF Unseen
  <2> QED BY <2>1, <2>3 DEF EventsInv, TypeOK
<1>3. TypeOK' /\ Ids' /\ RowsSayEnds'
  BY <1>1, <1>2 DEF EventsInv, TypeOK, Ids, RowsSayEnds
<1>4. Reads' /\ Known'
  <2>1. Reads'
    BY <1>1 DEF EventsInv, Reads
  <2>2. \A w \in Watcher : Ahead(watch[w].job)' \subseteq Ahead(watch[w].job)
    BY <1>1 DEF Ahead, Past
  <2> QED BY <1>1, <2>1, <2>2 DEF EventsInv, Known
<1>5. /\ IsFiniteSet(log') /\ Cardinality(log') < Most
  <2>1. PICK S : S = log'
    OBVIOUS
  <2>2. IsFiniteSet(log) /\ Cardinality(log) < Most /\ S \in SUBSET log
    BY <1>1, <2>1 DEF EventsInv, Room
  <2>3. IsFiniteSet(S) /\ Cardinality(S) < Most
    BY <2>2, Fewer, BatchIs
  <2> QED BY <2>1, <2>3
<1>6. ASSUME NEW u \in open
      PROVE  Cardinality(Left(u, log)') + Cardinality(Older(u)') < Most
  <2>1. PICK S : S = Left(u, log)'
    OBVIOUS
  <2>2. S \subseteq Left(u, log) /\ Older(u)' = Older(u)
    BY <1>1, <2>1 DEF Left, Older
  <2>3. /\ Cardinality(Left(u, log)) \in Nat /\ Cardinality(Older(u)) \in Nat /\ Most \in Nat
        /\ Cardinality(Left(u, log)) + Cardinality(Older(u)) < Most /\ IsFiniteSet(Left(u, log))
    BY Counted DEF EventsInv
  <2>4. Cardinality(S) \in Nat /\ Cardinality(S) <= Cardinality(Left(u, log))
    BY <2>2, <2>3, Fewer
  <2> QED BY <2>1, <2>2, <2>3, <2>4
<1>7. Room'
  BY <1>1, <1>5, <1>6 DEF EventsInv, Room, Most
<1> QED BY <1>3, <1>4, <1>7 DEF EventsInv

\* Who neither writes nor trims leaves the rows and their number.
LEMMA RowsStay ==
  ASSUME EventsInv, UNCHANGED <<taken, open, log>>
  PROVE  Ids' /\ Room'
BY DEF EventsInv, Ids, Room, Left, Older, Most

-----------------------------------------------------------------------------
(* The consumer.                                                           *)

CursorAt == {"cursor", "subscribe", "poll", "wait", "emit", "ended"}

\* What the consumer has, and what it has when that changes.
LEMMA ConsumerIs ==
  ASSUME NEW r, NEW S, r \in [at : CursorAt, ready : BOOLEAN, from : Froms, last : 0 .. MaxId, rows : {S}],
         NEW at \in CursorAt, NEW ready \in BOOLEAN, NEW last \in 0 .. MaxId, NEW rows
  PROVE  LET c == [r EXCEPT !.at = at, !.ready = ready, !.last = last, !.rows = rows]
         IN  /\ c.at = at /\ c.ready = ready /\ c.last = last /\ c.rows = rows
             /\ c \in [at : CursorAt, ready : BOOLEAN, from : Froms, last : 0 .. MaxId, rows : {rows}]
<1> DEFINE T(U) == [at : CursorAt, ready : BOOLEAN, from : Froms, last : 0 .. MaxId, rows : U]
           c == [r EXCEPT !.at = at, !.ready = ready, !.last = last, !.rows = rows]
<1>1. PICK a \in T({S}) : a = [r EXCEPT !.at = at, !.ready = ready]
  OBVIOUS
<1>2. PICK b \in T({S}) : b = [a EXCEPT !.last = last]
  BY <1>1
<1>3. c = [b EXCEPT !.rows = rows]
  BY <1>1, <1>2
<1>4. [b EXCEPT !.rows = rows] \in T({rows})
  BY <1>2
<1>5. c.at = at /\ c.ready = ready /\ c.last = last /\ c.rows = rows
  OBVIOUS
<1> QED BY <1>3, <1>4, <1>5

\* A field that does not change may be said to become what it is.
LEMMA ConsumerKeepsFields ==
  ASSUME NEW r, NEW S, r \in [at : CursorAt, ready : BOOLEAN, from : Froms, last : 0 .. MaxId, rows : {S}],
         NEW at, NEW ready, NEW last, NEW rows
  PROVE  /\ [r EXCEPT !.at = at] = [r EXCEPT !.at = at, !.ready = r.ready, !.last = r.last, !.rows = r.rows]
         /\ [r EXCEPT !.at = at, !.ready = ready]
              = [r EXCEPT !.at = at, !.ready = ready, !.last = r.last, !.rows = r.rows]
         /\ [r EXCEPT !.at = at, !.last = last]
              = [r EXCEPT !.at = at, !.ready = r.ready, !.last = last, !.rows = r.rows]
         /\ [r EXCEPT !.at = at, !.rows = rows]
              = [r EXCEPT !.at = at, !.ready = r.ready, !.last = r.last, !.rows = rows]
         /\ [r EXCEPT !.at = at, !.last = last, !.rows = rows]
              = [r EXCEPT !.at = at, !.ready = r.ready, !.last = last, !.rows = rows]
<1>1. [r EXCEPT !.at = at] = [r EXCEPT !.at = at, !.ready = r.ready, !.last = r.last, !.rows = r.rows]
  OBVIOUS
<1>2. [r EXCEPT !.at = at, !.ready = ready] = [r EXCEPT !.at = at, !.ready = ready, !.last = r.last, !.rows = r.rows]
  OBVIOUS
<1>3. [r EXCEPT !.at = at, !.last = last] = [r EXCEPT !.at = at, !.ready = r.ready, !.last = last, !.rows = r.rows]
  OBVIOUS
<1>4. [r EXCEPT !.at = at, !.rows = rows] = [r EXCEPT !.at = at, !.ready = r.ready, !.last = r.last, !.rows = rows]
  OBVIOUS
<1>5. [r EXCEPT !.at = at, !.last = last, !.rows = rows]
        = [r EXCEPT !.at = at, !.ready = r.ready, !.last = last, !.rows = rows]
  OBVIOUS
<1> QED BY <1>1, <1>2, <1>3, <1>4, <1>5

LEMMA ConsumerHas ==
  ASSUME EventsInv
  PROVE  /\ consumer \in [at : CursorAt, ready : BOOLEAN, from : Froms, last : 0 .. MaxId, rows : {consumer.rows}]
         /\ consumer.ready \in BOOLEAN /\ consumer.last \in 0 .. MaxId /\ consumer.last \in Nat /\ MaxId \in Nat
BY BatchIs DEF EventsInv, TypeOK, CursorAt

\* A step of the consumer that reads no row and does not go back.
LEMMA MoveKeeps ==
  ASSUME EventsInv, UNCHANGED <<job, taken, open, log, watch, happened, late, missed>>,
         NEW at \in {"subscribe", "poll", "ended"}, NEW ready \in BOOLEAN, NEW last \in 0 .. MaxId, last >= consumer.last,
         consumer' = [consumer EXCEPT !.at = at, !.ready = ready, !.last = last, !.rows = {}]
  PROVE  EventsInv'
<1>1. /\ consumer'.at = at /\ consumer'.last = last /\ consumer'.rows = {} /\ consumer.last \in Nat
      /\ consumer' \in [at : CursorAt, ready : BOOLEAN, from : Froms, last : 0 .. MaxId, rows : {{}}]
  <2>1. at \in CursorAt
    BY DEF CursorAt
  <2> QED BY <2>1, ConsumerIs, ConsumerHas
<1>2. TypeOK' /\ RowsSayEnds'
  BY <1>1 DEF EventsInv, TypeOK, RowsSayEnds, CursorAt
<1>3. Reads'
  BY <1>1 DEF Reads
<1>4. \A w \in Watcher : Ahead(watch[w].job)' \subseteq Ahead(watch[w].job)
  <2>1. Past(last) \subseteq Past(consumer.last)
    BY <1>1, BatchIs DEF Past, EventsInv, TypeOK, Row
  <2>2. Past(consumer.last)' = Past(last)
    BY <1>1 DEF Past
  <2> QED BY <1>1, <2>1, <2>2 DEF Ahead
<1>5. Known'
  BY <1>4 DEF EventsInv, Known
<1> QED BY <1>2, <1>3, <1>5, RowsStay DEF EventsInv

\* A poll leaves out rows only past those it gets.
LEMMA PollKeeps ==
  ASSUME EventsInv, Poll
  PROVE  EventsInv'
<1>1. PICK rows \in FirstRows(Past(consumer.last)) :
        consumer' = [consumer EXCEPT !.at = IF rows = {} THEN "wait" ELSE "emit", !.rows = rows]
  BY DEF Poll
<1>2. /\ UNCHANGED <<job, taken, open, log, watch, happened, late, missed>> /\ consumer.at = "poll" /\ consumer.rows = {}
  BY DEF Poll, EventsInv, Reads
<1>3. /\ rows \subseteq Past(consumer.last) /\ \A r \in rows, q \in Past(consumer.last) \ rows : r.id < q.id
  BY DEF FirstRows
<1>4. rows \in SUBSET Row /\ rows \subseteq log
  BY <1>3 DEF Past, EventsInv, TypeOK
<1>5. /\ consumer'.at = (IF rows = {} THEN "wait" ELSE "emit") /\ consumer'.last = consumer.last /\ consumer'.rows = rows
      /\ consumer' \in [at : CursorAt, ready : BOOLEAN, from : Froms, last : 0 .. MaxId, rows : {rows}]
      /\ consumer.last \in Nat
  <2>1. PICK at \in CursorAt : at = IF rows = {} THEN "wait" ELSE "emit"
    BY DEF CursorAt
  <2>2. consumer' = [consumer EXCEPT !.at = at, !.rows = rows]
    BY <1>1, <2>1
  <2>3. consumer' = [consumer EXCEPT !.at = at, !.ready = consumer.ready, !.last = consumer.last, !.rows = rows]
    BY <2>2, ConsumerKeepsFields, ConsumerHas
  <2> QED BY <2>1, <2>3, ConsumerIs, ConsumerHas
<1>6. TypeOK'
  BY <1>2, <1>4, <1>5 DEF EventsInv, TypeOK, CursorAt
<1>7. RowsSayEnds'
  BY <1>2, <1>4, <1>5 DEF EventsInv, RowsSayEnds
<1>8. Reads'
  <2>1. \A r \in rows : r.id > consumer.last
    BY <1>3 DEF Past
  <2>2. ASSUME rows # {}, NEW r \in log, r.id \in consumer.last + 1 .. Newest(rows), r \notin rows
        PROVE  FALSE
    <3>1. PICK q \in rows : q.id = Newest(rows)
      BY <1>4, <2>2, NewestIs
    <3>2. r.id \in Nat /\ q.id \in Nat
      BY <1>4 DEF EventsInv, TypeOK, Row
    <3>3. r \in Past(consumer.last)
      BY <1>5, <2>2, <3>2 DEF Past
    <3> QED BY <1>3, <2>2, <3>1, <3>2, <3>3
  <2>3. Newest(consumer.rows)' = Newest(rows)
    BY <1>5 DEF Newest
  <2> QED BY <1>2, <1>5, <2>1, <2>2, <2>3 DEF Reads
<1>9. Known'
  <2>1. \A w \in Watcher : Ahead(watch[w].job)' \subseteq Ahead(watch[w].job)
    BY <1>2, <1>3, <1>5 DEF Ahead, Past
  <2> QED BY <1>2, <2>1 DEF EventsInv, Known
<1> QED BY <1>2, <1>6, <1>7, <1>8, <1>9, RowsStay DEF EventsInv

\* The rows a call has heard have a first one, which is an end of its job.
LEMMA FirstHeard ==
  ASSUME EventsInv, NEW w \in Watcher, Heard(w, consumer.rows) # {}
  PROVE  LET first == CHOOSE r \in Heard(w, consumer.rows) : \A q \in Heard(w, consumer.rows) : r.id <= q.id
         IN  /\ first \in consumer.rows /\ first.kind \in Ended /\ first.job = watch[w].job
             /\ watch[w].at \in Unsettled
<1> DEFINE H == Heard(w, consumer.rows)
           ids == {r.id : r \in H}
<1>1. H \subseteq consumer.rows /\ H # {} /\ consumer.rows \subseteq Row
  BY DEF Heard, EventsInv, TypeOK
<1>2. ids \in SUBSET Nat /\ ids # {}
  BY <1>1 DEF Row
<1>3. PICK m \in ids : \A n \in ids : m <= n
  <2> HIDE DEF ids
  <2> QED BY <1>2, Least
<1>4. PICK r \in H : r.id = m
  OBVIOUS
<1>5. \A q \in H : r.id <= q.id
  BY <1>3, <1>4
<1>6. (CHOOSE s \in H : \A q \in H : s.id <= q.id) \in H
  <2> HIDE DEF H, ids
  <2> QED BY <1>5
<1> QED BY <1>6 DEF Heard

\* Once rows are emitted, who waits on has heard none of them.
LEMMA EmitRowsKeep ==
  ASSUME EventsInv, EmitRows
  PROVE  EventsInv'
<1>1. /\ consumer.at = "emit"
      /\ consumer' = [consumer EXCEPT !.at = "poll", !.last = Newest(consumer.rows), !.rows = {}]
      /\ UNCHANGED <<job, taken, open, log, happened, late, missed>>
  BY DEF EmitRows
<1>2. /\ Newest(consumer.rows) \in 0 .. MaxId /\ MaxId \in Nat /\ consumer.last \in Nat
      /\ Newest(consumer.rows) >= consumer.last
  <2>1. PICK r \in consumer.rows : r.id > consumer.last
    BY <1>1 DEF EventsInv, Reads
  <2> QED BY <2>1, NewestIs, BatchIs DEF EventsInv, TypeOK, Row
<1>3. PICK last \in 0 .. MaxId : last = Newest(consumer.rows)
  BY <1>2
<1>4. /\ consumer'.at = "poll" /\ consumer'.last = last /\ consumer'.rows = {}
      /\ consumer' \in [at : CursorAt, ready : BOOLEAN, from : Froms, last : 0 .. MaxId, rows : {{}}]
  <2>1. consumer' = [consumer EXCEPT !.at = "poll", !.last = last, !.rows = {}] /\ "poll" \in CursorAt
    BY <1>1, <1>3 DEF CursorAt
  <2>2. consumer' = [consumer EXCEPT !.at = "poll", !.ready = consumer.ready, !.last = last, !.rows = {}]
    BY <2>1, ConsumerKeepsFields, ConsumerHas
  <2>3. PICK at \in CursorAt, ready \in BOOLEAN : at = "poll" /\ ready = consumer.ready
    BY <2>1, ConsumerHas
  <2>4. consumer' = [consumer EXCEPT !.at = at, !.ready = ready, !.last = last, !.rows = {}]
    BY <2>2, <2>3
  <2> QED BY <2>3, <2>4, ConsumerIs, ConsumerHas
<1>5. ASSUME NEW w \in Watcher
      PROVE  IF Heard(w, consumer.rows) = {} THEN watch'[w] = watch[w]
             ELSE \E kind \in Ended : watch'[w] = Settled(kind)
  BY FirstHeard DEF EmitRows
<1>6. TypeOK'
  <2>1. \A kind \in Ended : Settled(kind) \in [at : {"settled"}, outcome : {"expired"} \union Ended]
    BY DEF Settled
  <2>2. ASSUME NEW w \in Watcher
        PROVE  watch'[w] \in Calls
    <3>1. watch[w] \in Calls
      BY DEF EventsInv, TypeOK, Calls, Call
    <3> QED BY <1>5, <2>1, <3>1 DEF Calls
  <2>3. watch' \in [Watcher -> Calls]
    <3>1. watch' = [w \in Watcher |-> watch'[w]]
      BY DEF EmitRows
    <3> QED BY <2>2, <3>1
  <2> QED BY <1>1, <1>4, <2>3 DEF EventsInv, TypeOK, CursorAt, Calls, Call
<1>7. RowsSayEnds' /\ Reads'
  BY <1>1, <1>4 DEF EventsInv, RowsSayEnds, Reads
<1>8. ASSUME NEW w \in Watcher, watch'[w].at \in Unsettled
      PROVE  watch'[w] = watch[w]
  <2>1. \A kind \in Ended : Settled(kind).at \notin Unsettled
    BY DEF Settled, Unsettled
  <2> QED BY <1>5, <1>8, <2>1
<1>9. Known'
  <2>1. Past(last) \subseteq Past(consumer.last)
    BY <1>2, <1>3 DEF Past, EventsInv, TypeOK, Row
  <2>2. Past(consumer.last)' = Past(last)
    BY <1>1, <1>4 DEF Past
  <2>3. \A w \in Watcher : watch'[w] = watch[w] => Ahead(watch[w].job)' \subseteq Ahead(watch[w].job)
    BY <1>4, <2>1, <2>2 DEF Ahead
  <2> QED BY <1>1, <1>8, <2>3 DEF EventsInv, Known
<1> QED BY <1>1, <1>6, <1>7, <1>9, RowsStay DEF EventsInv

LEMMA ConsumerKeeps ==
  ASSUME EventsInv, Consume \/ RunFails \/ Close
  PROVE  EventsInv'
<1>1. /\ consumer \in [at : CursorAt, ready : BOOLEAN, from : Froms, last : 0 .. MaxId, rows : {consumer.rows}]
      /\ consumer.ready \in BOOLEAN /\ consumer.last \in 0 .. MaxId /\ consumer.last \in Nat /\ MaxId \in Nat
      /\ (consumer.at # "emit" => consumer.rows = {})
  BY ConsumerHas DEF EventsInv, Reads
<1>2. {"subscribe", "poll", "ended"} \subseteq CursorAt
  BY DEF CursorAt
<1>3. ASSUME NEW at \in {"subscribe", "poll", "ended"}, NEW ready \in BOOLEAN, NEW last \in 0 .. MaxId,
             last >= consumer.last,
             consumer' = [consumer EXCEPT !.at = at, !.ready = ready, !.last = last, !.rows = {}],
             UNCHANGED <<job, taken, open, log, watch, happened, late, missed>>
      PROVE  EventsInv'
  BY <1>3, MoveKeeps
<1>4. consumer.last >= consumer.last
  BY <1>1
<1>5. ASSUME Cursor
      PROVE  EventsInv'
  <2>1. PICK id \in 0 .. MaxId : consumer' = [consumer EXCEPT !.at = "subscribe", !.last = id]
    BY <1>1, <1>5, NewestIs DEF Cursor, EventsInv, TypeOK
  <2>2. /\ id >= consumer.last /\ consumer.rows = {}
        /\ UNCHANGED <<job, taken, open, log, watch, happened, late, missed>>
    BY <1>1, <1>5 DEF Cursor, EventsInv, Reads
  <2>3. consumer' = [consumer EXCEPT !.at = "subscribe", !.ready = consumer.ready, !.last = id, !.rows = consumer.rows]
    BY <1>1, <1>2, <2>1, ConsumerKeepsFields
  <2> QED BY <1>1, <1>3, <2>2, <2>3
<1>6. ASSUME Subscribe
      PROVE  EventsInv'
  <2>1. /\ consumer' = [consumer EXCEPT !.at = "poll", !.ready = TRUE] /\ consumer.rows = {}
        /\ UNCHANGED <<job, taken, open, log, watch, happened, late, missed>>
    BY <1>1, <1>6 DEF Subscribe
  <2>2. consumer' = [consumer EXCEPT !.at = "poll", !.ready = TRUE, !.last = consumer.last, !.rows = consumer.rows]
    BY <1>1, <1>2, <2>1, ConsumerKeepsFields
  <2> QED BY <1>1, <1>3, <1>4, <2>1, <2>2
<1>7. ASSUME NEW at \in {"poll", "ended"}, consumer' = [consumer EXCEPT !.at = at], consumer.at # "emit",
             UNCHANGED <<job, taken, open, log, watch, happened, late, missed>>
      PROVE  EventsInv'
  <2>1. consumer' = [consumer EXCEPT !.at = at, !.ready = consumer.ready, !.last = consumer.last, !.rows = consumer.rows]
    BY <1>1, <1>2, <1>7, ConsumerKeepsFields
  <2>2. consumer.rows = {}
    BY <1>1, <1>7
  <2> QED BY <1>1, <1>3, <1>4, <1>7, <2>1, <2>2
<1>8. RunFails \/ Wake => EventsInv'
  BY <1>7 DEF RunFails, Wake
<1>9. ASSUME Close
      PROVE  EventsInv'
  <2>1. /\ consumer' = [consumer EXCEPT !.at = "ended", !.rows = {}]
        /\ UNCHANGED <<job, taken, open, log, watch, happened, late, missed>>
    BY <1>9 DEF Close
  <2>2. consumer' = [consumer EXCEPT !.at = "ended", !.ready = consumer.ready, !.last = consumer.last, !.rows = {}]
    BY <1>1, <1>2, <2>1, ConsumerKeepsFields
  <2> QED BY <1>1, <1>3, <1>4, <2>1, <2>2
<1> QED BY <1>5, <1>6, <1>8, <1>9, PollKeeps, EmitRowsKeep DEF Consume

-----------------------------------------------------------------------------
(* Job.waitUntilFinished.                                                  *)

\* A call that takes a step leaves the rest as it is.
LEMMA WatchKeeps ==
  ASSUME EventsInv, UNCHANGED <<job, taken, open, log, consumer, happened, late, missed>>,
         NEW w \in Watcher, NEW v \in Calls, watch' = [watch EXCEPT ![w] = v],
         v.at \in Unsettled =>
           /\ {job[v.job]} \intersect Ended \subseteq v.since
           /\ Ahead(v.job) \subseteq v.since
           /\ {v.status} \intersect Ended \subseteq v.since
  PROVE  EventsInv'
<1>1. watch \in [Watcher -> Calls]
  BY DEF EventsInv, TypeOK, Calls, Call
<1>2. watch' \in [Watcher -> Calls] /\ \A x \in Watcher : watch'[x] = IF x = w THEN v ELSE watch[x]
  BY <1>1
<1>3. TypeOK'
  BY <1>2 DEF EventsInv, TypeOK, Calls, Call
<1>4. RowsSayEnds' /\ Reads'
  BY DEF EventsInv, RowsSayEnds, Reads
<1>5. \A j : Ahead(j)' = Ahead(j)
  BY DEF Ahead, Past
<1>6. Known'
  <2>1. ASSUME NEW x \in Watcher, watch'[x].at \in Unsettled
        PROVE  /\ {job'[watch'[x].job]} \intersect Ended \subseteq watch'[x].since
               /\ Ahead(watch[x].job)' \subseteq watch'[x].since
               /\ {watch'[x].status} \intersect Ended \subseteq watch'[x].since
    <3>1. PICK c : c = watch'[x]
      OBVIOUS
    <3>2. /\ {job[c.job]} \intersect Ended \subseteq c.since
          /\ Ahead(c.job) \subseteq c.since
          /\ {c.status} \intersect Ended \subseteq c.since
      BY <1>2, <2>1, <3>1 DEF EventsInv, Known
    <3>3. Ahead(watch[x].job)' = Ahead(c.job)
      BY <3>1 DEF Ahead, Past
    <3> QED BY <3>1, <3>2, <3>3
  <2> QED BY <2>1 DEF Known
<1> QED BY <1>3, <1>4, <1>6, RowsStay DEF EventsInv

\* What is ahead of a job's events are ends of it.
LEMMA AheadAreEnds ==
  ASSUME EventsInv, NEW j \in Job
  PROVE  Ahead(j) \subseteq Ended
<1>1. \A r \in log \union consumer.rows : r.job = j => r.kind \in Ended
  BY EventsAssumption DEF EventsInv, RowsSayEnds, SaysEnd
<1> QED BY <1>1 DEF Ahead, Past

Calling(w) == \/ \E j \in Job : WaitUntilFinished(w, j)
              \/ IsFinished(w) \/ Answer(w) \/ Expire(w)

LEMMA WatcherKeeps ==
  ASSUME EventsInv, NEW w \in Watcher, Calling(w)
  PROVE  EventsInv'
<1>1. watch \in [Watcher -> Calls] /\ job \in [Job -> {"active"} \union Ended]
  BY DEF EventsInv, TypeOK, Calls, Call
<1>2. watch[w].at \in Unsettled =>
        /\ watch[w] \in Call
        /\ {job[watch[w].job]} \intersect Ended \subseteq watch[w].since
        /\ Ahead(watch[w].job) \subseteq watch[w].since
        /\ {watch[w].status} \intersect Ended \subseteq watch[w].since
  BY <1>1 DEF Calls, NoWatch, Unsettled, EventsInv, Known
<1>3. ASSUME NEW j \in Job, WaitUntilFinished(w, j)
      PROVE  EventsInv'
  <2>1. PICK since \in SUBSET Ended : since = ({job[j]} \intersect Ended) \union Ahead(j)
    BY AheadAreEnds
  <2>2. PICK v : v = [at |-> "ready", job |-> j, status |-> "none", since |-> since]
    OBVIOUS
  <2>3. v \in Call /\ v \in Calls
    BY <2>2 DEF Call, Calls, Unsettled
  <2>4. /\ watch' = [watch EXCEPT ![w] = v]
        /\ UNCHANGED <<job, taken, open, log, consumer, happened, late, missed>>
    BY <1>3, <2>1, <2>2 DEF WaitUntilFinished
  <2>5. /\ {job[v.job]} \intersect Ended \subseteq v.since
        /\ Ahead(v.job) \subseteq v.since
        /\ {v.status} \intersect Ended \subseteq v.since
    BY <2>1, <2>2 DEF Ended
  <2> QED BY <2>3, <2>4, <2>5, WatchKeeps
<1>4. ASSUME IsFinished(w)
      PROVE  EventsInv'
  <2>1. PICK c \in Call : c = watch[w]
    BY <1>2, <1>4 DEF IsFinished, Unsettled
  <2>2. PICK v : v = [c EXCEPT !.at = "answer", !.status = job[c.job]]
    OBVIOUS
  <2>3. v \in Call /\ v.job = c.job /\ v.since = c.since /\ v.status = job[c.job]
    BY <1>1, <2>1, <2>2 DEF Call, Unsettled
  <2>4. /\ watch' = [watch EXCEPT ![w] = v]
        /\ UNCHANGED <<job, taken, open, log, consumer, happened, late, missed>>
    BY <1>1, <1>4, <2>1, <2>2 DEF IsFinished
  <2>5. watch[w].at \in Unsettled /\ v \in Calls
    BY <1>4, <2>3 DEF IsFinished, Unsettled, Calls
  <2> QED BY <1>2, <2>1, <2>3, <2>4, <2>5, WatchKeeps
<1>5. \A outcome \in {"expired"} \union Ended :
        Settled(outcome) \in Calls /\ Settled(outcome).at \notin Unsettled
  BY DEF Settled, Calls, Unsettled
<1>6. ASSUME Answer(w)
      PROVE  EventsInv'
  <2>1. watch[w].at = "answer" /\ watch[w].at \in Unsettled
    BY <1>6 DEF Answer, Unsettled
  <2>2. PICK c \in Call : c = watch[w]
    BY <1>2, <2>1
  <2>3. PICK v : v = IF c.status \in Ended THEN Settled(c.status) ELSE [c EXCEPT !.at = "listen"]
    OBVIOUS
  <2>4. /\ watch' = [watch EXCEPT ![w] = v]
        /\ UNCHANGED <<job, taken, open, log, consumer, happened, late, missed>>
    BY <1>1, <1>6, <2>2, <2>3 DEF Answer
  <2>5. CASE c.status \in Ended
    BY <1>5, <2>3, <2>4, <2>5, WatchKeeps
  <2>6. CASE c.status \notin Ended
    <3>1. v \in Call /\ v.job = c.job /\ v.since = c.since /\ v.status = c.status
      BY <2>2, <2>3, <2>6 DEF Call, Unsettled
    <3>2. v \in Calls
      BY <3>1 DEF Calls
    <3> QED BY <1>2, <2>1, <2>2, <2>4, <3>1, <3>2, WatchKeeps
  <2> QED BY <2>5, <2>6
<1>7. ASSUME Expire(w)
      PROVE  EventsInv'
  BY <1>5, <1>7, WatchKeeps DEF Expire
<1> QED BY <1>3, <1>4, <1>6, <1>7 DEF Calling

-----------------------------------------------------------------------------
(* All steps.                                                              *)

LEMMA WriteKeeps ==
  ASSUME EventsInv, Write
  PROVE  EventsInv'
<1>1. NoJob \notin Job /\ "other" \notin Ended /\ happened \subseteq Happens
  BY EventsAssumption DEF Ended, EventsInv, TypeOK
<1>2. ASSUME NEW what, Once(what)
      PROVE  happened' \subseteq Happens
  BY <1>1, <1>2 DEF Once
<1>3. ASSUME NEW j \in Job, Finish(j)
      PROVE  EventsInv'
  <2>1. PICK kind \in {"completed", "failed"} : \E after \in {kind, "gone"} : Emit(kind, j, after)
    BY <1>3 DEF Finish
  <2>4. PICK after \in {kind, "gone"} : Emit(kind, j, after)
    BY <2>1
  <2>2. /\ kind \in {"completed", "failed", "other"} /\ after \in {"active", "none"} \union Ended
        /\ (after = "none") = (j = NoJob) /\ j \in Job \union {NoJob}
    BY <1>1, <2>1, <2>4 DEF Ended
  <2>3. happened' \subseteq Happens
    BY <1>1, <1>3 DEF Finish
  <2> QED BY <2>1, <2>2, <2>3, <2>4, EmitKeeps
<1>4. ASSUME NEW j \in Job, Retry(j) \/ Remove(j)
      PROVE  EventsInv'
  <2>1. PICK after \in {"active", "gone"} : Emit("other", j, after)
    BY <1>4 DEF Retry, Remove
  <2>2. /\ after \in {"active", "none"} \union Ended /\ (after = "none") = (j = NoJob) /\ j \in Job \union {NoJob}
        /\ ~ ("other" \in Ended) /\ "other" \in {"completed", "failed", "other"}
    BY <1>1, <2>1 DEF Ended
  <2>3. happened' \subseteq Happens
    BY <1>2, <1>4 DEF Retry, Remove
  <2> QED BY <2>1, <2>2, <2>3, EmitKeeps
<1>5. ASSUME Other
      PROVE  EventsInv'
  <2>1. /\ Emit("other", NoJob, "none") /\ happened' \subseteq Happens
        /\ NoJob \in Job \union {NoJob} /\ "none" \in {"active", "none"} \union Ended
        /\ ("none" = "none") = (NoJob = NoJob) /\ "other" \in {"completed", "failed", "other"}
    BY <1>1, <1>5 DEF Other
  <2> QED BY <1>1, <2>1, EmitKeeps
<1> QED BY <1>3, <1>4, <1>5, CommitKeeps, RollbackKeeps, TrimKeeps DEF Write

LEMMA EventsBegin == Init => EventsInv
<1> SUFFICES ASSUME Init
             PROVE  EventsInv
  OBVIOUS
<1>1. /\ job = [j \in Job |-> "active"] /\ taken = 0 /\ open = {} /\ log = {}
      /\ watch = [w \in Watcher |-> NoWatch] /\ happened = {} /\ late = {} /\ missed = {}
  BY DEF Init
<1>2. PICK from \in Froms : consumer = [at |-> "cursor", ready |-> FALSE, from |-> from, last |-> 0, rows |-> {}]
  BY DEF Init
<1>3. TypeOK
  BY <1>1, <1>2, BatchIs DEF TypeOK
<1>4. Ids /\ RowsSayEnds /\ Reads
  BY <1>1, <1>2 DEF Ids, RowsSayEnds, Reads
<1>5. Room
  <2>1. IsFiniteSet({}) /\ Cardinality({}) = 0
    BY FS_EmptySet
  <2> QED BY <1>1, <2>1, BatchIs DEF Room, Most
<1>6. Known
  BY <1>1 DEF Known, NoWatch, Unsettled
<1> QED BY <1>3, <1>4, <1>5, <1>6 DEF EventsInv

LEMMA EventsStep ==
  ASSUME EventsInv, [Next]_vars
  PROVE  EventsInv'
<1>1. CASE UNCHANGED vars
  <2>1. UNCHANGED <<job, taken, open, log, consumer, watch, happened, late, missed>>
    BY <1>1 DEF vars
  <2>2. TypeOK' /\ RowsSayEnds' /\ Reads' /\ Known'
    BY <2>1 DEF EventsInv, TypeOK, RowsSayEnds, Reads, Known, Ahead, Past
  <2> QED BY <2>1, <2>2, RowsStay DEF EventsInv
<1>2. CASE Next
  <2>1. CASE Write \/ Consume \/ RunFails \/ Close
    BY <2>1, WriteKeeps, ConsumerKeeps
  <2>2. ASSUME NEW w \in Watcher, Calling(w)
        PROVE  EventsInv'
    BY <2>2, WatcherKeeps
  <2> QED BY <1>2, <2>1, <2>2 DEF Next, Calling
<1> QED BY <1>1, <1>2

\* The inductive invariant.
LEMMA Inductive == Spec => []EventsInv
<1>1. Init => EventsInv
  BY EventsBegin
<1>2. EventsInv /\ [Next]_vars => EventsInv'
  BY EventsStep
<1> QED BY <1>1, <1>2, PTL DEF Spec

\* 00_helpers.sql:36-57: however many write at once, the stream holds fewer rows than the length asked for
\* and a batch, and one for each writer the others do not see; and all it says has its type.
THEOREM StreamStaysBounded == Spec => []StreamOK
<1>1. Spec => []EventsInv
  BY Inductive
<1>2. EventsInv => StreamOK
  BY BatchIs DEF EventsInv, StreamOK, Bounded, Room, Most
<1> QED BY <1>1, <1>2, PTL

\* Who moves the cursor, and who settles a call.
LEMMA WhoSteps ==
  ASSUME EventsInv, [Next]_vars
  PROVE  /\ EmitRows \/ consumer' = consumer \/ consumer.at # "emit" \/ Close
         /\ \A w \in Watcher : \/ watch'[w] = watch[w] \/ EmitRows \/ Answer(w) \/ Expire(w)
                               \/ watch'[w].at # "settled"
<1>1. CASE UNCHANGED vars
  BY <1>1 DEF vars
<1>2. CASE Write
  <2>1. consumer' = consumer
    BY <1>2 DEF Write, Finish, Other, Retry, Remove, Emit,
      Commit, Rollback, TrimEvents
  <2>2. (\E t \in open : Commit(t)) \/ watch' = watch
    BY <1>2 DEF Write, Finish, Other, Retry, Remove, Emit,
      Rollback, TrimEvents
  <2>3. ASSUME NEW t \in open, Commit(t), NEW w \in Watcher
        PROVE  watch'[w] = watch[w] \/ watch'[w].at # "settled"
    <3>1. watch[w] \in Calls
      BY DEF EventsInv, TypeOK, Calls, Call
    <3>2. CASE watch[w].at \in Unsettled
      <4>1. watch[w] \in Call
        BY <3>1, <3>2 DEF Calls, NoWatch, Unsettled
      <4>4. PICK c \in Call : c = watch[w]
        BY <4>1
      <4>2. PICK S : watch'[w] = IF c.job = t.job THEN [c EXCEPT !.since = S] ELSE c
        BY <2>3, <3>2, <4>4 DEF Commit
      <4>3. [c EXCEPT !.since = S].at \in Unsettled /\ c.at \in Unsettled
        BY <4>4 DEF Call
      <4> QED BY <4>2, <4>3, <4>4 DEF Unsettled
    <3>3. CASE watch[w].at \notin Unsettled
      BY <2>3, <3>3 DEF Commit
    <3> QED BY <3>2, <3>3
  <2> QED BY <2>1, <2>2, <2>3
<1>3. CASE Cursor \/ Subscribe \/ Poll \/ Wake \/ RunFails \/ Close
  BY <1>3 DEF Cursor, Subscribe, Poll, Wake, RunFails, Close
<1>4. ASSUME NEW w \in Watcher, Calling(w)
      PROVE  /\ consumer' = consumer
             /\ \A x \in Watcher \ {w} : watch'[x] = watch[x]
             /\ watch'[w].at = "settled" => Answer(w) \/ Expire(w)
  <2>1. watch \in [Watcher -> Calls]
    BY DEF EventsInv, TypeOK, Calls, Call
  <2>2. consumer' = consumer /\ \A x \in Watcher \ {w} : watch'[x] = watch[x]
    BY <1>4, <2>1 DEF Calling, WaitUntilFinished, IsFinished, Answer, Expire
  <2>3. ASSUME NEW j \in Job, WaitUntilFinished(w, j)
        PROVE  watch'[w].at # "settled"
    <3>1. PICK S : watch' = [watch EXCEPT ![w] = [at |-> "ready", job |-> j, status |-> "none", since |-> S]]
      BY <2>3 DEF WaitUntilFinished
    <3> QED BY <2>1, <3>1
  <2>4. ASSUME IsFinished(w)
        PROVE  watch'[w].at # "settled"
    <3>1. PICK c \in Call : c = watch[w]
      BY <2>1, <2>4 DEF IsFinished, Calls, NoWatch
    <3>2. PICK s : watch'[w] = [c EXCEPT !.at = "answer", !.status = s]
      BY <2>1, <2>4, <3>1 DEF IsFinished
    <3> QED BY <3>2 DEF Call
  <2> QED BY <1>4, <2>2, <2>3, <2>4 DEF Calling
<1>5. CASE Next
  <2>1. CASE Write \/ Consume \/ RunFails \/ Close
    BY <1>2, <1>3, <2>1 DEF Consume
  <2>2. ASSUME NEW w \in Watcher, Calling(w)
        PROVE  /\ EmitRows \/ consumer' = consumer \/ consumer.at # "emit" \/ Close
               /\ \A x \in Watcher : \/ watch'[x] = watch[x] \/ EmitRows \/ Answer(x) \/ Expire(x)
                                     \/ watch'[x].at # "settled"
    BY <1>4, <2>2
  <2> QED BY <1>5, <2>1, <2>2 DEF Next, Calling
<1> QED BY <1>1, <1>5

\* queue-events.ts:475-507: the cursor passes no row that was there to be read, page after page and
\* whatever is written between them.
THEOREM RowsAreNotSkipped == Spec => NoneSkipped
<1>1. Spec => []EventsInv
  BY Inductive
<1>2. EventsInv /\ [Next]_vars =>
        [consumer.at = "emit" =>
           \A r \in log : r.id \in consumer.last + 1 .. consumer'.last => r \in consumer.rows \/ r.id \in late]_vars
  <2> SUFFICES ASSUME EventsInv, [Next]_vars, consumer.at = "emit", NEW r \in log,
                      r.id \in consumer.last + 1 .. consumer'.last
               PROVE  r \in consumer.rows \/ r.id \in late
    OBVIOUS
  <2>1. consumer.last \in Nat /\ consumer \in [at : CursorAt, ready : BOOLEAN, from : Froms, last : 0 .. MaxId,
                                               rows : {consumer.rows}]
    BY ConsumerHas
  <2>2. ~ (r.id \in consumer.last + 1 .. consumer.last)
    BY <2>1
  <2>3. EmitRows
    <3>1. Close => consumer'.last = consumer.last
      BY <2>1 DEF Close
    <3> QED BY <2>2, <3>1, WhoSteps
  <2>4. consumer'.last = Newest(consumer.rows)
    BY <2>1, <2>3 DEF EmitRows
  <2> QED BY <2>4 DEF EventsInv, Reads
<1> QED BY <1>1, <1>2, PTL DEF Spec, NoneSkipped

\* job.ts:1284-1326: what a call of waitUntilFinished answers was true of its job at some time since
\* the call, or was told by an older event the consumer had still to emit.
THEOREM AnswersAreTrue == Spec => AnswersHold
<1>1. Spec => []EventsInv
  BY Inductive
<1>2. EventsInv /\ [Next]_vars =>
        [\A w \in Watcher :
           watch[w].at \in Unsettled /\ watch'[w].at = "settled" =>
             watch'[w].outcome \in watch[w].since \union {"expired"}]_vars
  <2> SUFFICES ASSUME EventsInv, [Next]_vars, NEW w \in Watcher,
                      watch[w].at \in Unsettled, watch'[w].at = "settled"
               PROVE  watch'[w].outcome \in watch[w].since \union {"expired"}
    OBVIOUS
  <2>1. PICK c \in Call : c = watch[w]
    BY DEF EventsInv, TypeOK, Calls, Call, NoWatch, Unsettled
  <2>2. watch \in [Watcher -> Calls] /\ \A o : Settled(o).outcome = o
    BY DEF EventsInv, TypeOK, Calls, Call, Settled
  <2>3. EmitRows \/ Answer(w) \/ Expire(w)
    BY WhoSteps DEF Unsettled
  <2>4. CASE EmitRows
    <3>1. Heard(w, consumer.rows) # {}
      BY <2>4 DEF EmitRows, Unsettled
    <3>2. PICK first \in consumer.rows : /\ first.kind \in Ended /\ first.job = c.job
                                         /\ watch'[w] = Settled(first.kind)
      BY <2>1, <2>4, <3>1, FirstHeard DEF EmitRows
    <3>3. first.kind \in Ahead(c.job)
      BY <3>2 DEF Ahead
    <3> QED BY <2>1, <2>2, <3>2, <3>3 DEF EventsInv, Known
  <2>5. CASE Answer(w)
    <3>1. c.status \in Ended /\ watch'[w] = Settled(c.status)
      <4>1. watch'[w] = IF c.status \in Ended THEN Settled(c.status) ELSE [c EXCEPT !.at = "listen"]
        BY <2>1, <2>2, <2>5 DEF Answer
      <4>2. [c EXCEPT !.at = "listen"].at = "listen"
        BY DEF Call
      <4> QED BY <4>1, <4>2
    <3> QED BY <2>1, <2>2, <3>1 DEF EventsInv, Known
  <2>6. CASE Expire(w)
    BY <2>2, <2>6 DEF Expire
  <2> QED BY <2>3, <2>4, <2>5, <2>6
<1> QED BY <1>1, <1>2, PTL DEF Spec, AnswersHold
=============================================================================
