--------------------------- MODULE EmqDedup_proofs ---------------------------
(***************************************************************************)
(* For any number of callers, any options they use and whatever else        *)
(* happens: no two jobs of one deduplication id are unfinished together,   *)
(* a key that does not expire is not left with a job that is over, and     *)
(* what was stashed for after its job is not lost.                         *)
(*                                                                         *)
(* The first is not inductive: that the job an add inserts is the only     *)
(* one is known by the unique index on deduplication_id, and the index     *)
(* forgets a job whose deduplication_id was cleared.  What is kept is that *)
(* an unfinished job has the live row of the key, or has lost it (Owned).  *)
(*                                                                         *)
(* The other two (KInv) need that ids do not run out (Bound: what is made, *)
(* being made or stashed was paid for by an add) and that two transactions *)
(* never read one key for different ends (Reads).                          *)
(***************************************************************************)
EXTENDS EmqDedup, FiniteSetTheorems, TLAPS

JobType  == [state : Existing \union {"none", "gone"}, keyed : BOOLEAN, data : Nat]
KeyType  == [job : Nat \ {0}, expires : {"never", "later", "past"}, keep : BOOLEAN,
             pending : Nat, opts : SUBSET Options]
AddType  == [n : Nat \ {0}, opts : Options, holder : Nat, active : BOOLEAN]
DoneType == [job : Id, pending : Nat, opts : SUBSET Options]

\* The types, with no bound on the ids that are given.
Shape ==
  /\ count \in Nat
  /\ job \in [Id -> JobType]
  /\ row \in {NoRow} \union KeyType
  /\ adds \in [Client -> {NoCall} \union AddType]
  /\ finishing \in {Nothing} \union DoneType

\* An unfinished job has the key, or has lost it.
Owned == \A j \in Id : job[j].state \in Unfinished => j \in freed \/ (Live(row) /\ row.job = j)

\* The job of the row has its deduplication_id set.
Keyed == row.job \in Id => job[row.job].keyed

\* A key that has expired is lost.
Past == row \in KeyType /\ row.expires = "past" => row.job \in freed

Holding == Owned /\ Keyed /\ Past

IInv == Shape /\ Holding

-----------------------------------------------------------------------------
(* Rows and jobs.                                                          *)

LEMMA Ids == Id \subseteq Nat \ {0} /\ 0 \notin Id
BY BoundAssumption DEF Id

LEMMA RowIs ==
  ASSUME NEW r \in {NoRow} \union KeyType
  PROVE  /\ NoRow.job = 0 /\ NoRow \notin KeyType
         /\ r.job # 0 => r \in KeyType
         /\ r # NoRow => r \in KeyType
         /\ Live(r) => r \in KeyType
         /\ r \in KeyType => r # NoRow /\ r.job # 0
BY DEF NoRow, KeyType, Live

LEMMA RowForIs ==
  ASSUME NEW j \in Nat \ {0}, NEW o \in Options
  PROVE  RowFor(j, o) \in KeyType /\ RowFor(j, o).job = j /\ RowFor(j, o).expires # "past" /\ Live(RowFor(j, o))
<1>1. o.ttl \in BOOLEAN /\ o.keep \in BOOLEAN
  BY OptionsAssumption DEF OptionsType
<1>2. RowFor(j, o) \in KeyType /\ RowFor(j, o).job = j /\ RowFor(j, o).expires # "past"
  BY <1>1 DEF RowFor, KeyType
<1> QED BY <1>2, RowIs DEF Live

\* What an add does to the key of a job that exists.
LEMMA TouchedIs ==
  ASSUME NEW r \in KeyType, NEW a, a.n \in Nat, a.opts \in Options
  PROVE  /\ Touched(r, a) \in KeyType /\ Touched(r, a).job = r.job
         /\ Touched(r, a).expires = "past" => r.expires = "past"
         /\ Live(r) => Live(Touched(r, a))
<1> DEFINE first == IF a.opts.keep /\ a.active /\ a.opts.place # "wait" THEN r ELSE Extended(r, a.opts)
<1>1. first \in KeyType /\ first.job = r.job /\ (first.expires = "past" => r.expires = "past")
  BY DEF Extended, KeyType
<1>2. ASSUME NEW q \in KeyType
      PROVE  /\ Stashed(q, a.n, a.opts) \in KeyType /\ Stashed(q, a.n, a.opts).job = q.job
             /\ Stashed(q, a.n, a.opts).expires = "never"
  BY DEF Stashed, KeyType
<1>3. Touched(r, a) \in {first, Stashed(first, a.n, a.opts)}
  BY DEF Touched
<1> HIDE DEF first
<1>4. /\ Touched(r, a) \in KeyType /\ Touched(r, a).job = r.job
      /\ Touched(r, a).expires = "past" => r.expires = "past"
  BY <1>1, <1>2, <1>3
<1> QED BY <1>4, RowIs DEF Live

\* What is left of the jobs when the key has been taken from those that have no live row.
LEMMA ClearedIs ==
  ASSUME NEW T \in [Id -> JobType], NEW r \in {NoRow} \union KeyType
  PROVE  /\ Cleared(T, r) \in [Id -> JobType]
         /\ \A j \in Id : Cleared(T, r)[j].state = T[j].state
         /\ \A j \in Id : Live(r) /\ r.job = j => Cleared(T, r)[j].keyed = T[j].keyed
<1>1. ASSUME NEW j \in Id, NEW b \in BOOLEAN
      PROVE  [T[j] EXCEPT !.keyed = b] \in JobType /\ [T[j] EXCEPT !.keyed = b].state = T[j].state
             /\ [T[j] EXCEPT !.keyed = b].keyed = b
  BY DEF JobType
<1>2. \A j \in Id : T[j].keyed \in BOOLEAN
  BY DEF JobType
<1>3. \A j \in Id : Cleared(T, r)[j] = [T[j] EXCEPT !.keyed = (T[j].keyed /\ Live(r) /\ r.job = j)]
  BY DEF Cleared
<1>4. \A j \in Id : (T[j].keyed /\ Live(r) /\ r.job = j) \in BOOLEAN
  BY <1>2
<1>5. \A j \in Id : Live(r) /\ r.job = j => (T[j].keyed /\ Live(r) /\ r.job = j) = T[j].keyed
  BY <1>2
<1> QED BY <1>1, <1>3, <1>4, <1>5 DEF Cleared

LEMMA InsertedIs ==
  ASSUME NEW T \in [Id -> JobType], NEW n \in Nat, NEW o \in Options, NEW d \in Nat
  PROVE  /\ Inserted(T, n, o, d) \in [Id -> JobType]
         /\ \A j \in Id \ {n} : Inserted(T, n, o, d)[j] = T[j]
         /\ n \in Id => Inserted(T, n, o, d)[n].keyed
<1>1. o.place \in {"wait", "prioritized", "delayed"}
  BY OptionsAssumption DEF OptionsType
<1>2. [state |-> o.place, keyed |-> TRUE, data |-> d] \in JobType
  BY <1>1 DEF JobType, Existing, Unfinished
<1> QED BY <1>2 DEF Inserted

\* A job's state changes.
LEMMA StateIs ==
  ASSUME NEW T \in [Id -> JobType], NEW j \in Id, NEW st \in Existing \union {"none", "gone"}
  PROVE  /\ [T EXCEPT ![j].state = st] \in [Id -> JobType]
         /\ [T EXCEPT ![j].state = st][j].state = st
         /\ \A k \in Id : [T EXCEPT ![j].state = st][k].keyed = T[k].keyed
         /\ \A k \in Id \ {j} : [T EXCEPT ![j].state = st][k] = T[k]
<1>1. [T EXCEPT ![j].state = st] = [T EXCEPT ![j] = [T[j] EXCEPT !.state = st]]
  OBVIOUS
<1>2. [T[j] EXCEPT !.state = st] \in JobType /\ [T[j] EXCEPT !.state = st].state = st
      /\ [T[j] EXCEPT !.state = st].keyed = T[j].keyed
  BY DEF JobType
<1> QED BY <1>1, <1>2

-----------------------------------------------------------------------------
(* Steps that add no job.                                                  *)

\* No job becomes unfinished, and the row stays, or goes with a job that is over.
LEMMA LessHeld ==
  ASSUME IInv, job' \in [Id -> JobType],
         \A j \in Id : job'[j].keyed = job[j].keyed,
         \A j \in Id : job'[j].state \in Unfinished => job[j].state \in Unfinished,
         row' = row \/ (row' = NoRow /\ \A j \in Id : row.job = j => job'[j].state \notin Unfinished),
         freed' = freed
  PROVE  Holding'
<1>1. row \in {NoRow} \union KeyType /\ Holding
  BY DEF IInv, Shape
<1>2. Owned'
  BY <1>1, RowIs DEF Holding, Owned, Live
<1>3. Keyed'
  BY <1>1, RowIs, Ids DEF Holding, Keyed
<1>4. Past'
  BY <1>1, RowIs DEF Holding, Past
<1> QED BY <1>2, <1>3, <1>4 DEF Holding

\* The key is touched.
LEMMA Touches ==
  ASSUME IInv, job' = job, freed' = freed, row # NoRow,
         NEW a, a.n \in Nat, a.opts \in Options, row' = Touched(row, a)
  PROVE  row' \in KeyType /\ Holding'
<1>1. row \in KeyType /\ Holding
  BY RowIs DEF IInv, Shape
<1>2. /\ row' \in KeyType /\ row'.job = row.job /\ (row'.expires = "past" => row.expires = "past")
      /\ Live(row) => Live(row')
  BY <1>1, TouchedIs
<1>3. Owned'
  BY <1>1, <1>2 DEF Holding, Owned
<1>4. Keyed'
  BY <1>1, <1>2 DEF Holding, Keyed
<1>5. Past'
  BY <1>1, <1>2 DEF Holding, Past
<1> QED BY <1>2, <1>3, <1>4, <1>5 DEF Holding

\* The types of what an add or a finish has read.
LEMMA CallIs ==
  ASSUME IInv, NEW c \in Client
  PROVE  /\ adds[c] # NoCall => adds[c] \in AddType
         /\ finishing # Nothing => finishing \in DoneType
         /\ [adds EXCEPT ![c] = NoCall] \in [Client -> {NoCall} \union AddType]
BY DEF IInv, Shape

LEMMA CallKept == ASSUME IInv, NEW c \in Client, NEW o \in Options, Call(c, o) PROVE IInv'
<1> DEFINE h == Holder(o)
           a == [n |-> count + 1, opts |-> o, holder |-> h, active |-> h # 0 /\ job[h].state = "active"]
<1>1. /\ count' = count + 1 /\ adds' = [adds EXCEPT ![c] = a] /\ UNCHANGED <<job, row, finishing, freed>>
  BY DEF Call
<1>2. Shape /\ count + 1 \in Nat \ {0}
  BY DEF IInv, Shape
<1>3. h \in Nat
  <2>1. row.job \in Nat
    BY <1>2 DEF Shape, KeyType, NoRow
  <2> QED BY <2>1 DEF Holder
<1>4. (h # 0 /\ job[h].state = "active") \in BOOLEAN
  OBVIOUS
<1> HIDE DEF h
<1>5. \A b \in BOOLEAN : [n |-> count + 1, opts |-> o, holder |-> h, active |-> b] \in AddType
  BY <1>2, <1>3 DEF AddType
<1>6. a \in AddType
  BY <1>4, <1>5
<1> HIDE DEF a
<1>7. Shape'
  BY <1>1, <1>2, <1>6 DEF Shape
<1>8. Holding'
  BY <1>1, <1>2, LessHeld DEF IInv, Shape
<1> QED BY <1>7, <1>8 DEF IInv

\* An add that leaves without writing.
LEMMA LeavesKept ==
  ASSUME IInv, NEW c \in Client, UNCHANGED <<count, job, row, finishing, freed>>,
         adds' = [adds EXCEPT ![c] = NoCall]
  PROVE  IInv'
<1>1. Shape'
  BY CallIs DEF IInv, Shape
<1>2. Holding'
  BY LessHeld DEF IInv, Shape
<1> QED BY <1>1, <1>2 DEF IInv

LEMMA DeduplicatedKept == ASSUME IInv, NEW c \in Client, Deduplicated(c) PROVE IInv'
<1> DEFINE a == adds[c]
<1>1. /\ a # NoCall /\ a.holder # 0 /\ adds' = [adds EXCEPT ![c] = NoCall]
      /\ row' = IF row.job = a.holder THEN Touched(row, a) ELSE row
      /\ UNCHANGED <<count, job, finishing, freed>>
  BY DEF Deduplicated
<1>2. a.n \in Nat /\ a.opts \in Options
  BY <1>1, CallIs DEF AddType
<1>3. CASE row.job = a.holder
  <2>1. row # NoRow
    BY <1>1, <1>3 DEF NoRow
  <2>2. row' \in KeyType /\ Holding'
    BY <1>1, <1>2, <1>3, <2>1, Touches
  <2>3. Shape'
    BY <1>1, <2>2, CallIs DEF IInv, Shape
  <2> QED BY <2>2, <2>3 DEF IInv
<1>4. CASE row.job # a.holder
  BY <1>1, <1>4, LeavesKept
<1> QED BY <1>3, <1>4

-----------------------------------------------------------------------------
(* Steps that add one.                                                     *)

LEMMA AddedKept == ASSUME IInv, NEW c \in Client, Added(c) PROVE IInv'
<1> DEFINE a == adds[c]
           W == Without(a)
           R == RowLeft(a)
           T == Cleared(W, R)
<1>1. /\ a # NoCall /\ Rivals(T) = {} /\ job' = Inserted(T, a.n, a.opts, a.n) /\ row' = RowFor(a.n, a.opts)
      /\ adds' = [adds EXCEPT ![c] = NoCall] /\ UNCHANGED <<count, finishing, freed>>
  BY DEF Added, Writes
<1>2. Shape /\ Holding /\ a.n \in Nat \ {0} /\ a.opts \in Options
  BY <1>1, CallIs DEF IInv, AddType
<1>3. /\ W \in [Id -> JobType]
      /\ \A j \in Id : W[j].state \in Unfinished => j \notin Replaced(a) /\ W[j] = job[j]
  <2>1. \A j \in Id : [job[j] EXCEPT !.state = "gone"] \in JobType /\ [job[j] EXCEPT !.state = "gone"].state = "gone"
    BY <1>2 DEF Shape, JobType
  <2> QED BY <1>2, <2>1 DEF Without, Shape, Unfinished
<1>4. R \in {NoRow} \union KeyType /\ (row.job \notin Replaced(a) => R = row)
  BY <1>2 DEF RowLeft, Shape
<1> HIDE DEF W, R
<1>5. /\ T \in [Id -> JobType]
      /\ \A j \in Id : T[j].state = W[j].state
      /\ \A j \in Id : Live(R) /\ R.job = j => T[j].keyed = W[j].keyed
  BY <1>3, <1>4, ClearedIs
<1>6. \A j \in Id : T[j].state \in Unfinished => j \in freed
  <2>1. SUFFICES ASSUME NEW j \in Id, T[j].state \in Unfinished, j \notin freed PROVE FALSE
    OBVIOUS
  <2>2. j \notin Replaced(a) /\ W[j] = job[j] /\ job[j].state \in Unfinished
    BY <1>3, <1>5, <2>1
  <2>3. Live(row) /\ row.job = j /\ job[j].keyed
    BY <1>2, <2>1, <2>2 DEF Holding, Owned, Keyed
  <2>4. R = row
    BY <1>4, <2>2, <2>3
  <2>5. T[j].keyed
    BY <1>5, <2>2, <2>3, <2>4
  <2> QED BY <1>1, <2>1, <2>5 DEF Rivals
<1> HIDE DEF T
<1>7. /\ job' \in [Id -> JobType] /\ \A j \in Id \ {a.n} : job'[j] = T[j]
      /\ a.n \in Id => job'[a.n].keyed
  BY <1>1, <1>2, <1>5, InsertedIs
<1>8. row' \in KeyType /\ row'.job = a.n /\ row'.expires # "past" /\ Live(row')
  BY <1>1, <1>2, RowForIs
<1>9. Shape'
  BY <1>1, <1>2, <1>7, <1>8, CallIs DEF Shape
<1>10. Owned' /\ Keyed' /\ Past'
  BY <1>1, <1>6, <1>7, <1>8 DEF Owned, Keyed, Past
<1> QED BY <1>9, <1>10 DEF IInv, Holding

LEMMA RequeueKept == ASSUME IInv, Requeue PROVE IInv'
<1> DEFINE j == finishing.job
           n == count + 1
           left == IF row.job = j THEN NoRow ELSE row
           held == Live(left) /\ job[left.job].state \in Existing
<1>1. /\ finishing # Nothing /\ count' = n /\ finishing' = Nothing /\ UNCHANGED <<adds, freed>>
  BY DEF Requeue
<1>2. Shape /\ Holding
  BY DEF IInv
<1>3. j \in Id /\ finishing.pending \in Nat /\ finishing.opts \in SUBSET Options /\ n \in Nat \ {0}
  BY <1>1, <1>2 DEF Shape, DoneType
<1>4. PICK o \in finishing.opts, st \in {"finished", "gone"} :
        LET ended == [job EXCEPT ![j].state = st]
        IN  IF held
            THEN /\ job' = ended
                 /\ row' = Touched(left, [n |-> finishing.pending, opts |-> o,
                                          active |-> ended[left.job].state = "active"])
            ELSE /\ job' = Inserted(Cleared(ended, left), n, o, finishing.pending)
                 /\ row' = RowFor(n, o)
  BY DEF Requeue
<1> DEFINE ended == [job EXCEPT ![j].state = st]
<1>5. /\ ended \in [Id -> JobType] /\ ended[j].state = st
      /\ \A k \in Id : ended[k].keyed = job[k].keyed
      /\ \A k \in Id \ {j} : ended[k] = job[k]
  <2>1. st \in Existing \union {"none", "gone"} /\ job \in [Id -> JobType]
    BY <1>2 DEF Shape, Existing
  <2>2. ASSUME NEW i \in Id
        PROVE  /\ [job EXCEPT ![i].state = st] \in [Id -> JobType] /\ [job EXCEPT ![i].state = st][i].state = st
               /\ \A k \in Id : [job EXCEPT ![i].state = st][k].keyed = job[k].keyed
               /\ \A k \in Id \ {i} : [job EXCEPT ![i].state = st][k] = job[k]
    BY <2>1, StateIs
  <2> HIDE DEF j
  <2> QED BY <1>3, <2>2
<1>6. left \in {NoRow} \union KeyType
  BY <1>2 DEF Shape
<1>7. \A k \in Id : ended[k].state \in Unfinished /\ k \notin freed => left = row /\ left.job = k /\ held
  <2>1. SUFFICES ASSUME NEW k \in Id, ended[k].state \in Unfinished, k \notin freed
                 PROVE  left = row /\ left.job = k /\ held
    OBVIOUS
  <2>2. k # j
    BY <1>5, <2>1 DEF Unfinished
  <2>3. job[k].state \in Unfinished
    BY <1>5, <2>1, <2>2
  <2>4. Live(row) /\ row.job = k
    BY <1>2, <2>1, <2>3 DEF Holding, Owned
  <2> QED BY <2>2, <2>3, <2>4 DEF Existing
<1>8. CASE held
  <2> DEFINE a == [n |-> finishing.pending, opts |-> o, active |-> ended[left.job].state = "active"]
  <2>1. job' = ended /\ row' = Touched(left, a)
    BY <1>4, <1>8
  <2>2. left \in KeyType /\ left = row /\ row.job # j
    BY <1>6, <1>8, RowIs
  <2>3. a.n \in Nat /\ a.opts \in Options
    BY <1>3
  <2> HIDE DEF a, ended
  <2>4. /\ row' \in KeyType /\ row'.job = row.job /\ (row'.expires = "past" => row.expires = "past")
        /\ Live(row)
    BY <1>8, <2>1, <2>2, <2>3, TouchedIs
  <2>5. Live(row')
    BY <1>8, <2>1, <2>2, <2>3, TouchedIs
  <2>6. Shape'
    BY <1>1, <1>2, <1>3, <1>5, <2>1, <2>4 DEF Shape
  <2>7. Owned'
    BY <1>1, <1>7, <2>1, <2>4, <2>5 DEF Owned
  <2>8. Keyed'
    BY <1>2, <1>5, <2>1, <2>4 DEF Holding, Keyed
  <2>9. Past'
    BY <1>1, <1>2, <2>2, <2>4 DEF Holding, Past
  <2> QED BY <2>6, <2>7, <2>8, <2>9 DEF IInv, Holding
<1>9. CASE ~ held
  <2> DEFINE T == Cleared(ended, left)
  <2>1. job' = Inserted(T, n, o, finishing.pending) /\ row' = RowFor(n, o)
    BY <1>4, <1>9
  <2> HIDE DEF ended, left
  <2>2. T \in [Id -> JobType] /\ \A k \in Id : T[k].state = ended[k].state
    BY <1>5, <1>6, ClearedIs
  <2> HIDE DEF T, held
  <2>3. o \in Options
    BY <1>3
  <2>4. /\ job' \in [Id -> JobType] /\ \A k \in Id \ {n} : job'[k] = T[k]
        /\ n \in Id => job'[n].keyed
    BY <1>3, <2>1, <2>2, <2>3, InsertedIs
  <2>5. row' \in KeyType /\ row'.job = n /\ row'.expires # "past" /\ Live(row')
    BY <1>3, <2>1, <2>3, RowForIs
  <2>6. Shape'
    BY <1>1, <1>2, <1>3, <2>4, <2>5 DEF Shape
  <2>7. Owned' /\ Keyed' /\ Past'
    BY <1>1, <1>7, <1>9, <2>2, <2>4, <2>5 DEF Owned, Keyed, Past
  <2> QED BY <2>6, <2>7 DEF IInv, Holding
<1> QED BY <1>8, <1>9

-----------------------------------------------------------------------------
(* Processing, time and commands.                                          *)

\* One job goes to a state that is unfinished only if it was.
LEMMA OneMoves ==
  ASSUME IInv, NEW j \in Id, NEW st \in Existing \union {"gone"},
         st \in Unfinished => job[j].state \in Unfinished,
         job' = [job EXCEPT ![j].state = st], UNCHANGED <<count, adds, freed>>,
         finishing' \in {Nothing} \union DoneType,
         row' = row \/ (row' = NoRow /\ row.job = j /\ st \notin Unfinished)
  PROVE  IInv'
<1>1. Shape
  BY DEF IInv
<1>2. /\ job' \in [Id -> JobType] /\ job'[j].state = st
      /\ \A k \in Id : job'[k].keyed = job[k].keyed
      /\ \A k \in Id \ {j} : job'[k] = job[k]
  BY <1>1, StateIs DEF Shape
<1>3. Holding'
  BY <1>2, LessHeld
<1>4. Shape'
  BY <1>1, <1>2 DEF Shape
<1> QED BY <1>3, <1>4 DEF IInv

LEMMA ClaimKept == ASSUME IInv, NEW j \in Id, Claim(j) PROVE IInv'
<1>1. /\ job' = [job EXCEPT ![j].state = "active"] /\ UNCHANGED <<count, row, adds, finishing, freed>>
      /\ job[j].state \in Unfinished
  BY DEF Claim, Unfinished
<1>2. finishing' \in {Nothing} \union DoneType
  BY <1>1 DEF IInv, Shape
<1> QED BY <1>1, <1>2, OneMoves DEF Existing, Unfinished

LEMMA PutsBackKept == ASSUME IInv, NEW j \in Id, PutsBack(j) PROVE IInv'
<1>1. PICK to \in {"wait", "prioritized", "delayed"} : job' = [job EXCEPT ![j].state = to]
  BY DEF PutsBack
<1>2. UNCHANGED <<count, row, adds, finishing, freed>> /\ job[j].state \in Unfinished
  BY DEF PutsBack, Unfinished
<1>3. finishing' \in {Nothing} \union DoneType
  BY <1>2 DEF IInv, Shape
<1> QED BY <1>1, <1>2, <1>3, OneMoves DEF Existing, Unfinished

LEMMA OverKept == ASSUME IInv, NEW j \in Id, SweepFails(j) \/ RemoveJob(j) PROVE IInv'
<1>1. PICK st \in {"finished", "gone"} : job' = [job EXCEPT ![j].state = st]
  BY DEF SweepFails, RemoveJob
<1>2. UNCHANGED <<count, row, adds, finishing, freed>>
  BY DEF SweepFails, RemoveJob
<1>3. finishing' \in {Nothing} \union DoneType
  BY <1>2 DEF IInv, Shape
<1>4. st \in Existing \union {"gone"} /\ st \notin Unfinished
  BY DEF Existing, Unfinished
<1> QED BY <1>1, <1>2, <1>3, <1>4, OneMoves

LEMMA MoveToFinishedKept == ASSUME IInv, NEW j \in Id, MoveToFinished(j) PROVE IInv'
<1>1. finishing' = [job |-> j, pending |-> Owed(j).n, opts |-> Owed(j).opts] /\ UNCHANGED <<count, job, row, adds, freed>>
  BY DEF MoveToFinished
<1>2. Owed(j).n \in Nat /\ Owed(j).opts \in SUBSET Options
  <2>1. row.job = j => row \in KeyType
    BY RowIs, Ids DEF IInv, Shape
  <2> QED BY <2>1 DEF Owed, KeyType
<1>3. finishing' \in DoneType
  BY <1>1, <1>2 DEF DoneType
<1>4. Shape'
  BY <1>1, <1>3 DEF IInv, Shape
<1>5. Holding'
  BY <1>1, LessHeld DEF IInv, Shape
<1> QED BY <1>4, <1>5 DEF IInv

LEMMA FinishKept == ASSUME IInv, Finish PROVE IInv'
<1> DEFINE j == finishing.job
<1>1. /\ finishing # Nothing /\ row' = Ended(row, j) /\ finishing' = Nothing /\ UNCHANGED <<count, adds, freed>>
  BY DEF Finish
<1>2. PICK st \in {"finished", "gone"} : job' = [job EXCEPT ![j].state = st]
  BY DEF Finish
<1>3. j \in Id
  BY <1>1 DEF IInv, Shape, DoneType
<1>4. st \in Existing \union {"gone"} /\ st \notin Unfinished
  BY DEF Existing, Unfinished
<1>5. row' = row \/ (row' = NoRow /\ row.job = j)
  BY <1>1 DEF Ended
<1> HIDE DEF j
<1> QED BY <1>1, <1>2, <1>3, <1>4, <1>5, OneMoves

LEMMA DeadlockKept == ASSUME IInv, NEW c \in Client, Deadlock(c) PROVE IInv'
<1>1. CASE Fails(c)
  BY <1>1, LeavesKept DEF Fails
<1>2. CASE finishing' = Nothing /\ UNCHANGED <<count, job, row, adds, freed>>
  <2>1. Shape'
    BY <1>2 DEF IInv, Shape
  <2>2. Holding'
    BY <1>2, LessHeld DEF IInv, Shape
  <2> QED BY <2>1, <2>2 DEF IInv
<1> QED BY <1>1, <1>2 DEF Deadlock

LEMMA ExpireKept == ASSUME IInv, Expire PROVE IInv'
<1>1. /\ row # NoRow /\ row' = [row EXCEPT !.expires = "past"] /\ freed' = freed \union {row.job}
      /\ UNCHANGED <<count, job, adds, finishing>>
  BY DEF Expire
<1>2. Shape /\ Holding /\ row \in KeyType
  BY <1>1 DEF IInv, Shape
<1>3. row' \in KeyType /\ row'.job = row.job
  BY <1>1, <1>2 DEF KeyType
<1>4. Shape'
  BY <1>1, <1>2, <1>3 DEF Shape
<1>5. Owned' /\ Keyed' /\ Past'
  BY <1>1, <1>2, <1>3 DEF Holding, Owned, Keyed, Past
<1> QED BY <1>4, <1>5 DEF IInv, Holding

LEMMA RemoveKeyKept == ASSUME IInv, RemoveDeduplicationKey PROVE IInv'
<1>1. /\ row' = NoRow /\ freed' = freed \union {row.job} /\ UNCHANGED <<count, job, adds, finishing>>
  BY DEF RemoveDeduplicationKey
<1>2. Shape /\ Holding
  BY DEF IInv
<1>3. Shape'
  BY <1>1, <1>2 DEF Shape
<1>4. Owned' /\ Keyed' /\ Past'
  BY <1>1, <1>2, RowIs, Ids DEF Holding, Owned, Keyed, Past
<1> QED BY <1>3, <1>4 DEF IInv, Holding

LEMMA DrainKept == ASSUME IInv, Drain PROVE IInv'
<1>1. PICK lists \in {{"wait", "prioritized"}, {"wait", "prioritized", "delayed"}} :
        LET left == [j \in Id |-> IF job[j].state \in lists THEN [job[j] EXCEPT !.state = "gone"] ELSE job[j]]
        IN  job' = left /\ row' = IF row # NoRow /\ left[row.job].state = "gone" THEN NoRow ELSE row
  BY DEF Drain
<1>2. UNCHANGED <<count, adds, finishing, freed>>
  BY DEF Drain
<1>3. Shape
  BY DEF IInv
<1>4. \A j \in Id : LET g == [job[j] EXCEPT !.state = "gone"]
                    IN  g \in JobType /\ g.state = "gone" /\ g.keyed = job[j].keyed
  BY <1>3 DEF Shape, JobType
<1>5. /\ job' \in [Id -> JobType] /\ \A j \in Id : job'[j].keyed = job[j].keyed
      /\ \A j \in Id : job'[j].state = "gone" \/ job'[j] = job[j]
  BY <1>1, <1>3, <1>4 DEF Shape
<1>6. row' = row \/ (row' = NoRow /\ \A j \in Id : row.job = j => job'[j].state \notin Unfinished)
  BY <1>1 DEF Unfinished
<1>7. Holding'
  BY <1>2, <1>5, <1>6, LessHeld DEF Unfinished
<1>8. Shape'
  BY <1>2, <1>3, <1>5, <1>6 DEF Shape
<1> QED BY <1>7, <1>8 DEF IInv

LEMMA ReprocessKept == ASSUME IInv, NEW j \in Id, ReprocessJob(j) PROVE IInv'
<1>1. /\ job' = [job EXCEPT ![j].state = "wait"] /\ UNCHANGED <<count, row, adds, finishing>>
      /\ freed' = IF row.job = j THEN freed ELSE freed \union {j}
  BY DEF ReprocessJob
<1>2. Shape /\ Holding
  BY DEF IInv
<1>3. /\ job' \in [Id -> JobType]
      /\ \A k \in Id : job'[k].keyed = job[k].keyed
      /\ \A k \in Id \ {j} : job'[k] = job[k]
  <2>1. "wait" \in Existing \union {"none", "gone"} /\ job \in [Id -> JobType]
    BY <1>2 DEF Shape, Existing, Unfinished
  <2> QED BY <1>1, <2>1, StateIs
<1>4. row.job = j => j \in freed \/ Live(row)
  <2>1. row.job = j => row \in KeyType /\ row # NoRow
    BY <1>2, RowIs, Ids DEF Shape
  <2> QED BY <1>2, <2>1 DEF Holding, Past, Live
<1>5. Owned'
  BY <1>1, <1>2, <1>3, <1>4 DEF Holding, Owned
<1>6. Keyed' /\ Past'
  BY <1>1, <1>2, <1>3 DEF Holding, Keyed, Past
<1>7. Shape'
  BY <1>1, <1>2, <1>3 DEF Shape
<1> QED BY <1>5, <1>6, <1>7 DEF IInv, Holding

-----------------------------------------------------------------------------
(* The invariant and what follows from it.                                 *)

LEMMA Initially == Init => IInv
<1> SUFFICES ASSUME Init PROVE IInv
  OBVIOUS
<1>1. Shape
  BY DEF Init, Shape, JobType
<1>2. Owned
  BY DEF Init, Owned, Unfinished
<1>3. row = NoRow /\ row \notin KeyType /\ row.job = 0
  BY RowIs DEF Init
<1>4. Keyed /\ Past
  BY <1>3, Ids DEF Keyed, Past
<1> QED BY <1>1, <1>2, <1>4 DEF IInv, Holding

LEMMA Inductive == IInv /\ [Next]_vars => IInv'
<1> SUFFICES ASSUME IInv, [Next]_vars PROVE IInv'
  OBVIOUS
<1>1. CASE UNCHANGED vars
  BY <1>1 DEF vars, IInv, Shape, Holding, Owned, Keyed, Past
<1>2. ASSUME NEW c \in Client, NEW o \in Options, Call(c, o)
      PROVE  IInv'
  BY <1>2, CallKept
<1>3. ASSUME NEW c \in Client, Commits(c)
      PROVE  IInv'
  <2>1. NotReplaced(c) \/ Refused(c) => IInv'
    BY LeavesKept DEF NotReplaced, Refused, Fails
  <2> QED BY <1>3, <2>1, DeduplicatedKept, AddedKept DEF Commits
<1>4. ASSUME NEW j \in Id, Claim(j) \/ MoveToFinished(j)
      PROVE  IInv'
  BY <1>4, ClaimKept, MoveToFinishedKept
<1>5. CASE Finish \/ Requeue
  BY <1>5, FinishKept, RequeueKept
<1>6. ASSUME NEW c \in Client, Deadlock(c)
      PROVE  IInv'
  BY <1>6, DeadlockKept
<1>7. CASE Expire \/ RemoveDeduplicationKey \/ Drain
  BY <1>7, ExpireKept, RemoveKeyKept, DrainKept
<1>8. ASSUME NEW j \in Id, PutsBack(j) \/ SweepFails(j) \/ RemoveJob(j) \/ ReprocessJob(j)
      PROVE  IInv'
  BY <1>8, PutsBackKept, OverKept, ReprocessKept
<1>9. ASSUME NEW c \in Client, AddIsLost(c)
      PROVE  IInv'
  BY <1>9, LeavesKept DEF AddIsLost, Fails
<1> QED BY <1>1, <1>2, <1>3, <1>4, <1>5, <1>6, <1>7, <1>8, <1>9 DEF Next, Work, Commands

\* Of the jobs added under one deduplication id no two are unfinished together unless one has
\* lost the key, for any number of callers and any options they add with.
THEOREM OneJobAtATime == Spec => []OneAtATime
<1>1. Init => IInv
  BY Initially
<1>2. IInv /\ [Next]_vars => IInv'
  BY Inductive
<1>3. IInv => OneAtATime
  BY DEF IInv, Holding, Owned, OneAtATime
<1> QED BY <1>1, <1>2, <1>3, PTL DEF Spec-----------------------------------------------------------------------------
(* The key, its stash, and who has read them.                              *)

\* The adds that are called and have not ended.
Open == {c \in Client : adds[c] # NoCall}

\* What is stashed in the row, and what the finish has read there; none is 0.
RowStash      == IF row = NoRow THEN 0 ELSE row.pending
FinishStash   == IF finishing = Nothing THEN 0 ELSE finishing.pending
Distinct(a, b) == IF a = 0 /\ b = 0 THEN 0 ELSE IF a = b \/ a = 0 \/ b = 0 THEN 1 ELSE 2
Stashes       == Distinct(RowStash, FinishStash)

\* No id is given but to an add or to a stash, and each stash was an add.
Given ==
  /\ IsFiniteSet(Open)
  /\ Cardinality(Open) + Stashes <= count
  /\ count + Cardinality(Open) + Stashes <= 2 * MaxAdds

\* What refers to an id refers to one that was given.
Below ==
  /\ row # NoRow => row.job <= count /\ row.pending <= count /\ (row.pending = 0) = (row.opts = {})
  /\ finishing # Nothing => finishing.pending <= count
  /\ \A c \in Open : adds[c].n <= count /\ adds[c].holder <= count
  /\ \A j \in Id : job[j].data <= count
  /\ stashed \in [n : 0 .. count, job : 0 .. count]

\* The fields only the properties read.
History == happened \subseteq Happens /\ crossed \subseteq Id /\ freed \subseteq Id

\* An id that is not given, or whose add has not ended, is nobody's.
Fresh ==
  /\ \A j \in Id : j > count => job[j].state = "none" /\ job[j].data = 0
  /\ \A c \in Open : adds[c].n \in Id => job[adds[c].n].state = "none"
  /\ \A c, d \in Open : adds[c].n = adds[d].n => c = d

\* Two transactions that have read one key have crossed.
ReadsCross ==
  \A c \in Open : adds[c].holder # 0 =>
    /\ Locked(adds[c].holder) => adds[c].holder \in crossed
    /\ \A d \in Open : adds[d].holder = adds[c].holder => d = c \/ adds[c].holder \in crossed

\* A job that was active when an add read its key is unfinished, and has the key.
ReadsHold ==
  \A c \in Open : adds[c].holder \in Id \ crossed /\ adds[c].active =>
    /\ job[adds[c].holder].state \in Unfinished
    /\ ~adds[c].opts.replace /\ adds[c].holder \notin freed => row.job = adds[c].holder

\* The job that is finishing is active.  When it has a stash to requeue, nobody else can have
\* the key; unless it has crossed, the stash is what the row has.
FinishHolds ==
  finishing # Nothing =>
    /\ job[finishing.job].state = "active"
    /\ finishing.pending # 0 => job[finishing.job].keyed /\ row.job \in {0, finishing.job}
    /\ row.job = finishing.job /\ row.job \notin crossed => finishing.pending = row.pending

\* The job of a row that does not expire, or has a stash, is unfinished.
RowHolds ==
  row # NoRow =>
    /\ row.pending # 0 => row.keep
    /\ (row.expires = "never" \/ row.pending # 0) /\ row.job \notin crossed => job[row.job].state \in Unfinished

\* What is stashed stands in the row of the job it is stashed behind, until it is a job.
StashStands ==
  \/ stashed = NoStash \/ stashed.job \in crossed \union freed
  \/ /\ stashed.n # 0
     /\ \/ row # NoRow /\ row.job = stashed.job /\ row.pending = stashed.n
        \/ \E j \in Id : job[j].data = stashed.n

Bound == Given /\ Below /\ History /\ Fresh
Reads == ReadsCross /\ ReadsHold /\ FinishHolds /\ RowHolds /\ StashStands
KInv  == IInv /\ Bound /\ Reads

\* What holds of what refers to an id.
LEMMA Typed ==
  ASSUME KInv
  PROVE  /\ count \in Nat /\ count <= 2 * MaxAdds /\ 2 * MaxAdds \in Nat
         /\ Stashes \in Nat /\ RowStash \in Nat /\ FinishStash \in Nat
         /\ IsFiniteSet(Open) /\ Cardinality(Open) \in Nat
         /\ \A n \in Nat : n <= count /\ n # 0 => n \in Id
         /\ row # NoRow => row \in KeyType /\ row.job \in Id
         /\ \A c \in Open : adds[c] \in AddType /\ adds[c].n \in Id /\ adds[c].holder \in Id \union {0}
         /\ finishing # Nothing => finishing \in DoneType
<1>1. /\ count \in Nat /\ row \in {NoRow} \union KeyType /\ adds \in [Client -> {NoCall} \union AddType]
      /\ finishing \in {Nothing} \union DoneType
  BY DEF KInv, IInv, Shape
<1>2. MaxAdds \in Nat /\ 2 * MaxAdds \in Nat
  BY BoundAssumption
<1>3. RowStash \in Nat /\ FinishStash \in Nat
  BY <1>1 DEF RowStash, FinishStash, KeyType, DoneType
<1>4. Stashes \in Nat
  BY DEF Stashes, Distinct
<1>5. IsFiniteSet(Open) /\ Cardinality(Open) \in Nat /\ Cardinality(Open) + Stashes <= count
      /\ count + Cardinality(Open) + Stashes <= 2 * MaxAdds
  BY FS_CardinalityType DEF KInv, Bound, Given
<1>6. count <= 2 * MaxAdds
  BY <1>1, <1>2, <1>4, <1>5
<1>7. \A n \in Nat : n <= count /\ n # 0 => n \in Id
  BY <1>1, <1>2, <1>6 DEF Id
<1>8. row # NoRow => row \in KeyType /\ row.job \in Id
  BY <1>1, <1>7 DEF KInv, Bound, Below, KeyType
<1>9. \A c \in Open : adds[c] \in AddType
  BY <1>1 DEF Open
<1>10. \A c \in Open : adds[c].n \in Id /\ adds[c].holder \in Id \union {0}
  BY <1>7, <1>9 DEF KInv, Bound, Below, AddType
<1> QED BY <1>1, <1>2, <1>3, <1>4, <1>5, <1>6, <1>7, <1>8, <1>9, <1>10

\* One add less is open.
LEMMA OpenLess ==
  ASSUME IsFiniteSet(Open), adds \in [Client -> {NoCall} \union AddType], NEW c \in Open,
         adds' = [adds EXCEPT ![c] = NoCall]
  PROVE  /\ Open' = Open \ {c} /\ \A d \in Open' : adds'[d] = adds[d]
         /\ IsFiniteSet(Open') /\ Cardinality(Open') = Cardinality(Open) - 1
<1>1. Open' = Open \ {c} /\ \A d \in Open' : adds'[d] = adds[d]
  BY DEF Open
<1> QED BY <1>1, FS_RemoveElement

\* One is called.
LEMMA OpenMore ==
  ASSUME IsFiniteSet(Open), adds \in [Client -> {NoCall} \union AddType], NEW c \in Client \ Open,
         NEW a \in AddType, a # NoCall, adds' = [adds EXCEPT ![c] = a]
  PROVE  /\ Open' = Open \union {c} /\ adds'[c] = a /\ \A d \in Open : adds'[d] = adds[d]
         /\ IsFiniteSet(Open') /\ Cardinality(Open') = Cardinality(Open) + 1
<1>1. Open' = Open \union {c} /\ adds'[c] = a /\ \A d \in Open : adds'[d] = adds[d]
  BY DEF Open
<1> QED BY <1>1, FS_AddElement

-----------------------------------------------------------------------------
(* Steps that change no key, and no add.                                   *)

\* The row is as it was, expires, or goes when its job has crossed or is over.
RowMoves ==
  \/ row' = row
  \/ row' = NoRow /\ (row.job \in crossed' \union freed' \/ (row.job \in Id /\ job[row.job].state \notin Unfinished))
  \/ /\ row # NoRow /\ row' # NoRow /\ row'.job = row.job /\ row'.pending = row.pending /\ row'.opts = row.opts
     /\ row'.keep = row.keep /\ row'.expires # "never"

LEMMA JobsMove ==
  ASSUME KInv, IInv', UNCHANGED <<count, adds, finishing, stashed>>,
         History', crossed \subseteq crossed', freed \subseteq freed', RowMoves,
         \A k \in Id : \/ job'[k] = job[k]
                       \/ /\ job'[k].keyed = job[k].keyed /\ job'[k].data = job[k].data
                          /\ job[k].state # "none" /\ ~Locked(k)
                          /\ job'[k].state \in Unfinished \/ k \in crossed'
  PROVE  KInv'
<1>1. Open' = Open /\ FinishStash' = FinishStash
  BY DEF Open, FinishStash
<1>2. /\ row' # NoRow => row # NoRow /\ row'.job = row.job /\ row'.pending = row.pending /\ row'.opts = row.opts
                         /\ row'.keep = row.keep /\ (row'.expires = "never" => row.expires = "never")
  BY DEF RowMoves
<1>3. RowStash' \in {0, RowStash}
  BY <1>2 DEF RowStash
<1>4. Stashes' \in Nat /\ Stashes' <= Stashes
  BY <1>1, <1>3, Typed DEF Stashes, Distinct
<1>5. Given'
  BY <1>1, <1>4, Typed DEF KInv, Bound, Given
<1>6. Below'
  BY <1>1, <1>2 DEF KInv, Bound, Below
<1>7. Fresh'
  <2>1. \A j \in Id : job[j].state = "none" => job'[j] = job[j]
    OBVIOUS
  <2> QED BY <1>1, <2>1 DEF KInv, Bound, Fresh
<1>8. ReadsCross'
  BY <1>1 DEF KInv, Reads, ReadsCross, Locked
<1>9. ReadsHold'
  <2> SUFFICES ASSUME NEW c \in Open, adds[c].holder \in Id \ crossed', adds[c].active
               PROVE  /\ job'[adds[c].holder].state \in Unfinished
                      /\ ~adds[c].opts.replace /\ adds[c].holder \notin freed' => row'.job = adds[c].holder
    BY <1>1 DEF ReadsHold
  <2>1. /\ job[adds[c].holder].state \in Unfinished
        /\ ~adds[c].opts.replace /\ adds[c].holder \notin freed => row.job = adds[c].holder
    BY DEF KInv, Reads, ReadsHold
  <2> QED BY <2>1 DEF RowMoves
<1>10. FinishHolds'
  <2> SUFFICES ASSUME finishing # Nothing
               PROVE  /\ job'[finishing.job].state = "active"
                      /\ finishing.pending # 0 => job'[finishing.job].keyed /\ row'.job \in {0, finishing.job}
                      /\ row'.job = finishing.job /\ row'.job \notin crossed' => finishing.pending = row'.pending
    BY DEF FinishHolds
  <2>1. finishing.job \in Id /\ finishing.job # 0 /\ job'[finishing.job] = job[finishing.job]
    BY Typed, Ids DEF DoneType, Locked
  <2>2. row' = NoRow => row'.job = 0
    BY DEF NoRow
  <2>3. /\ job[finishing.job].state = "active"
        /\ finishing.pending # 0 => job[finishing.job].keyed /\ row.job \in {0, finishing.job}
        /\ row.job = finishing.job /\ row.job \notin crossed => finishing.pending = row.pending
    BY DEF KInv, Reads, FinishHolds
  <2> QED BY <1>2, <2>1, <2>2, <2>3
<1>11. RowHolds'
  <2>1. row' # NoRow => row.job \in Id
    BY <1>2, Typed
  <2> QED BY <1>2, <2>1 DEF KInv, Reads, RowHolds
<1>12. StashStands'
  <2>1. CASE stashed = NoStash \/ stashed.job \in crossed \union freed
    BY <2>1 DEF StashStands
  <2>2. CASE stashed.n # 0 /\ \E j \in Id : job[j].data = stashed.n
    BY <2>2 DEF StashStands
  <2>3. CASE /\ stashed.n # 0 /\ row # NoRow /\ row.job = stashed.job /\ row.pending = stashed.n
             /\ stashed.job \notin crossed' \union freed'
    <3>1. row' # NoRow
      BY <2>3 DEF RowMoves, KInv, Reads, RowHolds
    <3> QED BY <1>2, <2>3, <3>1 DEF StashStands
  <2> QED BY <2>1, <2>2, <2>3 DEF KInv, Reads, StashStands
<1> QED BY <1>5, <1>6, <1>7, <1>8, <1>9, <1>10, <1>11, <1>12 DEF KInv, Bound, Reads

\* The state of one job that is not locked changes.
LEMMA OneJobMoves ==
  ASSUME KInv, IInv', NEW j \in Id, NEW st, UNCHANGED <<count, adds, finishing, stashed>>,
         History', crossed \subseteq crossed', freed \subseteq freed', row' = row,
         job' = [job EXCEPT ![j].state = st], job[j].state # "none", ~Locked(j),
         st \in Unfinished \/ j \in crossed'
  PROVE  KInv'
<1>1. job \in [Id -> JobType] /\ job' \in [Id -> JobType]
  BY DEF KInv, IInv, Shape
<1>2. \A k \in Id \ {j} : job'[k] = job[k]
  BY <1>1
<1>3. ASSUME NEW new, new = [job[j] EXCEPT !.state = st]
      PROVE  new.state = st /\ new.keyed = job[j].keyed /\ new.data = job[j].data
  BY <1>1, <1>3 DEF JobType
<1>4. job'[j] = [job[j] EXCEPT !.state = st]
  BY <1>1
<1>5. job'[j].state = st /\ job'[j].keyed = job[j].keyed /\ job'[j].data = job[j].data
  BY <1>3, <1>4
<1>6. RowMoves
  BY DEF RowMoves
<1> QED BY <1>2, <1>5, <1>6, JobsMove

LEMMA ProcessingHolds ==
  ASSUME KInv, IInv', NEW j \in Id, Claim(j) \/ PutsBack(j) \/ SweepFails(j) \/ RemoveJob(j) \/ ReprocessJob(j)
  PROVE  KInv'
<1>1. History
  BY DEF KInv, Bound
<1>2. CASE Claim(j)
  <2>1. ~Locked(j) /\ job[j].state # "none" /\ History' /\ "active" \in Unfinished
    BY <1>1, <1>2 DEF Claim, Locked, History, Unfinished
  <2> QED BY <1>2, <2>1, OneJobMoves DEF Claim
<1>3. CASE PutsBack(j)
  <2>1. ~Locked(j) /\ job[j].state # "none" /\ History'
    BY <1>1, <1>3 DEF PutsBack, Locked, History, Once
  <2>2. PICK to \in {"wait", "prioritized", "delayed"} : job' = [job EXCEPT ![j].state = to]
    BY <1>3 DEF PutsBack
  <2>3. to \in Unfinished
    BY DEF Unfinished
  <2> QED BY <1>3, <2>1, <2>2, <2>3, OneJobMoves DEF PutsBack
<1>4. CASE SweepFails(j)
  <2>1. ~Locked(j) /\ job[j].state # "none" /\ History' /\ j \in crossed'
    BY <1>1, <1>4 DEF SweepFails, Locked, History, Once
  <2> QED BY <1>4, <2>1, OneJobMoves DEF SweepFails
<1>5. CASE RemoveJob(j)
  <2>1. ~Locked(j) /\ job[j].state # "none" /\ History' /\ j \in crossed'
    BY <1>1, <1>5 DEF RemoveJob, History, Once, Existing, Unfinished
  <2> QED BY <1>5, <2>1, OneJobMoves DEF RemoveJob
<1>6. CASE ReprocessJob(j)
  <2>1. job[j].state = "finished" /\ History' /\ "wait" \in Unfinished
    BY <1>1, <1>6 DEF ReprocessJob, History, Once, Unfinished
  <2>2. ~Locked(j)
    BY <2>1 DEF Locked, KInv, Reads, FinishHolds
  <2>3. freed \subseteq freed' /\ crossed \subseteq crossed'
    BY <1>6 DEF ReprocessJob
  <2> QED BY <1>6, <2>1, <2>2, <2>3, OneJobMoves DEF ReprocessJob
<1> QED BY <1>2, <1>3, <1>4, <1>5, <1>6

LEMMA TimeHolds == ASSUME KInv, IInv', Expire \/ RemoveDeduplicationKey PROVE KInv'
<1>1. row # NoRow /\ row \in KeyType /\ row.job \in Id /\ History
  BY Typed DEF Expire, RemoveDeduplicationKey, KInv, Bound
<1>2. CASE Expire
  <2>1. ASSUME NEW new, new = [row EXCEPT !.expires = "past"]
        PROVE  /\ new.job = row.job /\ new.pending = row.pending /\ new.opts = row.opts
               /\ new.keep = row.keep /\ new.expires = "past" /\ new \in KeyType
    BY <1>1, <2>1 DEF KeyType
  <2>2. row' = [row EXCEPT !.expires = "past"]
    BY <1>2 DEF Expire
  <2>3. RowMoves
    BY <1>1, <2>1, <2>2, RowIs DEF RowMoves
  <2>4. History' /\ freed \subseteq freed' /\ crossed \subseteq crossed' /\ job' = job
    BY <1>1, <1>2 DEF Expire, History
  <2> QED BY <1>2, <2>3, <2>4, JobsMove DEF Expire
<1>3. CASE RemoveDeduplicationKey
  <2>1. RowMoves
    BY <1>3 DEF RemoveDeduplicationKey, RowMoves
  <2>2. History' /\ freed \subseteq freed' /\ crossed \subseteq crossed' /\ job' = job
    BY <1>1, <1>3 DEF RemoveDeduplicationKey, History, Once
  <2> QED BY <1>3, <2>1, <2>2, JobsMove DEF RemoveDeduplicationKey
<1> QED BY <1>2, <1>3

LEMMA DrainHolds == ASSUME KInv, IInv', Drain PROVE KInv'
<1>1. PICK lists \in {{"wait", "prioritized"}, {"wait", "prioritized", "delayed"}} :
        LET left == [j \in Id |-> IF job[j].state \in lists THEN [job[j] EXCEPT !.state = "gone"] ELSE job[j]]
        IN  /\ job' = left /\ row' = (IF row # NoRow /\ left[row.job].state = "gone" THEN NoRow ELSE row)
            /\ crossed' = crossed \union {j \in Id : left[j] # job[j]}
  BY DEF Drain
<1>2. UNCHANGED <<count, adds, finishing, stashed, freed>> /\ happened' \subseteq Happens \union happened
  BY DEF Drain, Once
<1>3. job \in [Id -> JobType] /\ History
  BY DEF KInv, IInv, Shape, Bound
<1>4. History' /\ crossed \subseteq crossed'
  BY <1>1, <1>2, <1>3 DEF History
<1>5. ASSUME NEW j \in Id, NEW new, new = [job[j] EXCEPT !.state = "gone"]
      PROVE  new.state = "gone" /\ new.keyed = job[j].keyed /\ new.data = job[j].data
  BY <1>3, <1>5 DEF JobType
<1>6. \A j \in Id : IF job[j].state \in lists THEN job'[j] = [job[j] EXCEPT !.state = "gone"] ELSE job'[j] = job[j]
  BY <1>1
<1>7. \A j \in Id : job[j].state \in lists =>
        job'[j].state = "gone" /\ job'[j].keyed = job[j].keyed /\ job'[j].data = job[j].data
  BY <1>5, <1>6
<1>8. \A j \in Id : job[j].state \in lists => job[j].state # "none" /\ job[j].state # "active" /\ job[j].state # "gone"
  OBVIOUS
<1>9. \A j \in Id : job[j].state \in lists => ~Locked(j) /\ j \in crossed'
  BY <1>1, <1>7, <1>8 DEF Locked, KInv, Reads, FinishHolds
<1>10. RowMoves
  <2>1. CASE row' = NoRow /\ row # NoRow /\ job'[row.job].state = "gone"
    <3>1. row.job \in Id
      BY <2>1, Typed
    <3>2. job[row.job].state \in lists => row.job \in crossed'
      BY <1>9, <3>1
    <3>3. job[row.job].state \notin lists => job[row.job].state \notin Unfinished
      BY <1>6, <2>1, <3>1 DEF Unfinished
    <3> QED BY <2>1, <3>1, <3>2, <3>3 DEF RowMoves
  <2> QED BY <1>1, <2>1 DEF RowMoves
<1> QED BY <1>2, <1>4, <1>6, <1>7, <1>8, <1>9, <1>10, JobsMove

LEMMA MoveToFinishedHolds == ASSUME KInv, IInv', NEW j \in Id, MoveToFinished(j) PROVE KInv'
<1>1. /\ finishing = Nothing /\ job[j].state = "active"
      /\ finishing' = [job |-> j, pending |-> Owed(j).n, opts |-> Owed(j).opts]
      /\ crossed' = crossed \union {k \in {j} : \E c \in Client : adds[c] # NoCall /\ adds[c].holder = k}
      /\ UNCHANGED <<count, job, row, adds, happened, stashed, freed>>
  BY DEF MoveToFinished
<1>2. finishing'.job = j /\ finishing'.pending = Owed(j).n /\ finishing' # Nothing /\ j # 0
  BY <1>1, Ids DEF Nothing
<1>3. row.job = j => row # NoRow
  BY <1>2 DEF NoRow
<1>4. IF row.job = j THEN finishing'.pending = row.pending ELSE finishing'.pending = 0
  BY <1>2, <1>3, Typed DEF Owed, KInv, Reads, RowHolds, KeyType
<1>5. Open' = Open /\ RowStash' = RowStash
  BY <1>1 DEF Open, RowStash
<1>6. FinishStash = 0 /\ FinishStash' \in {0, RowStash}
  BY <1>1, <1>2, <1>3, <1>4 DEF FinishStash, RowStash
<1>7. Stashes' \in Nat /\ Stashes' <= Stashes
  BY <1>5, <1>6, Typed DEF Stashes, Distinct
<1>8. Given'
  BY <1>1, <1>5, <1>7, Typed DEF KInv, Bound, Given
<1>9. Below'
  BY <1>1, <1>3, <1>4, <1>5, Typed DEF KInv, Bound, Below
<1>10. History' /\ Fresh'
  BY <1>1, <1>5 DEF KInv, Bound, History, Fresh
<1>11. ReadsCross'
  BY <1>1, <1>2, <1>5 DEF KInv, Reads, ReadsCross, Locked, Open
<1>12. ReadsHold' /\ RowHolds' /\ StashStands'
  BY <1>1, <1>5 DEF KInv, Reads, ReadsHold, RowHolds, StashStands
<1>13. FinishHolds'
  <2>1. row.job = j => job[j].keyed
    BY DEF KInv, IInv, Holding, Keyed
  <2> QED BY <1>1, <1>2, <1>4, <2>1 DEF FinishHolds
<1> QED BY <1>8, <1>9, <1>10, <1>11, <1>12, <1>13 DEF KInv, Bound, Reads

\* A finish that is aborted has not read.
LEMMA AbortedHolds ==
  ASSUME KInv, IInv', finishing' = Nothing, UNCHANGED <<count, job, row, adds, happened, stashed, crossed, freed>>
  PROVE  KInv'
<1>1. Open' = Open /\ RowStash' = RowStash /\ FinishStash' = 0
  BY DEF Open, RowStash, FinishStash
<1>2. Stashes' \in Nat /\ Stashes' <= Stashes
  BY <1>1, Typed DEF Stashes, Distinct
<1>3. Given'
  BY <1>1, <1>2, Typed DEF KInv, Bound, Given
<1>4. Below' /\ History' /\ Fresh'
  BY <1>1 DEF KInv, Bound, Below, History, Fresh
<1>5. ReadsCross' /\ ReadsHold' /\ RowHolds' /\ StashStands' /\ FinishHolds'
  BY <1>1 DEF KInv, Reads, ReadsCross, ReadsHold, RowHolds, StashStands, FinishHolds, Locked
<1> QED BY <1>3, <1>4, <1>5 DEF KInv, Bound, Reads

\* An add leaves without writing.
LEMMA LeavesHolds ==
  ASSUME KInv, IInv', NEW c \in Open, adds' = [adds EXCEPT ![c] = NoCall], happened' \subseteq Happens,
         UNCHANGED <<count, job, row, finishing, stashed, crossed, freed>>
  PROVE  KInv'
<1>1. /\ Open' = Open \ {c} /\ \A d \in Open' : adds'[d] = adds[d]
      /\ IsFiniteSet(Open') /\ Cardinality(Open') = Cardinality(Open) - 1
  BY Typed, OpenLess DEF KInv, IInv, Shape
<1>2. Stashes' = Stashes
  BY DEF Stashes, RowStash, FinishStash
<1>3. Given'
  BY <1>1, <1>2, Typed DEF KInv, Bound, Given
<1>4. Below' /\ History' /\ Fresh'
  BY <1>1 DEF KInv, Bound, Below, History, Fresh
<1>5. ReadsCross' /\ ReadsHold' /\ RowHolds' /\ StashStands' /\ FinishHolds'
  BY <1>1 DEF KInv, Reads, ReadsCross, ReadsHold, RowHolds, StashStands, FinishHolds, Locked
<1> QED BY <1>3, <1>4, <1>5 DEF KInv, Bound, Reads

-----------------------------------------------------------------------------
(* Adds, and the finish.                                                   *)

LEMMA CallHolds == ASSUME KInv, IInv', NEW c \in Client, NEW o \in Options, Call(c, o) PROVE KInv'
<1> DEFINE h == Holder(o)
           a == [n |-> count + 1, opts |-> o, holder |-> h, active |-> h # 0 /\ job[h].state = "active"]
<1>1. /\ c \notin Open /\ count < MaxAdds /\ count' = count + 1 /\ adds' = [adds EXCEPT ![c] = a]
      /\ crossed' = crossed \union Reading(h) /\ UNCHANGED <<job, row, finishing, happened, stashed, freed>>
  BY DEF Call, Open
<1>2. h = 0 \/ (row # NoRow /\ h = row.job)
  BY DEF Holder, NoRow
<1>3. h \in Id \union {0} /\ (h # 0 => row # NoRow /\ row.job = h)
  BY <1>2, Typed
<1>0. count \in Nat /\ \A j \in Id : j \in Nat
  BY Typed, Ids
<1>4. /\ a.n = count + 1 /\ a.opts = o /\ a.holder = h /\ (a.active => job[h].state = "active")
      /\ a.n # 0 /\ a # NoCall
  <2>1. a.n = count + 1 /\ a.opts = o /\ a.holder = h
    OBVIOUS
  <2>2. a.active = (h # 0 /\ job[h].state = "active")
    OBVIOUS
  <2> HIDE DEF a
  <2>3. a.n # 0
    BY <1>0, <2>1
  <2>4. a # NoCall
    BY <2>3 DEF NoCall
  <2> QED BY <2>1, <2>2, <2>3, <2>4
<1>5. adds'[c] = a /\ adds \in [Client -> {NoCall} \union AddType]
  BY <1>1 DEF KInv, IInv, Shape
<1> HIDE DEF h
<1>6. a \in AddType
  BY <1>4, <1>5 DEF IInv, Shape
<1> HIDE DEF a
<1>7. /\ Open' = Open \union {c} /\ \A d \in Open : adds'[d] = adds[d]
      /\ IsFiniteSet(Open') /\ Cardinality(Open') = Cardinality(Open) + 1
  BY <1>1, <1>4, <1>5, <1>6, Typed, OpenMore
<1>8. Stashes' = Stashes
  BY <1>1 DEF Stashes, RowStash, FinishStash
<1>9. Given'
  BY <1>1, <1>7, <1>8, Typed, BoundAssumption DEF KInv, Bound, Given
<1>10. \A j \in Id : job[j] \in JobType
  BY DEF KInv, IInv, Shape
<1>11. Below'
  <2>1. \A x \in Nat : x <= count => x <= count + 1
    BY Typed
  <2>2. row # NoRow => row.job \in Nat /\ row.pending \in Nat
    BY Typed DEF KeyType
  <2>3. finishing # Nothing => finishing.pending \in Nat
    BY Typed DEF DoneType
  <2>4. \A d \in Open : adds[d].n \in Nat /\ adds[d].holder \in Nat
    BY Typed DEF AddType
  <2>5. \A j \in Id : job[j].data \in Nat
    BY <1>10 DEF JobType
  <2>6. stashed \in [n : 0 .. count + 1, job : 0 .. count + 1]
    BY Typed DEF KInv, Bound, Below
  <2>7. h <= count /\ h \in Nat
    BY <1>3, Typed, Ids DEF KInv, Bound, Below
  <2>8. \A d \in Open' : adds'[d].n <= count + 1 /\ adds'[d].holder <= count + 1
    BY <1>4, <1>5, <1>7, <2>1, <2>4, <2>7, Typed DEF KInv, Bound, Below
  <2>9. \A j \in Id : job[j].data <= count + 1
    BY <2>1, <2>5 DEF KInv, Bound, Below
  <2>10. row # NoRow => row.job <= count + 1 /\ row.pending <= count + 1 /\ (row.pending = 0) = (row.opts = {})
    BY <2>1, <2>2 DEF KInv, Bound, Below
  <2>11. finishing # Nothing => finishing.pending <= count + 1
    BY <2>1, <2>3 DEF KInv, Bound, Below
  <2> QED BY <1>1, <2>6, <2>8, <2>9, <2>10, <2>11 DEF Below
<1>12. Reading(h) \subseteq {h} \ {0}
  BY DEF Reading
<1>13. History'
  BY <1>1, <1>3, <1>12 DEF KInv, Bound, History
<1>14. Fresh'
  <2>1. \A j \in Id : j > count + 1 => j > count
    BY <1>0
  <2>2. \A j \in Id : j > count => job[j].state = "none" /\ job[j].data = 0
    BY DEF KInv, Bound, Fresh
  <2>3. a.n \in Id => job[a.n].state = "none"
    BY <1>4, <2>2, Typed
  <2>4. \A d \in Open : adds[d].n # a.n
    BY <1>4, Typed, Ids DEF KInv, Bound, Below
  <2> QED BY <1>1, <1>5, <1>7, <2>1, <2>2, <2>3, <2>4 DEF KInv, Bound, Fresh
<1>15. ReadsCross'
  <2>1. h # 0 /\ (Locked(h) \/ \E d \in Open : adds[d].holder = h) => h \in crossed'
    BY <1>1 DEF Reading, Open
  <2>2. \A x : Locked(x)' = Locked(x)
    BY <1>1 DEF Locked
  <2> QED BY <1>1, <1>4, <1>5, <1>7, <2>1, <2>2 DEF KInv, Reads, ReadsCross
<1>16. ReadsHold'
  <2>1. ~o.replace => h = 0 \/ h = row.job
    BY <1>3
  <2>2. a.active => job[h].state \in Unfinished
    BY <1>4 DEF Unfinished
  <2>3. \A d \in Open : adds[d].holder \in Id \ crossed /\ adds[d].active =>
          /\ job[adds[d].holder].state \in Unfinished
          /\ ~adds[d].opts.replace /\ adds[d].holder \notin freed => row.job = adds[d].holder
    BY DEF KInv, Reads, ReadsHold
  <2>4. crossed \subseteq crossed'
    BY <1>1
  <2>5. h \in Id => h # 0
    BY Ids
  <2> SUFFICES ASSUME NEW d \in Open', adds'[d].holder \in Id \ crossed', adds'[d].active
               PROVE  /\ job[adds'[d].holder].state \in Unfinished
                      /\ ~adds'[d].opts.replace /\ adds'[d].holder \notin freed => row.job = adds'[d].holder
    BY <1>1 DEF ReadsHold
  <2>6. CASE d = c
    BY <1>4, <1>5, <2>1, <2>2, <2>5, <2>6
  <2>7. CASE d \in Open
    BY <1>7, <2>3, <2>4, <2>7
  <2> QED BY <1>7, <2>6, <2>7
<1>17. RowHolds' /\ StashStands' /\ FinishHolds'
  BY <1>1 DEF KInv, Reads, RowHolds, StashStands, FinishHolds
<1> QED BY <1>9, <1>11, <1>13, <1>14, <1>15, <1>16, <1>17 DEF KInv, Bound, Reads

\* What an add leaves of a stash.
LEMMA TouchedStash ==
  ASSUME NEW r \in KeyType, NEW a, a.n \in Nat, a.opts \in Options
  PROVE  /\ Touched(r, a).opts = IF a.opts.keep /\ a.active THEN {a.opts} ELSE r.opts
         /\ Touched(r, a).pending = IF a.opts.keep /\ a.active THEN a.n ELSE r.pending
         /\ Touched(r, a).keep = IF a.opts.keep /\ a.active THEN TRUE ELSE r.keep
         /\ ~(a.opts.keep /\ a.active) /\ Touched(r, a).expires = "never" => r.expires = "never"
<1>1. ASSUME NEW q, q = Extended(r, a.opts)
      PROVE  /\ q \in KeyType /\ q.opts = r.opts /\ q.pending = r.pending /\ q.keep = r.keep
             /\ q.expires = "never" => r.expires = "never"
  <2>1. CASE a.opts.extend /\ a.opts.ttl
    <3>1. q = [r EXCEPT !.expires = "later"]
      BY <1>1, <2>1 DEF Extended
    <3> QED BY <3>1 DEF KeyType
  <2>2. CASE ~(a.opts.extend /\ a.opts.ttl)
    BY <1>1, <2>2 DEF Extended
  <2> QED BY <2>1, <2>2
<1>2. ASSUME NEW q \in KeyType, NEW p, p = Stashed(q, a.n, a.opts)
      PROVE  p.pending = a.n /\ p.opts = {a.opts} /\ p.keep = TRUE
  BY <1>2 DEF Stashed, KeyType
<1>3. IF a.opts.keep /\ a.active
      THEN Touched(r, a) = Stashed(r, a.n, a.opts) \/ Touched(r, a) = Stashed(Extended(r, a.opts), a.n, a.opts)
      ELSE Touched(r, a) = Extended(r, a.opts)
  BY DEF Touched
<1> QED BY <1>1, <1>2, <1>3

LEMMA DeduplicatedHolds == ASSUME KInv, IInv', NEW c \in Client, Deduplicated(c) PROVE KInv'
<1> DEFINE a == adds[c]
           h == adds[c].holder
           stashes == adds[c].opts.keep /\ adds[c].active
<1>1. /\ c \in Open /\ ~a.opts.replace /\ h # 0 /\ adds' = [adds EXCEPT ![c] = NoCall]
      /\ row' = IF row.job = h THEN Touched(row, a) ELSE row
      /\ stashed' = IF stashes THEN [n |-> a.n, job |-> h] ELSE stashed
      /\ UNCHANGED <<count, job, finishing, happened, crossed, freed>>
  BY DEF Deduplicated, Open
<1>2. a \in AddType /\ a.n \in Id /\ a.n # 0 /\ h \in Id /\ a.n \in Nat /\ a.opts \in Options
  BY <1>1, Typed, Ids DEF AddType
<1>3. a.n <= count /\ h <= count /\ a.n \in 0 .. count /\ h \in 0 .. count
  <2>1. a.n <= count /\ h <= count
    BY <1>1 DEF KInv, Bound, Below
  <2>2. count \in Nat /\ a.n \in Nat /\ h \in Nat
    BY <1>2, Typed, Ids
  <2> HIDE DEF a, h
  <2> QED BY <2>1, <2>2
<1>4. /\ Open' = Open \ {c} /\ \A d \in Open' : adds'[d] = adds[d]
      /\ IsFiniteSet(Open') /\ Cardinality(Open') = Cardinality(Open) - 1
  BY <1>1, Typed, OpenLess DEF KInv, IInv, Shape
<1>5. CASE row.job # h
  <2>1. row' = row
    BY <1>1, <1>5
  <2>2. stashes => h \in crossed \union freed
    BY <1>1, <1>2, <1>5 DEF KInv, Reads, ReadsHold
  <2>3. Stashes' = Stashes
    BY <1>1, <2>1 DEF Stashes, RowStash, FinishStash
  <2>4. Given'
    BY <1>1, <1>4, <2>3, Typed DEF KInv, Bound, Given
  <2>5. stashed' \in [n : 0 .. count, job : 0 .. count]
    BY <1>1, <1>3 DEF KInv, Bound, Below
  <2>6. Below'
    BY <1>1, <1>4, <2>1, <2>5 DEF KInv, Bound, Below
  <2>7. History' /\ Fresh'
    BY <1>1, <1>4 DEF KInv, Bound, History, Fresh
  <2>8. ReadsCross' /\ ReadsHold' /\ RowHolds' /\ FinishHolds'
    BY <1>1, <1>4, <2>1 DEF KInv, Reads, ReadsCross, ReadsHold, RowHolds, FinishHolds, Locked
  <2>9. StashStands'
    BY <1>1, <2>1, <2>2 DEF KInv, Reads, StashStands
  <2> QED BY <2>4, <2>6, <2>7, <2>8, <2>9 DEF KInv, Bound, Reads
<1>6. CASE row.job = h
  <2>1. row # NoRow /\ row \in KeyType
    BY <1>1, <1>6, Typed DEF NoRow
  <2>2. row' = Touched(row, a) /\ row' \in KeyType /\ row'.job = h
    BY <1>1, <1>2, <1>6, <2>1, TouchedIs
  <2>3. row' # NoRow
    BY <2>2, RowIs
  <2>4. /\ row'.opts = (IF stashes THEN {a.opts} ELSE row.opts)
        /\ row'.pending = (IF stashes THEN a.n ELSE row.pending)
        /\ row'.keep = (IF stashes THEN TRUE ELSE row.keep)
        /\ ~stashes /\ row'.expires = "never" => row.expires = "never"
    BY <1>2, <2>1, <2>2, TouchedStash
  <2> HIDE DEF stashes, a, h
  <2>5. Stashes' \in Nat /\ Stashes' <= Stashes + 1
    <3>1. RowStash' \in {RowStash, a.n} /\ FinishStash' = FinishStash
      BY <1>1, <2>1, <2>3, <2>4 DEF RowStash, FinishStash
    <3> QED BY <3>1, Typed DEF Stashes, Distinct
  <2>6. Given'
    BY <1>1, <1>4, <2>5, Typed DEF KInv, Bound, Given
  <2>7. stashed' \in [n : 0 .. count, job : 0 .. count]
    BY <1>1, <1>3 DEF KInv, Bound, Below
  <2>8. Below'
    <3>1. row'.job <= count /\ row'.pending <= count /\ (row'.pending = 0) = (row'.opts = {})
      BY <1>2, <1>3, <2>1, <2>2, <2>4 DEF KInv, Bound, Below
    <3> QED BY <1>1, <1>4, <2>7, <3>1 DEF KInv, Bound, Below
  <2>9. History' /\ Fresh'
    BY <1>1, <1>4 DEF KInv, Bound, History, Fresh
  <2>10. ReadsCross' /\ ReadsHold'
    BY <1>1, <1>4, <1>6, <2>2 DEF KInv, Reads, ReadsCross, ReadsHold, Locked
  <2>11. stashes /\ h \notin crossed => job[h].state \in Unfinished
    BY <1>1, <1>2 DEF KInv, Reads, ReadsHold, stashes, h
  <2>12. RowHolds'
    BY <1>1, <1>6, <2>1, <2>2, <2>4, <2>11 DEF KInv, Reads, RowHolds
  <2>13. Locked(h) => h \in crossed
    BY <1>1 DEF KInv, Reads, ReadsCross, h
  <2>14. FinishHolds'
    BY <1>1, <1>6, <2>2, <2>13 DEF KInv, Reads, FinishHolds, Locked
  <2>15. StashStands'
    <3>1. CASE stashes
      BY <1>1, <1>2, <2>2, <2>3, <2>4, <3>1 DEF StashStands
    <3>2. CASE ~stashes
      BY <1>1, <1>6, <2>2, <2>3, <2>4, <3>2 DEF KInv, Reads, StashStands
    <3> QED BY <3>1, <3>2
  <2> QED BY <2>6, <2>8, <2>9, <2>10, <2>12, <2>14, <2>15 DEF KInv, Bound, Reads
<1> QED BY <1>5, <1>6

\* The row and the job of an add, as they are written.
LEMMA RowForHas ==
  ASSUME NEW j, NEW o \in Options
  PROVE  RowFor(j, o).job = j /\ RowFor(j, o).pending = 0 /\ RowFor(j, o).opts = {}
BY DEF RowFor

LEMMA ClearedHas ==
  ASSUME NEW T \in [Id -> JobType], NEW r
  PROVE  \A j \in Id : Cleared(T, r)[j].data = T[j].data /\ Cleared(T, r)[j].state = T[j].state
<1>1. ASSUME NEW j \in Id, NEW b \in BOOLEAN, NEW new, new = [T[j] EXCEPT !.keyed = b]
      PROVE  new.data = T[j].data /\ new.state = T[j].state
  BY <1>1 DEF JobType
<1>2. \A j \in Id : Cleared(T, r)[j] = [T[j] EXCEPT !.keyed = (T[j].keyed /\ Live(r) /\ r.job = j)]
  BY DEF Cleared
<1>3. \A j \in Id : (T[j].keyed /\ Live(r) /\ r.job = j) \in BOOLEAN
  BY DEF JobType
<1> QED BY <1>1, <1>2, <1>3

LEMMA InsertedHas ==
  ASSUME NEW T \in [Id -> JobType], NEW n \in Id, NEW o \in Options, NEW d
  PROVE  /\ Inserted(T, n, o, d)[n].state \in Unfinished /\ Inserted(T, n, o, d)[n].data = d
         /\ \A j \in Id \ {n} : Inserted(T, n, o, d)[j] = T[j]
<1>1. o.place \in Unfinished
  BY OptionsAssumption DEF OptionsType, Unfinished
<1> QED BY <1>1 DEF Inserted

LEMMA AddedHolds == ASSUME KInv, IInv', NEW c \in Client, Added(c) PROVE KInv'
<1> DEFINE a == adds[c]
           W == Without(a)
           R == RowLeft(a)
           T == Cleared(W, R)
           n == adds[c].n
           o == adds[c].opts
           gone == Replaced(adds[c])
<1>1. /\ c \in Open /\ Rivals(T) = {} /\ job' = Inserted(T, n, o, n) /\ row' = RowFor(n, o) /\ stashed' = NoStash
      /\ adds' = [adds EXCEPT ![c] = NoCall] /\ UNCHANGED <<count, finishing, happened, crossed, freed>>
      /\ \A j \in Id : job[j].keyed => ~Locked(j)
  BY DEF Added, Writes, Open
<1>2. /\ n \in Id /\ n # 0 /\ n \in Nat /\ o \in Options /\ job \in [Id -> JobType] /\ row \in {NoRow} \union KeyType
      /\ a.holder \in Id \union {0}
  BY <1>1, Typed, Ids DEF AddType, KInv, IInv, Shape
<1>3. count \in Nat /\ n <= count /\ job[n].state = "none"
  BY <1>1, <1>2, Typed DEF KInv, Bound, Below, Fresh
<1>4. /\ Open' = Open \ {c} /\ \A d \in Open' : adds'[d] = adds[d]
      /\ IsFiniteSet(Open') /\ Cardinality(Open') = Cardinality(Open) - 1
  BY <1>1, Typed, OpenLess DEF KInv, IInv, Shape
<1>5. \A j \in gone : j \in {a.holder} /\ job[j].state = o.place
  BY DEF Replaced, Replaceable
<1>6. o.place \notin {"none", "active"}
  BY <1>2, OptionsAssumption DEF OptionsType
<1>7. /\ W \in [Id -> JobType] /\ \A j \in Id \ gone : W[j] = job[j]
      /\ \A j \in Id : W[j].data = job[j].data
  <2>1. ASSUME NEW j \in Id, NEW new, new = [job[j] EXCEPT !.state = "gone"]
        PROVE  new \in JobType /\ new.data = job[j].data
    BY <1>2, <2>1 DEF JobType
  <2>2. W = [j \in Id |-> IF j \in gone THEN [job[j] EXCEPT !.state = "gone"] ELSE job[j]]
    BY DEF Without
  <2>3. \A j \in Id : W[j] \in JobType /\ W[j].data = job[j].data
    BY <1>2, <2>1, <2>2
  <2> QED BY <2>2, <2>3
<1>8. R \in {NoRow} \union KeyType /\ (row.job \notin gone => R = row)
  BY <1>2 DEF RowLeft
<1> HIDE DEF W, R, gone
<1>9. /\ T \in [Id -> JobType]
      /\ \A j \in Id : T[j].state = W[j].state /\ T[j].data = W[j].data
      /\ \A j \in Id : Live(R) /\ R.job = j => T[j].keyed = W[j].keyed
  BY <1>7, <1>8, ClearedIs, ClearedHas
<1> HIDE DEF T
<1>10. /\ job'[n].state \in Unfinished /\ job'[n].data = n
       /\ \A j \in Id \ {n} : job'[j] = T[j]
  <2> HIDE DEF n, o
  <2> QED BY <1>1, <1>2, <1>9, InsertedHas
<1>11. \A j \in Id \ {n} : job'[j].data = job[j].data /\ (j \notin gone => job'[j].state = job[j].state)
  BY <1>7, <1>9, <1>10
<1>12. row' # NoRow /\ row'.job = n /\ row'.pending = 0 /\ row'.opts = {}
  <2> HIDE DEF n, o
  <2> QED BY <1>1, <1>2, RowForHas DEF NoRow
<1>13. Given'
  <2>1. RowStash' = 0 /\ FinishStash' = FinishStash
    BY <1>1, <1>12 DEF RowStash, FinishStash
  <2>2. Stashes' \in Nat /\ Stashes' <= Stashes
    BY <2>1, Typed DEF Stashes, Distinct
  <2> QED BY <1>1, <1>4, <2>2, Typed DEF KInv, Bound, Given
<1>14. Below'
  <2>1. stashed' \in [n : 0 .. count, job : 0 .. count]
    BY <1>1, <1>3 DEF NoStash
  <2>2. row'.job <= count /\ row'.pending <= count /\ (row'.pending = 0) = (row'.opts = {})
    BY <1>3, <1>12
  <2>3. \A j \in Id : job'[j].data <= count
    BY <1>3, <1>10, <1>11 DEF KInv, Bound, Below
  <2>4. \A d \in Open' : adds'[d].n <= count /\ adds'[d].holder <= count
    BY <1>4 DEF KInv, Bound, Below
  <2>5. finishing # Nothing => finishing.pending <= count
    BY DEF KInv, Bound, Below
  <2> QED BY <1>1, <2>1, <2>2, <2>3, <2>4, <2>5 DEF Below
<1>15. History'
  BY <1>1 DEF KInv, Bound, History
<1>16. Fresh'
  <2>1. \A j \in Id \ {n} : job[j].state = "none" => job'[j].state = "none"
    BY <1>5, <1>6, <1>11
  <2>2. \A j \in Id : j > count => j # n
    BY <1>2, <1>3
  <2>3. \A j \in Id : j > count => job'[j].state = "none" /\ job'[j].data = 0
    BY <1>11, <2>1, <2>2 DEF KInv, Bound, Fresh
  <2>4. \A d \in Open' : d \in Open /\ adds'[d] = adds[d] /\ adds[d].n # n
    BY <1>1, <1>4 DEF KInv, Bound, Fresh
  <2>5. \A d \in Open' : adds'[d].n \in Id => job'[adds'[d].n].state = "none"
    BY <2>1, <2>4 DEF KInv, Bound, Fresh
  <2>6. \A d, e \in Open' : adds'[d].n = adds'[e].n => d = e
    BY <2>4 DEF KInv, Bound, Fresh
  <2> QED BY <1>1, <2>3, <2>5, <2>6 DEF Fresh
<1>17. ReadsCross'
  BY <1>1, <1>4 DEF KInv, Reads, ReadsCross, Locked
<1>18. ReadsHold'
  <2> SUFFICES ASSUME NEW d \in Open', adds'[d].holder \in Id \ crossed, adds'[d].active
               PROVE  /\ job'[adds'[d].holder].state \in Unfinished
                      /\ ~adds'[d].opts.replace /\ adds'[d].holder \notin freed => row'.job = adds'[d].holder
    BY <1>1 DEF ReadsHold
  <2> DEFINE h == adds[d].holder
  <2>1. d \in Open /\ d # c /\ adds'[d] = adds[d] /\ h \in Id \ crossed /\ h # 0 /\ adds[d].active
    BY <1>4, Ids
  <2>2. job[h].state \in Unfinished /\ (~adds[d].opts.replace /\ h \notin freed => row.job = h)
    BY <2>1 DEF KInv, Reads, ReadsHold
  <2>3. h # a.holder
    BY <1>1, <2>1 DEF KInv, Reads, ReadsCross
  <2>4. h # n /\ h \notin gone
    BY <1>3, <1>5, <2>2, <2>3 DEF Unfinished
  <2>5. job'[h].state \in Unfinished
    BY <1>11, <2>1, <2>2, <2>4
  <2>6. ASSUME ~adds[d].opts.replace, h \notin freed
        PROVE  FALSE
    <3>1. row.job = h
      BY <2>2, <2>6
    <3>2. row # NoRow /\ row \in KeyType
      BY <2>1, <3>1, Typed DEF NoRow
    <3>3. Live(row) /\ job[h].keyed
      BY <2>1, <2>6, <3>1, <3>2 DEF Live, KInv, IInv, Holding, Past, Keyed
    <3>4. R = row /\ W[h] = job[h]
      BY <1>7, <1>8, <2>1, <2>4, <3>1
    <3>5. T[h].keyed /\ T[h].state \in Unfinished
      BY <1>9, <2>1, <2>2, <3>1, <3>3, <3>4
    <3> QED BY <1>1, <2>1, <3>5 DEF Rivals
  <2> HIDE DEF h
  <2>7. adds'[d].holder = h /\ adds'[d].opts.replace = adds[d].opts.replace
    BY <2>1 DEF h
  <2> QED BY <2>5, <2>6, <2>7
<1>19. FinishHolds'
  <2> SUFFICES ASSUME finishing # Nothing
               PROVE  /\ job'[finishing.job].state = "active"
                      /\ finishing.pending = 0
                      /\ row'.job # finishing.job
    BY <1>1 DEF FinishHolds
  <2>1. finishing.job \in Id /\ job[finishing.job].state = "active"
    BY Typed DEF KInv, Reads, FinishHolds, DoneType
  <2>2. finishing.pending = 0
    BY <1>1, <2>1 DEF Locked, KInv, Reads, FinishHolds
  <2> QED BY <1>3, <1>5, <1>6, <1>11, <1>12, <2>1, <2>2
<1>20. RowHolds' /\ StashStands'
  BY <1>1, <1>10, <1>12 DEF RowHolds, StashStands
<1> QED BY <1>13, <1>14, <1>15, <1>16, <1>17, <1>18, <1>19, <1>20 DEF KInv, Bound, Reads

LEMMA FinishKeeps == ASSUME KInv, IInv', Finish PROVE KInv'
<1> DEFINE j == finishing.job
<1>1. /\ finishing # Nothing /\ finishing.pending = 0 /\ row' = Ended(row, j) /\ finishing' = Nothing
      /\ UNCHANGED <<count, adds, happened, stashed, crossed, freed>>
  BY DEF Finish
<1>2. PICK st \in {"finished", "gone"} : job' = [job EXCEPT ![j].state = st]
  BY DEF Finish
<1>3. job \in [Id -> JobType] /\ j \in Id /\ job[j].state = "active" /\ j # 0
  BY <1>1, Typed, Ids DEF DoneType, KInv, IInv, Shape, Reads, FinishHolds
<1>4. /\ \A k \in Id \ {j} : job'[k] = job[k]
      /\ \A k \in Id : job'[k].data = job[k].data
  <2>1. ASSUME NEW new, new = [job[j] EXCEPT !.state = st]
        PROVE  new.data = job[j].data
    BY <1>3, <2>1 DEF JobType
  <2> HIDE DEF j
  <2>2. job'[j] = [job[j] EXCEPT !.state = st] /\ \A k \in Id \ {j} : job'[k] = job[k]
    BY <1>2, <1>3
  <2> QED BY <2>1, <2>2
<1>5. /\ row.job # j => row' = row
      /\ row' = row \/ row' = NoRow
      /\ row' # NoRow => row' = row /\ (row.job = j => row.expires # "never")
  BY <1>1 DEF Ended
<1>6. Locked(j) /\ (row.job = j /\ j \notin crossed => row.pending = 0)
  BY <1>1 DEF KInv, Reads, FinishHolds, Locked
<1> HIDE DEF j
<1>7. Open' = Open /\ RowStash' \in {0, RowStash} /\ FinishStash' = 0
  BY <1>1, <1>5 DEF Open, RowStash, FinishStash
<1>8. Stashes' \in Nat /\ Stashes' <= Stashes
  BY <1>7, Typed DEF Stashes, Distinct
<1>9. Given'
  BY <1>1, <1>7, <1>8, Typed DEF KInv, Bound, Given
<1>10. Below' /\ History'
  BY <1>1, <1>4, <1>5, <1>7 DEF KInv, Bound, Below, History
<1>11. Fresh'
  BY <1>1, <1>3, <1>4, <1>7 DEF KInv, Bound, Fresh
<1>12. ReadsCross'
  BY <1>1, <1>7 DEF KInv, Reads, ReadsCross, Locked
<1>13. ReadsHold'
  <2>1. \A c \in Open : adds[c].holder \in Id \ crossed => adds[c].holder # j
    BY <1>3, <1>6, Ids DEF KInv, Reads, ReadsCross
  <2> QED BY <1>1, <1>4, <1>5, <1>7, <2>1 DEF KInv, Reads, ReadsHold
<1>14. RowHolds'
  <2>1. row # NoRow => row.job \in Id
    BY Typed
  <2> QED BY <1>1, <1>4, <1>5, <1>6, <2>1 DEF KInv, Reads, RowHolds
<1>15. FinishHolds'
  BY <1>1 DEF FinishHolds
<1>16. StashStands'
  BY <1>1, <1>4, <1>5, <1>6 DEF KInv, Reads, StashStands
<1> QED BY <1>9, <1>10, <1>11, <1>12, <1>13, <1>14, <1>15, <1>16 DEF KInv, Bound, Reads

\* A stash that is requeued finds no other job with the key: while the job before it is finishing,
\* its deduplication_id keeps every insert away.
LEMMA KeyIsFree ==
  ASSUME KInv, finishing # Nothing, finishing.pending # 0
  PROVE  (IF row.job = finishing.job THEN NoRow ELSE row) = NoRow
<1>1. row.job \in {0, finishing.job} /\ (row # NoRow => row.job # 0)
  BY Typed, Ids DEF KInv, Reads, FinishHolds
<1> QED BY <1>1

LEMMA RequeueHolds == ASSUME KInv, IInv', Requeue PROVE KInv'
<1> DEFINE j == finishing.job
           n == count + 1
           p == finishing.pending
<1>1. /\ finishing # Nothing /\ p # 0 /\ count' = n /\ finishing' = Nothing
      /\ UNCHANGED <<adds, happened, stashed, crossed, freed>>
  BY DEF Requeue
<1>2. ~Live(NoRow)
  BY DEF Live
<1>3. PICK o \in finishing.opts, st \in {"finished", "gone"} :
        job' = Inserted(Cleared([job EXCEPT ![j].state = st], NoRow), n, o, p) /\ row' = RowFor(n, o)
  BY <1>1, <1>2, KeyIsFree DEF Requeue
<1>4. /\ job \in [Id -> JobType] /\ j \in Id /\ job[j].state = "active" /\ j # 0 /\ o \in Options /\ p \in Nat
      /\ count \in Nat /\ p <= count /\ \A k \in Id : k \in Nat
  BY <1>1, Typed, Ids DEF DoneType, KInv, IInv, Shape, Reads, FinishHolds, Bound, Below
<1>5. /\ row.job \in {0, j} /\ Locked(j)
      /\ row.job = j /\ row.job \notin crossed => p = row.pending
  BY <1>1 DEF KInv, Reads, FinishHolds, Locked
<1>6. Stashes >= 1 /\ Stashes \in Nat
  <2>1. FinishStash # 0
    BY <1>1 DEF FinishStash
  <2> QED BY <2>1, Typed DEF Stashes, Distinct
<1>7. n \in Id /\ n # 0 /\ n \in Nat
  <2>1. n <= 2 * MaxAdds
    BY <1>6, Typed DEF KInv, Bound, Given
  <2> QED BY <1>4, <2>1, Typed DEF Id
<1>8. job[n].state = "none" /\ job[n].data = 0
  <2>1. n > count
    BY <1>4
  <2> HIDE DEF n
  <2> QED BY <1>7, <2>1 DEF KInv, Bound, Fresh
<1> DEFINE E == [job EXCEPT ![j].state = st]
<1>9. /\ E \in [Id -> JobType] /\ \A k \in Id \ {j} : E[k] = job[k]
      /\ \A k \in Id : E[k].data = job[k].data
  <2>1. ASSUME NEW new, new = [job[j] EXCEPT !.state = st]
        PROVE  new.data = job[j].data /\ new \in JobType
    BY <1>4, <2>1 DEF JobType, Existing, Unfinished
  <2> HIDE DEF j
  <2>2. E[j] = [job[j] EXCEPT !.state = st] /\ \A k \in Id \ {j} : E[k] = job[k]
    BY <1>4
  <2> QED BY <1>4, <2>1, <2>2
<1> HIDE DEF E
<1> DEFINE T == Cleared(E, NoRow)
<1>10. T \in [Id -> JobType] /\ \A k \in Id : T[k].data = E[k].data /\ T[k].state = E[k].state
  BY <1>9, ClearedIs, ClearedHas
<1>11. job' = Inserted(T, n, o, p)
  BY <1>3 DEF E
<1> HIDE DEF T, n, p, j
<1>12. /\ job'[n].state \in Unfinished /\ job'[n].data = p
       /\ \A k \in Id \ {n} : job'[k].data = job[k].data /\ (k # j => job'[k].state = job[k].state)
  BY <1>4, <1>7, <1>9, <1>10, <1>11, InsertedHas
<1>13. row' # NoRow /\ row'.job = n /\ row'.pending = 0 /\ row'.opts = {}
  BY <1>3, <1>4, <1>7, RowForHas DEF NoRow
<1>14. Open' = Open /\ Stashes' = 0
  BY <1>1, <1>13 DEF Open, Stashes, RowStash, FinishStash, Distinct
<1>15. Given'
  BY <1>1, <1>4, <1>6, <1>14, Typed DEF KInv, Bound, Given, n
<1>16. Below'
  <2>1. \A x \in Nat : x <= count => x <= n
    BY <1>4 DEF n
  <2>2. stashed' \in [n : 0 .. count', job : 0 .. count']
    BY <1>1, <1>4 DEF KInv, Bound, Below, n
  <2>3. row'.job <= count' /\ row'.pending <= count' /\ (row'.pending = 0) = (row'.opts = {})
    BY <1>1, <1>7, <1>13
  <2>4. \A k \in Id : job[k].data \in Nat
    BY <1>4 DEF JobType
  <2>5. \A k \in Id : job'[k].data <= count'
    BY <1>1, <1>4, <1>12, <2>1, <2>4 DEF KInv, Bound, Below
  <2>6. \A d \in Open : adds[d].n \in Nat /\ adds[d].holder \in Nat
    BY Typed DEF AddType
  <2>7. \A d \in Open' : adds'[d].n <= count' /\ adds'[d].holder <= count'
    BY <1>1, <1>14, <2>1, <2>6 DEF KInv, Bound, Below
  <2> QED BY <1>1, <2>2, <2>3, <2>5, <2>7 DEF Below
<1>17. History'
  BY <1>1 DEF KInv, Bound, History
<1>18. Fresh'
  <2>1. \A k \in Id : k > n => k > count /\ k # n
    BY <1>4 DEF n
  <2>2. \A k \in Id \ {n} : job[k].state = "none" => job'[k].state = "none"
    BY <1>4, <1>12
  <2>3. \A k \in Id : k > n => job'[k].state = "none" /\ job'[k].data = 0
    BY <1>12, <2>1, <2>2 DEF KInv, Bound, Fresh
  <2>4. \A d \in Open : adds[d].n # n
    BY <1>4, Typed, Ids DEF KInv, Bound, Below, n
  <2>5. \A d \in Open : adds[d].n \in Id => job'[adds[d].n].state = "none"
    BY <2>2, <2>4 DEF KInv, Bound, Fresh
  <2> QED BY <1>1, <1>14, <2>3, <2>5 DEF KInv, Bound, Fresh
<1>19. ReadsCross'
  BY <1>1, <1>14 DEF KInv, Reads, ReadsCross, Locked
<1>20. ReadsHold'
  <2> SUFFICES ASSUME NEW d \in Open, adds[d].holder \in Id \ crossed, adds[d].active
               PROVE  /\ job'[adds[d].holder].state \in Unfinished
                      /\ adds[d].opts.replace \/ adds[d].holder \in freed
    BY <1>1, <1>14 DEF ReadsHold
  <2>1. /\ job[adds[d].holder].state \in Unfinished
        /\ ~adds[d].opts.replace /\ adds[d].holder \notin freed => row.job = adds[d].holder
    BY DEF KInv, Reads, ReadsHold
  <2>2. adds[d].holder # j /\ adds[d].holder # 0 /\ adds[d].holder # n
    BY <1>5, <1>8, <2>1, Ids DEF KInv, Reads, ReadsCross, Unfinished
  <2> QED BY <1>5, <1>12, <2>1, <2>2
<1>21. RowHolds' /\ FinishHolds'
  BY <1>1, <1>12, <1>13 DEF RowHolds, FinishHolds
<1>22. StashStands'
  <2>1. CASE stashed = NoStash \/ stashed.job \in crossed \union freed
    BY <1>1, <2>1 DEF StashStands
  <2>2. CASE stashed.n # 0 /\ \E k \in Id : job[k].data = stashed.n
    BY <1>1, <1>8, <1>12, <2>2 DEF StashStands
  <2>3. CASE /\ stashed.n # 0 /\ row # NoRow /\ row.job = stashed.job /\ row.pending = stashed.n
             /\ stashed.job \notin crossed
    <3>1. row.job = j
      BY <1>5, <2>3, Typed, Ids
    <3> QED BY <1>1, <1>5, <1>7, <1>12, <2>3, <3>1 DEF StashStands
  <2> QED BY <2>1, <2>2, <2>3 DEF KInv, Reads, StashStands
<1> QED BY <1>15, <1>16, <1>17, <1>18, <1>19, <1>20, <1>21, <1>22 DEF KInv, Bound, Reads

-----------------------------------------------------------------------------
(* The ids, the key and its stash.                                         *)

LEMMA KInitially == Init => KInv
<1> SUFFICES ASSUME Init PROVE KInv
  OBVIOUS
<1>1. Open = {} /\ RowStash = 0 /\ FinishStash = 0
  BY DEF Init, Open, RowStash, FinishStash
<1>2. IsFiniteSet(Open) /\ Cardinality(Open) = 0 /\ Stashes = 0
  BY <1>1, FS_EmptySet DEF Stashes, Distinct
<1>3. Given
  BY <1>2, BoundAssumption DEF Init, Given
<1>4. Below
  BY <1>1 DEF Init, Below, NoStash
<1>5. History /\ Fresh
  BY <1>1 DEF Init, History, Fresh
<1>6. Reads
  BY <1>1 DEF Init, Reads, ReadsCross, ReadsHold, FinishHolds, RowHolds, StashStands
<1> QED BY <1>3, <1>4, <1>5, <1>6, Initially DEF KInv, Bound

LEMMA KInductive == KInv /\ [Next]_vars => KInv'
<1> SUFFICES ASSUME KInv, [Next]_vars PROVE KInv'
  OBVIOUS
<1>1. IInv'
  BY Inductive DEF KInv
<1>2. CASE UNCHANGED vars
  <2>1. /\ UNCHANGED <<count, job, row, adds, finishing, happened, stashed, crossed, freed>>
        /\ Open' = Open /\ Stashes' = Stashes
    BY <1>2 DEF vars, Open, Stashes, RowStash, FinishStash
  <2>2. Bound'
    BY <2>1 DEF KInv, Bound, Given, Below, History, Fresh
  <2>3. Reads'
    BY <2>1 DEF KInv, Reads, ReadsCross, ReadsHold, FinishHolds, RowHolds, StashStands, Locked
  <2> QED BY <1>1, <2>2, <2>3 DEF KInv
<1>3. ASSUME NEW c \in Client, NEW o \in Options, Call(c, o)
      PROVE  KInv'
  BY <1>1, <1>3, CallHolds
<1>4. ASSUME NEW c \in Client, Commits(c) \/ AddIsLost(c)
      PROVE  KInv'
  <2>1. CASE NotReplaced(c) \/ Refused(c) \/ AddIsLost(c)
    <3>1. /\ c \in Open /\ adds' = [adds EXCEPT ![c] = NoCall] /\ happened' \subseteq happened \union Happens
          /\ UNCHANGED <<count, job, row, finishing, stashed, crossed, freed>>
      BY <2>1 DEF NotReplaced, Refused, Writes, AddIsLost, Fails, Once, Open
    <3>2. happened' \subseteq Happens
      BY <3>1 DEF KInv, Bound, History
    <3> QED BY <1>1, <3>1, <3>2, LeavesHolds
  <2> QED BY <1>1, <1>4, <2>1, DeduplicatedHolds, AddedHolds DEF Commits
<1>5. ASSUME NEW j \in Id, Claim(j) \/ PutsBack(j) \/ SweepFails(j) \/ RemoveJob(j) \/ ReprocessJob(j)
      PROVE  KInv'
  BY <1>1, <1>5, ProcessingHolds
<1>6. ASSUME NEW j \in Id, MoveToFinished(j)
      PROVE  KInv'
  BY <1>1, <1>6, MoveToFinishedHolds
<1>7. CASE Finish \/ Requeue
  BY <1>1, <1>7, FinishKeeps, RequeueHolds
<1>8. ASSUME NEW c \in Client, Deadlock(c)
      PROVE  KInv'
  <2>1. CASE Fails(c) /\ UNCHANGED happened
    <3>1. /\ c \in Open /\ adds' = [adds EXCEPT ![c] = NoCall] /\ happened' \subseteq Happens
          /\ UNCHANGED <<count, job, row, finishing, stashed, crossed, freed>>
      BY <1>8, <2>1 DEF Deadlock, Fails, Open, KInv, Bound, History
    <3> QED BY <1>1, <3>1, LeavesHolds
  <2>2. CASE finishing' = Nothing /\ UNCHANGED <<count, job, row, adds, happened, stashed, crossed, freed>>
    BY <1>1, <2>2, AbortedHolds
  <2> QED BY <1>8, <2>1, <2>2 DEF Deadlock
<1>9. CASE Expire \/ RemoveDeduplicationKey \/ Drain
  BY <1>1, <1>9, TimeHolds, DrainHolds
<1> QED BY <1>2, <1>3, <1>4, <1>5, <1>6, <1>7, <1>8, <1>9 DEF Next, Work, Commands

LEMMA KeyIsTyped == KInv => TypeOK
<1> SUFFICES ASSUME KInv PROVE TypeOK
  OBVIOUS
<1>1. /\ Shape /\ Below /\ History /\ (\A n \in Nat : n <= count => n \in Id \union {0})
      /\ count \in 0 .. 2 * MaxAdds
  BY Typed DEF KInv, IInv, Bound
<1>2. job \in [Id -> [state : Existing \union {"none", "gone"}, keyed : BOOLEAN, data : Id \union {0}]]
  <2>1. \A j \in Id : job[j].data \in Id \union {0}
    BY <1>1 DEF Shape, Below, JobType
  <2> QED BY <1>1, <2>1 DEF Shape, JobType
<1>3. row \in RowType /\ (row # NoRow => (row.pending = 0) = (row.opts = {}))
  <2>1. row # NoRow => row \in KeyType /\ row.job \in Id /\ row.pending \in Id \union {0}
    BY <1>1, Typed DEF Below, KeyType
  <2> QED BY <1>1, <2>1 DEF Below, RowType, KeyType
<1>4. adds \in [Client -> CallType]
  <2>1. \A c \in Client : adds[c] = NoCall \/ (adds[c] \in AddType /\ adds[c].n \in Id /\ adds[c].holder \in Id \union {0})
    BY Typed DEF Open
  <2> QED BY <1>1, <2>1 DEF Shape, CallType, AddType
<1>5. finishing \in {Nothing} \union [job : Id, pending : Id \union {0}, opts : SUBSET Options]
  BY <1>1, Typed DEF Below, DoneType
<1>6. stashed \in [n : Id \union {0}, job : Id \union {0}]
  BY <1>1, Typed DEF Below
<1> QED BY <1>1, <1>2, <1>3, <1>4, <1>5, <1>6 DEF TypeOK, History

\* The row of the key stays for ever only where a job still has it, and no id is given twice, for
\* any number of callers and any options they add with.
THEOREM KeyEndsWithItsJob == Spec => []KeyOK
<1>1. KInv => KeyOK
  BY KeyIsTyped DEF KeyOK, KeyEnds, KInv, Reads, RowHolds
<1> QED BY <1>1, KInitially, KInductive, PTL DEF Spec

\* What keepLastIfActive has stashed stays in the row until it is a job of its own: the requeue, the
\* finishes and the adds of others do not lose it.
THEOREM StashIsNotLost == Spec => []StashHeld
<1>1. KInv => StashHeld
  BY DEF StashHeld, KInv, Reads, StashStands
<1> QED BY <1>1, KInitially, KInductive, PTL DEF Spec
=============================================================================
