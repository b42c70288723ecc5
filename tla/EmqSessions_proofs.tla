------------------------- MODULE EmqSessions_proofs -------------------------
(***************************************************************************)
(* The sessions of the database: those that run the procedures at once     *)
(* (EmqStatements), and the one that listens (EmqListener).                *)
(*                                                                         *)
(* What the advisory lock keeps, for any number of sessions and jobs and    *)
(* for all calls but emq_move_to_delayed_v1, which does not take it.  The   *)
(* argument is that of a critical section.  A fetch or a finish that is     *)
(* past its lock holds it, so what it has tested there no other session     *)
(* makes false: the rows that others write are never active, and their      *)
(* attempts_started do not grow (Quiet).  Two transactions never write the  *)
(* same row (Apart).                                                        *)
(*                                                                         *)
(* And what the procedures that take the lock do to a lease is what         *)
(* JobLease says, beside clients that add, promote, pause and resume: what  *)
(* each transaction has written so far is one step of JobLease for each     *)
(* row, if it were to commit now (LInv), and the commits of the others keep *)
(* it so (Steady).                                                          *)
(*                                                                         *)
(* And for every set of channels, every number of clients and whatever      *)
(* happens: the pool loses no client, and what the manager takes for        *)
(* listened to is.  No client is lost because there is none when the pool   *)
(* is asked for one: Alone.  And a channel that is subscribed to is heard   *)
(* on the wired client, or a replay or a subscribe has it still to do:      *)
(* Covered, which is more than the manager's set listening says, and        *)
(* inductive where what it says is not.                                     *)
(***************************************************************************)
EXTENDS EmqStatements, EmqListener, FiniteSetTheorems, TLAPS

-----------------------------------------------------------------------------
(* The procedures, statement by statement (EmqStatements).                 *)


Statement == {"lock", "paused", "due", "ready", "gate", "claim", "holds", "settle", "fail", "expired", "sweep",
              "insert", "promote", "flag", "move", "unlocked", "delete"}

\* What is left of a program.
Suffix(left, P) ==
  /\ left \in Seq(Statement) /\ Len(left) <= Len(P)
  /\ \A i \in 1 .. Len(left) : left[i] = P[Len(P) - Len(left) + i]

Rows == UNION {[S -> Row] : S \in SUBSET Job}

Tx == [call : (Calls \ {"delay"}) \union {"none"}, left : Seq(Statement),
       j : Job \union {NoJob}, token : Token \union {NoToken}, paused : BOOLEAN, rows : SUBSET Job, mine : Rows, claims : {0, 1}]

TypeOK ==
  /\ job \in [Job -> Row] /\ paused \in BOOLEAN /\ rate \in Nat /\ lock \in Session \union {NoSession}
  /\ tx \in [Session -> Tx]
  /\ \A s \in Session :
       /\ IF tx[s].call = "none" THEN tx[s].left = <<>> ELSE Suffix(tx[s].left, Program(tx[s].call))
       /\ tx[s].call \in {"finish", "retry", "add", "promote"} => tx[s].j \in Job

\* How many statements the transaction has before it.
Place(s) == Len(tx[s].left)

\* A fetch or a finish that is past its lock.
Locked(s) == \/ tx[s].call = "fetch" /\ Place(s) <= 4
             \/ tx[s].call = "finish" /\ Place(s) <= 7

\* It is about to claim.
Claiming(s) == tx[s].call \in {"fetch", "finish"} /\ Place(s) = 1

\* What the transaction has written makes no job active and starts none.
QuietRow(r, j) == r.state # "active" /\ r.started <= job[j].started
Quiet(s)       == \A j \in DOMAIN tx[s].mine : QuietRow(tx[s].mine[j], j)

Apart == \A s, o \in Session : s # o => DOMAIN tx[s].mine \intersect DOMAIN tx[o].mine = {}

\* The cap, from the gate to the commit.
CapInv(s) ==
  /\ Quiet(s) \/ (Locked(s) /\ Place(s) = 0 /\ Cardinality(Live(View(s))) <= Concurrency)
  /\ Claiming(s) => Cardinality(Live(View(s))) < Concurrency

\* The limiter, from the gate to the commit.
RateInv(s) ==
  /\ tx[s].claims = 1 => Locked(s) /\ Place(s) = 0 /\ rate < RateMax
  /\ Claiming(s) /\ RateMax > 0 => rate < RateMax

\* The token, from its test to the write.
HoldInv(s) ==
  tx[s].call = "finish" =>
    /\ Place(s) >= 6 => DOMAIN tx[s].mine = {}
    /\ Place(s) = 6 /\ job[tx[s].j].state = "active" => job[tx[s].j].token = tx[s].token

Keeps(s) == (Locked(s) => lock = s) /\ CapInv(s) /\ RateInv(s) /\ HoldInv(s)

IInv == TypeOK /\ WithinRate /\ Apart /\ \A s \in Session : Keeps(s)

-----------------------------------------------------------------------------
(* Programs and rows.                                                      *)

\* What a statement leaves of the program.
LEMMA SuffixTail ==
  ASSUME NEW P \in Seq(Statement), NEW left, Suffix(left, P), left # <<>>
  PROVE  /\ Suffix(Tail(left), P) /\ Len(Tail(left)) = Len(left) - 1 /\ Suffix(<<>>, P) /\ Len(left) \in Nat \ {0}
         /\ Len(P) - Len(left) + 1 \in 1 .. Len(P) /\ Head(left) = P[Len(P) - Len(left) + 1]
<1>1. left \in Seq(Statement) /\ Len(left) <= Len(P) /\ Len(left) \in Nat \ {0} /\ Len(P) \in Nat
  BY DEF Suffix
<1>2. Tail(left) \in Seq(Statement) /\ Len(Tail(left)) = Len(left) - 1 /\ Head(left) = left[1]
  BY <1>1
<1>3. \A i \in 1 .. Len(Tail(left)) : Tail(left)[i] = P[Len(P) - Len(Tail(left)) + i]
  <2>1. TAKE i \in 1 .. Len(Tail(left))
  <2>2. Tail(left)[i] = left[i + 1] /\ i + 1 \in 1 .. Len(left)
    BY <1>1, <1>2
  <2>3. left[i + 1] = P[Len(P) - Len(left) + (i + 1)]
    BY <2>2 DEF Suffix
  <2>4. Len(P) - Len(left) + (i + 1) = Len(P) - Len(Tail(left)) + i
    BY <1>1, <1>2
  <2> QED BY <2>2, <2>3, <2>4
<1>4. Suffix(<<>>, P)
  BY <1>1 DEF Suffix
<1>5. Head(left) = P[Len(P) - Len(left) + 1] /\ Len(P) - Len(left) + 1 \in 1 .. Len(P)
  BY <1>1, <1>2 DEF Suffix
<1> QED BY <1>1, <1>2, <1>3, <1>4, <1>5 DEF Suffix

\* Where each statement is in the programs.
LEMMA Programs ==
  ASSUME NEW what \in Calls \ {"delay"}, NEW P, P = Program(what), NEW k \in 1 .. Len(P),
         NEW n, n = Len(P) - k + 1
  PROVE  /\ what = "fetch" /\ P[k] = "lock" => n = 5
         /\ what = "finish" /\ P[k] = "lock" => n = 8
         /\ what = "fetch" /\ n = 5 => P[k] = "lock"
         /\ what = "finish" /\ n = 8 => P[k] = "lock"
         /\ what = "finish" /\ n = 7 => P[k] = "holds"
         /\ what \in {"fetch", "finish"} /\ n = 2 => P[k] = "gate"
         /\ P[k] = "claim" => what \in {"fetch", "finish"} /\ n = 1
         /\ P[k] = "gate" => what \in {"fetch", "finish"} /\ n = 2
         /\ P[k] = "settle" => what = "retry" \/ (what = "finish" /\ n = 6)
         /\ P[k] = "holds" => what = "retry" \/ (what = "finish" /\ n = 7)
         /\ P[k] = "insert" => what = "add"
         /\ P[k] = "promote" => what = "promote"
<1>1. CASE what = "fetch"
  <2>1. P = <<"paused", "lock", "due", "ready", "gate", "claim">>
    BY <1>1 DEF Program
  <2>2. /\ Len(P) = 6 /\ P[1] = "paused" /\ P[2] = "lock"
        /\ P[3] = "due" /\ P[4] = "ready" /\ P[5] = "gate"
        /\ P[6] = "claim"
    BY <2>1
  <2>3. n = 7 - k /\ k \in 1 .. 6
    BY <2>2
  <2>4. \/ n = 6 /\ P[k] = "paused"
        \/ n = 5 /\ P[k] = "lock"
        \/ n = 4 /\ P[k] = "due"
        \/ n = 3 /\ P[k] = "ready"
        \/ n = 2 /\ P[k] = "gate"
        \/ n = 1 /\ P[k] = "claim"
    BY <2>2, <2>3
  <2> QED BY <1>1, <2>4
<1>2. CASE what = "finish"
  <2>1. P = <<"lock", "holds", "settle", "paused", "due", "ready", "gate", "claim">>
    BY <1>2 DEF Program
  <2>2. /\ Len(P) = 8 /\ P[1] = "lock" /\ P[2] = "holds"
        /\ P[3] = "settle" /\ P[4] = "paused" /\ P[5] = "due"
        /\ P[6] = "ready" /\ P[7] = "gate" /\ P[8] = "claim"
    BY <2>1
  <2>3. n = 9 - k /\ k \in 1 .. 8
    BY <2>2
  <2>4. \/ n = 8 /\ P[k] = "lock"
        \/ n = 7 /\ P[k] = "holds"
        \/ n = 6 /\ P[k] = "settle"
        \/ n = 5 /\ P[k] = "paused"
        \/ n = 4 /\ P[k] = "due"
        \/ n = 3 /\ P[k] = "ready"
        \/ n = 2 /\ P[k] = "gate"
        \/ n = 1 /\ P[k] = "claim"
    BY <2>2, <2>3
  <2> QED BY <1>2, <2>4
<1>3. CASE what = "retry"
  <2>1. P = <<"holds", "due", "ready", "settle">>
    BY <1>3 DEF Program
  <2> QED BY <1>3, <2>1
<1>4. CASE what = "add"
  <2>1. P = <<"paused", "insert">>
    BY <1>4 DEF Program
  <2> QED BY <1>4, <2>1
<1>5. CASE what = "promote"
  <2>1. P = <<"paused", "promote">>
    BY <1>5 DEF Program
  <2> QED BY <1>5, <2>1
<1>6. CASE what \in {"sweep", "promoteJobs", "pause", "resume", "remove"}
  <2>1. P \in {<<"lock", "paused", "fail", "expired", "sweep">>, <<"paused", "due", "ready">>,
                          <<"flag", "move">>, <<"unlocked", "delete">>}
    BY <1>6 DEF Program
  <2> QED BY <1>6, <2>1
<1> QED BY <1>1, <1>2, <1>3, <1>4, <1>5, <1>6, CallsAssumption

\* A program before its first statement.
LEMMA Starts ==
  ASSUME NEW what \in Calls \ {"delay"}
  PROVE  /\ Program(what) \in Seq(Statement)
         /\ what = "fetch" => Len(Program(what)) = 6
         /\ what = "finish" => Len(Program(what)) = 8
<1>1. CASE what = "fetch"
  <2>1. Program(what) = <<"paused", "lock", "due", "ready", "gate", "claim">>
    BY <1>1 DEF Program
  <2>2. Program(what) \in Seq(Statement) /\ Len(Program(what)) = 6
    BY <2>1 DEF Statement
  <2> QED BY <1>1, <2>2
<1>2. CASE what = "finish"
  <2>1. Program(what) = <<"lock", "holds", "settle", "paused", "due", "ready", "gate", "claim">>
    BY <1>2 DEF Program
  <2>2. Program(what) \in Seq(Statement) /\ Len(Program(what)) = 8
    BY <2>1 DEF Statement
  <2> QED BY <1>2, <2>2
<1>3. CASE what \notin {"fetch", "finish"}
  <2>1. \A a, b \in Statement : <<a, b>> \in Seq(Statement)
    OBVIOUS
  <2>2. \A a, b, c \in Statement : <<a, b, c>> \in Seq(Statement)
    OBVIOUS
  <2>3. \A a, b, c, d \in Statement : <<a, b, c, d>> \in Seq(Statement)
    OBVIOUS
  <2>4. \A a, b, c, d, e \in Statement : <<a, b, c, d, e>> \in Seq(Statement)
    OBVIOUS
  <2>5. {"lock", "paused", "due", "ready", "holds", "settle", "fail", "expired", "sweep",
         "insert", "promote", "flag", "move", "unlocked", "delete"} \subseteq Statement
    BY DEF Statement
  <2>6. CASE what = "retry"
    BY <2>3, <2>5, <2>6 DEF Program
  <2>7. CASE what \in {"add", "promote", "pause", "resume", "remove"}
    <3>1. Program(what) \in {<<"paused", "insert">>, <<"paused", "promote">>, <<"flag", "move">>,
                            <<"unlocked", "delete">>}
      BY <2>7 DEF Program
    <3>2. PICK a, b \in Statement : Program(what) = <<a, b>>
      BY <3>1, <2>5
    <3> QED BY <1>3, <2>1, <3>2
  <2>8. CASE what = "sweep"
    BY <2>4, <2>5, <2>8 DEF Program
  <2>9. CASE what = "promoteJobs"
    BY <2>2, <2>5, <2>9 DEF Program
  <2> QED BY <1>3, <2>6, <2>7, <2>8, <2>9, CallsAssumption
<1> QED BY <1>1, <1>2, <1>3

\* And nothing has been done of it.
LEMMA WholeSuffix == ASSUME NEW P \in Seq(Statement) PROVE Suffix(P, P)
<1>1. \A i \in 1 .. Len(P) : Len(P) - Len(P) + i = i
  OBVIOUS
<1> QED BY <1>1 DEF Suffix

\* The rows the statements write.
LEMMA Changes ==
  ASSUME NEW r \in Row, NEW ps \in BOOLEAN
  PROVE  /\ ToList(r, ps, 0) \in Row /\ ToList(r, ps, 0).state # "active" /\ ToList(r, ps, 0).started = r.started
         /\ \A f \in Final : ToFinal(r, f) \in Row /\ ToFinal(r, f).state # "active"
                             /\ ToFinal(r, f).started = r.started
         /\ \A at \in At : ToDelayed(r, at) \in Row /\ ToDelayed(r, at).state # "active"
                           /\ ToDelayed(r, at).started = r.started
         /\ Attempted(r) \in Row /\ Attempted(r).started = r.started
         /\ Stalled(r) \in Row /\ Stalled(r).started = r.started
         /\ r.started \in Nat
<1>1. ToList(r, ps, 0) \in Row /\ ToList(r, ps, 0).state # "active" /\ ToList(r, ps, 0).started = r.started
  BY 0 \in Int, TokenAssumption DEF Row, State, Unlocked, ToList
<1>2. ASSUME NEW f \in Final
      PROVE  ToFinal(r, f) \in Row /\ ToFinal(r, f).state # "active" /\ ToFinal(r, f).started = r.started
  BY DEF Row, State, Final, Unlocked, ToFinal
<1>3. ASSUME NEW at \in At
      PROVE  ToDelayed(r, at) \in Row /\ ToDelayed(r, at).state # "active" /\ ToDelayed(r, at).started = r.started
  BY DEF Row, State, At, Unlocked, ToDelayed
<1>4. /\ Attempted(r) \in Row /\ Attempted(r).started = r.started
      /\ Stalled(r) \in Row /\ Stalled(r).started = r.started
      /\ r.started \in Nat
  BY DEF Row, Attempted, Stalled
<1> QED BY <1>1, <1>2, <1>3, <1>4

LEMMA ClaimedRow ==
  ASSUME NEW r \in Row, NEW t \in Token \union {NoToken}
  PROVE  Claimed(r, t) \in Row
<1>1. r.started + 1 \in Nat
  BY DEF Row
<1>2. Claimed(r, t) = [r EXCEPT !.state = "active", !.prioSeq = 0, !.token = t, !.lease = "live",
                                !.started = r.started + 1]
  BY DEF Claimed
<1>3. \A n \in Nat : [r EXCEPT !.state = "active", !.prioSeq = 0, !.token = t, !.lease = "live",
                               !.started = n] \in Row
  BY 0 \in Int DEF Row, State
<1> QED BY <1>1, <1>2, <1>3

LEMMA AbsentRow == Absent \in Row /\ Absent.started = 0 /\ Absent.state = "absent"
BY PriorityAssumption DEF Absent, Row, State, At

\* A transaction that has written nothing.
LEMMA NoRows == <<>> \in Rows /\ DOMAIN <<>> = {}
<1>1. <<>> \in [{} -> Row] /\ {} \in SUBSET Job
  OBVIOUS
<1> QED BY <1>1 DEF Rows

LEMMA IdleTx == /\ Idle \in Tx /\ Idle.call = "none" /\ Idle.left = <<>> /\ DOMAIN Idle.mine = {}
                /\ Idle.claims = 0
<1>1. <<>> \in Seq(Statement)
  OBVIOUS
<1>2. /\ Idle = [call |-> "none", left |-> <<>>, j |-> NoJob, token |-> NoToken,
                 paused |-> FALSE, rows |-> {}, mine |-> <<>>, claims |-> 0]
  BY DEF Idle
<1>3. Idle.call = "none" /\ Idle.left = <<>> /\ Idle.mine = <<>> /\ Idle.claims = 0
  BY <1>2
<1>4. ASSUME NEW mt, mt \in Rows, NEW l \in Seq(Statement)
      PROVE  [call |-> "none", left |-> l, j |-> NoJob, token |-> NoToken,
              paused |-> FALSE, rows |-> {}, mine |-> mt, claims |-> 0] \in Tx
  BY <1>4 DEF Tx
<1> QED BY <1>1, <1>2, <1>3, <1>4, NoRows

LEMMA RowsOf == \A m \in Rows : DOMAIN m \in SUBSET Job /\ \A j \in DOMAIN m : m[j] \in Row
BY DEF Rows

\* What a session sees is a table.
LEMMA ViewIs ==
  ASSUME TypeOK, NEW s \in Session
  PROVE  View(s) \in [Job -> Row]
BY RowsOf DEF View, TypeOK, Tx

\* A transaction that has a statement before it.
LEMMA Ahead ==
  ASSUME TypeOK, NEW s \in Session, NEW h, Reaches(s, h)
  PROVE  /\ tx[s] \in Tx /\ tx[s].call \in Calls \ {"delay"} /\ Place(s) \in Nat \ {0}
         /\ Len(Tail(tx[s].left)) = Place(s) - 1 /\ Len(<<>>) = 0
         /\ Suffix(Tail(tx[s].left), Program(tx[s].call)) /\ Suffix(<<>>, Program(tx[s].call))
         /\ tx[s].call = "fetch" /\ h = "lock" => Place(s) = 5
         /\ tx[s].call = "finish" /\ h = "lock" => Place(s) = 8
         /\ tx[s].call = "fetch" /\ Place(s) = 5 => h = "lock"
         /\ tx[s].call = "finish" /\ Place(s) = 8 => h = "lock"
         /\ tx[s].call = "finish" /\ Place(s) = 7 => h = "holds"
         /\ tx[s].call \in {"fetch", "finish"} /\ Place(s) = 2 => h = "gate"
         /\ h = "claim" => tx[s].call \in {"fetch", "finish"} /\ Place(s) = 1
         /\ h = "gate" => tx[s].call \in {"fetch", "finish"} /\ Place(s) = 2
         /\ h = "settle" => tx[s].call = "retry" \/ (tx[s].call = "finish" /\ Place(s) = 6)
         /\ h = "holds" => tx[s].call = "retry" \/ (tx[s].call = "finish" /\ Place(s) = 7)
         /\ h = "insert" => tx[s].call = "add"
         /\ h = "promote" => tx[s].call = "promote"
         /\ tx[s].call = "finish" => Place(s) <= 8
<1> DEFINE what == tx[s].call
           P    == Program(what)
           left == tx[s].left
           n    == Len(left)
           k    == Len(P) - n + 1
<1>1. tx[s] \in Tx /\ left # <<>> /\ Head(left) = h
  BY DEF TypeOK, Reaches
<1>2. what # "none" /\ what \in Calls \ {"delay"} /\ Suffix(left, P)
  BY <1>1 DEF TypeOK, Tx
<1>3. P \in Seq(Statement)
  BY <1>2, Starts
<1>4. /\ Suffix(Tail(left), P) /\ Len(Tail(left)) = n - 1 /\ Suffix(<<>>, P)
      /\ n \in Nat \ {0} /\ k \in 1 .. Len(P) /\ h = P[k]
  BY <1>1, <1>2, <1>3, SuffixTail
<1>5. n = Len(P) - k + 1 /\ Len(<<>>) = 0
  BY <1>3, <1>4
<1> HIDE DEF what, P, left, n, k
<1>6. /\ what = "fetch" /\ P[k] = "lock" => n = 5
      /\ what = "finish" /\ P[k] = "lock" => n = 8
      /\ what = "fetch" /\ n = 5 => P[k] = "lock"
      /\ what = "finish" /\ n = 8 => P[k] = "lock"
      /\ what = "finish" /\ n = 7 => P[k] = "holds"
      /\ what \in {"fetch", "finish"} /\ n = 2 => P[k] = "gate"
      /\ P[k] = "claim" => what \in {"fetch", "finish"} /\ n = 1
      /\ P[k] = "gate" => what \in {"fetch", "finish"} /\ n = 2
      /\ P[k] = "settle" => what = "retry" \/ (what = "finish" /\ n = 6)
      /\ P[k] = "holds" => what = "retry" \/ (what = "finish" /\ n = 7)
      /\ P[k] = "insert" => what = "add"
      /\ P[k] = "promote" => what = "promote"
  <2>1. P = Program(what)
    BY DEF P
  <2> QED BY <1>2, <1>4, <1>5, <2>1, Programs
<1>7. what = "finish" => n <= 8
  <2>1. n \in Nat /\ n <= Len(P) /\ Len(P) \in Nat
    BY <1>3, <1>4 DEF k
  <2>2. what = "finish" => Len(P) = 8
    BY <1>2, Starts DEF P
  <2> QED BY <2>1, <2>2
<1> QED BY <1>1, <1>2, <1>4, <1>5, <1>6, <1>7 DEF what, P, left, n, Place

-----------------------------------------------------------------------------
(* The sessions a step is not about.                                       *)

LEMMA LiveIs == ASSUME NEW T PROVE IsFiniteSet(Live(T)) /\ Live(T) \subseteq Job /\ Cardinality(Live(T)) \in Nat
<1>1. Live(T) \subseteq Job
  BY DEF Live, In
<1> QED BY <1>1, JobAssumption, FS_Subset, FS_CardinalityType

LEMMA FewerLive ==
  ASSUME NEW T, NEW U, Live(T) \subseteq Live(U)
  PROVE  Cardinality(Live(T)) <= Cardinality(Live(U))
BY LiveIs, FS_Subset

\* What the lock holder relies on: no job becomes active, or live, or another's.
Calm ==
  \A j \in Job :
    job'[j].state = "active" =>
      /\ job[j].state = "active" /\ job'[j].token = job[j].token
      /\ job'[j].lease = "live" => job[j].lease = "live"

\* A session whose rows and whose lock are left alone keeps what it has tested.
LEMMA OthersKeep ==
  ASSUME TypeOK, TypeOK', NEW o \in Session, Keeps(o), tx'[o] = tx[o],
         \A j \in DOMAIN tx[o].mine : job'[j] = job[j],
         Locked(o) => Calm /\ rate' <= rate /\ lock' = lock
  PROVE  Keeps(o)'
<1>1. /\ Place(o)' = Place(o) /\ Locked(o)' = Locked(o) /\ Claiming(o)' = Claiming(o)
  BY DEF Place, Locked, Claiming
<1>2. (Locked(o) => lock = o)'
  BY <1>1 DEF Keeps
<1>3. Claiming(o) => Locked(o)
  BY DEF Claiming, Locked, Place
<1>4. Quiet(o) => Quiet(o)'
  BY DEF Quiet, QuietRow
<1>5. ASSUME Locked(o)
      PROVE  Cardinality(Live(View(o)))' <= Cardinality(Live(View(o)))
  <2>1. Calm
    BY <1>5
  <2>2. Live(View(o))' \subseteq Live(View(o))
    BY <2>1 DEF Calm, Live, In, View
  <2> QED BY <2>2, FewerLive
<1>6. Concurrency \in Nat /\ Cardinality(Live(View(o))) \in Nat /\ Cardinality(Live(View(o)))' \in Nat
  BY LimitAssumption, LiveIs
<1>7. CapInv(o)'
  BY <1>1, <1>3, <1>4, <1>5, <1>6 DEF CapInv, Keeps
<1>8. RateInv(o)'
  <2>1. rate \in Nat /\ rate' \in Nat /\ RateMax \in Nat
    BY LimitAssumption DEF TypeOK
  <2> QED BY <1>1, <1>3, <2>1 DEF RateInv, Keeps
<1>9. HoldInv(o)'
  <2>1. tx[o].call = "finish" => tx[o].j \in Job
    BY DEF TypeOK
  <2>2. tx[o].call = "finish" /\ Place(o) = 6 => Locked(o)
    BY DEF Locked
  <2> QED BY <1>1, <2>1, <2>2 DEF HoldInv, Keeps, Calm
<1> QED BY <1>2, <1>7, <1>8, <1>9 DEF Keeps

-----------------------------------------------------------------------------
(* The session a step is about.                                            *)

\* One transaction is replaced.
LEMMA Replaced ==
  ASSUME TypeOK, Apart, NEW s \in Session, NEW r \in Tx, tx' = [tx EXCEPT ![s] = r],
         IF r.call = "none" THEN r.left = <<>> ELSE Suffix(r.left, Program(r.call)),
         r.call \in {"finish", "retry", "add", "promote"} => r.j \in Job,
         job' \in [Job -> Row], paused' \in BOOLEAN, rate' \in Nat, lock' \in Session \union {NoSession},
         \A o \in Session \ {s} : DOMAIN r.mine \intersect DOMAIN tx[o].mine = {}
  PROVE  TypeOK' /\ Apart' /\ tx'[s] = r /\ \A o \in Session \ {s} : tx'[o] = tx[o]
<1>1. tx \in [Session -> Tx]
  BY DEF TypeOK
<1>2. tx' \in [Session -> Tx] /\ tx'[s] = r /\ \A o \in Session \ {s} : tx'[o] = tx[o]
  BY <1>1
<1>3. ASSUME NEW o \in Session
      PROVE  /\ IF tx'[o].call = "none" THEN tx'[o].left = <<>> ELSE Suffix(tx'[o].left, Program(tx'[o].call))
             /\ tx'[o].call \in {"finish", "retry", "add", "promote"} => tx'[o].j \in Job
  <2>1. CASE o = s
    BY <1>2, <2>1
  <2>2. CASE o # s
    <3>1. tx'[o] = tx[o]
      BY <1>2, <2>2
    <3> QED BY <3>1 DEF TypeOK
  <2> QED BY <2>1, <2>2
<1>4. TypeOK'
  BY <1>2, <1>3 DEF TypeOK
<1>5. ASSUME NEW a \in Session, NEW b \in Session, a # b
      PROVE  DOMAIN tx'[a].mine \intersect DOMAIN tx'[b].mine = {}
  <2>1. CASE a = s
    BY <1>2, <1>5, <2>1
  <2>2. CASE b = s
    BY <1>2, <1>5, <2>2
  <2>3. CASE a # s /\ b # s
    BY <1>2, <1>5, <2>3 DEF Apart
  <2> QED BY <2>1, <2>2, <2>3
<1> QED BY <1>2, <1>4, <1>5 DEF Apart

\* A statement: the tables stay, and the other sessions keep what they have tested.
LEMMA StatementKept ==
  ASSUME IInv, NEW s \in Session, NEW h, Reaches(s, h), NEW r \in Tx, tx' = [tx EXCEPT ![s] = r],
         UNCHANGED <<job, paused, rate>>, lock' = lock \/ (lock = NoSession /\ lock' = s),
         r.call = tx[s].call, r.j = tx[s].j, r.left \in {Tail(tx[s].left), <<>>},
         \A o \in Session \ {s} : DOMAIN r.mine \intersect DOMAIN tx[o].mine = {}
  PROVE  TypeOK' /\ tx'[s] = r /\ (Keeps(s)' => IInv')
<1>1. TypeOK /\ Apart /\ WithinRate
  BY DEF IInv
<1>2. /\ r.call # "none" /\ Suffix(r.left, Program(r.call))
      /\ r.call \in {"finish", "retry", "add", "promote"} => r.j \in Job
  <2>1. /\ tx[s].call \in Calls \ {"delay"} /\ Suffix(Tail(tx[s].left), Program(tx[s].call))
        /\ Suffix(<<>>, Program(tx[s].call))
    BY <1>1, Ahead
  <2>2. tx[s].call # "none"
    BY <2>1, CallsAssumption
  <2>3. tx[s].call \in {"finish", "retry", "add", "promote"} => tx[s].j \in Job
    BY <1>1 DEF TypeOK
  <2> QED BY <2>1, <2>2, <2>3
<1>3. /\ job' \in [Job -> Row] /\ paused' \in BOOLEAN /\ rate' \in Nat /\ lock' \in Session \union {NoSession}
  BY <1>1 DEF TypeOK
<1>4. TypeOK' /\ Apart' /\ tx'[s] = r /\ \A o \in Session \ {s} : tx'[o] = tx[o]
  BY <1>1, <1>2, <1>3, Replaced
<1>5. WithinRate'
  BY <1>1 DEF WithinRate
<1>6. ASSUME NEW o \in Session \ {s}
      PROVE  Keeps(o)'
  <2>1. Keeps(o)
    BY DEF IInv
  <2>2. Locked(o) => lock' = lock
    BY <2>1, SessionAssumption DEF Keeps
  <2>3. Calm
    BY DEF Calm
  <2>4. rate' <= rate
    BY <1>1 DEF TypeOK
  <2> QED BY <1>1, <1>4, <2>1, <2>2, <2>3, <2>4, OthersKeep
<1> QED BY <1>4, <1>5, <1>6 DEF IInv

\* A statement other than the lock, the gate and the claim writes quiet rows that nobody else has written.
LEMMA QuietKept ==
  ASSUME IInv, NEW s \in Session, NEW h, Reaches(s, h), h \notin {"lock", "gate", "claim"},
         NEW r \in Tx, tx' = [tx EXCEPT ![s] = r], UNCHANGED <<job, paused, rate, lock>>,
         r.call = tx[s].call, r.j = tx[s].j, r.token = tx[s].token, r.claims = tx[s].claims,
         r.left = Tail(tx[s].left) \/ (h = "holds" /\ r.left = <<>>),
         NEW S \in SUBSET Job, Free(s, S), DOMAIN r.mine = DOMAIN tx[s].mine \union S,
         \A j \in S : QuietRow(r.mine[j], j),
         \A j \in DOMAIN tx[s].mine \ S : r.mine[j] = tx[s].mine[j],
         h = "holds" => S = {},
         h = "holds" /\ r.call = "finish" /\ r.left # <<>> /\ job[r.j].state = "active"
           => job[r.j].token = r.token
  PROVE  IInv'
<1> DEFINE n == Place(s)
           m == Len(r.left)
<1>1. TypeOK /\ Apart /\ Keeps(s)
  BY DEF IInv
<1>2. \A o \in Session \ {s} : DOMAIN r.mine \intersect DOMAIN tx[o].mine = {}
  BY <1>1 DEF Apart, Free
<1>3. TypeOK' /\ tx'[s] = r /\ (Keeps(s)' => IInv')
  BY <1>2, StatementKept
<1>4. /\ n \in Nat \ {0} /\ m \in Nat /\ (m = n - 1 \/ (h = "holds" /\ m = 0))
      /\ Place(s)' = m /\ (r.left = <<>> => m = 0)
  <2>1. n \in Nat \ {0} /\ Len(Tail(tx[s].left)) = n - 1 /\ Len(<<>>) = 0
    BY <1>1, Ahead
  <2>2. Place(s)' = m
    BY <1>3 DEF Place
  <2>3. r.left \in Seq(Statement)
    BY DEF Tx
  <2>4. m \in Nat
    BY <2>3
  <2>5. r.left = <<>> => m = 0
    BY <2>1
  <2>6. m = n - 1 \/ (h = "holds" /\ m = 0)
    BY <2>1, <2>5
  <2> QED BY <2>1, <2>2, <2>4, <2>5, <2>6
<1> HIDE DEF n, m
<1>5. /\ r.call = "fetch" => n # 5
      /\ r.call = "finish" => n # 8
      /\ r.call = "finish" /\ n = 7 => h = "holds"
      /\ r.call \in {"fetch", "finish"} => n # 2
      /\ h = "holds" => r.call = "retry" \/ (r.call = "finish" /\ n = 7)
  BY <1>1, Ahead DEF n
<1>6. Locked(s)' => Locked(s)
  BY <1>3, <1>4, <1>5 DEF Locked, n
<1>7. ~ Claiming(s)'
  BY <1>3, <1>4, <1>5 DEF Claiming
<1>8. Quiet(s) /\ tx[s].claims # 1
  BY <1>1, <1>4 DEF Keeps, CapInv, RateInv, n
<1>9. Quiet(s)'
  BY <1>3, <1>8 DEF Quiet, QuietRow
<1>10. CapInv(s)' /\ RateInv(s)'
  BY <1>3, <1>7, <1>8, <1>9 DEF CapInv, RateInv
<1>11. HoldInv(s)'
  <2>1. SUFFICES ASSUME r.call = "finish"
                 PROVE  /\ m >= 6 => DOMAIN r.mine = {}
                        /\ m = 6 /\ job[r.j].state = "active" => job[r.j].token = r.token
    BY <1>3, <1>4 DEF HoldInv
  <2>2. m >= 6 => n >= 7
    BY <1>4, <1>5, <2>1
  <2>3. m >= 6 => n = 7 \/ n > 8
    BY <1>4, <1>5, <2>1, <2>2
  <2>4. n <= 8
    BY <1>1, <2>1, Ahead DEF n
  <2>5. m >= 6 => h = "holds" /\ m = 6
    BY <1>4, <1>5, <2>1, <2>3, <2>4
  <2>6. m >= 6 => DOMAIN tx[s].mine = {}
    BY <1>1, <1>4, <2>1, <2>2 DEF Keeps, HoldInv, n
  <2>7. m = 6 => r.left # <<>>
    BY <1>4
  <2> QED BY <2>1, <2>5, <2>6, <2>7
<1>12. lock' = lock /\ (Locked(s) => lock = s)
  BY <1>1 DEF Keeps
<1> QED BY <1>3, <1>6, <1>10, <1>11, <1>12 DEF Keeps

-----------------------------------------------------------------------------
(* The statements that are quiet.                                          *)

\* A statement that only goes on.
LEMMA QuietGoes ==
  ASSUME IInv, NEW s \in Session, NEW h, Reaches(s, h), h \notin {"lock", "gate", "claim", "holds"},
         NEW r \in Tx, Goes(s, r), UNCHANGED <<job, paused, rate, lock>>,
         r.call = tx[s].call, r.j = tx[s].j, r.token = tx[s].token, r.claims = tx[s].claims,
         r.left = tx[s].left,
         NEW S \in SUBSET Job, Free(s, S), DOMAIN r.mine = DOMAIN tx[s].mine \union S,
         \A j \in S : QuietRow(r.mine[j], j),
         \A j \in DOMAIN tx[s].mine \ S : r.mine[j] = tx[s].mine[j]
  PROVE  IInv'
<1> DEFINE q == [r EXCEPT !.left = Tail(r.left)]
<1>1. tx' = [tx EXCEPT ![s] = q]
  BY DEF Goes
<1>2. Tail(r.left) \in Seq(Statement)
  <2>1. TypeOK
    BY DEF IInv
  <2> QED BY <2>1, Ahead DEF Suffix
<1>3. /\ q \in Tx /\ q.call = r.call /\ q.j = r.j /\ q.token = r.token /\ q.claims = r.claims
      /\ q.mine = r.mine /\ q.left = Tail(tx[s].left)
  BY <1>2 DEF Tx
<1> HIDE DEF q
<1>4. /\ q.call = tx[s].call /\ q.j = tx[s].j /\ q.token = tx[s].token /\ q.claims = tx[s].claims
      /\ DOMAIN q.mine = DOMAIN tx[s].mine \union S
      /\ \A j \in S : QuietRow(q.mine[j], j)
      /\ \A j \in DOMAIN tx[s].mine \ S : q.mine[j] = tx[s].mine[j]
  BY <1>3
<1>5. h # "holds" /\ h \notin {"lock", "gate", "claim"} /\ q.left = Tail(tx[s].left) /\ q \in Tx
  BY <1>3
<1> QED BY <1>1, <1>4, <1>5, QuietKept

\* It writes the rows f.
LEMMA QuietWrites ==
  ASSUME IInv, NEW s \in Session, NEW h, Reaches(s, h), h \notin {"lock", "gate", "claim", "holds"},
         UNCHANGED <<job, paused, rate, lock>>,
         NEW S \in SUBSET Job, Free(s, S), NEW f \in [S -> Row], \A j \in S : QuietRow(f[j], j),
         NEW R \in SUBSET Job,
         Goes(s, [tx[s] EXCEPT !.mine = [j \in DOMAIN tx[s].mine \union S |->
                                          IF j \in S THEN f[j] ELSE tx[s].mine[j]],
                               !.rows = R])
  PROVE  IInv'
<1> DEFINE t == tx[s]
           g == [j \in DOMAIN t.mine \union S |-> IF j \in S THEN f[j] ELSE t.mine[j]]
           r == [t EXCEPT !.mine = g, !.rows = R]
<1>1. t \in Tx
  BY DEF IInv, TypeOK
<1>2. DOMAIN t.mine \in SUBSET Job /\ \A j \in DOMAIN t.mine : t.mine[j] \in Row
  BY <1>1, RowsOf DEF Tx
<1>3. g \in [DOMAIN t.mine \union S -> Row] /\ DOMAIN t.mine \union S \in SUBSET Job
  BY <1>2
<1>4. g \in Rows /\ DOMAIN g = DOMAIN t.mine \union S
  BY <1>3 DEF Rows
<1>5. (\A j \in S : g[j] = f[j]) /\ (\A j \in DOMAIN t.mine \ S : g[j] = t.mine[j])
  OBVIOUS
<1> HIDE DEF g
<1>6. /\ r \in Tx /\ r.call = t.call /\ r.j = t.j /\ r.token = t.token /\ r.claims = t.claims
      /\ r.left = t.left /\ r.mine = g
  BY <1>1, <1>4 DEF Tx
<1>7. Goes(s, r)
  BY DEF g
<1>8. \A j \in S : QuietRow(r.mine[j], j)
  BY <1>5, <1>6
<1> HIDE DEF r
<1> QED BY <1>4, <1>5, <1>6, <1>7, <1>8, QuietGoes

\* It writes nothing.
LEMMA QuietReads ==
  ASSUME IInv, NEW s \in Session, NEW h, Reaches(s, h), h \notin {"lock", "gate", "claim", "holds"},
         UNCHANGED <<job, paused, rate, lock>>, NEW p \in BOOLEAN, NEW R \in SUBSET Job,
         Goes(s, [tx[s] EXCEPT !.paused = p, !.rows = R])
  PROVE  IInv'
<1> DEFINE t == tx[s]
           r == [t EXCEPT !.paused = p, !.rows = R]
<1>1. t \in Tx
  BY DEF IInv, TypeOK
<1>2. /\ r \in Tx /\ r.call = t.call /\ r.j = t.j /\ r.token = t.token /\ r.claims = t.claims
      /\ r.left = t.left /\ r.mine = t.mine
  BY <1>1 DEF Tx
<1>3. Free(s, {}) /\ {} \in SUBSET Job /\ DOMAIN r.mine = DOMAIN t.mine \union {}
  BY <1>2 DEF Free
<1>4. Goes(s, r)
  OBVIOUS
<1> HIDE DEF r
<1> QED BY <1>2, <1>3, <1>4, QuietGoes

\* What a session sees at a statement has not been started more often than the table says.
LEMMA Seen ==
  ASSUME IInv, NEW s \in Session, NEW h, Reaches(s, h), NEW j \in Job
  PROVE  /\ tx[s] \in Tx /\ job[j] \in Row /\ View(s)[j] \in Row /\ View(s)[j].started <= job[j].started
         /\ Quiet(s)
<1>1. TypeOK /\ Keeps(s)
  BY DEF IInv
<1>2. tx[s] \in Tx /\ job[j] \in Row /\ View(s)[j] \in Row /\ Place(s) # 0
  BY <1>1, ViewIs, Ahead DEF TypeOK
<1>3. Quiet(s)
  BY <1>1, <1>2 DEF Keeps, CapInv
<1>4. job[j].started \in Nat
  BY <1>2 DEF Row
<1>5. View(s)[j].started <= job[j].started
  BY <1>3, <1>4 DEF View, Quiet, QuietRow
<1> QED BY <1>2, <1>3, <1>5

\* Fields that are left alone.
LEMMA Fields ==
  ASSUME NEW t \in Tx, NEW p, NEW R, NEW m
  PROVE  /\ [t EXCEPT !.paused = p] = [t EXCEPT !.paused = p, !.rows = t.rows]
         /\ [t EXCEPT !.rows = R] = [t EXCEPT !.paused = t.paused, !.rows = R]
         /\ t = [t EXCEPT !.paused = t.paused, !.rows = t.rows]
         /\ [t EXCEPT !.mine = m] = [t EXCEPT !.mine = m, !.rows = t.rows]
         /\ [[t EXCEPT !.mine = m] EXCEPT !.rows = R] = [t EXCEPT !.mine = m, !.rows = R]
         /\ t.rows \in SUBSET Job /\ t.paused \in BOOLEAN
BY DEF Tx

LEMMA ReadPausedKept == ASSUME IInv, NEW s \in Session, ReadPaused(s) PROVE IInv'
<1>1. tx[s] \in Tx /\ paused \in BOOLEAN
  BY DEF IInv, TypeOK
<1>2. Goes(s, [tx[s] EXCEPT !.paused = paused, !.rows = tx[s].rows])
  BY <1>1, Fields DEF ReadPaused
<1>3. Reaches(s, "paused") /\ tx[s].rows \in SUBSET Job /\ UNCHANGED <<job, paused, rate, lock>>
  BY <1>1, Fields DEF ReadPaused
<1> QED BY <1>1, <1>2, <1>3, QuietReads

LEMMA FindDueKept == ASSUME IInv, NEW s \in Session, FindDue(s) PROVE IInv'
<1>1. tx[s] \in Tx /\ DueWait(View(s)) \in SUBSET Job
  BY DEF IInv, TypeOK, DueWait, In
<1>2. Goes(s, [tx[s] EXCEPT !.paused = tx[s].paused, !.rows = DueWait(View(s))])
  BY <1>1, Fields DEF FindDue
<1>3. Reaches(s, "due") /\ tx[s].paused \in BOOLEAN /\ UNCHANGED <<job, paused, rate, lock>>
  BY <1>1, Fields DEF FindDue
<1> QED BY <1>1, <1>2, <1>3, QuietReads

LEMMA FindExpiredKept == ASSUME IInv, NEW s \in Session, FindExpired(s) PROVE IInv'
<1> DEFINE R == tx[s].rows \intersect Expired(View(s))
<1>1. tx[s] \in Tx
  BY DEF IInv, TypeOK
<1>2. R \in SUBSET Job /\ tx[s].paused \in BOOLEAN
  BY <1>1, Fields
<1>3. Goes(s, [tx[s] EXCEPT !.rows = R])
  BY DEF FindExpired
<1> HIDE DEF R
<1>4. Goes(s, [tx[s] EXCEPT !.paused = tx[s].paused, !.rows = R])
  BY <1>1, <1>3, Fields
<1>5. Reaches(s, "expired") /\ UNCHANGED <<job, paused, rate, lock>>
  BY DEF FindExpired
<1> QED BY <1>2, <1>4, <1>5, QuietReads

LEMMA FlagKept == ASSUME IInv, NEW s \in Session, Flag(s) PROVE IInv'
<1>1. tx[s] \in Tx
  BY DEF IInv, TypeOK
<1>2. Goes(s, [tx[s] EXCEPT !.paused = tx[s].paused, !.rows = tx[s].rows])
  BY <1>1, Fields DEF Flag
<1>3. Reaches(s, "flag") /\ UNCHANGED <<job, paused, rate, lock>> /\ tx[s].rows \in SUBSET Job /\ tx[s].paused \in BOOLEAN
  BY <1>1, Fields DEF Flag
<1> QED BY <1>2, <1>3, QuietReads

\* The statement writes the rows f and nothing else.
LEMMA QuietWritten ==
  ASSUME IInv, NEW s \in Session, NEW h, Reaches(s, h), h \notin {"lock", "gate", "claim", "holds"},
         UNCHANGED <<job, paused, rate, lock>>,
         NEW S \in SUBSET Job, Free(s, S), NEW f \in [S -> Row], \A j \in S : QuietRow(f[j], j),
         Goes(s, [tx[s] EXCEPT !.mine = [j \in DOMAIN tx[s].mine \union S |->
                                          IF j \in S THEN f[j] ELSE tx[s].mine[j]]])
  PROVE  IInv'
<1> DEFINE g == [j \in DOMAIN tx[s].mine \union S |-> IF j \in S THEN f[j] ELSE tx[s].mine[j]]
<1>1. tx[s] \in Tx
  BY DEF IInv, TypeOK
<1>2. tx[s].rows \in SUBSET Job /\ [tx[s] EXCEPT !.mine = g] = [tx[s] EXCEPT !.mine = g, !.rows = tx[s].rows]
  BY <1>1, Fields
<1>3. Goes(s, [tx[s] EXCEPT !.mine = g, !.rows = tx[s].rows])
  BY <1>2
<1>4. Reaches(s, h) /\ h \notin {"lock", "gate", "claim", "holds"} /\ UNCHANGED <<job, paused, rate, lock>>
      /\ Free(s, S) /\ f \in [S -> Row] /\ \A j \in S : QuietRow(f[j], j)
  OBVIOUS
<1>5. tx[s].rows \in SUBSET Job
  BY <1>2
<1> QED BY <1>3, <1>4, <1>5, QuietWrites

LEMMA ReadyKept == ASSUME IInv, NEW s \in Session, Ready(s) PROVE IInv'
<1> DEFINE S == {j \in tx[s].rows : View(s)[j].state # "absent"}
           New(j) == [View(s)[j] EXCEPT !.state = IF tx[s].paused THEN "paused" ELSE "wait",
                                        !.waitSeq = 0, !.at = "none"]
           f == [j \in S |-> New(j)]
           g == [j \in DOMAIN tx[s].mine \union S |-> IF j \in S THEN f[j] ELSE tx[s].mine[j]]
<1>1. /\ Reaches(s, "ready") /\ UNCHANGED <<job, paused, rate, lock>> /\ Free(s, S)
      /\ Goes(s, [tx[s] EXCEPT !.mine = [j \in DOMAIN tx[s].mine \union S |->
                                          IF j \in S THEN New(j) ELSE tx[s].mine[j]]])
  BY DEF Ready, Written
<1>2. tx[s] \in Tx
  BY DEF IInv, TypeOK
<1>3. S \in SUBSET Job /\ tx[s].rows \in SUBSET Job
  BY <1>2, Fields
<1>4. ASSUME NEW j \in S
      PROVE  New(j) \in Row /\ QuietRow(New(j), j)
  <2>1. View(s)[j] \in Row /\ View(s)[j].started <= job[j].started
    BY <1>1, <1>3, Seen
  <2>2. \A r \in Row : \A w \in {"paused", "wait"} :
          LET q == [r EXCEPT !.state = w, !.waitSeq = 0, !.at = "none"]
          IN  q \in Row /\ q.started = r.started /\ q.state # "active"
    BY 0 \in Int DEF Row, State
  <2> QED BY <2>1, <2>2 DEF QuietRow
<1>5. f \in [S -> Row] /\ \A j \in S : QuietRow(f[j], j)
  BY <1>4
<1>6. g = [j \in DOMAIN tx[s].mine \union S |-> IF j \in S THEN New(j) ELSE tx[s].mine[j]]
  OBVIOUS
<1>7. Goes(s, [tx[s] EXCEPT !.mine = g])
  BY <1>1, <1>6
<1> HIDE DEF S, f
<1> QED BY <1>1, <1>3, <1>5, <1>7, QuietWritten

LEMMA SweepKept == ASSUME IInv, NEW s \in Session, Sweep(s) PROVE IInv'
<1> DEFINE S == {j \in tx[s].rows : View(s)[j].state # "absent"}
           New(j) == ToList(Stalled(View(s)[j]), tx[s].paused, 0)
           f == [j \in S |-> New(j)]
           g == [j \in DOMAIN tx[s].mine \union S |-> IF j \in S THEN f[j] ELSE tx[s].mine[j]]
<1>1. /\ Reaches(s, "sweep") /\ UNCHANGED <<job, paused, rate, lock>> /\ Free(s, S)
      /\ Goes(s, [tx[s] EXCEPT !.mine = [j \in DOMAIN tx[s].mine \union S |->
                                          IF j \in S THEN New(j) ELSE tx[s].mine[j]]])
  BY DEF Sweep, Written
<1>2. tx[s] \in Tx
  BY DEF IInv, TypeOK
<1>3. S \in SUBSET Job /\ tx[s].rows \in SUBSET Job /\ tx[s].paused \in BOOLEAN
  BY <1>2, Fields
<1>4. ASSUME NEW j \in S
      PROVE  New(j) \in Row /\ QuietRow(New(j), j)
  <2>1. View(s)[j] \in Row /\ View(s)[j].started <= job[j].started
    BY <1>1, <1>3, Seen
  <2>2. Stalled(View(s)[j]) \in Row /\ Stalled(View(s)[j]).started = View(s)[j].started
    BY <2>1, Changes, <1>3
  <2>3. New(j) \in Row /\ New(j).state # "active" /\ New(j).started = Stalled(View(s)[j]).started
    BY <2>2, Changes, <1>3
  <2> QED BY <2>1, <2>2, <2>3 DEF QuietRow
<1>5. f \in [S -> Row] /\ \A j \in S : QuietRow(f[j], j)
  BY <1>4
<1>6. g = [j \in DOMAIN tx[s].mine \union S |-> IF j \in S THEN New(j) ELSE tx[s].mine[j]]
  OBVIOUS
<1>7. Goes(s, [tx[s] EXCEPT !.mine = g])
  BY <1>1, <1>6
<1> HIDE DEF S, f
<1> QED BY <1>1, <1>3, <1>5, <1>7, QuietWritten

LEMMA FailKept == ASSUME IInv, NEW s \in Session, Fail(s) PROVE IInv'
<1> DEFINE S == {j \in Expired(View(s)) : Worn(View(s)[j])}
           New(j) == ToFinal(Stalled(View(s)[j]), "failed")
           f == [j \in S |-> New(j)]
           g == [j \in DOMAIN tx[s].mine \union S |-> IF j \in S THEN f[j] ELSE tx[s].mine[j]]
           R == Expired(View(s))
<1>1. /\ Reaches(s, "fail") /\ UNCHANGED <<job, paused, rate, lock>> /\ Free(s, S)
      /\ Goes(s, [[tx[s] EXCEPT !.mine = [j \in DOMAIN tx[s].mine \union S |->
                                           IF j \in S THEN New(j) ELSE tx[s].mine[j]]] EXCEPT !.rows = R])
  BY DEF Fail, Written
<1>2. tx[s] \in Tx
  BY DEF IInv, TypeOK
<1>3. S \in SUBSET Job /\ R \in SUBSET Job
  BY DEF Expired, In
<1>4. ASSUME NEW j \in S
      PROVE  New(j) \in Row /\ QuietRow(New(j), j)
  <2>1. View(s)[j] \in Row /\ View(s)[j].started <= job[j].started
    BY <1>1, <1>3, Seen
  <2>2. Stalled(View(s)[j]) \in Row /\ Stalled(View(s)[j]).started = View(s)[j].started
    BY <2>1, Changes
  <2>3. New(j) \in Row /\ New(j).state # "active" /\ New(j).started = Stalled(View(s)[j]).started
    BY <2>2, Changes DEF Final
  <2> QED BY <2>1, <2>2, <2>3 DEF QuietRow
<1>5. f \in [S -> Row] /\ \A j \in S : QuietRow(f[j], j)
  BY <1>4
<1>6. g = [j \in DOMAIN tx[s].mine \union S |-> IF j \in S THEN New(j) ELSE tx[s].mine[j]]
  OBVIOUS
<1>7. [[tx[s] EXCEPT !.mine = g] EXCEPT !.rows = R] = [tx[s] EXCEPT !.mine = g, !.rows = R]
  BY <1>2, Fields
<1>8. Goes(s, [tx[s] EXCEPT !.mine = g, !.rows = R])
  BY <1>1, <1>6, <1>7
<1> HIDE DEF S, f, R
<1> QED BY <1>1, <1>3, <1>5, <1>8, QuietWrites

LEMMA MoveKept == ASSUME IInv, NEW s \in Session, Move(s) PROVE IInv'
<1> DEFINE pause == tx[s].call = "pause"
           S == In(job, {IF pause THEN "wait" ELSE "paused"})
           New(j) == [job[j] EXCEPT !.state = IF pause THEN "paused" ELSE "wait"]
           f == [j \in S |-> New(j)]
           g == [j \in DOMAIN tx[s].mine \union S |-> IF j \in S THEN f[j] ELSE tx[s].mine[j]]
<1>1. /\ Reaches(s, "move") /\ UNCHANGED <<job, paused, rate, lock>> /\ Free(s, S)
      /\ Goes(s, [tx[s] EXCEPT !.mine = [j \in DOMAIN tx[s].mine \union S |->
                                          IF j \in S THEN New(j) ELSE tx[s].mine[j]]])
  BY DEF Move, Written
<1>2. S \in SUBSET Job
  BY DEF In
<1>3. ASSUME NEW j \in S
      PROVE  New(j) \in Row /\ QuietRow(New(j), j)
  <2>1. job[j] \in Row
    BY <1>2 DEF IInv, TypeOK
  <2>2. \A r \in Row : \A w \in {"paused", "wait"} :
          LET q == [r EXCEPT !.state = w]
          IN  q \in Row /\ q.started = r.started /\ q.started <= r.started /\ q.state # "active"
    BY DEF Row, State
  <2> QED BY <2>1, <2>2 DEF QuietRow
<1>4. f \in [S -> Row] /\ \A j \in S : QuietRow(f[j], j)
  BY <1>3
<1>5. g = [j \in DOMAIN tx[s].mine \union S |-> IF j \in S THEN New(j) ELSE tx[s].mine[j]]
  OBVIOUS
<1>6. Goes(s, [tx[s] EXCEPT !.mine = g])
  BY <1>1, <1>5
<1> HIDE DEF S, f
<1> QED BY <1>1, <1>2, <1>4, <1>6, QuietWritten

\* The statement writes one row.
LEMMA QuietWrittenOne ==
  ASSUME IInv, NEW s \in Session, NEW h, Reaches(s, h), h \notin {"lock", "gate", "claim", "holds"},
         UNCHANGED <<job, paused, rate, lock>>,
         NEW j \in Job, Free(s, {j}), NEW r \in Row, QuietRow(r, j),
         Goes(s, [tx[s] EXCEPT !.mine = [k \in DOMAIN tx[s].mine \union {j} |->
                                          IF k \in {j} THEN r ELSE tx[s].mine[k]]])
  PROVE  IInv'
<1> DEFINE f == [k \in {j} |-> r]
           g == [k \in DOMAIN tx[s].mine \union {j} |-> IF k \in {j} THEN f[k] ELSE tx[s].mine[k]]
<1>1. f \in [{j} -> Row] /\ \A k \in {j} : QuietRow(f[k], k)
  OBVIOUS
<1>2. g = [k \in DOMAIN tx[s].mine \union {j} |-> IF k \in {j} THEN r ELSE tx[s].mine[k]]
  OBVIOUS
<1>3. Goes(s, [tx[s] EXCEPT !.mine = g]) /\ {j} \in SUBSET Job
  BY <1>2
<1> HIDE DEF f
<1> QED BY <1>1, <1>3, QuietWritten

\* Or it goes on as it is.
LEMMA QuietPasses ==
  ASSUME IInv, NEW s \in Session, NEW h, Reaches(s, h), h \notin {"lock", "gate", "claim", "holds"},
         UNCHANGED <<job, paused, rate, lock>>, Goes(s, tx[s])
  PROVE  IInv'
<1>1. tx[s] \in Tx
  BY DEF IInv, TypeOK
<1>2. Goes(s, [tx[s] EXCEPT !.paused = tx[s].paused, !.rows = tx[s].rows])
      /\ tx[s].rows \in SUBSET Job /\ tx[s].paused \in BOOLEAN
  BY <1>1, Fields
<1> QED BY <1>2, QuietReads

LEMMA InsertKept == ASSUME IInv, NEW s \in Session, Insert(s) PROVE IInv'
<1> DEFINE j == tx[s].j
           r == ToList(Absent, tx[s].paused, 0)
<1>1. Reaches(s, "insert") /\ UNCHANGED <<job, paused, rate, lock>> /\ Free(s, {j})
  BY DEF Insert
<1>2. j \in Job /\ tx[s].paused \in BOOLEAN /\ job[j] \in Row
  BY <1>1, Ahead DEF IInv, TypeOK, Tx
<1>3. r \in Row /\ QuietRow(r, j)
  <2>1. r \in Row /\ r.state # "active" /\ r.started = 0
    BY <1>2, AbsentRow, Changes
  <2>2. job[j].started \in Nat
    BY <1>2 DEF Row
  <2> QED BY <2>1, <2>2 DEF QuietRow
<1>4. CASE job[j].state = "absent"
  <2>1. Goes(s, [tx[s] EXCEPT !.mine = [k \in DOMAIN tx[s].mine \union {j} |->
                                          IF k \in {j} THEN r ELSE tx[s].mine[k]]])
    BY <1>4 DEF Insert, Written
  <2> HIDE DEF r
  <2> QED BY <1>1, <1>2, <1>3, <2>1, QuietWrittenOne
<1>5. CASE job[j].state # "absent"
  <2>1. Goes(s, tx[s])
    BY <1>5 DEF Insert
  <2> QED BY <1>1, <2>1, QuietPasses
<1> QED BY <1>4, <1>5

LEMMA PromoteKept == ASSUME IInv, NEW s \in Session, PromoteOne(s) PROVE IInv'
<1> DEFINE j == tx[s].j
           r == ToList(job[j], tx[s].paused, 0)
<1>1. Reaches(s, "promote") /\ UNCHANGED <<job, paused, rate, lock>> /\ Free(s, {j})
  BY DEF PromoteOne
<1>2. j \in Job /\ tx[s].paused \in BOOLEAN /\ job[j] \in Row
  BY <1>1, Ahead DEF IInv, TypeOK, Tx
<1>3. r \in Row /\ QuietRow(r, j)
  <2>1. r \in Row /\ r.state # "active" /\ r.started = job[j].started /\ job[j].started \in Nat
    BY <1>2, Changes
  <2> QED BY <2>1 DEF QuietRow
<1>4. CASE job[j].state = "delayed"
  <2>1. Goes(s, [tx[s] EXCEPT !.mine = [k \in DOMAIN tx[s].mine \union {j} |->
                                          IF k \in {j} THEN r ELSE tx[s].mine[k]]])
    BY <1>4 DEF PromoteOne, Written
  <2> HIDE DEF r
  <2> QED BY <1>1, <1>2, <1>3, <2>1, QuietWrittenOne
<1>5. CASE job[j].state # "delayed"
  <2>1. Goes(s, tx[s])
    BY <1>5 DEF PromoteOne
  <2> QED BY <1>1, <2>1, QuietPasses
<1> QED BY <1>4, <1>5

LEMMA SettleKept == ASSUME IInv, NEW s \in Session, Settle(s) PROVE IInv'
<1> DEFINE j == tx[s].j
           v == View(s)[j]
           r == Settled(v, tx[s].call, tx[s].paused)
<1>1. Reaches(s, "settle") /\ UNCHANGED <<job, paused, rate, lock>> /\ Free(s, {j})
  BY DEF Settle
<1>2. tx[s].call \in {"finish", "retry"}
  BY <1>1, Ahead DEF IInv
<1>3. j \in Job /\ tx[s].paused \in BOOLEAN
  BY <1>2 DEF IInv, TypeOK, Tx
<1>4. v \in Row /\ v.started <= job[j].started
  BY <1>1, <1>3, Seen
<1>5. r \in Row /\ QuietRow(r, j)
  <2>1. Attempted(v) \in Row /\ Attempted(v).started = v.started
    BY <1>3, <1>4, Changes
  <2>2. CASE tx[s].call = "finish"
    <3>1. r = ToFinal(Attempted(v), "completed")
      BY <2>2 DEF Settled
    <3>2. r \in Row /\ r.state # "active" /\ r.started = Attempted(v).started
      BY <2>1, <3>1, Changes, <1>3 DEF Final
    <3> QED BY <1>4, <2>1, <3>2 DEF QuietRow
  <2>3. CASE tx[s].call = "retry"
    <3>1. r = ToList(Attempted(v), tx[s].paused, 0)
      BY <2>3 DEF Settled
    <3>2. r \in Row /\ r.state # "active" /\ r.started = Attempted(v).started
      BY <2>1, <3>1, Changes, <1>3
    <3> QED BY <1>4, <2>1, <3>2 DEF QuietRow
  <2> QED BY <1>2, <2>2, <2>3
<1>6. \/ Goes(s, [tx[s] EXCEPT !.mine = [k \in DOMAIN tx[s].mine \union {j} |->
                                          IF k \in {j} THEN r ELSE tx[s].mine[k]]])
      \/ Goes(s, tx[s])
  BY DEF Settle, Written
<1> HIDE DEF r
<1> QED BY <1>1, <1>3, <1>5, <1>6, QuietWrittenOne, QuietPasses

LEMMA CheckHolderKept == ASSUME IInv, NEW s \in Session, CheckHolder(s) PROVE IInv'
<1> DEFINE t == tx[s]
           v == View(s)[t.j]
           p == (t.call = "retry" /\ paused)
           going == [[t EXCEPT !.paused = p] EXCEPT !.left = Tail(t.left)]
           ended == [t EXCEPT !.left = <<>>]
<1>1. Reaches(s, "holds") /\ UNCHANGED <<job, paused, rate, lock>>
  BY DEF CheckHolder
<1>2. TypeOK /\ Keeps(s)
  BY DEF IInv
<1>3. /\ t \in Tx /\ Tail(t.left) \in Seq(Statement) /\ <<>> \in Seq(Statement) /\ p \in BOOLEAN
  BY <1>1, <1>2, Ahead DEF TypeOK, Suffix
<1>4. t.call = "finish" => v = job[t.j]
  <2>1. t.call = "finish" => Place(s) = 7 /\ t.j \in Job
    BY <1>1, <1>2, Ahead DEF TypeOK
  <2>2. t.call = "finish" => DOMAIN t.mine = {}
    BY <1>2, <2>1 DEF Keeps, HoldInv
  <2> QED BY <2>1, <2>2 DEF View
<1>5. {} \in SUBSET Job /\ Free(s, {})
  BY DEF Free
<1>6. CASE v.state = "active" /\ v.token = t.token /\ (v.lease = "live" \/ t.call = "retry")
  <2>1. Goes(s, [t EXCEPT !.paused = p])
    BY <1>6 DEF CheckHolder
  <2>2. [t EXCEPT !.paused = p].left = t.left
    BY <1>3 DEF Tx
  <2>3. tx' = [tx EXCEPT ![s] = going]
    BY <2>1, <2>2 DEF Goes
  <2>4. /\ going \in Tx /\ going.call = t.call /\ going.j = t.j /\ going.token = t.token
        /\ going.claims = t.claims /\ going.left = Tail(t.left) /\ going.mine = t.mine
    BY <1>3 DEF Tx
  <2> HIDE DEF going
  <2>5. going.call = "finish" => job[going.j].token = going.token
    BY <1>4, <1>6, <2>4
  <2>6. DOMAIN going.mine = DOMAIN tx[s].mine \union {}
    BY <2>4
  <2> QED BY <1>1, <1>5, <2>3, <2>4, <2>5, <2>6, QuietKept
<1>7. CASE ~ (v.state = "active" /\ v.token = t.token /\ (v.lease = "live" \/ t.call = "retry"))
  <2>1. tx' = [tx EXCEPT ![s] = ended]
    BY <1>7 DEF CheckHolder, Stops
  <2>2. /\ ended \in Tx /\ ended.call = t.call /\ ended.j = t.j /\ ended.token = t.token
        /\ ended.claims = t.claims /\ ended.left = <<>> /\ ended.mine = t.mine
    BY <1>3 DEF Tx
  <2> HIDE DEF ended
  <2>3. DOMAIN ended.mine = DOMAIN tx[s].mine \union {}
    BY <2>2
  <2> QED BY <1>1, <1>5, <2>1, <2>2, <2>3, QuietKept
<1> QED BY <1>6, <1>7

-----------------------------------------------------------------------------
(* The lock, the gate and the claim.                                       *)

\* A transaction that goes on, and one that stops.
LEMMA Onward ==
  ASSUME TypeOK, NEW s \in Session, NEW h, Reaches(s, h)
  PROVE  LET going == [tx[s] EXCEPT !.left = Tail(tx[s].left)]
             ended == [tx[s] EXCEPT !.left = <<>>]
         IN  /\ going \in Tx /\ going.call = tx[s].call /\ going.j = tx[s].j /\ going.token = tx[s].token
             /\ going.claims = tx[s].claims /\ going.mine = tx[s].mine /\ going.left = Tail(tx[s].left)
             /\ ended \in Tx /\ ended.call = tx[s].call /\ ended.j = tx[s].j /\ ended.token = tx[s].token
             /\ ended.claims = tx[s].claims /\ ended.mine = tx[s].mine /\ ended.left = <<>>
<1>1. tx[s] \in Tx /\ Tail(tx[s].left) \in Seq(Statement) /\ <<>> \in Seq(Statement)
  BY Ahead DEF Suffix
<1> QED BY <1>1 DEF Tx

LEMMA TakeLockKept == ASSUME IInv, NEW s \in Session, TakeLock(s) PROVE IInv'
<1> DEFINE r == [tx[s] EXCEPT !.left = Tail(tx[s].left)]
<1>1. /\ Reaches(s, "lock") /\ UNCHANGED <<job, paused, rate>> /\ lock = NoSession /\ lock' = s
      /\ tx' = [tx EXCEPT ![s] = r]
  BY DEF TakeLock, Goes
<1>2. TypeOK /\ Keeps(s) /\ Apart
  BY DEF IInv
<1>3. /\ r \in Tx /\ r.call = tx[s].call /\ r.j = tx[s].j /\ r.token = tx[s].token
      /\ r.claims = tx[s].claims /\ r.mine = tx[s].mine /\ r.left = Tail(tx[s].left)
  BY <1>1, <1>2, Onward
<1> HIDE DEF r
<1>4. \A o \in Session \ {s} : DOMAIN r.mine \intersect DOMAIN tx[o].mine = {}
  BY <1>2, <1>3 DEF Apart
<1>5. tx'[s] = r /\ (Keeps(s)' => IInv')
  BY <1>1, <1>3, <1>4, StatementKept
<1>6. /\ Place(s) \in Nat \ {0} /\ Len(Tail(tx[s].left)) = Place(s) - 1
      /\ r.call = "finish" => Place(s) = 8
      /\ r.call = "fetch" => Place(s) = 5
  BY <1>1, <1>2, <1>3, Ahead
<1>7. Place(s)' = Place(s) - 1
  BY <1>3, <1>5, <1>6 DEF Place
<1>8. ~ Claiming(s)'
  BY <1>3, <1>5, <1>6, <1>7 DEF Claiming
<1>9. Quiet(s) /\ tx[s].claims # 1
  BY <1>2, <1>6 DEF Keeps, CapInv, RateInv
<1>10. Quiet(s)'
  BY <1>1, <1>3, <1>5, <1>9 DEF Quiet, QuietRow
<1>11. CapInv(s)' /\ RateInv(s)'
  BY <1>3, <1>5, <1>8, <1>9, <1>10 DEF CapInv, RateInv
<1>12. HoldInv(s)'
  <2>1. r.call = "finish" => DOMAIN r.mine = {}
    BY <1>2, <1>3, <1>6 DEF Keeps, HoldInv
  <2> QED BY <1>3, <1>5, <1>6, <1>7, <2>1 DEF HoldInv
<1>13. (Locked(s) => lock = s)'
  BY <1>1
<1> QED BY <1>5, <1>11, <1>12, <1>13 DEF Keeps

LEMMA GateKept == ASSUME IInv, NEW s \in Session, Gate(s) PROVE IInv'
<1> DEFINE going == [tx[s] EXCEPT !.left = Tail(tx[s].left)]
           ended == [tx[s] EXCEPT !.left = <<>>]
           open  == /\ RateMax > 0 => rate < RateMax
                    /\ Cardinality(Live(View(s))) < Concurrency
<1>1. /\ Reaches(s, "gate") /\ UNCHANGED <<job, paused, rate, lock>>
      /\ (open /\ tx' = [tx EXCEPT ![s] = going]) \/ tx' = [tx EXCEPT ![s] = ended]
  BY DEF Gate, Goes, Stops
<1>2. TypeOK /\ Keeps(s) /\ Apart
  BY DEF IInv
<1>3. PICK r \in {going, ended} : tx' = [tx EXCEPT ![s] = r] /\ (r.left # <<>> => open)
  <2>1. ended.left = <<>>
    BY <1>1, <1>2, Onward
  <2> QED BY <1>1, <2>1
<1>4. /\ r \in Tx /\ r.call = tx[s].call /\ r.j = tx[s].j /\ r.token = tx[s].token
      /\ r.claims = tx[s].claims /\ r.mine = tx[s].mine /\ r.left \in {Tail(tx[s].left), <<>>}
  BY <1>1, <1>2, Onward
<1>5. \A o \in Session \ {s} : DOMAIN r.mine \intersect DOMAIN tx[o].mine = {}
  BY <1>2, <1>4 DEF Apart
<1>6. tx'[s] = r /\ (Keeps(s)' => IInv')
  BY <1>1, <1>3, <1>4, <1>5, StatementKept
<1>7. /\ Place(s) = 2 /\ Len(Tail(tx[s].left)) = 1 /\ Len(<<>>) = 0 /\ r.call \in {"fetch", "finish"}
  <2>1. /\ Len(Tail(tx[s].left)) = Place(s) - 1 /\ Len(<<>>) = 0
        /\ tx[s].call \in {"fetch", "finish"} /\ Place(s) = 2
    BY <1>1, <1>2, Ahead
  <2> QED BY <1>4, <2>1
<1>8. Place(s)' \in {0, 1} /\ (r.left = <<>> => Place(s)' = 0)
  BY <1>4, <1>6, <1>7 DEF Place
<1>9. Locked(s) /\ Quiet(s) /\ tx[s].claims # 1
  BY <1>2, <1>4, <1>7 DEF Keeps, CapInv, RateInv, Locked
<1>10. Quiet(s)'
  BY <1>1, <1>4, <1>6, <1>9 DEF Quiet, QuietRow
<1>11. View(s)' = View(s)
  BY <1>1, <1>4, <1>6 DEF View
<1>12. Claiming(s)' => open
  BY <1>3, <1>8 DEF Claiming
<1> HIDE DEF going, ended
<1>13. Cardinality(Live(View(s)))' = Cardinality(Live(View(s)))
  BY <1>11
<1>14. CapInv(s)'
  BY <1>10, <1>12, <1>13 DEF CapInv
<1>15. RateInv(s)'
  BY <1>1, <1>4, <1>6, <1>9, <1>12 DEF RateInv
<1>16. HoldInv(s)'
  BY <1>8 DEF HoldInv
<1>17. (Locked(s) => lock = s)'
  BY <1>1, <1>2, <1>9 DEF Keeps
<1> QED BY <1>6, <1>14, <1>15, <1>16, <1>17 DEF Keeps

LEMMA ClaimKept == ASSUME IInv, NEW s \in Session, Claim(s) PROVE IInv'
<1> DEFINE R == View(s)
           Open == {j \in WaitHeads(R) : Free(s, {j})}
           ended == [tx[s] EXCEPT !.left = <<>>]
<1>1. Reaches(s, "claim") /\ UNCHANGED <<job, paused, rate, lock>>
  BY DEF Claim
<1>2. TypeOK /\ Keeps(s) /\ Apart
  BY DEF IInv
<1>3. /\ Place(s) = 1 /\ Len(Tail(tx[s].left)) = 0 /\ Len(<<>>) = 0 /\ tx[s].call \in {"fetch", "finish"}
      /\ tx[s] \in Tx /\ Tail(tx[s].left) \in Seq(Statement)
  <2>1. /\ Len(Tail(tx[s].left)) = Place(s) - 1 /\ Len(<<>>) = 0 /\ tx[s] \in Tx
        /\ tx[s].call \in {"fetch", "finish"} /\ Place(s) = 1 /\ Tail(tx[s].left) \in Seq(Statement)
    BY <1>1, <1>2, Ahead DEF Suffix
  <2> QED BY <2>1
<1>4. Locked(s) /\ Claiming(s) /\ Quiet(s) /\ tx[s].claims # 1 /\ lock = s
  BY <1>2, <1>3 DEF Keeps, CapInv, RateInv, Locked, Claiming
<1>5. CASE tx' = [tx EXCEPT ![s] = ended]
  <2>1. /\ ended \in Tx /\ ended.call = tx[s].call /\ ended.j = tx[s].j
        /\ ended.claims = tx[s].claims /\ ended.mine = tx[s].mine /\ ended.left = <<>>
    BY <1>1, <1>2, Onward
  <2> HIDE DEF ended
  <2>2. \A o \in Session \ {s} : DOMAIN ended.mine \intersect DOMAIN tx[o].mine = {}
    BY <1>2, <2>1 DEF Apart
  <2>3. tx'[s] = ended /\ (Keeps(s)' => IInv')
    BY <1>1, <1>5, <2>1, <2>2, StatementKept
  <2>4. Place(s)' = 0
    BY <1>3, <2>1, <2>3 DEF Place
  <2>5. Quiet(s)'
    BY <1>1, <1>4, <2>1, <2>3 DEF Quiet, QuietRow
  <2>6. CapInv(s)' /\ RateInv(s)' /\ HoldInv(s)'
    BY <1>4, <2>1, <2>3, <2>4, <2>5 DEF CapInv, RateInv, HoldInv, Claiming
  <2> QED BY <1>1, <1>4, <2>3, <2>6 DEF Keeps
<1>6. ASSUME NEW got \in Open,
             Goes(s, [[tx[s] EXCEPT !.mine = [j \in DOMAIN tx[s].mine \union {got} |->
                         IF j \in {got} THEN Claimed(R[j], tx[s].token) ELSE tx[s].mine[j]]]
                      EXCEPT !.claims = IF RateMax > 0 THEN 1 ELSE 0])
      PROVE  IInv'
  <2> DEFINE c == Claimed(R[got], tx[s].token)
             g == [j \in DOMAIN tx[s].mine \union {got} |->
                     IF j \in {got} THEN Claimed(R[j], tx[s].token) ELSE tx[s].mine[j]]
             n == IF RateMax > 0 THEN 1 ELSE 0
             w == [[tx[s] EXCEPT !.mine = g] EXCEPT !.claims = n]
             r == [w EXCEPT !.left = Tail(tx[s].left)]
  <2>1. got \in Job /\ Free(s, {got})
    BY DEF WaitHeads, In, Numbered, Lowest
  <2>2. R[got] \in Row /\ tx[s].token \in Token \union {NoToken}
    BY <1>1, <1>3, <2>1, Seen DEF Tx
  <2>3. c \in Row
    BY <2>2, ClaimedRow
  <2>4. DOMAIN tx[s].mine \in SUBSET Job /\ \A j \in DOMAIN tx[s].mine : tx[s].mine[j] \in Row
    BY <1>3, RowsOf DEF Tx
  <2>5. g \in [DOMAIN tx[s].mine \union {got} -> Row] /\ DOMAIN tx[s].mine \union {got} \in SUBSET Job
    BY <2>1, <2>3, <2>4
  <2>6. g \in Rows /\ DOMAIN g = DOMAIN tx[s].mine \union {got}
    BY <2>5 DEF Rows
  <2>7. g[got] = c /\ \A j \in DOMAIN tx[s].mine \ {got} : g[j] = tx[s].mine[j]
    OBVIOUS
  <2>8. n \in {0, 1} /\ (n = 1 => RateMax > 0)
    OBVIOUS
  <2> HIDE DEF g, n
  <2>9. Goes(s, w)
    BY <1>6 DEF g, n
  <2>10. w.left = tx[s].left
    BY <1>3, <2>6, <2>8 DEF Tx
  <2>11. tx' = [tx EXCEPT ![s] = r]
    BY <2>9, <2>10 DEF Goes
  <2>12. /\ r \in Tx /\ r.call = tx[s].call /\ r.j = tx[s].j /\ r.claims = n /\ r.mine = g
         /\ r.left = Tail(tx[s].left)
    BY <1>3, <2>6, <2>8 DEF Tx
  <2> HIDE DEF r, w
  <2>13. \A o \in Session \ {s} : DOMAIN r.mine \intersect DOMAIN tx[o].mine = {}
    BY <1>2, <2>1, <2>6, <2>12 DEF Apart, Free
  <2>14. tx'[s] = r /\ (Keeps(s)' => IInv')
    BY <1>1, <2>11, <2>12, <2>13, StatementKept
  <2>15. Place(s)' = 0
    BY <1>3, <2>12, <2>14 DEF Place
  <2>16. Locked(s)'
    BY <1>3, <2>12, <2>14, <2>15 DEF Locked
  <2>17. View(s)' = [j \in Job |-> IF j = got THEN c ELSE View(s)[j]]
    BY <1>1, <2>1, <2>6, <2>7, <2>12, <2>14 DEF View
  <2> HIDE DEF c
  <2>18. Live(View(s)') \subseteq Live(View(s)) \union {got}
    BY <2>1, <2>17 DEF Live, In
  <2>19. Cardinality(Live(View(s)')) <= Cardinality(Live(View(s))) + 1
    <3> DEFINE L == Live(View(s))
    <3>1. IsFiniteSet(L) /\ Cardinality(L) \in Nat
      BY LiveIs
    <3> HIDE DEF L
    <3>2. /\ IsFiniteSet(L \union {got})
          /\ Cardinality(L \union {got}) = IF got \in L THEN Cardinality(L) ELSE Cardinality(L) + 1
      BY <3>1, FS_AddElement
    <3>3. Cardinality(Live(View(s)')) <= Cardinality(L \union {got})
      BY <2>18, <3>2, FS_Subset DEF L
    <3>4. Cardinality(Live(View(s)')) \in Nat
      BY LiveIs
    <3>5. Cardinality(Live(View(s)')) <= Cardinality(L) + 1
      BY <3>1, <3>2, <3>3, <3>4
    <3> QED BY <3>5 DEF L
  <2>20. Cardinality(Live(View(s)')) <= Concurrency
    <3>1. Cardinality(Live(View(s))) < Concurrency
      BY <1>2, <1>4 DEF Keeps, CapInv
    <3>2. Concurrency \in Nat /\ Cardinality(Live(View(s))) \in Nat /\ Cardinality(Live(View(s)')) \in Nat
      BY LimitAssumption, LiveIs
    <3> QED BY <2>19, <3>1, <3>2
  <2>21. CapInv(s)'
    BY <2>15, <2>16, <2>20 DEF CapInv, Claiming
  <2>22. RateInv(s)'
    BY <1>1, <1>2, <1>4, <2>8, <2>12, <2>14, <2>15, <2>16 DEF RateInv, Keeps, Claiming
  <2>23. HoldInv(s)'
    BY <2>15 DEF HoldInv
  <2> QED BY <1>1, <1>4, <2>14, <2>21, <2>22, <2>23 DEF Keeps
<1>7. \/ tx' = [tx EXCEPT ![s] = ended]
      \/ \E got \in Open :
           Goes(s, [[tx[s] EXCEPT !.mine = [j \in DOMAIN tx[s].mine \union {got} |->
                       IF j \in {got} THEN Claimed(R[j], tx[s].token) ELSE tx[s].mine[j]]]
                    EXCEPT !.claims = IF RateMax > 0 THEN 1 ELSE 0])
  BY DEF Claim, Stops, Written
<1> QED BY <1>5, <1>6, <1>7

-----------------------------------------------------------------------------
(* Transactions begin and end.                                             *)

\* A session that does nothing has nothing to keep.
LEMMA Resting == ASSUME NEW s \in Session, tx'[s] = Idle PROVE Keeps(s)'
<1>1. Idle.call = "none" /\ Idle.claims = 0 /\ DOMAIN Idle.mine = {}
  BY IdleTx
<1>2. ~ Locked(s)' /\ ~ Claiming(s)'
  BY <1>1 DEF Locked, Claiming
<1>3. Quiet(s)'
  BY <1>1 DEF Quiet
<1> QED BY <1>1, <1>2, <1>3 DEF Keeps, CapInv, RateInv, HoldInv

LEMMA BeginKept ==
  ASSUME "delay" \notin Calls, IInv, NEW s \in Session, NEW what \in Calls,
         NEW j \in Job \union {NoJob}, NEW t \in Token \union {NoToken}, Begin(s, what, j, t)
  PROVE  IInv'
<1> DEFINE r == [Idle EXCEPT !.call = what, !.left = Program(what), !.j = j, !.token = t]
<1>1. /\ tx[s] = Idle /\ tx' = [tx EXCEPT ![s] = r] /\ UNCHANGED <<job, paused, rate, lock>>
      /\ what \in {"finish", "retry", "add", "promote"} => j \in Job
  BY DEF Begin
<1>2. TypeOK /\ Apart /\ WithinRate
  BY DEF IInv
<1>3. Program(what) \in Seq(Statement) /\ what \in Calls \ {"delay"}
  BY Starts
<1>4. /\ r \in Tx /\ r.call = what /\ r.left = Program(what) /\ r.j = j /\ r.claims = 0 /\ r.mine = Idle.mine
  <2>1. Idle \in Tx /\ Idle.claims = 0
    BY IdleTx
  <2>2. ASSUME NEW i \in Tx, NEW c \in Calls \ {"delay"}, NEW l \in Seq(Statement)
        PROVE  [i EXCEPT !.call = c, !.left = l, !.j = j, !.token = t] \in Tx
    BY DEF Tx
  <2>3. r.call = what /\ r.left = Program(what) /\ r.j = j /\ r.claims = 0 /\ r.mine = Idle.mine
    BY <2>1 DEF Tx
  <2>4. r \in Tx
    BY <1>3, <2>1, <2>2
  <2> QED BY <2>3, <2>4
<1> HIDE DEF r
<1>5. Suffix(r.left, Program(r.call)) /\ r.call # "none" /\ DOMAIN r.mine = {}
  BY <1>3, <1>4, IdleTx, WholeSuffix, CallsAssumption
<1>6. /\ job' \in [Job -> Row] /\ paused' \in BOOLEAN /\ rate' \in Nat /\ lock' \in Session \union {NoSession}
  BY <1>1, <1>2 DEF TypeOK
<1>7. TypeOK' /\ Apart' /\ tx'[s] = r /\ \A o \in Session \ {s} : tx'[o] = tx[o]
  <2>1. /\ IF r.call = "none" THEN r.left = <<>> ELSE Suffix(r.left, Program(r.call))
        /\ r.call \in {"finish", "retry", "add", "promote"} => r.j \in Job
        /\ \A o \in Session \ {s} : DOMAIN r.mine \intersect DOMAIN tx[o].mine = {}
    BY <1>1, <1>4, <1>5
  <2> QED BY <1>1, <1>2, <1>4, <1>6, <2>1, Replaced
<1>8. (r.call = "fetch" => Place(s)' = 6) /\ (r.call = "finish" => Place(s)' = 8)
  BY <1>3, <1>4, <1>7, Starts DEF Place
<1>9. ~ Locked(s)' /\ ~ Claiming(s)'
  BY <1>7, <1>8 DEF Locked, Claiming
<1>10. Quiet(s)'
  BY <1>5, <1>7 DEF Quiet
<1>11. Keeps(s)'
  BY <1>4, <1>5, <1>7, <1>8, <1>9, <1>10 DEF Keeps, CapInv, RateInv, HoldInv
<1>12. ASSUME NEW o \in Session \ {s}
       PROVE  Keeps(o)'
  <2>1. Keeps(o) /\ rate' <= rate /\ lock' = lock
    BY <1>1, <1>2 DEF IInv, TypeOK
  <2>2. Calm
    BY <1>1 DEF Calm
  <2> QED BY <1>1, <1>2, <1>7, <2>1, <2>2, OthersKeep
<1>13. WithinRate'
  BY <1>1, <1>2 DEF WithinRate
<1> QED BY <1>7, <1>11, <1>12, <1>13 DEF IInv

\* A session ends its transaction; the tables are as the others may find them.
LEMMA EndKept ==
  ASSUME IInv, NEW s \in Session, End(s), job' \in [Job -> Row], paused' \in BOOLEAN, rate' \in Nat,
         rate' <= RateMax,
         \A j \in Job \ DOMAIN tx[s].mine : job'[j] = job[j],
         lock # s => Calm /\ rate' <= rate
  PROVE  IInv'
<1>1. TypeOK /\ Apart
  BY DEF IInv
<1>2. tx' = [tx EXCEPT ![s] = Idle] /\ lock' = IF lock = s THEN NoSession ELSE lock
  BY DEF End
<1>3. lock' \in Session \union {NoSession}
  BY <1>1, <1>2 DEF TypeOK
<1>4. /\ Idle \in Tx /\ Idle.call = "none" /\ Idle.left = <<>> /\ DOMAIN Idle.mine = {}
  BY IdleTx
<1>5. TypeOK' /\ Apart' /\ tx'[s] = Idle /\ \A o \in Session \ {s} : tx'[o] = tx[o]
  <2>1. /\ IF Idle.call = "none" THEN Idle.left = <<>> ELSE Suffix(Idle.left, Program(Idle.call))
        /\ Idle.call \in {"finish", "retry", "add", "promote"} => Idle.j \in Job
        /\ \A o \in Session \ {s} : DOMAIN Idle.mine \intersect DOMAIN tx[o].mine = {}
    BY <1>4
  <2> QED BY <1>1, <1>2, <1>3, <1>4, <2>1, Replaced
<1>6. Keeps(s)'
  BY <1>5, Resting
<1>7. ASSUME NEW o \in Session \ {s}
      PROVE  Keeps(o)'
  <2>1. Keeps(o)
    BY DEF IInv
  <2>2. Locked(o) => Calm /\ rate' <= rate /\ lock' = lock
    BY <1>2, <2>1 DEF Keeps
  <2>3. DOMAIN tx[o].mine \in SUBSET Job
    BY <1>1, RowsOf DEF TypeOK, Tx
  <2>4. \A j \in DOMAIN tx[o].mine : job'[j] = job[j]
    BY <1>1, <2>3 DEF Apart
  <2> QED BY <1>1, <1>5, <2>1, <2>2, <2>4, OthersKeep
<1>8. WithinRate'
  BY DEF WithinRate
<1> QED BY <1>5, <1>6, <1>7, <1>8 DEF IInv

LEMMA AbortKept == ASSUME IInv, NEW s \in Session, Abort(s) PROVE IInv'
<1>1. End(s) /\ UNCHANGED <<job, paused, rate>>
  BY DEF Abort
<1>2. job' \in [Job -> Row] /\ paused' \in BOOLEAN /\ rate' \in Nat /\ rate' <= RateMax /\ rate' <= rate
  BY <1>1 DEF IInv, TypeOK, WithinRate
<1>3. Calm
  BY <1>1 DEF Calm
<1> QED BY <1>1, <1>2, <1>3, EndKept

LEMMA CommitKept == ASSUME IInv, NEW s \in Session, Commit(s) PROVE IInv'
<1>1. /\ End(s) /\ job' = View(s) /\ rate' = rate + tx[s].claims
      /\ paused' = IF tx[s].call \in {"pause", "resume"} THEN tx[s].call = "pause" ELSE paused
  BY DEF Commit
<1>2. TypeOK /\ Keeps(s) /\ WithinRate
  BY DEF IInv
<1>3. job' \in [Job -> Row] /\ paused' \in BOOLEAN
  BY <1>1, <1>2, ViewIs DEF TypeOK
<1>4. /\ rate \in Nat /\ RateMax \in Nat /\ tx[s].claims \in {0, 1} /\ rate <= RateMax
      /\ tx[s].claims = 1 => Locked(s) /\ rate < RateMax
  BY <1>2, LimitAssumption DEF TypeOK, Tx, WithinRate, Keeps, RateInv
<1>5. rate' \in Nat /\ rate' <= RateMax /\ (~ Locked(s) => rate' <= rate)
  BY <1>1, <1>4
<1>6. \A j \in Job \ DOMAIN tx[s].mine : job'[j] = job[j]
  BY <1>1 DEF View
<1>7. ~ Locked(s) => Calm
  <2>1. ~ Locked(s) => Quiet(s)
    BY <1>2 DEF Keeps, CapInv
  <2> QED BY <1>1, <2>1 DEF Calm, View, Quiet, QuietRow
<1>8. lock # s => ~ Locked(s)
  BY <1>2 DEF Keeps
<1> QED BY <1>1, <1>3, <1>5, <1>6, <1>7, <1>8, EndKept

-----------------------------------------------------------------------------
(* What happens to rows nobody has written, and time.                      *)

LEMMA AroundKept ==
  ASSUME IInv, UNCHANGED <<paused, lock, tx>>, job' \in [Job -> Row], rate' \in Nat, rate' <= rate, Calm,
         \A j \in Job : job'[j] = job[j] \/ Unwritten(j)
  PROVE  IInv'
<1>1. TypeOK /\ Apart /\ WithinRate
  BY DEF IInv
<1>2. TypeOK' /\ Apart'
  BY <1>1 DEF TypeOK, Apart
<1>3. WithinRate'
  BY <1>1, LimitAssumption DEF TypeOK, WithinRate
<1>4. ASSUME NEW o \in Session
      PROVE  Keeps(o)'
  <2>1. DOMAIN tx[o].mine \in SUBSET Job
    BY <1>1, RowsOf DEF TypeOK, Tx
  <2>2. \A j \in DOMAIN tx[o].mine : job'[j] = job[j]
    BY <2>1 DEF Unwritten
  <2>3. Keeps(o)
    BY DEF IInv
  <2> QED BY <1>1, <1>2, <2>2, <2>3, OthersKeep
<1> QED BY <1>2, <1>3, <1>4 DEF IInv

LEMMA AddDelayedKept == ASSUME IInv, NEW j \in Job, NEW at \in {"later", "due"}, AddDelayed(j, at) PROVE IInv'
<1>1. /\ job' = [job EXCEPT ![j] = ToDelayed(Absent, at)] /\ UNCHANGED <<paused, rate, lock, tx>> /\ Unwritten(j)
  BY DEF AddDelayed
<1>2. job \in [Job -> Row] /\ rate \in Nat
  BY DEF IInv, TypeOK
<1>3. ToDelayed(Absent, at) \in Row /\ ToDelayed(Absent, at).state # "active"
  BY AbsentRow, Changes DEF At
<1>4. job' \in [Job -> Row] /\ rate' \in Nat /\ rate' <= rate
  BY <1>1, <1>2, <1>3
<1>5. Calm
  BY <1>1, <1>2, <1>3 DEF Calm
<1>6. \A k \in Job : job'[k] = job[k] \/ Unwritten(k)
  BY <1>1, <1>2
<1> QED BY <1>1, <1>4, <1>5, <1>6, AroundKept

LEMMA LockExpiresKept == ASSUME IInv, NEW j \in Job, LockExpires(j) PROVE IInv'
<1>1. /\ job' = [job EXCEPT ![j].lease = "expired"] /\ UNCHANGED <<paused, rate, lock, tx>> /\ Unwritten(j)
  BY DEF LockExpires
<1>2. job \in [Job -> Row] /\ rate \in Nat
  BY DEF IInv, TypeOK
<1>3. /\ [job[j] EXCEPT !.lease = "expired"] \in Row
      /\ [job[j] EXCEPT !.lease = "expired"].state = job[j].state
      /\ [job[j] EXCEPT !.lease = "expired"].token = job[j].token
      /\ [job[j] EXCEPT !.lease = "expired"].lease = "expired"
  BY <1>2 DEF Row
<1>4. job' = [job EXCEPT ![j] = [job[j] EXCEPT !.lease = "expired"]]
  BY <1>1, <1>2
<1>5. job' \in [Job -> Row] /\ rate' \in Nat /\ rate' <= rate
  BY <1>1, <1>2, <1>3, <1>4
<1>6. Calm
  BY <1>2, <1>3, <1>4 DEF Calm
<1>7. \A k \in Job : job'[k] = job[k] \/ Unwritten(k)
  BY <1>1, <1>2
<1> QED BY <1>1, <1>5, <1>6, <1>7, AroundKept

LEMMA DelayElapsesKept == ASSUME IInv, NEW j \in Job, DelayElapses(j) PROVE IInv'
<1>1. /\ job' = [job EXCEPT ![j].at = "due"] /\ UNCHANGED <<paused, rate, lock, tx>> /\ Unwritten(j)
  BY DEF DelayElapses
<1>2. job \in [Job -> Row] /\ rate \in Nat
  BY DEF IInv, TypeOK
<1>3. /\ [job[j] EXCEPT !.at = "due"] \in Row
      /\ [job[j] EXCEPT !.at = "due"].state = job[j].state
      /\ [job[j] EXCEPT !.at = "due"].token = job[j].token
      /\ [job[j] EXCEPT !.at = "due"].lease = job[j].lease
  BY <1>2 DEF Row, At
<1>4. job' = [job EXCEPT ![j] = [job[j] EXCEPT !.at = "due"]]
  BY <1>1, <1>2
<1>5. job' \in [Job -> Row] /\ rate' \in Nat /\ rate' <= rate
  BY <1>1, <1>2, <1>3, <1>4
<1>6. Calm
  BY <1>2, <1>3, <1>4 DEF Calm
<1>7. \A k \in Job : job'[k] = job[k] \/ Unwritten(k)
  BY <1>1, <1>2
<1> QED BY <1>1, <1>5, <1>6, <1>7, AroundKept

LEMMA WindowClosesKept == ASSUME IInv, WindowCloses PROVE IInv'
<1>1. rate' = 0 /\ UNCHANGED <<job, paused, lock, tx>>
  BY DEF WindowCloses
<1>2. job' \in [Job -> Row] /\ rate' \in Nat /\ rate' <= rate
  BY <1>1 DEF IInv, TypeOK
<1>3. Calm /\ \A k \in Job : job'[k] = job[k] \/ Unwritten(k)
  BY <1>1 DEF Calm
<1> QED BY <1>1, <1>2, <1>3, AroundKept

-----------------------------------------------------------------------------
(* The invariant holds, and with it what the lock keeps.                   *)

LEMMA Initially == Init => IInv
<1> SUFFICES ASSUME Init PROVE IInv
  OBVIOUS
<1>1. /\ Idle \in Tx /\ Idle.call = "none" /\ Idle.left = <<>> /\ DOMAIN Idle.mine = {} /\ Idle.claims = 0
  BY IdleTx
<1>2. TypeOK
  BY <1>1, AbsentRow DEF Init, TypeOK
<1>3. WithinRate
  BY LimitAssumption DEF Init, WithinRate
<1>4. Apart
  BY <1>1 DEF Init, Apart
<1>5. ASSUME NEW s \in Session
      PROVE  Keeps(s)
  <2>1. tx[s] = Idle
    BY DEF Init
  <2>2. ~ Locked(s) /\ ~ Claiming(s) /\ Quiet(s)
    BY <1>1, <2>1 DEF Locked, Claiming, Quiet
  <2> QED BY <1>1, <2>1, <2>2 DEF Keeps, CapInv, RateInv, HoldInv
<1> QED BY <1>2, <1>3, <1>4, <1>5 DEF IInv

LEMMA Inductive == "delay" \notin Calls /\ IInv /\ [Next]_vars => IInv'
<1> SUFFICES ASSUME "delay" \notin Calls, IInv, [Next]_vars PROVE IInv'
  OBVIOUS
<1>1. CASE UNCHANGED vars
  <2>1. /\ UNCHANGED <<paused, lock, tx>> /\ job' \in [Job -> Row] /\ rate' \in Nat /\ rate' <= rate
        /\ \A j \in Job : job'[j] = job[j]
    BY <1>1 DEF vars, IInv, TypeOK
  <2>2. Calm
    BY <2>1 DEF Calm
  <2> QED BY <2>1, <2>2, AroundKept
<1>2. ASSUME NEW s \in Session, NEW what \in Calls, NEW j \in Job \union {NoJob}, NEW t \in Token \union {NoToken},
             Begin(s, what, j, t)
      PROVE  IInv'
  BY <1>2, BeginKept
<1>3. ASSUME NEW s \in Session,
             \/ TakeLock(s) \/ ReadPaused(s) \/ CheckHolder(s) \/ Settle(s)
             \/ FindDue(s) \/ Ready(s) \/ Gate(s) \/ Claim(s)
             \/ Fail(s) \/ FindExpired(s) \/ Sweep(s)
             \/ Insert(s) \/ PromoteOne(s) \/ Flag(s) \/ Move(s)
      PROVE  IInv'
  BY <1>3, TakeLockKept, ReadPausedKept, CheckHolderKept, SettleKept, FindDueKept, ReadyKept, GateKept, ClaimKept,
     FailKept, FindExpiredKept, SweepKept, InsertKept, PromoteKept, FlagKept, MoveKept
<1>4. ASSUME NEW s \in Session, Commit(s) \/ Abort(s)
      PROVE  IInv'
  BY <1>4, CommitKept, AbortKept
<1>5. ASSUME NEW j \in Job, LockExpires(j) \/ DelayElapses(j) \/ \E at \in {"later", "due"} : AddDelayed(j, at)
      PROVE  IInv'
  BY <1>5, LockExpiresKept, DelayElapsesKept, AddDelayedKept
<1>6. CASE WindowCloses
  BY <1>6, WindowClosesKept
<1> QED BY <1>1, <1>2, <1>3, <1>4, <1>5, <1>6 DEF Next

\* A claim commits within the cap.
LEMMA ClaimsWithinCap == IInv /\ [Next]_vars => ClaimWithinConcurrency
<1> SUFFICES ASSUME IInv, [Next]_vars PROVE ClaimWithinConcurrency
  OBVIOUS
<1>1. TypeOK /\ \A j \in Job : job[j] \in Row /\ job[j].started \in Nat
  BY DEF IInv, TypeOK, Row
<1>2. ASSUME \A j \in Job : job'[j].started \in Nat /\ job'[j].started <= job[j].started
      PROVE  ClaimWithinConcurrency
  BY <1>1, <1>2 DEF ClaimWithinConcurrency
<1>3. CASE UNCHANGED job
  BY <1>1, <1>2, <1>3
<1>4. ASSUME NEW s \in Session, Commit(s)
      PROVE  ClaimWithinConcurrency
  <2>1. job' = View(s) /\ Keeps(s)
    BY <1>4 DEF Commit, IInv
  <2>2. \A j \in Job : job'[j].started \in Nat
    BY <1>1, <2>1, ViewIs DEF Row
  <2>3. CASE Quiet(s)
    <3>1. \A j \in Job : job'[j].started <= job[j].started
      BY <1>1, <2>1, <2>3 DEF View, Quiet, QuietRow
    <3> QED BY <1>2, <2>2, <3>1
  <2>4. CASE ~ Quiet(s)
    BY <2>1, <2>4 DEF Keeps, CapInv, ClaimWithinConcurrency
  <2> QED BY <2>3, <2>4
<1>5. ASSUME NEW j \in Job, NEW at \in {"later", "due"}, AddDelayed(j, at)
      PROVE  ClaimWithinConcurrency
  <2>1. job' = [job EXCEPT ![j] = ToDelayed(Absent, at)] /\ job \in [Job -> Row]
    BY <1>1, <1>5 DEF AddDelayed, TypeOK
  <2>2. ToDelayed(Absent, at).started = 0
    BY AbsentRow, Changes DEF At
  <2> QED BY <1>1, <1>2, <2>1, <2>2
<1>6. ASSUME NEW j \in Job, LockExpires(j) \/ DelayElapses(j)
      PROVE  ClaimWithinConcurrency
  <2>1. job \in [Job -> Row]
    BY <1>1 DEF TypeOK
  <2>2. \A k \in Job : job'[k].started = job[k].started
    BY <1>6, <2>1 DEF LockExpires, DelayElapses, Row
  <2> QED BY <1>1, <1>2, <2>2
<1>7. ASSUME NEW s \in Session, ~ Commit(s),
             \/ \E what \in Calls, j \in Job \union {NoJob}, t \in Token \union {NoToken} : Begin(s, what, j, t)
             \/ TakeLock(s) \/ ReadPaused(s) \/ CheckHolder(s) \/ Settle(s)
             \/ FindDue(s) \/ Ready(s) \/ Gate(s) \/ Claim(s)
             \/ Fail(s) \/ FindExpired(s) \/ Sweep(s)
             \/ Insert(s) \/ PromoteOne(s) \/ Flag(s) \/ Move(s) \/ Abort(s)
      PROVE  UNCHANGED job
  BY <1>7 DEF Begin, TakeLock, ReadPaused, CheckHolder, Settle, FindDue, Ready, Gate, Claim, Fail, FindExpired,
     Sweep, Insert, PromoteOne, Flag, Move, Abort
<1>8. WindowCloses \/ UNCHANGED vars => UNCHANGED job
  BY DEF WindowCloses, vars
<1> QED BY <1>3, <1>4, <1>5, <1>6, <1>7, <1>8 DEF Next

\* Before a transaction settles, only Settle and the end of the transaction change it.
LEMMA OnlySettles ==
  ASSUME IInv, [Next]_vars, NEW s \in Session, Reaches(s, "settle"), tx'[s] # tx[s], ~ Settle(s)
  PROVE  tx'[s] = Idle
<1>1. tx \in [Session -> Tx] /\ tx[s].left # <<>>
  BY DEF IInv, TypeOK, Reaches
<1>2. ASSUME NEW o \in Session, NEW r, tx' = [tx EXCEPT ![o] = r]
      PROVE  o = s
  BY <1>1, <1>2
<1>3. \A h : Reaches(s, h) => h = "settle"
  BY DEF Reaches
<1>4. ~ TakeLock(s) /\ ~ ReadPaused(s) /\ ~ CheckHolder(s) /\ ~ FindDue(s) /\ ~ Ready(s) /\ ~ Gate(s)
  BY <1>3 DEF TakeLock, ReadPaused, CheckHolder, FindDue, Ready, Gate
<1>5. ~ Claim(s) /\ ~ Fail(s) /\ ~ FindExpired(s) /\ ~ Sweep(s) /\ ~ Insert(s) /\ ~ PromoteOne(s)
  BY <1>3 DEF Claim, Fail, FindExpired, Sweep, Insert, PromoteOne
<1>6. ~ Flag(s) /\ ~ Move(s) /\ ~ Commit(s)
  BY <1>1, <1>3 DEF Flag, Move, Commit
<1>7. \A o \in Session : \A r : Goes(o, r) \/ Stops(o, r) => o = s
  BY <1>2 DEF Goes, Stops
<1>8. ASSUME NEW o \in Session,
             \/ TakeLock(o) \/ ReadPaused(o) \/ CheckHolder(o) \/ Settle(o)
             \/ FindDue(o) \/ Ready(o) \/ Gate(o) \/ Claim(o)
             \/ Fail(o) \/ FindExpired(o) \/ Sweep(o)
             \/ Insert(o) \/ PromoteOne(o) \/ Flag(o) \/ Move(o)
      PROVE  o = s
  BY <1>7, <1>8 DEF TakeLock, ReadPaused, CheckHolder, Settle, FindDue, Ready, Gate, Claim, Fail, FindExpired,
     Sweep, Insert, PromoteOne, Flag, Move
<1>9. ASSUME NEW o \in Session, Commit(o) \/ Abort(o)
      PROVE  tx'[s] = Idle
  <2>1. tx' = [tx EXCEPT ![o] = Idle]
    BY <1>9 DEF Commit, Abort, End
  <2> QED BY <1>1, <1>2, <2>1
<1>10. ASSUME NEW o \in Session, NEW what \in Calls, NEW j \in Job \union {NoJob}, NEW t \in Token \union {NoToken},
              Begin(o, what, j, t)
       PROVE  FALSE
  <2>1. o = s
    BY <1>2, <1>10 DEF Begin
  <2> QED BY <1>1, <1>10, <2>1, IdleTx DEF Begin
<1>11. ~ UNCHANGED tx
  OBVIOUS
<1>12. /\ ~ WindowCloses /\ ~ UNCHANGED vars
       /\ \A j \in Job : ~ LockExpires(j) /\ ~ DelayElapses(j) /\ \A at \in {"later", "due"} : ~ AddDelayed(j, at)
  BY <1>11 DEF WindowCloses, vars, LockExpires, DelayElapses, AddDelayed
<1> QED BY <1>4, <1>5, <1>6, <1>8, <1>9, <1>10, <1>12 DEF Next

\* An attempt is ended for its holder.
LEMMA SettlesForHolder == IInv /\ [Next]_vars => HolderSettles
<1> SUFFICES ASSUME IInv, [Next]_vars, NEW s \in Session, Reaches(s, "settle"), tx'[s].mine \notin {<<>>, tx[s].mine}
             PROVE  View(s)[tx[s].j].token = tx[s].token
  BY DEF HolderSettles
<1>1. TypeOK /\ Keeps(s)
  BY DEF IInv
<1>2. Idle.mine = <<>>
  BY DEF Idle
<1>3. Settle(s)
  BY <1>2, OnlySettles
<1>4. tx[s] \in Tx /\ tx \in [Session -> Tx]
  BY <1>1 DEF TypeOK
<1> DEFINE v == View(s)[tx[s].j]
<1>5. v.state = "active" /\ (tx[s].call = "retry" => v.token = tx[s].token)
  <2>1. ASSUME Goes(s, tx[s])
        PROVE  tx'[s].mine = tx[s].mine
    BY <1>4, <2>1 DEF Goes, Tx
  <2> QED BY <1>3, <2>1 DEF Settle
<1>6. CASE tx[s].call = "retry"
  BY <1>5, <1>6
<1>7. CASE tx[s].call = "finish"
  <2>1. Place(s) = 6 /\ tx[s].j \in Job
    BY <1>1, <1>7, Ahead DEF TypeOK
  <2>2. DOMAIN tx[s].mine = {} /\ (job[tx[s].j].state = "active" => job[tx[s].j].token = tx[s].token)
    BY <1>1, <1>7, <2>1 DEF Keeps, HoldInv
  <2>3. v = job[tx[s].j]
    BY <2>1, <2>2 DEF View
  <2> QED BY <1>5, <2>2, <2>3
<1> QED BY <1>1, <1>6, <1>7, Ahead

\* The limits, and whose attempt it is, hold for any number of sessions and jobs as long as
\* emq_move_to_delayed_v1, which does not take the queue's lock, is not called.
THEOREM LockIsEnough == ASSUME "delay" \notin Calls PROVE Spec => LockKeeps
<1>1. Init => IInv
  BY Initially
<1>2. IInv /\ [Next]_vars => IInv'
  BY Inductive
<1>3. IInv /\ IInv' /\ [Next]_vars => WithinRate' /\ ClaimWithinConcurrency /\ HolderSettles
  BY ClaimsWithinCap, SettlesForHolder DEF IInv
<1> QED BY <1>1, <1>2, <1>3, PTL DEF Spec, LockKeeps

-----------------------------------------------------------------------------
(* The leases, statement by statement.                                     *)

\* The procedures that take the advisory lock, and those that leave active rows alone.
Asides  == {"add", "promote", "pause", "resume"}
Guarded == {"fetch", "finish", "sweep"} \union Asides

Waits(r) == r.state \in {"wait", "paused", "prioritized", "delayed"}

Whole(r) == /\ r.state = "active" <=> r.token # NoToken
            /\ r.state = "active" <=> r.lease # "none"

Alike(r, q) == LeaseOf(q) = LeaseOf(r)
Moves(r, q) == Alike(r, q) \/ JL!Step(LeaseOf(r), LeaseOf(q))

\* What the transaction has written is one step of JobLease for each row,
Lawful(s) == \A j \in DOMAIN tx[s].mine : Whole(tx[s].mine[j]) /\ Moves(job[j], tx[s].mine[j])

\* and hands out one job.
Grows(s, j) == tx[s].mine[j].started > job[j].started
OneGrant(s) == \A j, k \in DOMAIN tx[s].mine : Grows(s, j) /\ Grows(s, k) => j = k

\* Until it claims, a fetch has changed no lease but the one it has ended.
Early(s) ==
  tx[s].call \in {"fetch", "finish"} /\ Place(s) >= 1 =>
    \A j \in DOMAIN tx[s].mine : Alike(job[j], tx[s].mine[j]) \/ tx[s].mine[j].state \in Final

\* Who writes without the lock writes rows that are not active, and leaves them waiting.
Aside(s) ==
  DOMAIN tx[s].mine # {} /\ lock # s =>
    tx[s].call \in Asides /\ \A j \in DOMAIN tx[s].mine : job[j].state # "active" /\ Waits(tx[s].mine[j])

\* The rows a promotion is about to write are waiting.
Promotes(s) ==
  tx[s].call \in {"fetch", "finish"} =>
    /\ tx[s].token \in Token
    /\ Place(s) = 3 => \A j \in tx[s].rows : Waits(View(s)[j])

\* The rows the sweep has found are active and expired still, and it has failed
\* those that are worn.
Found(s, j) ==
  /\ job[j].state = "active" /\ job[j].lease = "expired"
  /\ IF Worn(job[j]) THEN j \in DOMAIN tx[s].mine /\ tx[s].mine[j].state = "failed" /\ Place(s) = 2
     ELSE j \notin DOMAIN tx[s].mine

Sweeps(s) ==
  tx[s].call = "sweep" =>
    /\ Place(s) <= 4 => lock = s
    /\ Place(s) >= 3 => DOMAIN tx[s].mine = {}
    /\ Place(s) \in {1, 2} => \A j \in tx[s].rows : Found(s, j)

Obeys(s) == Lawful(s) /\ OneGrant(s) /\ Early(s) /\ Aside(s) /\ Promotes(s) /\ Sweeps(s)

LInv == (\A j \in Job : Whole(job[j])) /\ \A s \in Session : Obeys(s)

-----------------------------------------------------------------------------
(* Rows and their leases.                                                  *)

\* What two rows with the same lease have in common.
LEMMA SameLease ==
  ASSUME NEW r \in Row, NEW q \in Row, Alike(r, q)
  PROVE  /\ q.state = "active" <=> r.state = "active"
         /\ Waits(q) <=> Waits(r)
         /\ Whole(q) <=> Whole(r)
         /\ q.lease = r.lease /\ q.token = r.token /\ q.started = r.started /\ q.stalled = r.stalled
         /\ Worn(q) <=> Worn(r)
<1>1. /\ LeaseOf(q).phase = LeaseOf(r).phase /\ LeaseOf(q).term = LeaseOf(r).term
      /\ LeaseOf(q).holder = LeaseOf(r).holder /\ LeaseOf(q).grants = LeaseOf(r).grants
      /\ LeaseOf(q).lapses = LeaseOf(r).lapses
  BY DEF Alike
<1>2. q.lease = r.lease /\ q.token = r.token /\ q.started = r.started /\ q.stalled = r.stalled
  BY <1>1 DEF LeaseOf
<1>3. ASSUME NEW p \in Row
      PROVE  /\ p.state = "active" <=> LeaseOf(p).phase = "held"
             /\ Waits(p) <=> LeaseOf(p).phase = "queued"
  BY DEF LeaseOf, Row, State, Final, Waits
<1>4. (q.state = "active" <=> r.state = "active") /\ (Waits(q) <=> Waits(r))
  BY <1>1, <1>3
<1> QED BY <1>2, <1>4 DEF Whole, Worn

\* A row that waits and is put in a list, promoted, paused or resumed.
LEMMA Listed ==
  ASSUME NEW r \in Row, Waits(r), Whole(r), NEW ps \in BOOLEAN, NEW w \in {"wait", "paused"}
  PROVE  /\ Alike(r, ToList(r, ps, 0)) /\ Waits(ToList(r, ps, 0)) /\ Whole(ToList(r, ps, 0))
         /\ LET q == [r EXCEPT !.state = w, !.waitSeq = 0, !.at = "none"]
            IN  q \in Row /\ Alike(r, q) /\ Waits(q) /\ Whole(q)
         /\ LET q == [r EXCEPT !.state = w]
            IN  q \in Row /\ Alike(r, q) /\ Waits(q) /\ Whole(q)
<1> USE 0 \in Int DEF Row, State, Final, Waits, Whole, Alike, LeaseOf
<1>1. r.token = NoToken /\ r.lease = "none"
  OBVIOUS
<1>2. Alike(r, ToList(r, ps, 0)) /\ Waits(ToList(r, ps, 0)) /\ Whole(ToList(r, ps, 0))
  BY <1>1 DEF ToList, Unlocked
<1>3. LET q == [r EXCEPT !.state = w, !.waitSeq = 0, !.at = "none"]
      IN  q \in Row /\ Alike(r, q) /\ Waits(q) /\ Whole(q)
  OBVIOUS
<1>4. LET q == [r EXCEPT !.state = w]
      IN  q \in Row /\ Alike(r, q) /\ Waits(q) /\ Whole(q)
  OBVIOUS
<1> QED BY <1>2, <1>3, <1>4

\* A row that is added.
LEMMA AddedRow ==
  ASSUME NEW r \in Row, r.state = "absent", NEW ps \in BOOLEAN, NEW at \in At
  PROVE  /\ Moves(r, ToList(Absent, ps, 0)) /\ Waits(ToList(Absent, ps, 0)) /\ Whole(ToList(Absent, ps, 0))
         /\ Moves(r, ToDelayed(Absent, at)) /\ Waits(ToDelayed(Absent, at)) /\ Whole(ToDelayed(Absent, at))
<1> USE 0 \in Int, PriorityAssumption, TokenAssumption DEF Row, State, Final, At, Absent, ToList, ToDelayed, Unlocked
<1>1. JL!Submit(LeaseOf(r), LeaseOf(ToList(Absent, ps, 0))) /\ JL!Submit(LeaseOf(r), LeaseOf(ToDelayed(Absent, at)))
  BY DEF LeaseOf, JL!Submit, JL!Free, JL!Counts
<1>2. Waits(ToList(Absent, ps, 0)) /\ Whole(ToList(Absent, ps, 0))
  BY DEF Waits, Whole
<1>3. Waits(ToDelayed(Absent, at)) /\ Whole(ToDelayed(Absent, at))
  BY DEF Waits, Whole
<1> QED BY <1>1, <1>2, <1>3 DEF Moves, JL!Step

\* A row that is claimed.
LEMMA GrantedRow ==
  ASSUME NEW r \in Row, Waits(r), Whole(r), NEW t \in Token
  PROVE  JL!Grant(LeaseOf(r), LeaseOf(Claimed(r, t))) /\ Whole(Claimed(r, t))
<1>1. r.started \in Nat /\ r.started + 1 \in Nat
  BY DEF Row
<1>2. Whole(Claimed(r, t))
  BY <1>1, TokenAssumption DEF Whole, Claimed, Row
<1>3. JL!Grant(LeaseOf(r), LeaseOf(Claimed(r, t)))
  BY <1>1, 0 \in Int DEF Claimed, Waits, Row, State, LeaseOf, Final, JL!Grant, JL!Handed, JL!Counts
<1> QED BY <1>2, <1>3

\* A row that is finished by its worker.
LEMMA SettledRow ==
  ASSUME NEW r \in Row, r.state = "active"
  PROVE  LET q == ToFinal(Attempted(r), "completed")
         IN  q \in Row /\ JL!Settle(LeaseOf(r), LeaseOf(q)) /\ Whole(q) /\ q.state \in Final
<1>3. ToFinal(Attempted(r), "completed") \in Row
  <2>1. TRUE \in BOOLEAN /\ "completed" \in Final
    BY DEF Final
  <2>2. Attempted(r) \in Row
    BY <2>1, Changes
  <2> QED BY <2>1, <2>2, Changes
<1> USE 0 \in Int DEF Row, State, Final, Unlocked, Attempted, ToFinal
<1>1. JL!Settle(LeaseOf(r), LeaseOf(ToFinal(Attempted(r), "completed")))
  BY DEF LeaseOf, JL!Settle, JL!Free, JL!Counts
<1>2. Whole(ToFinal(Attempted(r), "completed")) /\ ToFinal(Attempted(r), "completed").state \in Final
  BY DEF Whole
<1> QED BY <1>1, <1>2, <1>3

\* A row that is swept.
LEMMA RevokedRow ==
  ASSUME NEW r \in Row, r.state = "active", r.lease = "expired", NEW ps \in BOOLEAN
  PROVE  /\ Worn(r) => LET q == ToFinal(Stalled(r), "failed")
                       IN  JL!Revoke(LeaseOf(r), LeaseOf(q)) /\ Whole(q) /\ q.state = "failed"
         /\ ~ Worn(r) => LET q == ToList(Stalled(r), ps, 0)
                         IN  JL!Revoke(LeaseOf(r), LeaseOf(q)) /\ Whole(q)
<1> USE 0 \in Int DEF Row, State, Final, Unlocked, Stalled
<1>1. Worn(r) => JL!Revoke(LeaseOf(r), LeaseOf(ToFinal(Stalled(r), "failed")))
  BY DEF ToFinal, Worn, LeaseOf, JL!Revoke, JL!Free, JL!Counts
<1>2. ~ Worn(r) => JL!Revoke(LeaseOf(r), LeaseOf(ToList(Stalled(r), ps, 0)))
  BY DEF ToList, Worn, LeaseOf, JL!Revoke, JL!Free, JL!Counts
<1>3. Whole(ToFinal(Stalled(r), "failed")) /\ ToFinal(Stalled(r), "failed").state = "failed"
  BY DEF ToFinal, Whole
<1>4. Whole(ToList(Stalled(r), ps, 0))
  BY DEF ToList, Whole
<1> QED BY <1>1, <1>2, <1>3, <1>4

\* A row whose lease expires, and one whose delay elapses.
LEMMA ClockedRow ==
  ASSUME NEW r \in Row, Whole(r)
  PROVE  /\ r.lease = "live" => LET q == [r EXCEPT !.lease = "expired"]
                                IN  q \in Row /\ Moves(r, q) /\ Whole(q)
         /\ LET q == [r EXCEPT !.at = "due"]
            IN  q \in Row /\ Alike(r, q)
<1> USE 0 \in Int DEF Row, State, Final, At
<1>1. ASSUME r.lease = "live"
      PROVE  LET q == [r EXCEPT !.lease = "expired"]
             IN  JL!Tick(LeaseOf(r), LeaseOf(q)) /\ q \in Row /\ Whole(q)
  BY <1>1 DEF LeaseOf, JL!Tick, JL!Counts, Whole
<1>2. LET q == [r EXCEPT !.at = "due"]
      IN  q \in Row /\ Alike(r, q)
  BY DEF LeaseOf, Alike
<1> QED BY <1>1, <1>2 DEF Moves, JL!Step
-----------------------------------------------------------------------------
(* Where the sessions are.                                                 *)

\* The statements of the procedures that take the lock.
LEMMA GuardedPrograms ==
  ASSUME Calls \subseteq Guarded, NEW what \in Calls, NEW P, P = Program(what), NEW k \in 1 .. Len(P),
         NEW n, n = Len(P) - k + 1
  PROVE  /\ what \in {"fetch", "finish"} /\ n = 4 => P[k] = "due"
         /\ P[k] = "due" => what \in {"fetch", "finish"}
         /\ P[k] = "ready" => what \in {"fetch", "finish"} /\ n = 3
         /\ P[k] = "settle" => what = "finish" /\ n = 6
         /\ P[k] = "holds" => what = "finish"
         /\ P[k] = "move" => what \in {"pause", "resume"}
         /\ P[k] = "fail" => what = "sweep" /\ n = 3
         /\ P[k] = "expired" => what = "sweep" /\ n = 2
         /\ P[k] = "sweep" => what = "sweep" /\ n = 1
         /\ what = "sweep" => n <= 5
         /\ what = "sweep" /\ n = 5 => P[k] = "lock"
         /\ what = "sweep" /\ n = 4 => P[k] = "paused"
         /\ what = "sweep" /\ n = 3 => P[k] = "fail"
         /\ what = "sweep" /\ n = 2 => P[k] = "expired"
<1>1. CASE what = "fetch"
  <2>1. P = <<"paused", "lock", "due", "ready", "gate", "claim">>
    BY <1>1 DEF Program
  <2>2. /\ Len(P) = 6 /\ P[1] = "paused" /\ P[2] = "lock" /\ P[3] = "due"
        /\ P[4] = "ready" /\ P[5] = "gate" /\ P[6] = "claim"
    BY <2>1
  <2>3. n = 7 - k /\ k \in 1 .. 6
    BY <2>2
  <2>4. \/ n = 6 /\ P[k] = "paused"
        \/ n = 5 /\ P[k] = "lock"
        \/ n = 4 /\ P[k] = "due"
        \/ n = 3 /\ P[k] = "ready"
        \/ n = 2 /\ P[k] = "gate"
        \/ n = 1 /\ P[k] = "claim"
    BY <2>2, <2>3
  <2> QED BY <1>1, <2>4
<1>2. CASE what = "finish"
  <2>1. P = <<"lock", "holds", "settle", "paused", "due", "ready", "gate", "claim">>
    BY <1>2 DEF Program
  <2>2. /\ Len(P) = 8 /\ P[1] = "lock" /\ P[2] = "holds" /\ P[3] = "settle" /\ P[4] = "paused"
        /\ P[5] = "due" /\ P[6] = "ready" /\ P[7] = "gate" /\ P[8] = "claim"
    BY <2>1
  <2>3. n = 9 - k /\ k \in 1 .. 8
    BY <2>2
  <2>4. \/ n = 8 /\ P[k] = "lock"
        \/ n = 7 /\ P[k] = "holds"
        \/ n = 6 /\ P[k] = "settle"
        \/ n = 5 /\ P[k] = "paused"
        \/ n = 4 /\ P[k] = "due"
        \/ n = 3 /\ P[k] = "ready"
        \/ n = 2 /\ P[k] = "gate"
        \/ n = 1 /\ P[k] = "claim"
    BY <2>2, <2>3
  <2> QED BY <1>2, <2>4
<1>3. CASE what = "sweep"
  <2>1. P = <<"lock", "paused", "fail", "expired", "sweep">>
    BY <1>3 DEF Program
  <2>2. /\ Len(P) = 5 /\ P[1] = "lock" /\ P[2] = "paused" /\ P[3] = "fail"
        /\ P[4] = "expired" /\ P[5] = "sweep"
    BY <2>1
  <2>3. n = 6 - k /\ k \in 1 .. 5
    BY <2>2
  <2>4. \/ n = 5 /\ P[k] = "lock"
        \/ n = 4 /\ P[k] = "paused"
        \/ n = 3 /\ P[k] = "fail"
        \/ n = 2 /\ P[k] = "expired"
        \/ n = 1 /\ P[k] = "sweep"
    BY <2>2, <2>3
  <2> QED BY <1>3, <2>4
<1>4. CASE what \in Asides
  <2>1. P \in {<<"paused", "insert">>, <<"paused", "promote">>, <<"flag", "move">>}
    BY <1>4 DEF Program, Asides
  <2>2. P[k] = "move" => P = <<"flag", "move">>
    BY <2>1
  <2>3. P[k] = "move" => what \in {"pause", "resume"}
    BY <1>4, <2>2 DEF Program, Asides
  <2> QED BY <1>4, <2>1, <2>3 DEF Asides
<1> QED BY <1>1, <1>2, <1>3, <1>4 DEF Guarded

\* A transaction of theirs that has a statement before it.
LEMMA GuardedAhead ==
  ASSUME Calls \subseteq Guarded, TypeOK, NEW s \in Session, NEW h, Reaches(s, h)
  PROVE  /\ tx[s] \in Tx /\ tx[s].call \in Guarded /\ Place(s) \in Nat \ {0}
         /\ Len(Tail(tx[s].left)) = Place(s) - 1 /\ Len(<<>>) = 0
         /\ tx[s].call \in {"fetch", "finish"} /\ Place(s) = 4 => h = "due"
         /\ h = "due" => tx[s].call \in {"fetch", "finish"}
         /\ h = "ready" => tx[s].call \in {"fetch", "finish"} /\ Place(s) = 3
         /\ h = "settle" => tx[s].call = "finish" /\ Place(s) = 6
         /\ h = "holds" => tx[s].call = "finish"
         /\ h = "move" => tx[s].call \in {"pause", "resume"}
         /\ h = "insert" => tx[s].call = "add"
         /\ h = "promote" => tx[s].call = "promote"
         /\ h = "claim" => tx[s].call \in {"fetch", "finish"} /\ Place(s) = 1
         /\ h = "fail" => tx[s].call = "sweep" /\ Place(s) = 3
         /\ h = "expired" => tx[s].call = "sweep" /\ Place(s) = 2
         /\ h = "sweep" => tx[s].call = "sweep" /\ Place(s) = 1
         /\ tx[s].call = "sweep" => Place(s) <= 5
         /\ tx[s].call = "sweep" /\ Place(s) = 5 => h = "lock"
         /\ tx[s].call = "sweep" /\ Place(s) = 4 => h = "paused"
         /\ tx[s].call = "sweep" /\ Place(s) = 3 => h = "fail"
         /\ tx[s].call = "sweep" /\ Place(s) = 2 => h = "expired"
<1> DEFINE what == tx[s].call
           P    == Program(what)
           left == tx[s].left
           n    == Len(left)
           k    == Len(P) - n + 1
<1>1. tx[s] \in Tx /\ left # <<>> /\ Head(left) = h
  BY DEF TypeOK, Reaches
<1>2. what \in Calls \ {"delay"} /\ Suffix(left, P)
  BY <1>1 DEF TypeOK, Tx
<1>3. P \in Seq(Statement)
  BY <1>2, Starts
<1>4. n \in Nat \ {0} /\ k \in 1 .. Len(P) /\ h = P[k] /\ n = Len(P) - k + 1
  <2>1. n \in Nat \ {0} /\ k \in 1 .. Len(P) /\ h = P[k]
    BY <1>1, <1>2, <1>3, SuffixTail
  <2>2. Len(P) \in Nat
    BY <1>3
  <2> QED BY <2>1, <2>2
<1> HIDE DEF what, P, left, n, k
<1>5. /\ what \in {"fetch", "finish"} /\ n = 4 => h = "due"
      /\ h = "due" => what \in {"fetch", "finish"}
      /\ h = "ready" => what \in {"fetch", "finish"} /\ n = 3
      /\ h = "settle" => what = "finish" /\ n = 6
      /\ h = "holds" => what = "finish"
      /\ h = "move" => what \in {"pause", "resume"}
      /\ h = "fail" => what = "sweep" /\ n = 3
      /\ h = "expired" => what = "sweep" /\ n = 2
      /\ h = "sweep" => what = "sweep" /\ n = 1
      /\ what = "sweep" => n <= 5
      /\ what = "sweep" /\ n = 5 => h = "lock"
      /\ what = "sweep" /\ n = 4 => h = "paused"
      /\ what = "sweep" /\ n = 3 => h = "fail"
      /\ what = "sweep" /\ n = 2 => h = "expired"
  <2>1. P = Program(what) /\ what \in Calls
    BY <1>2 DEF P
  <2> QED BY <1>4, <2>1, GuardedPrograms
<1>6. /\ Len(Tail(left)) = n - 1 /\ Len(<<>>) = 0
      /\ h = "insert" => what = "add"
      /\ h = "promote" => what = "promote"
      /\ h = "claim" => what \in {"fetch", "finish"} /\ n = 1
  BY Ahead DEF what, left, n, Place
<1> QED BY <1>1, <1>2, <1>4, <1>5, <1>6 DEF what, left, n, Place

-----------------------------------------------------------------------------
(* The sessions a step is not about.                                       *)

\* What the lock holder relies on: expired leases and waiting rows stay.
Steady ==
  \A j \in Job :
    /\ job[j].state = "active" /\ job[j].lease = "expired" => Alike(job[j], job'[j])
    /\ Waits(job[j]) => Waits(job'[j])

LEMMA OthersObey ==
  ASSUME TypeOK, TypeOK', NEW o \in Session, Keeps(o), Obeys(o), tx'[o] = tx[o],
         \A j \in DOMAIN tx[o].mine : job'[j] = job[j],
         lock' = o <=> lock = o, lock = o => Steady
  PROVE  Obeys(o)'
<1>1. /\ tx[o] \in Tx /\ tx[o].rows \in SUBSET Job /\ DOMAIN tx[o].mine \in SUBSET Job
      /\ \A j \in DOMAIN tx[o].mine : tx[o].mine[j] \in Row
      /\ \A j \in Job : job[j] \in Row /\ job'[j] \in Row
  BY RowsOf DEF TypeOK, Tx
<1>2. Place(o)' = Place(o)
  BY DEF Place
<1>3. Lawful(o)' /\ OneGrant(o)'
  BY DEF Obeys, Lawful, OneGrant, Grows
<1>4. Early(o)'
  BY <1>2 DEF Obeys, Early
<1>5. Aside(o)'
  BY DEF Obeys, Aside
<1>6. Promotes(o)'
  <2>1. SUFFICES ASSUME tx[o].call \in {"fetch", "finish"}, Place(o) = 3, NEW j \in tx[o].rows
                 PROVE  Waits(View(o)[j])'
    BY <1>2 DEF Obeys, Promotes
  <2>2. lock = o
    BY <2>1 DEF Keeps, Locked
  <2>3. j \in Job /\ Waits(View(o)[j])
    BY <1>1, <2>1 DEF Obeys, Promotes
  <2>4. Waits(job[j]) => Waits(job'[j])
    BY <2>2, <2>3 DEF Steady
  <2> QED BY <2>3, <2>4 DEF View
<1>7. Sweeps(o)'
  <2>1. SUFFICES ASSUME tx[o].call = "sweep", Place(o) \in {1, 2}, NEW j \in tx[o].rows
                 PROVE  Found(o, j)'
    BY <1>2 DEF Obeys, Sweeps
  <2>2. lock = o /\ Found(o, j) /\ j \in Job
    BY <1>1, <2>1 DEF Obeys, Sweeps
  <2>3. Alike(job[j], job'[j])
    BY <2>2 DEF Steady, Found
  <2>4. job'[j].state = "active" /\ job'[j].lease = "expired" /\ (Worn(job'[j]) <=> Worn(job[j]))
    BY <1>1, <2>2, <2>3, SameLease DEF Found
  <2> QED BY <1>2, <2>2, <2>4 DEF Found
<1> QED BY <1>3, <1>4, <1>5, <1>6, <1>7 DEF Obeys

\* A statement: the sessions it is not about obey.
LEMMA StatementObeys ==
  ASSUME Calls \subseteq Guarded, IInv, IInv', LInv, NEW s \in Session, NEW r \in Tx, tx' = [tx EXCEPT ![s] = r],
         UNCHANGED job, lock' = lock \/ (lock = NoSession /\ lock' = s), Obeys(s)'
  PROVE  LInv'
<1>1. TypeOK /\ TypeOK' /\ \A o \in Session : Keeps(o) /\ Obeys(o)
  BY DEF IInv, LInv
<1>2. \A o \in Session \ {s} : tx'[o] = tx[o]
  BY <1>1 DEF TypeOK
<1>3. \A o \in Session \ {s} : lock' = o <=> lock = o
  BY SessionAssumption
<1>4. Steady
  BY DEF Steady, Alike
<1>5. \A o \in Session \ {s} : Obeys(o)'
  BY <1>1, <1>2, <1>3, <1>4, OthersObey
<1>6. \A j \in Job : Whole(job[j])'
  BY DEF LInv, Whole
<1> QED BY <1>5, <1>6 DEF LInv

\* The rows another session has not written are as committed while it is at work.
LEMMA SessionRows ==
  ASSUME IInv, NEW s \in Session
  PROVE  /\ tx[s] \in Tx /\ tx[s].rows \in SUBSET Job /\ DOMAIN tx[s].mine \in SUBSET Job
         /\ tx[s].mine \in Rows /\ tx[s].paused \in BOOLEAN /\ TypeOK
         /\ \A j \in DOMAIN tx[s].mine : tx[s].mine[j] \in Row
         /\ \A j \in Job : job[j] \in Row /\ View(s)[j] \in Row
         /\ View(s) = [j \in Job |-> IF j \in DOMAIN tx[s].mine THEN tx[s].mine[j] ELSE job[j]]
<1>1. TypeOK
  BY DEF IInv
<1>2. tx[s] \in Tx
  BY <1>1 DEF TypeOK
<1>3. tx[s].mine \in Rows /\ tx[s].rows \in SUBSET Job /\ tx[s].paused \in BOOLEAN
  BY <1>2 DEF Tx
<1> QED BY <1>1, <1>2, <1>3, RowsOf, ViewIs DEF TypeOK, View

\* A statement that writes no row.
LEMMA ReadObeys ==
  ASSUME Calls \subseteq Guarded, IInv, IInv', LInv, NEW s \in Session, NEW h, Reaches(s, h),
         NEW r \in Tx, tx' = [tx EXCEPT ![s] = r],
         r.call = tx[s].call, r.token = tx[s].token, r.mine = tx[s].mine, r.left \in {Tail(tx[s].left), <<>>},
         h # "fail",
         UNCHANGED job, (lock' = lock /\ h # "lock") \/ (lock = NoSession /\ lock' = s),
         h = "due" => r.rows = DueWait(View(s)),
         h = "expired" => r.rows = tx[s].rows \intersect Expired(View(s))
  PROVE  LInv'
<1>1. /\ TypeOK /\ Obeys(s) /\ Keeps(s) /\ tx'[s] = r
  BY DEF IInv, LInv, TypeOK
<1>2. /\ Place(s) \in Nat \ {0} /\ Place(s)' \in {Place(s) - 1, 0} /\ tx[s].call \in Guarded
      /\ Place(s)' # 0 => Place(s)' = Place(s) - 1
  BY <1>1, GuardedAhead DEF Place
<1>3. Lawful(s)' /\ OneGrant(s)'
  BY <1>1 DEF Obeys, Lawful, OneGrant, Grows
<1>4. Early(s)'
  BY <1>1, <1>2 DEF Obeys, Early
<1>5. Aside(s)'
  BY <1>1, SessionAssumption DEF Obeys, Aside
<1>6. View(s)' = View(s)
  BY <1>1 DEF View
<1>7. Promotes(s)'
  <2>1. ASSUME r.call \in {"fetch", "finish"}, Place(s)' = 3, NEW j \in r.rows
        PROVE  Waits(View(s)[j])
    <3>1. Place(s) = 4
      BY <1>2, <2>1
    <3>2. j \in DueWait(View(s))
      BY <1>1, <2>1, <3>1, GuardedAhead
    <3> QED BY <3>2 DEF DueWait, In, Waits
  <2>2. r.call \in {"fetch", "finish"} => r.token \in Token
    BY <1>1 DEF Obeys, Promotes
  <2> QED BY <1>1, <1>6, <2>1, <2>2 DEF Promotes
<1>8. Sweeps(s)'
  <2>1. SUFFICES ASSUME r.call = "sweep"
                 PROVE  /\ Place(s)' <= 4 => lock' = s
                        /\ Place(s)' >= 3 => DOMAIN r.mine = {}
                        /\ Place(s)' \in {1, 2} => \A j \in r.rows : Found(s, j)'
    BY <1>1 DEF Sweeps
  <2>2. /\ Place(s) <= 5 /\ (Place(s) = 5 => h = "lock") /\ (Place(s) = 2 => h = "expired")
        /\ (Place(s) = 3 => h = "fail") /\ (h = "expired" => Place(s) = 2)
    BY <1>1, <2>1, GuardedAhead
  <2>3. Place(s)' <= 4 => lock' = s
    BY <1>1, <1>2, <2>1, <2>2 DEF Obeys, Sweeps
  <2>4. Place(s)' >= 3 => DOMAIN r.mine = {}
    BY <1>1, <1>2, <2>1 DEF Obeys, Sweeps
  <2>5. ASSUME Place(s)' \in {1, 2}, NEW j \in r.rows
        PROVE  Found(s, j)'
    <3>1. Place(s) = 2 /\ Place(s)' = 1
      BY <1>2, <2>2, <2>5
    <3>2. h = "expired"
      BY <2>2, <3>1
    <3>3. j \in tx[s].rows /\ j \in Expired(View(s))
      BY <2>5, <3>2
    <3>4. Found(s, j) /\ j \in Job /\ View(s)[j].state = "active"
      BY <1>1, <2>1, <3>1, <3>3 DEF Obeys, Sweeps, Expired, In
    <3>5. ~ Worn(job[j]) /\ j \notin DOMAIN tx[s].mine
      BY <3>4 DEF Found, View
    <3> QED BY <1>1, <3>4, <3>5 DEF Found, Worn
  <2> QED BY <2>3, <2>4, <2>5
<1>9. Obeys(s)'
  BY <1>3, <1>4, <1>5, <1>7, <1>8 DEF Obeys
<1> QED BY <1>9, StatementObeys

\* A transaction that has read: its flags and its rows may be others.
HasRead(s, t) == t.call = tx[s].call /\ t.token = tx[s].token /\ t.mine = tx[s].mine /\ t.left = tx[s].left

LEMMA ReadTx ==
  ASSUME IInv, NEW s \in Session, NEW p \in BOOLEAN, NEW R \in SUBSET Job
  PROVE  /\ LET t == [tx[s] EXCEPT !.paused = p] IN t \in Tx /\ HasRead(s, t) /\ t.rows = tx[s].rows
         /\ LET t == [tx[s] EXCEPT !.rows = R] IN t \in Tx /\ HasRead(s, t) /\ t.rows = R
         /\ tx[s] \in Tx /\ HasRead(s, tx[s])
<1>1. tx[s] \in Tx
  BY SessionRows
<1> QED BY <1>1 DEF Tx, HasRead

\* It goes on or stops.
LEMMA PassObeys ==
  ASSUME Calls \subseteq Guarded, IInv, IInv', LInv, NEW s \in Session, NEW h, Reaches(s, h), h # "fail",
         NEW t \in Tx, HasRead(s, t), Goes(s, t) \/ Stops(s, t),
         UNCHANGED job, (lock' = lock /\ h # "lock") \/ (lock = NoSession /\ lock' = s),
         h = "due" => t.rows = DueWait(View(s)),
         h = "expired" => t.rows = tx[s].rows \intersect Expired(View(s))
  PROVE  LInv'
<1> DEFINE on == [t EXCEPT !.left = Tail(t.left)]
           off == [t EXCEPT !.left = <<>>]
<1>1. tx[s] \in Tx /\ Tail(tx[s].left) \in Seq(Statement) /\ <<>> \in Seq(Statement)
  BY Ahead DEF Suffix, IInv
<1>2. t.call = tx[s].call /\ t.token = tx[s].token /\ t.mine = tx[s].mine /\ t.left = tx[s].left
  BY DEF HasRead
<1>3. /\ on \in Tx /\ on.call = tx[s].call /\ on.token = tx[s].token /\ on.mine = tx[s].mine /\ on.rows = t.rows
      /\ on.left = Tail(tx[s].left)
  BY <1>1, <1>2 DEF Tx
<1>4. /\ off \in Tx /\ off.call = tx[s].call /\ off.token = tx[s].token /\ off.mine = tx[s].mine
      /\ off.rows = t.rows /\ off.left = <<>>
  BY <1>1, <1>2 DEF Tx
<1>5. tx' = [tx EXCEPT ![s] = on] \/ tx' = [tx EXCEPT ![s] = off]
  BY DEF Goes, Stops
<1> HIDE DEF on, off
<1>6. PICK r \in Tx : /\ tx' = [tx EXCEPT ![s] = r]
                      /\ r.call = tx[s].call /\ r.token = tx[s].token /\ r.mine = tx[s].mine /\ r.rows = t.rows
                      /\ r.left \in {Tail(tx[s].left), <<>>}
  BY <1>3, <1>4, <1>5
<1>7. /\ h = "due" => r.rows = DueWait(View(s))
      /\ h = "expired" => r.rows = tx[s].rows \intersect Expired(View(s))
  BY <1>6
<1> QED BY <1>6, <1>7, ReadObeys

\* It reads nothing that it will look at again, or only paused.
LEMMA IdlyObeys ==
  ASSUME Calls \subseteq Guarded, IInv, IInv', LInv, NEW s \in Session, NEW h, Reaches(s, h),
         h \notin {"lock", "due", "fail", "expired"},
         Goes(s, tx[s]) \/ Stops(s, tx[s]) \/ (\E p \in BOOLEAN : Goes(s, [tx[s] EXCEPT !.paused = p])),
         UNCHANGED <<job, lock>>
  PROVE  LInv'
<1>1. PICK t \in Tx : HasRead(s, t) /\ (Goes(s, t) \/ Stops(s, t))
  BY ReadTx
<1> QED BY <1>1, PassObeys

LEMMA ReadsObey ==
  ASSUME Calls \subseteq Guarded, IInv, IInv', LInv, NEW s \in Session,
         TakeLock(s) \/ ReadPaused(s) \/ CheckHolder(s) \/ FindDue(s) \/ Gate(s) \/ FindExpired(s) \/ Flag(s)
  PROVE  LInv'
<1>1. tx[s] \in Tx /\ HasRead(s, tx[s]) /\ tx[s].rows \in SUBSET Job /\ paused \in BOOLEAN
  BY SessionRows, ReadTx DEF IInv, TypeOK
<1>2. CASE TakeLock(s)
  <2>1. Reaches(s, "lock") /\ lock = NoSession /\ lock' = s /\ UNCHANGED job /\ Goes(s, tx[s])
    BY <1>2 DEF TakeLock
  <2> QED BY <1>1, <2>1, PassObeys
<1>3. CASE ReadPaused(s)
  <2>1. Reaches(s, "paused") /\ UNCHANGED <<job, lock>> /\ \E p \in BOOLEAN : Goes(s, [tx[s] EXCEPT !.paused = p])
    BY <1>1, <1>3 DEF ReadPaused
  <2> QED BY <2>1, IdlyObeys
<1>4. CASE CheckHolder(s)
  <2>1. (tx[s].call = "retry" /\ paused) \in BOOLEAN
    OBVIOUS
  <2>2. /\ Reaches(s, "holds") /\ UNCHANGED <<job, lock>>
        /\ (\E p \in BOOLEAN : Goes(s, [tx[s] EXCEPT !.paused = p])) \/ Stops(s, tx[s])
    BY <1>4, <2>1 DEF CheckHolder
  <2> QED BY <2>2, IdlyObeys
<1>5. CASE FindDue(s)
  <2>1. DueWait(View(s)) \in SUBSET Job
    BY DEF DueWait, In
  <2>2. Reaches(s, "due") /\ UNCHANGED <<job, lock>> /\ Goes(s, [tx[s] EXCEPT !.rows = DueWait(View(s))])
    BY <1>5 DEF FindDue
  <2>3. PICK t \in Tx : HasRead(s, t) /\ t.rows = DueWait(View(s)) /\ Goes(s, t)
    BY <2>1, <2>2, ReadTx
  <2> QED BY <2>2, <2>3, PassObeys
<1>6. CASE Gate(s)
  <2>1. Reaches(s, "gate") /\ UNCHANGED <<job, lock>> /\ (Goes(s, tx[s]) \/ Stops(s, tx[s]))
    BY <1>6 DEF Gate
  <2> QED BY <2>1, IdlyObeys
<1>7. CASE FindExpired(s)
  <2>1. tx[s].rows \intersect Expired(View(s)) \in SUBSET Job
    BY <1>1
  <2>2. /\ Reaches(s, "expired") /\ UNCHANGED <<job, lock>>
        /\ Goes(s, [tx[s] EXCEPT !.rows = tx[s].rows \intersect Expired(View(s))])
    BY <1>7 DEF FindExpired
  <2>3. PICK t \in Tx : HasRead(s, t) /\ t.rows = tx[s].rows \intersect Expired(View(s)) /\ Goes(s, t)
    BY <2>1, <2>2, ReadTx
  <2> QED BY <2>2, <2>3, PassObeys
<1>8. CASE Flag(s)
  <2>1. Reaches(s, "flag") /\ UNCHANGED <<job, lock>> /\ Goes(s, tx[s])
    BY <1>8 DEF Flag
  <2> QED BY <2>1, IdlyObeys
<1> QED BY <1>2, <1>3, <1>4, <1>5, <1>6, <1>7, <1>8

-----------------------------------------------------------------------------
(* The statements that write.                                              *)

\* The transaction of s once it has written the rows f of S.
Wrote(s, S, f) ==
  [tx[s] EXCEPT !.mine = [j \in DOMAIN tx[s].mine \union S |-> IF j \in S THEN f[j] ELSE tx[s].mine[j]]]

\* And has noted the rows R, or c claims.
Noting(w, R) == [w EXCEPT !.rows = R]
Taking(w, c) == [w EXCEPT !.claims = c]

HasWritten(s, t, S, f) ==
  /\ t.call = tx[s].call /\ t.token = tx[s].token /\ t.left = tx[s].left
  /\ t.mine = [j \in DOMAIN tx[s].mine \union S |-> IF j \in S THEN f[j] ELSE tx[s].mine[j]]

LEMMA WrittenTx ==
  ASSUME IInv, NEW s \in Session, NEW S \in SUBSET Job, NEW f \in [S -> Row],
         NEW w, w = Wrote(s, S, f)
  PROVE  /\ w \in Tx /\ HasWritten(s, w, S, f)
         /\ \A R \in SUBSET Job : Noting(w, R) \in Tx /\ HasWritten(s, Noting(w, R), S, f) /\ Noting(w, R).rows = R
         /\ \A c \in {0, 1} : Taking(w, c) \in Tx /\ HasWritten(s, Taking(w, c), S, f)
<1> DEFINE g == [j \in DOMAIN tx[s].mine \union S |-> IF j \in S THEN f[j] ELSE tx[s].mine[j]]
<1>1. tx[s] \in Tx /\ DOMAIN tx[s].mine \in SUBSET Job /\ \A j \in DOMAIN tx[s].mine : tx[s].mine[j] \in Row
  BY SessionRows
<1>2. g \in [DOMAIN tx[s].mine \union S -> Row] /\ DOMAIN tx[s].mine \union S \in SUBSET Job
  BY <1>1
<1>3. g \in Rows /\ w = [tx[s] EXCEPT !.mine = g]
  BY <1>2 DEF Rows, Wrote
<1>4. \A t : t.mine = g /\ t.call = tx[s].call /\ t.token = tx[s].token /\ t.left = tx[s].left => HasWritten(s, t, S, f)
  BY DEF HasWritten
<1> HIDE DEF g
<1>5. w \in Tx /\ w.mine = g /\ w.call = tx[s].call /\ w.token = tx[s].token /\ w.left = tx[s].left
  BY <1>1, <1>3 DEF Tx
<1>6. ASSUME NEW R \in SUBSET Job
      PROVE  Noting(w, R) \in Tx /\ HasWritten(s, Noting(w, R), S, f) /\ Noting(w, R).rows = R
  <2>1. LET t == Noting(w, R)
        IN  /\ t \in Tx /\ t.rows = R
            /\ t.mine = g /\ t.call = tx[s].call /\ t.token = tx[s].token /\ t.left = tx[s].left
    BY <1>5 DEF Tx, Noting, Taking
  <2> QED BY <1>4, <2>1
<1>7. ASSUME NEW c \in {0, 1}
      PROVE  Taking(w, c) \in Tx /\ HasWritten(s, Taking(w, c), S, f)
  <2>1. LET t == Taking(w, c)
        IN  t \in Tx /\ t.mine = g /\ t.call = tx[s].call /\ t.token = tx[s].token /\ t.left = tx[s].left
    BY <1>5 DEF Tx, Noting, Taking
  <2> QED BY <1>4, <2>1
<1> QED BY <1>4, <1>5, <1>6, <1>7

LEMMA WriteObeys ==
  ASSUME Calls \subseteq Guarded, IInv, IInv', LInv, NEW s \in Session, NEW h, Reaches(s, h), h # "due",
         UNCHANGED <<job, lock>>, NEW S \in SUBSET Job, NEW f \in [S -> Row],
         NEW t \in Tx, HasWritten(s, t, S, f), Goes(s, t),
         \A j \in S : Whole(f[j]) /\ Moves(job[j], f[j]),
         (\A j \in S : f[j].started <= job[j].started) \/ (\E got : S = {got}),
         tx[s].call \in {"fetch", "finish"} /\ Place(s) >= 2 =>
           \A j \in S : Alike(job[j], f[j]) \/ f[j].state \in Final,
         lock # s => tx[s].call \in Asides /\ \A j \in S : job[j].state # "active" /\ Waits(f[j]),
         tx[s].call = "sweep" =>
           \/ Place(s) = 1
           \/ /\ Place(s) = 3
              /\ \A j \in t.rows : /\ job[j].state = "active" /\ job[j].lease = "expired"
                                   /\ IF Worn(job[j]) THEN j \in S /\ f[j].state = "failed" ELSE j \notin S
  PROVE  LInv'
<1>0. PICK r \in Tx : /\ tx' = [tx EXCEPT ![s] = r] /\ r.rows = t.rows
                      /\ r.call = tx[s].call /\ r.token = tx[s].token /\ r.left = Tail(tx[s].left)
                      /\ DOMAIN r.mine = DOMAIN tx[s].mine \union S
                      /\ \A j \in DOMAIN r.mine : r.mine[j] = IF j \in S THEN f[j] ELSE tx[s].mine[j]
  <2>1. Tail(tx[s].left) \in Seq(Statement)
    BY Ahead DEF Suffix, IInv
  <2>2. t.left = tx[s].left /\ t.call = tx[s].call /\ t.token = tx[s].token
    BY DEF HasWritten
  <2>3. PICK r \in Tx : /\ r.rows = t.rows /\ r.call = tx[s].call /\ r.token = tx[s].token
                        /\ r.left = Tail(tx[s].left) /\ r.mine = t.mine /\ tx' = [tx EXCEPT ![s] = r]
    <3>1. LET r == [t EXCEPT !.left = Tail(t.left)]
          IN  /\ r \in Tx /\ r.rows = t.rows /\ r.call = tx[s].call /\ r.token = tx[s].token
              /\ r.left = Tail(tx[s].left) /\ r.mine = t.mine /\ tx' = [tx EXCEPT ![s] = r]
      BY <2>1, <2>2 DEF Tx, Goes
    <3> QED BY <3>1
  <2>4. /\ DOMAIN t.mine = DOMAIN tx[s].mine \union S
        /\ \A j \in DOMAIN t.mine : t.mine[j] = IF j \in S THEN f[j] ELSE tx[s].mine[j]
    BY DEF HasWritten
  <2>5. /\ DOMAIN r.mine = DOMAIN tx[s].mine \union S
        /\ \A j \in DOMAIN r.mine : r.mine[j] = IF j \in S THEN f[j] ELSE tx[s].mine[j]
    BY <2>3, <2>4
  <2> QED BY <2>3, <2>5
<1>1. /\ TypeOK /\ Obeys(s) /\ Keeps(s) /\ tx'[s] = r
      /\ \A j \in DOMAIN tx[s].mine : tx[s].mine[j] \in Row
      /\ \A j \in Job : job[j] \in Row /\ job[j].started \in Nat
  BY <1>0, SessionRows DEF IInv, LInv, TypeOK, Row
<1>2. Place(s) \in Nat \ {0} /\ Place(s)' = Place(s) - 1
  <2>1. Place(s) \in Nat \ {0} /\ Len(Tail(tx[s].left)) = Place(s) - 1
    BY <1>1, GuardedAhead
  <2>2. Place(s)' = Len(Tail(tx[s].left))
    BY <1>0, <1>1 DEF Place
  <2> QED BY <2>1, <2>2
<1>3. Quiet(s)
  BY <1>1, <1>2 DEF Keeps, CapInv
<1>4. Lawful(s)'
  <2>1. SUFFICES ASSUME NEW j \in DOMAIN r.mine
                 PROVE  Whole(r.mine[j]) /\ Moves(job[j], r.mine[j])
    BY <1>1 DEF Lawful
  <2>2. CASE j \in S
    BY <1>0, <2>2
  <2>3. CASE j \notin S
    BY <1>0, <1>1, <2>1, <2>3 DEF Obeys, Lawful
  <2> QED BY <2>2, <2>3
<1>5. OneGrant(s)'
  <2>1. SUFFICES ASSUME NEW j \in DOMAIN r.mine, NEW k \in DOMAIN r.mine,
                        r.mine[j].started > job[j].started, r.mine[k].started > job[k].started
                 PROVE  j = k
    BY <1>1 DEF OneGrant, Grows
  <2>2. /\ \A m \in DOMAIN r.mine : m \in Job /\ r.mine[m] \in Row
        /\ \A m \in Job : job[m].started \in Nat
    <3>1. r.mine \in Rows
      BY DEF Tx
    <3> QED BY <1>1, <3>1, RowsOf
  <2>3. r.mine[j].started \in Nat /\ r.mine[k].started \in Nat
    BY <2>2 DEF Row
  <2>4. j \in S /\ k \in S
    BY <1>0, <1>3, <2>1, <2>2, <2>3 DEF Quiet, QuietRow
  <2>5. r.mine[j] = f[j] /\ r.mine[k] = f[k]
    BY <1>0, <2>4
  <2> QED BY <2>1, <2>2, <2>3, <2>4, <2>5
<1>6. Early(s)'
  <2>1. SUFFICES ASSUME tx[s].call \in {"fetch", "finish"}, Place(s) >= 2, NEW j \in DOMAIN r.mine
                 PROVE  Alike(job[j], r.mine[j]) \/ r.mine[j].state \in Final
    BY <1>0, <1>1, <1>2 DEF Early
  <2>2. CASE j \in S
    BY <1>0, <2>1, <2>2
  <2>3. CASE j \notin S
    BY <1>0, <1>1, <1>2, <2>1, <2>3 DEF Obeys, Early
  <2> QED BY <2>2, <2>3
<1>7. Aside(s)'
  <2>1. SUFFICES ASSUME lock # s
                 PROVE  r.call \in Asides /\ \A j \in DOMAIN r.mine : job[j].state # "active" /\ Waits(r.mine[j])
    BY <1>1 DEF Aside
  <2>2. \A j \in S : job[j].state # "active" /\ Waits(f[j])
    BY <2>1
  <2>3. \A j \in DOMAIN tx[s].mine : job[j].state # "active" /\ Waits(tx[s].mine[j])
    BY <1>1, <2>1 DEF Obeys, Aside
  <2> QED BY <1>0, <2>1, <2>2, <2>3
<1>8. Promotes(s)'
  <2>1. r.call \in {"fetch", "finish"} => Place(s)' # 3
    BY <1>0, <1>1, <1>2, GuardedAhead
  <2>2. r.call \in {"fetch", "finish"} => r.token \in Token
    BY <1>0, <1>1 DEF Obeys, Promotes
  <2> QED BY <1>1, <2>1, <2>2 DEF Promotes
<1>9. Sweeps(s)'
  <2>1. SUFFICES ASSUME r.call = "sweep"
                 PROVE  /\ lock = s /\ Place(s)' <= 2
                        /\ Place(s)' \in {1, 2} => \A j \in r.rows : Found(s, j)'
    BY <1>1, <1>2 DEF Sweeps
  <2>2. lock = s /\ Place(s) \in {1, 3} /\ Place(s)' \in {0, 2}
    BY <1>0, <1>1, <1>2, <2>1 DEF Obeys, Sweeps
  <2>3. ASSUME Place(s)' = 2, NEW j \in r.rows
        PROVE  Found(s, j)'
    <3>1. Place(s) = 3
      BY <1>2, <2>3
    <3>2. DOMAIN tx[s].mine = {}
      BY <1>0, <1>1, <2>1, <3>1 DEF Obeys, Sweeps
    <3>3. /\ job[j].state = "active" /\ job[j].lease = "expired"
          /\ IF Worn(job[j]) THEN j \in S /\ f[j].state = "failed" ELSE j \notin S
      BY <1>0, <2>1, <2>3, <3>1
    <3>4. CASE Worn(job[j])
      BY <1>0, <1>1, <2>3, <3>3, <3>4 DEF Found, Worn
    <3>5. CASE ~ Worn(job[j])
      BY <1>0, <1>1, <3>2, <3>3, <3>5 DEF Found, Worn
    <3> QED BY <3>4, <3>5
  <2> QED BY <2>2, <2>3
<1>10. Obeys(s)'
  BY <1>4, <1>5, <1>6, <1>7, <1>8, <1>9 DEF Obeys
<1> QED BY <1>0, <1>10, StatementObeys

LEMMA ReadyObeys ==
  ASSUME Calls \subseteq Guarded, IInv, IInv', LInv, NEW s \in Session, Ready(s)
  PROVE  LInv'
<1> DEFINE S == {j \in tx[s].rows : View(s)[j].state # "absent"}
           New(j) == [View(s)[j] EXCEPT !.state = IF tx[s].paused THEN "paused" ELSE "wait",
                                        !.waitSeq = 0, !.at = "none"]
           f == [j \in S |-> New(j)]
<1>1. /\ Reaches(s, "ready") /\ UNCHANGED <<job, lock>>
      /\ Goes(s, [tx[s] EXCEPT !.mine = [j \in DOMAIN tx[s].mine \union S |->
                                          IF j \in S THEN New(j) ELSE tx[s].mine[j]]])
  BY DEF Ready, Written
<1>2. /\ TypeOK /\ tx[s].rows \in SUBSET Job /\ S \in SUBSET Job /\ Obeys(s) /\ Keeps(s)
      /\ \A j \in Job : View(s)[j] \in Row /\ job[j] \in Row
  BY SessionRows DEF LInv, IInv
<1>3. tx[s].call \in {"fetch", "finish"} /\ Place(s) = 3
  BY <1>1, <1>2, GuardedAhead
<1>4. lock = s
  BY <1>2, <1>3 DEF Keeps, Locked
<1>5. ASSUME NEW j \in S
      PROVE  New(j) \in Row /\ Alike(job[j], New(j)) /\ Whole(New(j)) /\ New(j).started <= job[j].started
  <2>1. View(s)[j] \in Row /\ job[j] \in Row /\ Waits(View(s)[j])
    BY <1>2, <1>3 DEF Obeys, Promotes
  <2>2. Whole(View(s)[j]) /\ Alike(job[j], View(s)[j])
    <3>1. CASE j \in DOMAIN tx[s].mine
      BY <1>2, <1>3, <2>1, <3>1 DEF View, Obeys, Lawful, Early, Waits, Final
    <3>2. CASE j \notin DOMAIN tx[s].mine
      BY <1>2, <2>1, <3>2 DEF View, LInv, Alike
    <3> QED BY <3>1, <3>2
  <2>3. PICK q \in Row : q = New(j) /\ Alike(View(s)[j], q) /\ Whole(q)
    BY <2>1, <2>2, Listed
  <2>4. Alike(job[j], q)
    BY <2>2, <2>3 DEF Alike
  <2>5. q.started = job[j].started /\ job[j].started \in Nat
    BY <2>1, <2>4, SameLease DEF Row
  <2> QED BY <2>3, <2>4, <2>5
<1>6. f \in [S -> Row] /\ \A j \in S : Alike(job[j], f[j]) /\ Whole(f[j]) /\ f[j].started <= job[j].started
  BY <1>5
<1>7. PICK w : w = Wrote(s, S, f) /\ Goes(s, w)
  <2>1. [j \in DOMAIN tx[s].mine \union S |-> IF j \in S THEN New(j) ELSE tx[s].mine[j]]
        = [j \in DOMAIN tx[s].mine \union S |-> IF j \in S THEN f[j] ELSE tx[s].mine[j]]
    OBVIOUS
  <2> QED BY <1>1, <2>1 DEF Wrote
<1> HIDE DEF S, f
<1>8. w \in Tx /\ HasWritten(s, w, S, f)
  BY <1>2, <1>6, <1>7, WrittenTx
<1>9. \A j \in S : Whole(f[j]) /\ Moves(job[j], f[j])
  BY <1>6 DEF Moves
<1> QED BY <1>1, <1>2, <1>3, <1>4, <1>6, <1>7, <1>8, <1>9, WriteObeys

LEMMA SweepObeys ==
  ASSUME Calls \subseteq Guarded, IInv, IInv', LInv, NEW s \in Session, Sweep(s)
  PROVE  LInv'
<1> DEFINE S == {j \in tx[s].rows : View(s)[j].state # "absent"}
           New(j) == ToList(Stalled(View(s)[j]), tx[s].paused, 0)
           f == [j \in S |-> New(j)]
<1>1. /\ Reaches(s, "sweep") /\ UNCHANGED <<job, lock>>
      /\ Goes(s, [tx[s] EXCEPT !.mine = [j \in DOMAIN tx[s].mine \union S |->
                                          IF j \in S THEN New(j) ELSE tx[s].mine[j]]])
  BY DEF Sweep, Written
<1>2. /\ TypeOK /\ tx[s].rows \in SUBSET Job /\ S \in SUBSET Job /\ Obeys(s) /\ tx[s].paused \in BOOLEAN
      /\ \A j \in Job : job[j] \in Row
  BY SessionRows DEF LInv, IInv
<1>3. tx[s].call = "sweep" /\ Place(s) = 1 /\ lock = s
  <2>1. tx[s].call = "sweep" /\ Place(s) = 1
    BY <1>1, <1>2, GuardedAhead
  <2> QED BY <1>2, <2>1 DEF Obeys, Sweeps
<1>4. ASSUME NEW j \in S
      PROVE  New(j) \in Row /\ Moves(job[j], New(j)) /\ Whole(New(j)) /\ New(j).started <= job[j].started
  <2>1. Found(s, j) /\ job[j] \in Row
    BY <1>2, <1>3 DEF Obeys, Sweeps
  <2>2. ~ Worn(job[j]) /\ View(s)[j] = job[j]
    BY <1>2, <1>3, <2>1 DEF Found, View
  <2>3. PICK q : q = ToList(Stalled(job[j]), tx[s].paused, 0) /\ q = New(j)
    BY <2>2
  <2>4. JL!Revoke(LeaseOf(job[j]), LeaseOf(q)) /\ Whole(q)
    BY <1>2, <2>1, <2>2, <2>3, RevokedRow DEF Found
  <2>5. Stalled(job[j]) \in Row /\ Stalled(job[j]).started = job[j].started /\ job[j].started \in Nat
    BY <1>2, <2>1, Changes
  <2>6. q \in Row /\ q.started = job[j].started
    BY <1>2, <2>3, <2>5, Changes
  <2> QED BY <2>3, <2>4, <2>5, <2>6 DEF Moves, JL!Step
<1>5. f \in [S -> Row] /\ \A j \in S : Moves(job[j], f[j]) /\ Whole(f[j]) /\ f[j].started <= job[j].started
  BY <1>4
<1>6. PICK w : w = Wrote(s, S, f) /\ Goes(s, w)
  <2>1. [j \in DOMAIN tx[s].mine \union S |-> IF j \in S THEN New(j) ELSE tx[s].mine[j]]
        = [j \in DOMAIN tx[s].mine \union S |-> IF j \in S THEN f[j] ELSE tx[s].mine[j]]
    OBVIOUS
  <2> QED BY <1>1, <2>1 DEF Wrote
<1> HIDE DEF S, f
<1>7. w \in Tx /\ HasWritten(s, w, S, f)
  BY <1>2, <1>5, <1>6, WrittenTx
<1> QED BY <1>1, <1>2, <1>3, <1>5, <1>6, <1>7, WriteObeys

LEMMA FailObeys ==
  ASSUME Calls \subseteq Guarded, IInv, IInv', LInv, NEW s \in Session, Fail(s)
  PROVE  LInv'
<1> DEFINE S == {j \in Expired(View(s)) : Worn(View(s)[j])}
           New(j) == ToFinal(Stalled(View(s)[j]), "failed")
           f == [j \in S |-> New(j)]
           R == Expired(View(s))
<1>1. /\ Reaches(s, "fail") /\ UNCHANGED <<job, lock>>
      /\ Goes(s, [[tx[s] EXCEPT !.mine = [j \in DOMAIN tx[s].mine \union S |->
                                           IF j \in S THEN New(j) ELSE tx[s].mine[j]]] EXCEPT !.rows = R])
  BY DEF Fail, Written
<1>2. TypeOK /\ Obeys(s) /\ S \in SUBSET Job /\ R \in SUBSET Job /\ \A j \in Job : job[j] \in Row
  BY SessionRows DEF LInv, IInv, Expired, In
<1>3. tx[s].call = "sweep" /\ Place(s) = 3 /\ lock = s /\ DOMAIN tx[s].mine = {}
  <2>1. tx[s].call = "sweep" /\ Place(s) = 3
    BY <1>1, <1>2, GuardedAhead
  <2> QED BY <1>2, <2>1 DEF Obeys, Sweeps
<1>4. /\ \A j \in Job : View(s)[j] = job[j]
      /\ \A j \in R : job[j].state = "active" /\ job[j].lease = "expired"
      /\ \A j \in R : j \in S <=> Worn(job[j])
  BY <1>3 DEF View, Expired, In
<1>5. ASSUME NEW j \in S
      PROVE  /\ New(j) \in Row /\ Moves(job[j], New(j)) /\ Whole(New(j)) /\ New(j).started <= job[j].started
             /\ New(j).state = "failed"
  <2>1. job[j] \in Row /\ j \in R /\ Worn(job[j]) /\ View(s)[j] = job[j] /\ TRUE \in BOOLEAN
    BY <1>2, <1>4
  <2>2. PICK m, q : m = Stalled(job[j]) /\ q = ToFinal(m, "failed") /\ q = New(j)
    BY <2>1
  <2>3. JL!Revoke(LeaseOf(job[j]), LeaseOf(q)) /\ Whole(q) /\ q.state = "failed"
    BY <1>4, <2>1, <2>2, RevokedRow
  <2>4. m \in Row /\ m.started = job[j].started /\ job[j].started \in Nat
    BY <2>1, <2>2, Changes
  <2>5. q \in Row /\ q.started = job[j].started
    <3>1. "failed" \in Final
      BY DEF Final
    <3>2. ToFinal(m, "failed") \in Row /\ ToFinal(m, "failed").started = m.started
      BY <2>4, <3>1, Changes, TRUE \in BOOLEAN
    <3> QED BY <2>2, <2>4, <3>2
  <2> QED BY <2>2, <2>3, <2>4, <2>5 DEF Moves, JL!Step
<1>6. /\ f \in [S -> Row]
      /\ \A j \in S : /\ Moves(job[j], f[j]) /\ Whole(f[j]) /\ f[j].started <= job[j].started
                      /\ f[j].state = "failed"
  BY <1>5
<1>7. PICK w : w = Wrote(s, S, f) /\ Goes(s, Noting(w, R))
  <2>1. [j \in DOMAIN tx[s].mine \union S |-> IF j \in S THEN New(j) ELSE tx[s].mine[j]]
        = [j \in DOMAIN tx[s].mine \union S |-> IF j \in S THEN f[j] ELSE tx[s].mine[j]]
    OBVIOUS
  <2> QED BY <1>1, <2>1 DEF Wrote, Noting
<1> HIDE DEF S, f, R
<1>8. PICK t \in Tx : HasWritten(s, t, S, f) /\ t.rows = R /\ Goes(s, t)
  BY <1>2, <1>6, <1>7, WrittenTx
<1>9. \A j \in t.rows : /\ job[j].state = "active" /\ job[j].lease = "expired"
                        /\ IF Worn(job[j]) THEN j \in S /\ f[j].state = "failed" ELSE j \notin S
  BY <1>4, <1>6, <1>8
<1> QED BY <1>1, <1>2, <1>3, <1>6, <1>8, <1>9, WriteObeys

LEMMA MoveObeys ==
  ASSUME Calls \subseteq Guarded, IInv, IInv', LInv, NEW s \in Session, Move(s)
  PROVE  LInv'
<1> DEFINE pause == tx[s].call = "pause"
           S == In(job, {IF pause THEN "wait" ELSE "paused"})
           New(j) == [job[j] EXCEPT !.state = IF pause THEN "paused" ELSE "wait"]
           f == [j \in S |-> New(j)]
<1>1. /\ Reaches(s, "move") /\ UNCHANGED <<job, lock>>
      /\ Goes(s, [tx[s] EXCEPT !.mine = [j \in DOMAIN tx[s].mine \union S |->
                                          IF j \in S THEN New(j) ELSE tx[s].mine[j]]])
  BY DEF Move, Written
<1>2. TypeOK /\ S \in SUBSET Job /\ \A j \in Job : job[j] \in Row
  BY SessionRows DEF IInv, In
<1>3. tx[s].call \in {"pause", "resume"}
  BY <1>1, <1>2, GuardedAhead
<1>4. ASSUME NEW j \in S
      PROVE  /\ New(j) \in Row /\ Alike(job[j], New(j)) /\ Whole(New(j)) /\ New(j).started <= job[j].started
             /\ job[j].state # "active" /\ Waits(New(j))
  <2>1. job[j] \in Row /\ Waits(job[j]) /\ Whole(job[j]) /\ job[j].state # "active" /\ job[j].started \in Nat
        /\ TRUE \in BOOLEAN
    BY <1>2 DEF In, Waits, LInv, Row
  <2>2. PICK w \in {"wait", "paused"} : w = IF pause THEN "paused" ELSE "wait"
    OBVIOUS
  <2>3. PICK q : q = [job[j] EXCEPT !.state = w] /\ q = New(j)
    BY <2>2
  <2>4. q \in Row /\ Alike(job[j], q) /\ Waits(q) /\ Whole(q)
    BY <2>1, <2>3, Listed
  <2>5. q.started = job[j].started
    BY <2>1, <2>4, SameLease
  <2> QED BY <2>1, <2>3, <2>4, <2>5
<1>5. /\ f \in [S -> Row]
      /\ \A j \in S : /\ Alike(job[j], f[j]) /\ Whole(f[j]) /\ f[j].started <= job[j].started
                      /\ job[j].state # "active" /\ Waits(f[j])
  BY <1>4
<1>6. PICK w : w = Wrote(s, S, f) /\ Goes(s, w)
  <2>1. [j \in DOMAIN tx[s].mine \union S |-> IF j \in S THEN New(j) ELSE tx[s].mine[j]]
        = [j \in DOMAIN tx[s].mine \union S |-> IF j \in S THEN f[j] ELSE tx[s].mine[j]]
    OBVIOUS
  <2> QED BY <1>1, <2>1 DEF Wrote
<1> HIDE DEF S, f
<1>7. w \in Tx /\ HasWritten(s, w, S, f)
  BY <1>2, <1>5, <1>6, WrittenTx
<1>8. /\ \A j \in S : Whole(f[j]) /\ Moves(job[j], f[j])
      /\ tx[s].call \in Asides /\ tx[s].call \notin {"fetch", "finish", "sweep"}
  BY <1>3, <1>5 DEF Moves, Asides
<1> QED BY <1>1, <1>2, <1>5, <1>6, <1>7, <1>8, WriteObeys

\* The statement writes the row q, and may note a claim.
LEMMA WriteOneObeys ==
  ASSUME Calls \subseteq Guarded, IInv, IInv', LInv, NEW s \in Session, NEW h, Reaches(s, h), h # "due",
         UNCHANGED <<job, lock>>, NEW j \in Job, NEW q \in Row,
         NEW w, w = [tx[s] EXCEPT !.mine = [k \in DOMAIN tx[s].mine \union {j} |->
                                             IF k \in {j} THEN q ELSE tx[s].mine[k]]],
         Goes(s, w) \/ (\E c \in {0, 1} : Goes(s, [w EXCEPT !.claims = c])),
         Whole(q), Moves(job[j], q),
         tx[s].call \in {"fetch", "finish"} /\ Place(s) >= 2 => Alike(job[j], q) \/ q.state \in Final,
         lock # s => tx[s].call \in Asides /\ job[j].state # "active" /\ Waits(q),
         tx[s].call # "sweep"
  PROVE  LInv'
<1> DEFINE f == [k \in {j} |-> q]
<1>1. f \in [{j} -> Row] /\ {j} \in SUBSET Job /\ \A k \in {j} : f[k] = q /\ k = j
  OBVIOUS
<1>2. w = Wrote(s, {j}, f)
  <2>1. [k \in DOMAIN tx[s].mine \union {j} |-> IF k \in {j} THEN q ELSE tx[s].mine[k]]
        = [k \in DOMAIN tx[s].mine \union {j} |-> IF k \in {j} THEN f[k] ELSE tx[s].mine[k]]
    OBVIOUS
  <2> QED BY <2>1 DEF Wrote
<1>3. PICK S : S = {j}
  OBVIOUS
<1> HIDE DEF f
<1>4. Goes(s, w) \/ (\E c \in {0, 1} : Goes(s, Taking(w, c)))
  BY DEF Taking
<1>5. /\ S \in SUBSET Job /\ f \in [S -> Row] /\ \A k \in S : f[k] = q /\ k = j
      /\ w = Wrote(s, S, f)
  BY <1>1, <1>2, <1>3
<1>6. PICK t \in Tx : HasWritten(s, t, S, f) /\ Goes(s, t)
  BY <1>4, <1>5, WrittenTx
<1>7. /\ \A k \in S : Whole(f[k]) /\ Moves(job[k], f[k])
      /\ tx[s].call \in {"fetch", "finish"} /\ Place(s) >= 2 => \A k \in S : Alike(job[k], f[k]) \/ f[k].state \in Final
      /\ lock # s => tx[s].call \in Asides /\ \A k \in S : job[k].state # "active" /\ Waits(f[k])
      /\ \E got : S = {got}
  BY <1>3, <1>5
<1> QED BY <1>5, <1>6, <1>7, WriteObeys

LEMMA InsertObeys ==
  ASSUME Calls \subseteq Guarded, IInv, IInv', LInv, NEW s \in Session, Insert(s)
  PROVE  LInv'
<1>1. PICK j, q : /\ j = tx[s].j /\ q = ToList(Absent, tx[s].paused, 0)
                  /\ Reaches(s, "insert") /\ UNCHANGED <<job, lock>>
  BY DEF Insert
<1>2. j \in Job /\ tx[s].paused \in BOOLEAN /\ job[j] \in Row /\ tx[s].call = "add"
  BY <1>1, GuardedAhead DEF IInv, TypeOK, Tx
<1>3. CASE job[j].state = "absent"
  <2>1. PICK w : /\ w = [tx[s] EXCEPT !.mine = [k \in DOMAIN tx[s].mine \union {j} |->
                                                IF k \in {j} THEN q ELSE tx[s].mine[k]]]
                 /\ Goes(s, w)
    BY <1>1, <1>3 DEF Insert, Written
  <2>2. q \in Row
    BY <1>1, <1>2, AbsentRow, Changes
  <2>3. Whole(q) /\ Moves(job[j], q) /\ Waits(q)
    <3>1. "later" \in At
      BY DEF At
    <3> QED BY <1>1, <1>2, <1>3, <3>1, AddedRow
  <2>4. tx[s].call \in Asides /\ tx[s].call \notin {"fetch", "finish", "sweep"} /\ job[j].state # "active"
    BY <1>2, <1>3 DEF Asides
  <2> QED BY <1>1, <1>2, <2>1, <2>2, <2>3, <2>4, WriteOneObeys
<1>4. CASE job[j].state # "absent"
  <2>1. Goes(s, tx[s])
    BY <1>1, <1>4 DEF Insert
  <2> QED BY <1>1, <2>1, IdlyObeys
<1> QED BY <1>3, <1>4

LEMMA PromoteObeys ==
  ASSUME Calls \subseteq Guarded, IInv, IInv', LInv, NEW s \in Session, PromoteOne(s)
  PROVE  LInv'
<1>1. PICK j, q : /\ j = tx[s].j /\ q = ToList(job[j], tx[s].paused, 0)
                  /\ Reaches(s, "promote") /\ UNCHANGED <<job, lock>>
  BY DEF PromoteOne
<1>2. j \in Job /\ tx[s].paused \in BOOLEAN /\ job[j] \in Row /\ tx[s].call = "promote"
  BY <1>1, GuardedAhead DEF IInv, TypeOK, Tx
<1>3. CASE job[j].state = "delayed"
  <2>1. PICK w : /\ w = [tx[s] EXCEPT !.mine = [k \in DOMAIN tx[s].mine \union {j} |->
                                                IF k \in {j} THEN q ELSE tx[s].mine[k]]]
                 /\ Goes(s, w)
    BY <1>1, <1>3 DEF PromoteOne, Written
  <2>2. q \in Row
    BY <1>1, <1>2, Changes
  <2>3. Waits(job[j]) /\ Whole(job[j])
    BY <1>2, <1>3 DEF LInv, Waits
  <2>4. Whole(q) /\ Moves(job[j], q) /\ Waits(q)
    <3>1. "wait" \in {"wait", "paused"}
      OBVIOUS
    <3> QED BY <1>1, <1>2, <2>3, <3>1, Listed DEF Moves
  <2>5. tx[s].call \in Asides /\ tx[s].call \notin {"fetch", "finish", "sweep"} /\ job[j].state # "active"
    BY <1>2, <1>3 DEF Asides
  <2> QED BY <1>1, <1>2, <2>1, <2>2, <2>4, <2>5, WriteOneObeys
<1>4. CASE job[j].state # "delayed"
  <2>1. Goes(s, tx[s])
    BY <1>1, <1>4 DEF PromoteOne
  <2> QED BY <1>1, <2>1, IdlyObeys
<1> QED BY <1>3, <1>4

LEMMA SettleObeys ==
  ASSUME Calls \subseteq Guarded, IInv, IInv', LInv, NEW s \in Session, Settle(s)
  PROVE  LInv'
<1>1. PICK j, v, q : /\ j = tx[s].j /\ v = View(s)[j] /\ q = Settled(v, tx[s].call, tx[s].paused)
                     /\ Reaches(s, "settle") /\ UNCHANGED <<job, lock>>
  BY DEF Settle
<1>2. TypeOK /\ Keeps(s)
  BY DEF IInv
<1>3. tx[s].call = "finish" /\ Place(s) = 6 /\ j \in Job /\ job[j] \in Row
  <2>1. tx[s].call = "finish" /\ Place(s) = 6
    BY <1>1, <1>2, GuardedAhead
  <2> QED BY <1>1, <1>2, <2>1 DEF TypeOK
<1>4. DOMAIN tx[s].mine = {} /\ lock = s
  BY <1>2, <1>3 DEF Keeps, HoldInv, Locked
<1>5. v = job[j]
  BY <1>1, <1>3, <1>4 DEF View
<1>6. CASE v.state = "active"
  <2>1. q = ToFinal(Attempted(job[j]), "completed")
    BY <1>1, <1>3, <1>5 DEF Settled
  <2>2. PICK w : /\ w = [tx[s] EXCEPT !.mine = [k \in DOMAIN tx[s].mine \union {j} |->
                                                IF k \in {j} THEN q ELSE tx[s].mine[k]]]
                 /\ Goes(s, w)
    BY <1>1, <1>3, <1>6 DEF Settle, Written
  <2>3. q \in Row /\ JL!Settle(LeaseOf(job[j]), LeaseOf(q)) /\ Whole(q) /\ q.state \in Final
    BY <1>3, <1>5, <1>6, <2>1, SettledRow
  <2>4. Moves(job[j], q)
    BY <2>3 DEF Moves, JL!Step
  <2> QED BY <1>1, <1>3, <1>4, <2>2, <2>3, <2>4, WriteOneObeys
<1>7. CASE v.state # "active"
  <2>1. Goes(s, tx[s])
    BY <1>1, <1>7 DEF Settle
  <2> QED BY <1>1, <2>1, IdlyObeys
<1> QED BY <1>6, <1>7

LEMMA ClaimObeys ==
  ASSUME Calls \subseteq Guarded, IInv, IInv', LInv, NEW s \in Session, Claim(s)
  PROVE  LInv'
<1>1. Reaches(s, "claim") /\ UNCHANGED <<job, lock>>
  BY DEF Claim
<1>2. TypeOK /\ Keeps(s) /\ Obeys(s)
  BY DEF IInv, LInv
<1>3. tx[s].call \in {"fetch", "finish"} /\ Place(s) = 1
  BY <1>1, <1>2, GuardedAhead
<1>4. lock = s /\ tx[s].token \in Token
  BY <1>2, <1>3 DEF Keeps, Locked, Obeys, Promotes
<1>5. CASE Stops(s, tx[s])
  BY <1>1, <1>5, IdlyObeys
<1>6. CASE ~ Stops(s, tx[s])
  <2>1. PICK j \in WaitHeads(View(s)) :
          LET New(k) == Claimed(View(s)[k], tx[s].token)
          IN  Goes(s, [Written(s, {j}, New) EXCEPT !.claims = IF RateMax > 0 THEN 1 ELSE 0])
    BY <1>6 DEF Claim
  <2>2. j \in Job /\ View(s)[j].state = "wait"
    BY <2>1 DEF WaitHeads, Lowest, Numbered, In
  <2>3. PICK v, q : v \in Row /\ v = View(s)[j] /\ q = Claimed(v, tx[s].token)
    BY <2>2, SessionRows
  <2>4. Alike(job[j], v) /\ Whole(v) /\ Waits(v) /\ job[j] \in Row
    <3>1. job[j] \in Row /\ Waits(v)
      BY <2>2, <2>3, SessionRows DEF Waits
    <3>2. CASE j \in DOMAIN tx[s].mine
      BY <1>2, <1>3, <2>2, <2>3, <3>1, <3>2 DEF View, Obeys, Lawful, Early, Final
    <3>3. CASE j \notin DOMAIN tx[s].mine
      BY <2>2, <2>3, <3>1, <3>3 DEF View, LInv, Alike
    <3> QED BY <3>1, <3>2, <3>3
  <2>5. q \in Row
    BY <1>4, <2>3, ClaimedRow
  <2>6. Whole(q) /\ JL!Grant(LeaseOf(v), LeaseOf(q))
    BY <1>4, <2>3, <2>4, GrantedRow
  <2>7. Moves(job[j], q)
    BY <2>4, <2>6 DEF Moves, Alike, JL!Step
  <2>8. PICK c \in {0, 1} : c = IF RateMax > 0 THEN 1 ELSE 0
    OBVIOUS
  <2>9. PICK w : /\ w = [tx[s] EXCEPT !.mine = [k \in DOMAIN tx[s].mine \union {j} |->
                                                IF k \in {j} THEN q ELSE tx[s].mine[k]]]
                 /\ Goes(s, [w EXCEPT !.claims = c])
    <3>1. [k \in DOMAIN tx[s].mine \union {j} |-> IF k \in {j} THEN Claimed(View(s)[k], tx[s].token) ELSE tx[s].mine[k]]
          = [k \in DOMAIN tx[s].mine \union {j} |-> IF k \in {j} THEN q ELSE tx[s].mine[k]]
      BY <2>3
    <3> QED BY <2>1, <2>8, <3>1 DEF Written
  <2>10. ~ Place(s) >= 2 /\ tx[s].call # "sweep"
    BY <1>3
  <2> QED BY <1>1, <1>4, <2>2, <2>5, <2>6, <2>7, <2>9, <2>10, WriteOneObeys
<1> QED BY <1>5, <1>6

-----------------------------------------------------------------------------
(* Transactions begin and end, and time passes.                            *)

LEMMA BeginObeys ==
  ASSUME Calls \subseteq Guarded, IInv, IInv', LInv, NEW s \in Session, NEW what \in Calls,
         NEW j \in Job \union {NoJob}, NEW t \in Token \union {NoToken}, Begin(s, what, j, t)
  PROVE  LInv'
<1> DEFINE r == [Idle EXCEPT !.call = what, !.left = Program(what), !.j = j, !.token = t]
<1>1. /\ tx' = [tx EXCEPT ![s] = r] /\ UNCHANGED <<job, lock>>
      /\ t \in Token <=> what \in {"fetch", "finish", "delay", "retry"}
  BY DEF Begin
<1>2. what \in Calls \ {"delay"} /\ what \in Guarded
  BY DEF Guarded, Asides
<1>3. /\ what = "fetch" => Len(Program(what)) = 6
      /\ what = "finish" => Len(Program(what)) = 8
      /\ what = "sweep" => Len(Program(what)) = 5
  <2>1. what = "sweep" => Program(what) = <<"lock", "paused", "fail", "expired", "sweep">>
    BY DEF Program
  <2> QED BY <1>2, <2>1, Starts
<1>4. r.call = what /\ r.left = Program(what) /\ r.token = t /\ r.mine = <<>>
  BY DEF Idle
<1>5. DOMAIN r.mine = {}
  BY <1>4, NoRows
<1>6. tx'[s] = r /\ r \in Tx
  <2>1. tx'[s] = r /\ tx' \in [Session -> Tx]
    BY <1>1 DEF IInv, TypeOK
  <2> QED BY <2>1
<1> HIDE DEF r
<1>7. Lawful(s)' /\ OneGrant(s)' /\ Early(s)' /\ Aside(s)'
  BY <1>5, <1>6 DEF Lawful, OneGrant, Early, Aside
<1>8. Place(s)' = Len(Program(what)) /\ tx'[s].call = what /\ tx'[s].token = t
  BY <1>4, <1>6 DEF Place
<1>9. Promotes(s)'
  <2>1. what \in {"fetch", "finish"} => t \in Token /\ Len(Program(what)) # 3
    BY <1>1, <1>3
  <2> QED BY <1>8, <2>1 DEF Promotes
<1>10. Sweeps(s)'
  <2>1. what = "sweep" => Len(Program(what)) = 5
    BY <1>3
  <2>2. DOMAIN tx'[s].mine = {}
    BY <1>5, <1>6
  <2>3. tx'[s].call = "sweep" => ~ (Place(s)' <= 4) /\ Place(s)' \notin {1, 2}
    <3>1. tx'[s].call = "sweep" => Place(s)' = 5
      BY <1>8, <2>1
    <3> QED BY <3>1
  <2> QED BY <2>2, <2>3 DEF Sweeps
<1>11. Obeys(s)'
  BY <1>7, <1>9, <1>10 DEF Obeys
<1> QED BY <1>1, <1>6, <1>11, StatementObeys

\* What a session that does nothing has done.
LEMMA IdleObeys == ASSUME NEW s \in Session, tx'[s] = Idle PROVE Obeys(s)'
<1>1. Idle.call = "none" /\ DOMAIN Idle.mine = {}
  BY IdleTx
<1> QED BY <1>1 DEF Obeys, Lawful, OneGrant, Early, Aside, Promotes, Sweeps

\* The rows that change make a step of JobLease.
LEMMA RowsStep ==
  ASSUME IInv, IInv', \A j \in Job : Moves(job[j], job'[j]),
         \A j, k \in Job : job'[j].started > job[j].started /\ job'[k].started > job[k].started => j = k
  PROVE  [JL!Next]_([j \in Job |-> LeaseOf(job[j])])
<1> DEFINE L == [j \in Job |-> LeaseOf(job[j])]
           M == [j \in Job |-> LeaseOf(job'[j])]
<1>1. \A j \in Job : job[j] \in Row /\ job'[j] \in Row
  BY DEF IInv, TypeOK
<1>2. \A r \in Row : LeaseOf(r) \in JL!Lease /\ LeaseOf(r).grants = r.started
  BY DEF LeaseOf, JL!Lease, Row, State, Final
<1>3. M \in [Job -> JL!Lease]
  BY <1>1, <1>2
<1>4. \A j \in Job : M[j] = L[j] \/ JL!Step(L[j], M[j])
  BY DEF Moves, Alike
<1>5. \A j, k \in Job : M[j].grants > L[j].grants /\ M[k].grants > L[k].grants => j = k
  BY <1>1, <1>2
<1> QED BY <1>3, <1>4, <1>5 DEF JL!Next

\* The end of a transaction.
LEMMA EndObeys ==
  ASSUME IInv, IInv', LInv, NEW s \in Session, Commit(s) \/ Abort(s)
  PROVE  LInv' /\ [JL!Next]_([j \in Job |-> LeaseOf(job[j])])
<1>1. TypeOK /\ TypeOK' /\ Apart /\ \A o \in Session : Keeps(o) /\ Obeys(o)
  BY DEF IInv, LInv
<1>2. End(s) /\ (job' = View(s) \/ job' = job)
  BY DEF Commit, Abort
<1>3. /\ tx'[s] = Idle /\ \A o \in Session \ {s} : tx'[o] = tx[o]
      /\ \A o \in Session \ {s} : lock' = o <=> lock = o
  BY <1>1, <1>2, SessionAssumption DEF End, TypeOK
<1>4. \A j \in Job : \/ j \in DOMAIN tx[s].mine /\ job'[j] = tx[s].mine[j]
                     \/ job'[j] = job[j]
  BY <1>2 DEF View
<1>5. \A j \in Job : Whole(job'[j]) /\ Moves(job[j], job'[j])
  BY <1>1, <1>4 DEF LInv, Obeys, Lawful, Moves, Alike
<1>6. \A j, k \in Job : job'[j].started > job[j].started /\ job'[k].started > job[k].started => j = k
  <2>1. \A j \in Job : job[j].started \in Nat
    BY <1>1 DEF TypeOK, Row
  <2>2. \A j \in Job : job'[j].started > job[j].started => j \in DOMAIN tx[s].mine /\ Grows(s, j)
    BY <1>4, <2>1 DEF Grows
  <2> QED BY <1>1, <2>2 DEF Obeys, OneGrant
<1>7. ASSUME NEW o \in Session \ {s}
      PROVE  Obeys(o)'
  <2>1. DOMAIN tx[o].mine \in SUBSET Job
    BY SessionRows
  <2>2. \A j \in DOMAIN tx[o].mine : job'[j] = job[j]
    BY <1>1, <1>4, <2>1 DEF Apart
  <2>3. ASSUME lock = o
        PROVE  Steady
    <3>1. lock # s
      BY <2>3
    <3>2. \A j \in Job : job'[j] = job[j] \/ (job[j].state # "active" /\ Waits(job'[j]))
      BY <1>1, <1>4, <3>1 DEF Obeys, Aside
    <3> QED BY <3>2 DEF Steady, Alike
  <2> QED BY <1>1, <1>3, <2>2, <2>3, OthersObey
<1>8. Obeys(s)'
  BY <1>3, IdleObeys
<1>9. LInv'
  BY <1>5, <1>7, <1>8 DEF LInv
<1> QED BY <1>5, <1>6, <1>9, RowsStep

\* What happens to one row nobody has written.
LEMMA ClockObeys ==
  ASSUME IInv, IInv', LInv, NEW j \in Job,
         LockExpires(j) \/ DelayElapses(j) \/ \E at \in {"later", "due"} : AddDelayed(j, at)
  PROVE  LInv' /\ [JL!Next]_([k \in Job |-> LeaseOf(job[k])])
<1>1. TypeOK /\ TypeOK' /\ (\A o \in Session : Keeps(o) /\ Obeys(o)) /\ UNCHANGED <<lock, tx>> /\ Unwritten(j)
  BY DEF IInv, LInv, LockExpires, DelayElapses, AddDelayed
<1>2. job[j] \in Row /\ Whole(job[j])
  BY <1>1 DEF TypeOK, LInv
<1>3. PICK q \in Row : /\ job' = [job EXCEPT ![j] = q] /\ Moves(job[j], q) /\ Whole(q) /\ q.started <= job[j].started
                       /\ (Alike(job[j], q) \/ (~ Waits(job[j]) /\ job[j].lease # "expired"))
  <2>1. CASE LockExpires(j)
    <3>1. PICK q : q = [job[j] EXCEPT !.lease = "expired"]
      OBVIOUS
    <3>2. job' = [job EXCEPT ![j] = q] /\ job[j].lease = "live"
      BY <2>1, <3>1 DEF LockExpires
    <3>3. q \in Row /\ Moves(job[j], q) /\ Whole(q)
      BY <1>2, <3>1, <3>2, ClockedRow
    <3>4. ~ Waits(job[j]) /\ job[j].lease # "expired"
      BY <1>2, <3>2 DEF Whole, Waits
    <3>5. q.started <= job[j].started
      BY <1>2, <3>1 DEF Row
    <3> QED BY <3>2, <3>3, <3>4, <3>5
  <2>2. CASE DelayElapses(j)
    <3>1. PICK q : q = [job[j] EXCEPT !.at = "due"]
      OBVIOUS
    <3>2. job' = [job EXCEPT ![j] = q]
      BY <2>2, <3>1 DEF DelayElapses
    <3>3. q \in Row /\ Alike(job[j], q)
      BY <1>2, <3>1, ClockedRow
    <3>4. Whole(q) /\ q.started = job[j].started /\ job[j].started \in Nat
      BY <1>2, <3>3, SameLease DEF Row
    <3>5. Moves(job[j], q)
      BY <3>3 DEF Moves
    <3>6. q.started <= job[j].started
      BY <3>4
    <3> QED BY <3>2, <3>3, <3>4, <3>5, <3>6
  <2>3. CASE \E at \in {"later", "due"} : AddDelayed(j, at)
    <3>1. PICK at \in At : job' = [job EXCEPT ![j] = ToDelayed(Absent, at)] /\ job[j].state = "absent"
      BY <2>3 DEF AddDelayed, At
    <3>2. PICK q : q = ToDelayed(Absent, at)
      OBVIOUS
    <3>3. Moves(job[j], q) /\ Whole(q)
      BY <1>2, <3>1, <3>2, AddedRow, TRUE \in BOOLEAN
    <3>4. q \in Row /\ q.started = 0
      BY <3>2, AbsentRow, Changes, TRUE \in BOOLEAN
    <3>5. ~ Waits(job[j]) /\ job[j].lease # "expired" /\ job[j].started \in Nat
      BY <1>2, <3>1 DEF Waits, Whole, Row
    <3>6. q.started <= job[j].started
      BY <3>4, <3>5
    <3>7. job' = [job EXCEPT ![j] = q]
      BY <3>1, <3>2
    <3> QED BY <3>3, <3>4, <3>5, <3>6, <3>7
  <2> QED BY <2>1, <2>2, <2>3
<1>4. job'[j] = q /\ \A k \in Job \ {j} : job'[k] = job[k]
  BY <1>1, <1>3 DEF TypeOK
<1>5. Steady
  <2>1. Alike(job[j], q) => (Waits(job[j]) => Waits(q))
    BY <1>2, SameLease
  <2> QED BY <1>3, <1>4, <2>1 DEF Steady, Alike
<1>6. ASSUME NEW o \in Session
      PROVE  Obeys(o)'
  <2>1. \A k \in DOMAIN tx[o].mine : job'[k] = job[k]
    <3>1. DOMAIN tx[o].mine \in SUBSET Job /\ j \notin DOMAIN tx[o].mine
      BY <1>1, SessionRows DEF Unwritten
    <3> QED BY <1>4, <3>1
  <2> QED BY <1>1, <1>5, <2>1, OthersObey
<1>7. \A k \in Job : Whole(job'[k]) /\ Moves(job[k], job'[k])
  BY <1>3, <1>4 DEF LInv, Moves, Alike
<1>8. \A k \in Job : ~ job'[k].started > job[k].started
  BY <1>1, <1>3, <1>4 DEF TypeOK, Row
<1>9. LInv'
  BY <1>6, <1>7 DEF LInv
<1> QED BY <1>7, <1>8, <1>9, RowsStep

-----------------------------------------------------------------------------
(* The procedures that take the lock implement JobLease.                   *)

LEMMA InitObeys == Init => LInv
<1> SUFFICES ASSUME Init PROVE LInv
  OBVIOUS
<1>1. Whole(Absent)
  BY DEF Whole, Absent
<1>2. Idle.call = "none" /\ DOMAIN Idle.mine = {}
  BY IdleTx
<1>3. ASSUME NEW s \in Session
      PROVE  Obeys(s)
  <2>1. tx[s] = Idle
    BY DEF Init
  <2> QED BY <1>2, <2>1 DEF Obeys, Lawful, OneGrant, Early, Aside, Promotes, Sweeps
<1> QED BY <1>1, <1>3 DEF LInv, Init

LEMMA StepsKeepLeases ==
  ASSUME Calls \subseteq Guarded, IInv, IInv', LInv, [Next]_vars
  PROVE  LInv' /\ [JL!Next]_([j \in Job |-> LeaseOf(job[j])])
<1>1. ASSUME UNCHANGED job, LInv'
      PROVE  LInv' /\ [JL!Next]_([j \in Job |-> LeaseOf(job[j])])
  BY <1>1
<1>2. ASSUME UNCHANGED <<job, lock, tx>>
      PROVE  LInv'
  <2>1. Steady /\ \A o \in Session : Keeps(o) /\ Obeys(o)
    BY <1>2 DEF Steady, Alike, IInv, LInv
  <2>2. \A o \in Session : Obeys(o)'
    BY <1>2, <2>1, OthersObey DEF IInv
  <2>3. \A j \in Job : Whole(job'[j])
    BY <1>2 DEF LInv
  <2> QED BY <2>2, <2>3 DEF LInv
<1>3. CASE UNCHANGED vars \/ WindowCloses
  BY <1>1, <1>2, <1>3 DEF vars, WindowCloses
<1>4. ASSUME NEW s \in Session, NEW what \in Calls, NEW j \in Job \union {NoJob}, NEW t \in Token \union {NoToken},
             Begin(s, what, j, t)
      PROVE  LInv' /\ UNCHANGED job
  BY <1>4, BeginObeys DEF Begin
<1>5. ASSUME NEW s \in Session,
             \/ TakeLock(s) \/ ReadPaused(s) \/ CheckHolder(s) \/ FindDue(s) \/ Gate(s) \/ FindExpired(s) \/ Flag(s)
      PROVE  LInv' /\ UNCHANGED job
  BY <1>5, ReadsObey DEF TakeLock, ReadPaused, CheckHolder, FindDue, Gate, FindExpired, Flag
<1>6. ASSUME NEW s \in Session,
             \/ Settle(s) \/ Ready(s) \/ Claim(s) \/ Fail(s) \/ Sweep(s) \/ Insert(s) \/ PromoteOne(s) \/ Move(s)
      PROVE  LInv' /\ UNCHANGED job
  <2>1. LInv'
    BY <1>6, SettleObeys, ReadyObeys, ClaimObeys, FailObeys, SweepObeys, InsertObeys, PromoteObeys, MoveObeys
  <2>2. UNCHANGED job
    BY <1>6 DEF Settle, Ready, Claim, Fail, Sweep, Insert, PromoteOne, Move
  <2> QED BY <2>1, <2>2
<1>7. ASSUME NEW s \in Session, Commit(s) \/ Abort(s)
      PROVE  LInv' /\ [JL!Next]_([j \in Job |-> LeaseOf(job[j])])
  BY <1>7, EndObeys
<1>8. ASSUME NEW j \in Job, LockExpires(j) \/ DelayElapses(j) \/ \E at \in {"later", "due"} : AddDelayed(j, at)
      PROVE  LInv' /\ [JL!Next]_([k \in Job |-> LeaseOf(job[k])])
  BY <1>8, ClockObeys
<1> QED BY <1>1, <1>3, <1>4, <1>5, <1>6, <1>7, <1>8 DEF Next

\* Statement by statement, for any number of sessions and jobs, the procedures that take the
\* queue's advisory lock hand jobs out, end them and take them back as JobLease says, beside
\* clients that add, promote, pause and resume without it.
THEOREM StatementsKeepLeases ==
  ASSUME Calls \subseteq {"fetch", "finish", "sweep", "add", "promote", "pause", "resume"} PROVE Spec => LeaseKept
<1>1. Calls \subseteq Guarded /\ "delay" \notin Calls
  BY DEF Guarded, Asides
<1>2. Init => JL!Init
  <2>1. LeaseOf(Absent) = JL!NoLease
    BY DEF LeaseOf, Absent, JL!NoLease, Final
  <2> QED BY <2>1 DEF Init, JL!Init
<1>3. Init => IInv /\ LInv
  BY Initially, InitObeys
<1>4. IInv /\ LInv /\ [Next]_vars => IInv' /\ LInv' /\ [JL!Next]_([j \in Job |-> LeaseOf(job[j])])
  BY <1>1, Inductive, StepsKeepLeases
<1> QED BY <1>2, <1>3, <1>4, PTL DEF Spec, LeaseKept, JL!Spec

-----------------------------------------------------------------------------
(* The connection that listens (EmqListener).                              *)


Where    == {"off", "connect", "name", "bind", "replay", "listen", "sleep", "hung",
             "ready", "failed", "done", "thrown"}
CallType == [at : Where, client : Client \union {Null}, done : SUBSET Channel]

\* A call that has a query under way has a client.
Sound(r) == r \in CallType /\ (r.at \in {"name", "replay", "listen"} => r.client # Null)

\* The pool is asked for a client when there is none, by init or by reconnect; disconnect
\* has one of its own only while it cuts it.
Alone ==
  /\ call["init"].at = "connect" => listener = Null /\ call["rec"] = Off /\ disc = Off
  /\ call["rec"].at = "connect" => listener = Null
  /\ disc.at # "kill" => disc.client = Null

\* A subscribe that was not called has left nothing.
Untouched == \A ch \in Channel : call[ch].at = "off" => ch \notin channels \union listening

\* Some rebind of client w has yet to listen to ch.
WillReplay(C, w, ch) == \E p \in Proc : C[p].at = "replay" /\ C[p].client = w /\ ch \notin C[p].done

Covered ==
  wired \in alive =>
    \A ch \in channels :
      \/ ch \in heard[wired]
      \/ WillReplay(call, wired, ch)
      \/ call[ch].at = "listen" /\ call[ch].client = wired

ListenerInv ==
  /\ FieldsOK /\ listener \in 0 .. given /\ wired \in 0 .. given
  /\ Alone /\ NoneLeaked /\ Untouched /\ Covered

-----------------------------------------------------------------------------
(* Calls.                                                                  *)

\* A call that goes to a place.
LEMMA AtSound ==
  ASSUME NEW at \in Where, NEW c \in Client \union {Null},
         at \in {"name", "replay", "listen"} => c # Null
  PROVE  Sound(CallAt(at, c)) /\ CallAt(at, c).at = at /\ CallAt(at, c).client = c /\ CallAt(at, c).done = {}
BY DEF CallAt, Sound, CallType

\* Where rebindListenerClient returns to.
LEMMA ReturnedSound ==
  ASSUME NEW p \in Proc, NEW w \in Client \union {Null}, NEW L
  PROVE  LET r == Returned(p, w, L)
         IN  /\ Sound(r) /\ r.at \notin {"connect", "name", "bind", "replay"}
             /\ r.at = "off" => p = "rec" /\ r = Off
             /\ r.at = "listen" => r.client = w
             /\ p \in Channel /\ w # Null /\ p \notin L => r.at = "listen"
<1>1. CASE p = "init"
  BY <1>1, AtSound, NamesAssumption DEF Returned, Null, Where
<1>2. CASE p = "rec"
  BY <1>2, AtSound, NamesAssumption DEF Returned, Null, Where, Off
<1>3. CASE p \in Channel
  <2>1. p # "init" /\ p # "rec"
    BY <1>3, NamesAssumption
  <2>2. Returned(p, w, L) = IF w = Null \/ p \in L THEN CallAt("done", Null) ELSE CallAt("listen", w)
    BY <2>1 DEF Returned
  <2> QED BY <1>3, <2>1, <2>2, AtSound DEF Null, Where
<1> QED BY <1>1, <1>2, <1>3 DEF Proc

\* What ListenerInv says of a call.
LEMMA CallSound ==
  ASSUME FieldsOK, NEW p \in Proc
  PROVE  Sound(call[p])
BY DEF FieldsOK, Sound, CallType, Where

\* One call goes on.
LEMMA CallStep ==
  ASSUME FieldsOK, NEW p \in Proc, NEW r, Sound(r), call' = [call EXCEPT ![p] = r]
  PROVE  /\ call' \in [Proc -> CallType]
         /\ call'[p] = r
         /\ \A q \in Proc \ {p} : call'[q] = call[q]
         /\ \A q \in Proc : call'[q].at \in {"name", "replay", "listen"} => call'[q].client # Null
BY DEF FieldsOK, Sound, CallType, Where

\* rebindListenerClient lets go of the old client and wires the new one, if there is one:
\* then either it has every channel still to listen to, or there is none.
LEMMA RebindStep ==
  ASSUME FieldsOK, NEW p \in Proc, NEW chs \in SUBSET Channel, Rebind(p, chs)
  PROVE  \E r : /\ Sound(r) /\ r.at \notin {"connect", "name"}
                /\ r.at = "off" => p = "rec"
                /\ call' = [call EXCEPT ![p] = r]
                /\ wired' \in {wired, listener, Null}
                /\ listening' \subseteq listening
                /\ Closed => wired' = wired
                /\ ~Closed /\ wired' # Null =>
                     chs = {} \/ (r.at = "replay" /\ r.client = wired' /\ r.done = {})
<1> DEFINE gone == Closed \/ (Available /\ (Listener = Null \/ chs = {}))
           r == IF gone THEN Returned(p, wired', listening')
                ELSE IF Available THEN CallAt("replay", Listener) ELSE CallAt("bind", Null)
<1>1. /\ Listener \in Client \union {Null} /\ Listener \in {listener, Null}
      /\ wired \in Client \union {Null}
  BY DEF Listener, FieldsOK
<1>2. wired' \in {wired, listener, Null} /\ wired' \in Client \union {Null}
  BY <1>1 DEF Rebind
<1>3. call' = [call EXCEPT ![p] = r]
  BY DEF Rebind
<1>4. Sound(r) /\ r.at \notin {"connect", "name"} /\ (r.at = "off" => p = "rec")
  <2>1. CASE gone
    BY <1>2, <2>1, ReturnedSound
  <2>2. CASE ~gone /\ Available
    BY <1>1, <2>2, AtSound DEF Where
  <2>3. CASE ~gone /\ ~Available
    BY <2>3, AtSound DEF Where, Null
  <2> QED BY <2>1, <2>2, <2>3
<1>5. listening' \subseteq listening /\ (Closed => wired' = wired)
  BY DEF Rebind
<1>6. ~Closed /\ wired' # Null => chs = {} \/ (r.at = "replay" /\ r.client = wired' /\ r.done = {})
  <2>1. SUFFICES ASSUME ~Closed, wired' # Null, chs # {}
                 PROVE  r.at = "replay" /\ r.client = wired' /\ r.done = {}
    OBVIOUS
  <2>2. Available /\ wired' = Listener /\ ~gone
    BY <2>1 DEF Rebind
  <2> QED BY <1>1, <2>1, <2>2, AtSound DEF Where
<1> QED BY <1>2, <1>3, <1>4, <1>5, <1>6

-----------------------------------------------------------------------------
(* The manager's steps.                                                    *)

\* Where nothing but calls, heard, channels, listening and wired changes.
Manager == UNCHANGED <<listener, given, out, alive, disc, closing>>

\* A call of its own goes on to a place that asks the pool for nothing.
LEMMA AloneKept ==
  ASSUME FieldsOK, Alone, Manager, NEW p \in Proc, NEW r, Sound(r), r.at # "connect",
         p = "rec" => call[p].at # "off", call' = [call EXCEPT ![p] = r]
  PROVE  Alone'
<1>1. call'[p] = r /\ \A q \in Proc \ {p} : call'[q] = call[q]
  BY CallStep
<1>2. "init" \in Proc /\ "rec" \in Proc
  BY DEF Proc
<1>3. p = "rec" => call["rec"] # Off
  BY AtSound DEF Off, Where, Null
<1> QED BY <1>1, <1>2, <1>3 DEF Alone, Manager

\* A step of rebind at whose end channels are the ones it was given.
LEMMA RebindKept ==
  ASSUME ListenerInv, NEW p \in Proc, call[p].at \in {"bind", "name"} \/ (p \in Channel /\ call[p].at = "off"),
         channels' \in SUBSET Channel, Rebind(p, channels'),
         channels' = channels \/ (p \in Channel /\ ~Closed /\ channels' = channels \union {p}),
         Manager, UNCHANGED <<heard, happened, ignored>>
  PROVE  ListenerInv'
<1> USE DEF ListenerInv
<1>1. PICK r : /\ Sound(r) /\ r.at \notin {"connect", "name"}
               /\ r.at = "off" => p = "rec"
               /\ call' = [call EXCEPT ![p] = r]
               /\ wired' \in {wired, listener, Null}
               /\ listening' \subseteq listening
               /\ Closed => wired' = wired
               /\ ~Closed /\ wired' # Null =>
                    channels' = {} \/ (r.at = "replay" /\ r.client = wired' /\ r.done = {})
  BY RebindStep
<1>2. /\ call' \in [Proc -> CallType]
      /\ call'[p] = r
      /\ \A q \in Proc \ {p} : call'[q] = call[q]
      /\ \A q \in Proc : call'[q].at \in {"name", "replay", "listen"} => call'[q].client # Null
  BY <1>1, CallStep
<1>3. FieldsOK'
  BY <1>1, <1>2 DEF FieldsOK, Manager, CallType, Where
<1>4. (listener \in 0 .. given /\ wired \in 0 .. given)'
  BY <1>1 DEF Manager, FieldsOK, Null, Client
<1>5. Alone'
  BY <1>1, AloneKept, NamesAssumption
<1>6. NoneLeaked'
  BY DEF NoneLeaked, Manager
<1>7. Untouched'
  <2>1. SUFFICES ASSUME NEW ch \in Channel, call'[ch].at = "off"
                 PROVE  ch \notin channels' \union listening'
    BY DEF Untouched
  <2>2. ch # p
    BY <1>1, <1>2, <2>1, NamesAssumption
  <2>3. call[ch].at = "off"
    BY <1>2, <2>1, <2>2 DEF Proc
  <2> QED BY <1>1, <2>2, <2>3 DEF Untouched
<1>8. Covered'
  <2>1. SUFFICES ASSUME wired' \in alive', NEW ch \in channels'
                 PROVE  \/ ch \in heard'[wired']
                        \/ WillReplay(call', wired', ch)
                        \/ call'[ch].at = "listen" /\ call'[ch].client = wired'
    BY DEF Covered
  <2>2. wired' # Null
    BY <2>1 DEF FieldsOK, Manager, Null
  <2>3. CASE ~Closed
    BY <1>1, <1>2, <2>1, <2>2, <2>3 DEF WillReplay
  <2>4. CASE Closed
    <3>1. wired' = wired /\ ch \in channels /\ wired \in alive
      BY <1>1, <2>1, <2>4 DEF Manager
    <3>2. ch \in Proc /\ call[p].at \notin {"replay", "listen"}
      BY <3>1 DEF FieldsOK, Proc
    <3>3. \/ ch \in heard[wired]
          \/ WillReplay(call, wired, ch)
          \/ call[ch].at = "listen" /\ call[ch].client = wired
      BY <3>1 DEF Covered
    <3>4. CASE WillReplay(call, wired, ch)
      BY <1>2, <3>1, <3>2, <3>4 DEF WillReplay
    <3> QED BY <1>2, <3>1, <3>2, <3>3, <3>4
  <2> QED BY <2>3, <2>4
<1> QED BY <1>3, <1>4, <1>5, <1>6, <1>7, <1>8

\* rebind goes on when there is a client, or none will come.
LEMMA BoundKept == ASSUME ListenerInv, NEW p \in Proc, Bound(p) PROVE ListenerInv'
<1>1. channels' = channels /\ channels' \in SUBSET Channel /\ Rebind(p, channels')
  BY DEF Bound, ListenerInv, FieldsOK
<1> QED BY <1>1, RebindKept DEF Bound, Manager

\* It begins when a new client has been named.
LEMMA NamedKept == ASSUME ListenerInv, NEW p \in Proc, Named(p) PROVE ListenerInv'
<1>1. channels' = channels /\ channels' \in SUBSET Channel /\ Rebind(p, channels')
  BY DEF Named, ListenerInv, FieldsOK
<1> QED BY <1>1, RebindKept DEF Named, Manager

\* A call that is past its rebind goes on: what Covered has it do is done, or left to it.
LEMMA ReturnKept ==
  ASSUME ListenerInv, NEW p \in Proc, NEW r, Sound(r), r.at \notin {"connect", "name", "bind", "off"} \/ r = Off,
         r.at = "off" => p = "rec",
         r.at = "replay" => call[p].at = "replay" /\ r.client = call[p].client,
         call[p].at # "off",
         call' = [call EXCEPT ![p] = r], Manager,
         UNCHANGED <<channels, wired, happened, ignored>>,
         heard' \in [Client -> SUBSET Channel], listening' \in SUBSET Channel,
         \A c \in Client : heard[c] \subseteq heard'[c],
         \A ch \in listening' \ listening : call[ch].at # "off",
         call[p].client \in alive =>
           /\ \A ch \in channels : call[p].at = "replay" /\ ch \notin call[p].done =>
                (r.at = "replay" /\ ch \notin r.done) \/ ch \in heard'[call[p].client]
           /\ call[p].at = "listen" => p \in heard'[call[p].client]
  PROVE  ListenerInv'
<1> USE DEF ListenerInv
<1>1. /\ call' \in [Proc -> CallType]
      /\ call'[p] = r
      /\ \A q \in Proc \ {p} : call'[q] = call[q]
      /\ \A q \in Proc : call'[q].at \in {"name", "replay", "listen"} => call'[q].client # Null
  BY CallStep
<1>2. FieldsOK'
  BY <1>1 DEF FieldsOK, Manager, CallType, Where
<1>3. (listener \in 0 .. given /\ wired \in 0 .. given /\ NoneLeaked)'
  BY DEF Manager, NoneLeaked
<1>4. Alone'
  BY AloneKept DEF Off, CallAt
<1>5. Untouched'
  <2>1. SUFFICES ASSUME NEW ch \in Channel, call'[ch].at = "off"
                 PROVE  ch \notin channels' \union listening'
    BY DEF Untouched
  <2>2. ch # p /\ ch \in Proc
    BY <1>1, <2>1, NamesAssumption DEF Proc
  <2> QED BY <1>1, <2>1, <2>2 DEF Untouched
<1>6. Covered'
  <2>1. SUFFICES ASSUME wired \in alive, NEW ch \in channels
                 PROVE  \/ ch \in heard'[wired]
                        \/ WillReplay(call', wired, ch)
                        \/ call'[ch].at = "listen" /\ call'[ch].client = wired
    BY DEF Covered, Manager
  <2>2. wired \in Client /\ ch \in Proc
    BY <2>1 DEF FieldsOK, Client, Null, Proc
  <2>3. CASE ch \in heard[wired]
    BY <2>2, <2>3
  <2>4. CASE call[ch].at = "listen" /\ call[ch].client = wired
    BY <1>1, <2>1, <2>2, <2>4
  <2>5. ASSUME NEW q \in Proc, call[q].at = "replay", call[q].client = wired, ch \notin call[q].done
        PROVE  ch \in heard'[wired] \/ WillReplay(call', wired, ch)
    BY <1>1, <2>1, <2>5 DEF WillReplay
  <2> QED BY <2>1, <2>3, <2>4, <2>5 DEF Covered, WillReplay
<1> QED BY <1>2, <1>3, <1>4, <1>5, <1>6

\* A LISTEN of the replay is answered.
LEMMA ReplayKept == ASSUME ListenerInv, NEW p \in Proc, Replay(p) PROVE ListenerInv'
<1> USE DEF ListenerInv
<1> DEFINE c == call[p].client
           left == channels \ call[p].done
<1>1. PICK ch \in left :
        /\ heard' = [heard EXCEPT ![c] = @ \union {ch}]
        /\ listening' = listening \union {ch}
        /\ call' = [call EXCEPT ![p] = IF left = {ch} THEN Returned(p, wired, listening')
                                       ELSE [at |-> "replay", client |-> c, done |-> call[p].done \union {ch}]]
  BY DEF Replay
<1>2. call[p].at = "replay" /\ c \in Client /\ ch \in Channel /\ Sound(call[p])
  BY CallSound DEF Replay, FieldsOK, Client, Null
<1>3. heard' \in [Client -> SUBSET Channel] /\ listening' \in SUBSET Channel
      /\ (\A d \in Client : heard[d] \subseteq heard'[d]) /\ ch \in heard'[c]
  BY <1>1, <1>2 DEF FieldsOK
<1>4. \A d \in listening' \ listening : call[d].at # "off"
  BY <1>1, <1>2 DEF Untouched
<1>5. CASE left = {ch}
  <2> DEFINE r == Returned(p, wired, listening')
  <2>1. /\ Sound(r) /\ r.at \notin {"connect", "name", "bind", "replay"}
        /\ r.at = "off" => p = "rec" /\ r = Off
    <3>1. wired \in Client \union {Null}
      BY DEF FieldsOK
    <3> QED BY <3>1, ReturnedSound
  <2>2. call' = [call EXCEPT ![p] = r]
    BY <1>1, <1>5
  <2> HIDE DEF r
  <2>3. \A d \in channels : d \notin call[p].done => d \in heard'[c]
    BY <1>3, <1>5
  <2> QED BY <1>2, <1>3, <1>4, <2>1, <2>2, <2>3, ReturnKept DEF Replay, Manager
<1>6. CASE left # {ch}
  <2> DEFINE r == [at |-> "replay", client |-> c, done |-> call[p].done \union {ch}]
  <2>1. Sound(r) /\ r.at = "replay" /\ r.client = c /\ r.done = call[p].done \union {ch}
    BY <1>2 DEF Sound, CallType
  <2>2. call' = [call EXCEPT ![p] = r]
    BY <1>1, <1>6
  <2> HIDE DEF r
  <2> QED BY <1>2, <1>3, <1>4, <2>1, <2>2, ReturnKept DEF Replay, Manager
<1> QED BY <1>5, <1>6

\* The replay has nothing left.
LEMMA ReplayedKept == ASSUME ListenerInv, NEW p \in Proc, Replayed(p) PROVE ListenerInv'
<1> USE DEF ListenerInv
<1> DEFINE r == Returned(p, wired, listening)
<1>1. Sound(r) /\ r.at \notin {"connect", "name", "bind", "replay"} /\ (r.at = "off" => p = "rec" /\ r = Off)
  BY ReturnedSound DEF FieldsOK
<1>2. call' = [call EXCEPT ![p] = r] /\ call[p].at = "replay" /\ channels \subseteq call[p].done
  BY DEF Replayed
<1>3. /\ heard' \in [Client -> SUBSET Channel] /\ listening' \in SUBSET Channel
      /\ \A d \in Client : heard[d] \subseteq heard'[d]
      /\ listening' = listening
  BY DEF Replayed, FieldsOK
<1> QED BY <1>1, <1>2, <1>3, ReturnKept DEF Replayed, Manager

\* A client that is lost replays nothing: Covered asks for nothing of it.
LEMMA ReplayFailsKept == ASSUME ListenerInv, NEW p \in Proc, ReplayFails(p) PROVE ListenerInv'
<1> USE DEF ListenerInv
<1> DEFINE at == CASE p = "init" -> "failed" [] p = "rec" -> "sleep" [] OTHER -> "thrown"
           r == CallAt(at, Null)
<1>1. at \in {"failed", "sleep", "thrown"}
  OBVIOUS
<1>2. Sound(r) /\ r.at = at
  BY <1>1, AtSound DEF Where, Null
<1>3. call' = [call EXCEPT ![p] = r] /\ call[p].at = "replay" /\ call[p].client \notin alive
  BY DEF ReplayFails
<1>4. /\ heard' \in [Client -> SUBSET Channel] /\ listening' \in SUBSET Channel
      /\ listening' = listening /\ heard' = heard
  BY DEF ReplayFails, FieldsOK
<1> QED BY <1>1, <1>2, <1>3, <1>4, ReturnKept DEF ReplayFails, Manager

\* The LISTEN of a subscribe is answered, or its client is gone.
LEMMA ListenKept == ASSUME ListenerInv, NEW ch \in Channel, Listen(ch) PROVE ListenerInv'
<1> USE DEF ListenerInv
<1> DEFINE c == call[ch].client
           r == CallAt(IF c \in alive THEN "done" ELSE "thrown", Null)
<1>1. ch \in Proc /\ call[ch].at = "listen" /\ c \in Client
  BY DEF Listen, Proc, FieldsOK, Client, Null
<1>2. Sound(r) /\ r.at \in {"done", "thrown"}
  BY AtSound DEF Where, Null
<1>3. call' = [call EXCEPT ![ch] = r]
  BY DEF Listen
<1>4. /\ heard' \in [Client -> SUBSET Channel] /\ listening' \in SUBSET Channel
      /\ \A d \in Client : heard[d] \subseteq heard'[d]
      /\ listening' \subseteq listening \union {ch}
      /\ c \in alive => ch \in heard'[c]
  BY <1>1 DEF Listen, FieldsOK
<1> QED BY <1>1, <1>2, <1>3, <1>4, ReturnKept DEF Listen, Manager

\* subscribe.
LEMMA SubscribeKept == ASSUME ListenerInv, NEW ch \in Channel, Subscribe(ch) PROVE ListenerInv'
<1> USE DEF ListenerInv
<1>1. /\ ch \in Proc /\ call[ch] = Off /\ call[ch].at = "off" /\ ~Closed
      /\ channels' = channels \union {ch} /\ channels' \in SUBSET Channel /\ Manager
      /\ ch \notin listening /\ ch # "rec"
  BY NamesAssumption DEF Subscribe, Proc, Off, CallAt, FieldsOK, Manager, Untouched
<1>2. CASE wired = Null /\ ~(Available /\ Listener = Null)
  <2>1. Rebind(ch, channels')
    BY <1>2 DEF Subscribe
  <2> QED BY <1>1, <2>1, RebindKept DEF Subscribe
<1>3. CASE wired # Null \/ (Available /\ Listener = Null)
  <2> DEFINE r == IF wired # Null THEN Returned(ch, wired, listening) ELSE CallAt("done", Null)
  <2>1. /\ Sound(r) /\ r.at \notin {"connect", "off", "replay"}
        /\ wired # Null => r.at = "listen" /\ r.client = wired
    <3>1. CASE wired # Null
      BY <1>1, <3>1, ReturnedSound DEF FieldsOK
    <3>2. CASE wired = Null
      BY <3>2, AtSound DEF Where, Null
    <3> QED BY <3>1, <3>2
  <2>2. call' = [call EXCEPT ![ch] = r] /\ UNCHANGED <<wired, listening, heard, happened, ignored>>
    BY <1>3 DEF Subscribe
  <2> HIDE DEF r
  <2>3. /\ call' \in [Proc -> CallType]
        /\ call'[ch] = r
        /\ \A q \in Proc \ {ch} : call'[q] = call[q]
        /\ \A q \in Proc : call'[q].at \in {"name", "replay", "listen"} => call'[q].client # Null
    BY <1>1, <2>1, <2>2, CallStep
  <2>4. FieldsOK'
    BY <1>1, <2>2, <2>3 DEF FieldsOK, Manager, CallType, Where
  <2>5. (listener \in 0 .. given /\ wired \in 0 .. given /\ NoneLeaked)'
    BY <1>1, <2>2 DEF Manager, NoneLeaked
  <2>6. Alone'
    BY <1>1, <2>1, <2>2, AloneKept
  <2>7. Untouched'
    BY <1>1, <2>1, <2>2, <2>3 DEF Untouched, Proc
  <2>8. Covered'
    <3>1. SUFFICES ASSUME wired \in alive, NEW d \in channels'
                   PROVE  \/ d \in heard[wired]
                          \/ WillReplay(call', wired, d)
                          \/ call'[d].at = "listen" /\ call'[d].client = wired
      BY <1>1, <2>2 DEF Covered, Manager
    <3>2. wired # Null
      BY <3>1 DEF FieldsOK, Null
    <3>3. CASE d = ch
      BY <2>1, <2>3, <3>2, <3>3
    <3>4. CASE d # ch
      <4>1. d \in channels /\ d \in Proc \ {ch}
        BY <1>1, <3>4 DEF FieldsOK, Proc
      <4> QED BY <1>1, <2>3, <3>1, <4>1 DEF Covered, WillReplay
    <3> QED BY <3>3, <3>4
  <2> QED BY <2>4, <2>5, <2>6, <2>7, <2>8
<1> QED BY <1>2, <1>3

-----------------------------------------------------------------------------
(* The connection's steps.                                                 *)

\* Where no call of Covered goes on, and the wired client hears what it heard.
LEMMA PoolKept ==
  ASSUME ListenerInv, (FieldsOK /\ listener \in 0 .. given /\ wired \in 0 .. given /\ Alone /\ NoneLeaked)',
         wired' \in {wired, Null}, channels' \subseteq channels, listening' \subseteq listening,
         \A q \in Proc : q \in Channel \/ call[q].at \in {"replay", "listen"} => call'[q] = call[q],
         wired \in alive' => wired \in alive,
         \A d \in channels' : wired \in alive' /\ d \in heard[wired] => d \in heard'[wired]
  PROVE  ListenerInv'
<1> USE DEF ListenerInv
<1>1. Untouched'
  BY DEF Untouched, Proc
<1>2. Covered'
  <2>1. SUFFICES ASSUME wired' \in alive', NEW d \in channels'
                 PROVE  \/ d \in heard'[wired']
                        \/ WillReplay(call', wired', d)
                        \/ call'[d].at = "listen" /\ call'[d].client = wired'
    BY DEF Covered
  <2>2. wired' = wired /\ wired \in alive /\ d \in channels /\ d \in Proc
    BY <2>1 DEF FieldsOK, Null, Proc
  <2> QED BY <2>1, <2>2 DEF Covered, WillReplay
<1> QED BY <1>1, <1>2

\* A channel that was unsubscribed is no longer asked for.
LEMMA UnsubscribeKept == ASSUME ListenerInv, NEW ch \in Channel, Unsubscribe(ch) PROVE ListenerInv'
<1> USE DEF ListenerInv
<1> DEFINE c == IF wired # Null THEN wired ELSE Listener
<1>1. heard' = IF c \in alive THEN [heard EXCEPT ![c] = @ \ {ch}] ELSE heard
  BY DEF Unsubscribe
<1>2. heard' \in [Client -> SUBSET Channel] /\ \A d \in Client : heard[d] \ {ch} \subseteq heard'[d]
  BY <1>1 DEF FieldsOK
<1>3. (FieldsOK /\ listener \in 0 .. given /\ wired \in 0 .. given /\ Alone /\ NoneLeaked)'
  BY <1>2 DEF Unsubscribe, FieldsOK, Alone, NoneLeaked, Once
<1>4. wired \in alive => wired \in Client
  BY DEF FieldsOK, Null
<1> QED BY <1>2, <1>3, <1>4, PoolKept DEF Unsubscribe

\* init's and reconnect's calls are not those of the channels.
LEMMA OwnCalls == Off.at = "off" /\ Off.client = Null /\ "init" \in Proc /\ "rec" \in Proc
                  /\ "init" \notin Channel /\ "rec" \notin Channel
BY NamesAssumption, AtSound DEF Off, Where, Null, Proc

\* What reconnect is after it was asked for.
LEMMA ReconnectsSound ==
  ASSUME FieldsOK
  PROVE  /\ Sound(Reconnects)
         /\ Reconnects = call["rec"] \/ (call["rec"] = Off /\ Reconnects.at = "sleep")
<1>1. Sound(CallAt("sleep", Null)) /\ CallAt("sleep", Null).at = "sleep"
  BY AtSound DEF Where, Null
<1> QED BY <1>1, CallSound, OwnCalls DEF Reconnects

\* The pool answers init or reconnect: there is no client but, perhaps, the one that is cut.
LEMMA ConnectKept == ASSUME ListenerInv, NEW p \in Proc, Connect(p) PROVE ListenerInv'
<1> USE DEF ListenerInv
<1> DEFINE c == given + 1
           r == CallAt("name", c)
<1>1. /\ call[p].at = "connect" /\ p \in {"init", "rec"} /\ c \in Client
      /\ given' = c /\ listener' = c /\ out' = out \union {c} /\ alive' = alive \union {c}
      /\ call' = [call EXCEPT ![p] = r]
      /\ UNCHANGED <<heard, channels, listening, wired, disc, closing, happened, ignored>>
  BY DEF Connect
<1>2. given \in Nat /\ listener = Null
  BY <1>1 DEF FieldsOK, Client, Null, Alone
<1>3. Sound(r) /\ r.at = "name"
  BY <1>1, AtSound DEF Where, Client, Null
<1>4. /\ call' \in [Proc -> CallType]
      /\ call'[p] = r
      /\ \A q \in Proc \ {p} : call'[q] = call[q]
      /\ \A q \in Proc : call'[q].at \in {"name", "replay", "listen"} => call'[q].client # Null
  BY <1>1, <1>3, CallStep
<1>5. FieldsOK'
  BY <1>1, <1>2, <1>4 DEF FieldsOK, CallType, Where
<1>6. (listener \in 0 .. given /\ wired \in 0 .. given)'
  BY <1>1, <1>2
<1>7. Alone'
  BY <1>1, <1>3, <1>4, OwnCalls DEF Alone
<1>8. NoneLeaked'
  BY <1>1, <1>2 DEF NoneLeaked, FieldsOK, Null
<1>9. wired # c
  BY <1>2
<1> QED BY <1>1, <1>3, <1>4, <1>5, <1>6, <1>7, <1>8, <1>9, OwnCalls, PoolKept

\* It does not.
LEMMA ConnectFailsKept == ASSUME ListenerInv, NEW p \in Proc, ConnectFails(p) PROVE ListenerInv'
<1> USE DEF ListenerInv
<1> DEFINE r == IF p = "init" THEN CallAt("failed", Null) ELSE IF Closing THEN Off ELSE CallAt("sleep", Null)
<1>1. /\ call[p].at = "connect" /\ p \in {"init", "rec"}
      /\ call' = [call EXCEPT ![p] = r]
      /\ UNCHANGED <<listener, given, out, alive, heard, channels, listening, wired, disc, closing, ignored>>
      /\ happened' \subseteq Happens
  BY DEF ConnectFails, Once, FieldsOK
<1>2. Sound(r) /\ r.at \in {"failed", "off", "sleep"} /\ (p # "init" /\ Closing => r = Off)
  BY AtSound DEF Where, Null, Off
<1> HIDE DEF r
<1>3. /\ call' \in [Proc -> CallType]
      /\ call'[p] = r
      /\ \A q \in Proc \ {p} : call'[q] = call[q]
      /\ \A q \in Proc : call'[q].at \in {"name", "replay", "listen"} => call'[q].client # Null
  BY <1>1, <1>2, CallStep
<1>4. FieldsOK'
  BY <1>1, <1>3 DEF FieldsOK, CallType, Where
<1>5. (Alone /\ NoneLeaked /\ listener \in 0 .. given /\ wired \in 0 .. given)'
  BY <1>1, <1>2, <1>3, OwnCalls DEF Alone, NoneLeaked
<1> QED BY <1>1, <1>2, <1>3, <1>4, <1>5, OwnCalls, PoolKept

\* reconnect goes on from its back-off: it lets the client go that there is.
LEMMA AwakeKept == ASSUME ListenerInv, Awake PROVE ListenerInv'
<1> USE DEF ListenerInv
<1> DEFINE r == IF Closing THEN Off ELSE CallAt("connect", Null)
<1>1. /\ call["rec"].at = "sleep"
      /\ call' = [call EXCEPT !["rec"] = r]
      /\ UNCHANGED <<given, alive, heard, channels, listening, wired, disc, closing, happened, ignored>>
      /\ Closing => UNCHANGED <<listener, out>>
      /\ ~Closing => out' = out \ {listener} /\ listener' = Null
  BY DEF Awake
<1>2. Sound(r) /\ r.at \in {"off", "connect"} /\ (r.at = "connect" => ~Closing)
  BY AtSound DEF Where, Null, Off
<1> HIDE DEF r
<1>3. /\ call' \in [Proc -> CallType]
      /\ call'["rec"] = r
      /\ \A q \in Proc \ {"rec"} : call'[q] = call[q]
      /\ \A q \in Proc : call'[q].at \in {"name", "replay", "listen"} => call'[q].client # Null
  BY <1>1, <1>2, OwnCalls, CallStep
<1>4. /\ listener' \in {listener, Null} /\ out' \subseteq out
      /\ listener' = listener \/ listener \notin out'
      /\ call'["rec"].at = "connect" => listener' = Null
  <2>1. CASE Closing
    BY <1>1, <1>2, <1>3, <2>1
  <2>2. CASE ~Closing
    BY <1>1, <2>2
  <2> QED BY <2>1, <2>2
<1>5. FieldsOK'
  BY <1>1, <1>3, <1>4 DEF FieldsOK, CallType, Where
<1>6. (listener \in 0 .. given /\ wired \in 0 .. given)'
  BY <1>1, <1>4 DEF FieldsOK, Null, Client
<1>7. (Alone /\ NoneLeaked)'
  BY <1>1, <1>2, <1>3, <1>4, OwnCalls DEF Alone, NoneLeaked
<1>8. \A q \in Proc : q \in Channel \/ call[q].at \in {"replay", "listen"} => call'[q] = call[q]
  BY <1>1, <1>3, OwnCalls
<1> QED BY <1>1, <1>5, <1>6, <1>7, <1>8, PoolKept

\* A step of reconnect's call to what Reconnects says.
LEMMA AskedStep ==
  ASSUME FieldsOK, call' = [call EXCEPT !["rec"] = Reconnects]
  PROVE  /\ call' \in [Proc -> CallType]
         /\ \A q \in Proc \ {"rec"} : call'[q] = call[q]
         /\ call'["rec"] = call["rec"] \/ (call["rec"] = Off /\ call'["rec"].at = "sleep")
         /\ \A q \in Proc : call'[q].at \in {"name", "replay", "listen"} => call'[q].client # Null
BY ReconnectsSound, OwnCalls, CallStep

\* The session of the listener ends.
LEMMA LostKept == ASSUME ListenerInv, Lost PROVE ListenerInv'
<1> USE DEF ListenerInv
<1>1. /\ listener \in alive /\ alive' = alive \ {listener}
      /\ heard' = [heard EXCEPT ![listener] = {}]
      /\ call' = [call EXCEPT !["rec"] = Reconnects]
      /\ UNCHANGED <<listener, given, out, channels, listening, wired, disc, closing>>
      /\ happened' \subseteq Happens /\ ignored' \in BOOLEAN
  BY DEF Lost, Once, FieldsOK, Closing
<1>2. /\ call' \in [Proc -> CallType]
      /\ \A q \in Proc \ {"rec"} : call'[q] = call[q]
      /\ call'["rec"] = call["rec"] \/ (call["rec"] = Off /\ call'["rec"].at = "sleep")
      /\ \A q \in Proc : call'[q].at \in {"name", "replay", "listen"} => call'[q].client # Null
  BY <1>1, AskedStep
<1>3. FieldsOK'
  BY <1>1, <1>2 DEF FieldsOK, CallType, Where
<1>4. listener # Null
  BY <1>1 DEF FieldsOK, Null
<1>5. (Alone /\ NoneLeaked /\ listener \in 0 .. given /\ wired \in 0 .. given)'
  BY <1>1, <1>2, <1>4, OwnCalls DEF Alone, NoneLeaked
<1>6. /\ \A q \in Proc : q \in Channel \/ call[q].at \in {"replay", "listen"} => call'[q] = call[q]
      /\ wired \in alive' => wired \in alive /\ wired # listener /\ heard'[wired] = heard[wired]
  BY <1>1, <1>2, OwnCalls DEF FieldsOK, Client, Null
<1> QED BY <1>1, <1>3, <1>5, <1>6, PoolKept

\* disconnect cuts the listener, or asks for one at once.
LEMMA DisconnectKept == ASSUME ListenerInv, Disconnect PROVE ListenerInv'
<1> USE DEF ListenerInv
<1>1. /\ disc = Off /\ InitEnded
      /\ UNCHANGED <<given, out, channels, listening, wired, closing, ignored>>
      /\ happened' \subseteq Happens
  BY DEF Disconnect, Once, FieldsOK
<1>2. call["init"].at # "connect" /\ disc.client = Null /\ disc'.done = {}
  BY <1>1, OwnCalls DEF InitEnded, Disconnect, CallAt
<1>3. CASE listener = Null
  <2>1. /\ call' = [call EXCEPT !["rec"] = Reconnects]
        /\ UNCHANGED <<listener, alive, heard>>
        /\ disc'.at \in {"own", "again"} /\ disc'.client = Null
        /\ disc' \in [at : {"off", "kill", "own", "again", "done"}, client : Client \union {Null}, done : {{}}]
    BY <1>3 DEF Disconnect, CallAt
  <2>2. /\ call' \in [Proc -> CallType]
        /\ \A q \in Proc \ {"rec"} : call'[q] = call[q]
        /\ call'["rec"] = call["rec"] \/ (call["rec"] = Off /\ call'["rec"].at = "sleep")
        /\ \A q \in Proc : call'[q].at \in {"name", "replay", "listen"} => call'[q].client # Null
    BY <2>1, AskedStep
  <2>3. FieldsOK'
    BY <1>1, <2>1, <2>2 DEF FieldsOK, CallType, Where
  <2>4. (Alone /\ NoneLeaked /\ listener \in 0 .. given /\ wired \in 0 .. given)'
    BY <1>1, <1>2, <1>3, <2>1, <2>2, OwnCalls DEF Alone, NoneLeaked
  <2>5. \A q \in Proc : q \in Channel \/ call[q].at \in {"replay", "listen"} => call'[q] = call[q]
    BY <2>2, OwnCalls
  <2> QED BY <1>1, <2>1, <2>3, <2>4, <2>5, PoolKept
<1>4. CASE listener # Null
  <2>1. /\ disc' = CallAt("kill", listener) /\ listener' = Null /\ call' = call
        /\ alive' = alive \ {listener} /\ heard' = [heard EXCEPT ![listener] = {}]
    BY <1>4 DEF Disconnect
  <2>2. FieldsOK'
    BY <1>1, <1>4, <2>1 DEF FieldsOK, CallAt, Client, Null
  <2>3. (Alone /\ NoneLeaked /\ listener \in 0 .. given /\ wired \in 0 .. given)'
    BY <1>1, <1>2, <1>4, <2>1, OwnCalls DEF Alone, NoneLeaked, CallAt, FieldsOK, Null, Client
  <2>4. wired \in alive' => wired \in alive /\ wired # listener /\ heard'[wired] = heard[wired]
    BY <2>1 DEF FieldsOK, Client, Null
  <2> QED BY <1>1, <2>1, <2>2, <2>3, <2>4, PoolKept
<1> QED BY <1>3, <1>4

\* The client that was cut is released.
LEMMA KilledKept == ASSUME ListenerInv, Killed PROVE ListenerInv'
<1> USE DEF ListenerInv
<1>1. /\ disc.at = "kill" /\ out' = out \ {disc.client}
      /\ call' = [call EXCEPT !["rec"] = Reconnects]
      /\ UNCHANGED <<listener, given, alive, heard, channels, listening, wired, closing, happened, ignored>>
      /\ disc'.at \in {"own", "again"} /\ disc'.client = Null
      /\ disc' \in [at : {"off", "kill", "own", "again", "done"}, client : Client \union {Null}, done : {{}}]
  BY DEF Killed, CallAt
<1>2. /\ call' \in [Proc -> CallType]
      /\ \A q \in Proc \ {"rec"} : call'[q] = call[q]
      /\ call'["rec"] = call["rec"] \/ (call["rec"] = Off /\ call'["rec"].at = "sleep")
      /\ \A q \in Proc : call'[q].at \in {"name", "replay", "listen"} => call'[q].client # Null
  BY <1>1, AskedStep
<1>3. FieldsOK'
  BY <1>1, <1>2 DEF FieldsOK, CallType, Where
<1>4. (Alone /\ NoneLeaked /\ listener \in 0 .. given /\ wired \in 0 .. given)'
  BY <1>1, <1>2, OwnCalls DEF Alone, NoneLeaked
<1>5. \A q \in Proc : q \in Channel \/ call[q].at \in {"replay", "listen"} => call'[q] = call[q]
  BY <1>2, OwnCalls
<1> QED BY <1>1, <1>3, <1>4, <1>5, PoolKept

\* The worker's own reconnect.
LEMMA AgainKept == ASSUME ListenerInv, Again PROVE ListenerInv'
<1> USE DEF ListenerInv
<1>1. /\ disc.at \in {"own", "again"}
      /\ call' = [call EXCEPT !["rec"] = Reconnects]
      /\ UNCHANGED <<listener, given, out, alive, heard, channels, listening, wired, closing, happened, ignored>>
      /\ disc'.at = "done" /\ disc'.client = Null
      /\ disc' \in [at : {"off", "kill", "own", "again", "done"}, client : Client \union {Null}, done : {{}}]
  BY DEF Again, CallAt
<1>2. /\ call' \in [Proc -> CallType]
      /\ \A q \in Proc \ {"rec"} : call'[q] = call[q]
      /\ call'["rec"] = call["rec"] \/ (call["rec"] = Off /\ call'["rec"].at = "sleep")
      /\ \A q \in Proc : call'[q].at \in {"name", "replay", "listen"} => call'[q].client # Null
  BY <1>1, AskedStep
<1>3. FieldsOK'
  BY <1>1, <1>2 DEF FieldsOK, CallType, Where
<1>4. (Alone /\ NoneLeaked /\ listener \in 0 .. given /\ wired \in 0 .. given)'
  BY <1>1, <1>2, OwnCalls DEF Alone, NoneLeaked
<1>5. \A q \in Proc : q \in Channel \/ call[q].at \in {"replay", "listen"} => call'[q] = call[q]
  BY <1>2, OwnCalls
<1> QED BY <1>1, <1>3, <1>4, <1>5, PoolKept

\* close changes no more than where it is until init has ended.
LEMMA CloseKept == ASSUME ListenerInv, Close \/ PoolEnds PROVE ListenerInv'
<1> USE DEF ListenerInv
<1>1. /\ UNCHANGED <<listener, given, out, alive, heard, channels, listening, wired, call, disc, ignored>>
      /\ closing' \in {"init", "closed"} /\ happened' \subseteq Happens
  BY DEF Close, PoolEnds, Once, FieldsOK
<1>2. (FieldsOK /\ Alone /\ NoneLeaked /\ listener \in 0 .. given /\ wired \in 0 .. given)'
  BY <1>1 DEF FieldsOK, Alone, NoneLeaked
<1> QED BY <1>1, <1>2, PoolKept

\* Then it closes the manager and releases the listener.
LEMMA CloseManagerKept == ASSUME ListenerInv, CloseManager PROVE ListenerInv'
<1> USE DEF ListenerInv
<1> DEFINE r == IF call["rec"].at = "sleep" THEN CallAt("hung", Null) ELSE call["rec"]
<1>1. /\ InitEnded /\ call' = [call EXCEPT !["rec"] = r]
      /\ channels' = {} /\ listening' = {} /\ wired' = Null /\ closing' = "end" /\ listener' = Null
      /\ out' = out \ {listener} /\ heard' = [c \in Client |-> IF c = listener THEN {} ELSE heard[c]]
      /\ UNCHANGED <<given, alive, disc, happened, ignored>>
  BY DEF CloseManager
<1>2. Sound(r) /\ ((r.at = "hung" /\ call["rec"].at = "sleep") \/ r = call["rec"])
  BY AtSound, CallSound, OwnCalls DEF Where, Null
<1> HIDE DEF r
<1>3. /\ call' \in [Proc -> CallType]
      /\ call'["rec"] = r
      /\ \A q \in Proc \ {"rec"} : call'[q] = call[q]
      /\ \A q \in Proc : call'[q].at \in {"name", "replay", "listen"} => call'[q].client # Null
  BY <1>1, <1>2, OwnCalls, CallStep
<1>4. heard' \in [Client -> SUBSET Channel]
  BY <1>1 DEF FieldsOK
<1>5. FieldsOK'
  BY <1>1, <1>3, <1>4 DEF FieldsOK, CallType, Where
<1>6. (Alone /\ NoneLeaked /\ listener \in 0 .. given /\ wired \in 0 .. given)'
  BY <1>1, <1>2, <1>3, OwnCalls DEF Alone, NoneLeaked, InitEnded, Null, FieldsOK, Client
<1>7. \A q \in Proc : q \in Channel \/ call[q].at \in {"replay", "listen"} => call'[q] = call[q]
  BY <1>2, <1>3, OwnCalls
<1> QED BY <1>1, <1>5, <1>6, <1>7, PoolKept

-----------------------------------------------------------------------------
(* The theorems.                                                           *)

\* The connection begins without a client and with nothing subscribed to.
LEMMA InitKept == ListenerInit => ListenerInv
<1> SUFFICES ASSUME ListenerInit PROVE ListenerInv
  OBVIOUS
<1>1. Sound(CallAt("connect", Null)) /\ Sound(Off) /\ Off.at = "off" /\ Off.client = Null /\ Off.done = {}
      /\ CallAt("connect", Null).at = "connect"
  BY AtSound DEF Off, Where, Null
<1>2. \A p \in Proc : Sound(call[p]) /\ call[p].at = IF p = "init" THEN "connect" ELSE "off"
  BY <1>1 DEF ListenerInit
<1>3. call \in [Proc -> CallType]
  BY <1>2 DEF ListenerInit, Sound
<1>4. FieldsOK
  BY <1>1, <1>2, <1>3, ListenerAssumption DEF ListenerInit, FieldsOK, CallType, Where, Off, CallAt, Null, Client
<1>5. Alone /\ NoneLeaked /\ listener \in 0 .. given /\ wired \in 0 .. given
  BY <1>1, <1>2, OwnCalls DEF ListenerInit, Alone, NoneLeaked, Null
<1>6. Untouched /\ Covered
  BY DEF ListenerInit, Untouched, Covered
<1> QED BY <1>4, <1>5, <1>6 DEF ListenerInv

\* Every step keeps it.
LEMMA NextKept == ListenerInv /\ [ListenerNext]_fields => ListenerInv'
<1> SUFFICES ASSUME ListenerInv, [ListenerNext]_fields PROVE ListenerInv'
  OBVIOUS
<1>1. ASSUME NEW p \in Proc, Step(p) \/ ConnectFails(p) PROVE ListenerInv'
  BY <1>1, ConnectKept, NamedKept, BoundKept, ReplayKept, ReplayedKept, ReplayFailsKept,
     ConnectFailsKept DEF Step
<1>2. ASSUME NEW ch \in Channel, Subscribe(ch) \/ Listen(ch) \/ Unsubscribe(ch) PROVE ListenerInv'
  BY <1>2, SubscribeKept, ListenKept, UnsubscribeKept
<1>3. CASE Awake \/ Lost \/ Disconnect \/ Killed \/ Again
  BY <1>3, AwakeKept, LostKept, DisconnectKept, KilledKept, AgainKept
<1>4. CASE Close \/ CloseManager \/ PoolEnds
  BY <1>4, CloseKept, CloseManagerKept
<1>5. CASE UNCHANGED fields
  BY <1>5 DEF fields, ListenerInv, FieldsOK, Alone, NoneLeaked, Untouched, Covered, WillReplay
<1> QED BY <1>1, <1>2, <1>3, <1>4, <1>5 DEF ListenerNext

\* ListenerInv is inductive.
THEOREM ListenerInductive == ListenerSpec => []ListenerInv
<1> QED BY InitKept, NextKept, PTL DEF ListenerSpec

\* pg-connection.ts:298-371: whatever is lost, cut, refused or closed, and in what order: a client
\* that is out of the pool is the listener, or the one that disconnect will release.
THEOREM ClientsStayOK == ListenerSpec => []ClientsOK
<1>1. ListenerInv => ClientsOK
  BY DEF ListenerInv, ClientsOK
<1> QED BY <1>1, ListenerInductive, PTL

\* notification-manager.ts:117-144: on a session that is up every channel subscribed to that the
\* manager takes for listened to is, once no replay and no subscribe is under way.
THEOREM ListeningStaysTrue == ListenerSpec => []ListeningIsTrue
<1>1. ListenerInv => ListeningIsTrue
  <2>1. SUFFICES ASSUME ListenerInv, wired \in alive, NEW ch \in channels,
                        \A p \in Proc : call[p].at \notin {"replay", "listen"}
                 PROVE  ch \in heard[wired]
    BY DEF ListeningIsTrue
  <2>2. ch \in Proc
    BY <2>1 DEF ListenerInv, FieldsOK, Proc
  <2> QED BY <2>1, <2>2 DEF ListenerInv, Covered, WillReplay
<1> QED BY <1>1, ListenerInductive, PTL

=============================================================================
