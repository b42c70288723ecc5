-------------------------- MODULE EmqFlow_proofs --------------------------
(***************************************************************************)
(* For any flows of any jobs over any queues, and whatever clients do:      *)
(* dependencies say what became of the children, no parent waits for        *)
(* nothing, none completes before its children, and no worker loses a job   *)
(* to its family, but to a child whose failure has overtaken its claim.     *)
(***************************************************************************)
EXTENDS EmqFlow, TLAPS

\* A row has the token of one of its claims, or none.
RowOK(row) == row.token =< row.claim

Rows == {row \in RowType : RowOK(row)}

RunType == [job : Job, claim : 1 .. MaxClaims, failing : BOOLEAN]

\* Only an active row has a token, unless the job was put in the wait list with it.
LeasesOK == \A j \in Job \ spoiled : job[j].token # 0 => job[j].state = "active"

\* A claim is of one worker.
RunsOK ==
  /\ \A r \in runs : r.claim =< job[r.job].claim
  /\ \A r, s \in runs : r.job = s.job /\ r.claim = s.claim => r = s

\* A dependency is of a child that was added and of a parent that is there.
LinksOK ==
  \A c \in Job : dep[c] # "none" =>
    Parent[c] \in Job /\ job[c].state # "none" /\ job[Parent[c]].state \notin NoRow

\* The jobs of a flow are added with its root.
PlantedTogether ==
  \A j \in Job \ Late : Parent[j] \in Job /\ job[Parent[j]].state = "none" => job[j].state = "none"

On(t, p) == Parent[t.job] = p

\* Where a parent is while nobody has it, from when it waits or is delayed until a claim.
Resting == Places \union {"waiting-children", "gone"}

\* What an open transaction will write is still true of the row it has locked, and of
\* that of the parent it is to put in the wait list unless it is claimed meanwhile; and
\* two of them have read the dependencies of one parent only if it is spoiled.
TransactionOK(t) ==
  /\ job[t.job].state \notin NoRow
  /\ t.job \notin spoiled => job[t.job].state = "active"
  /\ t.dep # "pending"
  /\ t.forces => t.arms
  /\ t.wakes => ~t.arms
  /\ t.arms => Parent[t.job] \in Job
  /\ t.forces => /\ t.seen =< job[Parent[t.job]].claim
                 /\ job[Parent[t.job]].claim = t.seen => job[Parent[t.job]].state \in Resting
  /\ t.job \notin spoiled =>
       /\ t.dep = "processed" => t.target = "completed"
       /\ t.dep \in {"failed", "ignored"} => t.target = "failed"
       /\ t.dep = "ignored" => opt[t.job] \in {"idof", "cpof"}
  /\ ~t.linked /\ dep[t.job] # "none" => Parent[t.job] \in spoiled

OpenOK ==
  /\ \A t \in Open : TransactionOK(t) /\ \A r \in runs : r.job = t.job => ~Holds(r)
  /\ \A t, u \in Open : Parent[t.job] = Parent[u.job] /\ Parent[t.job] \in Job \ spoiled => u = t

\* A job that is about to wait for its children is its worker's until it does.
ParkedOK ==
  \A r \in parking : r.job \notin spoiled =>
    /\ job[r.job].state = "active" /\ Holds(r)
    /\ \A t \in Open : ~On(t, r.job)

\* DepsFollowChildren, with the last part for all children.
ChildSays(c) ==
  /\ c \notin spoiled =>
       /\ dep[c] = "processed" => job[c].state \in {"completed", "gone"}
       /\ dep[c] \in {"failed", "ignored"} => job[c].state \in {"failed", "gone"}
       /\ dep[c] = "ignored" => opt[c] \in {"idof", "cpof"}
  /\ dep[c] = "pending" /\ job[c].state \in Over => Parent[c] \in spoiled

DepsSay == \A c \in Job : ChildSays(c)

\* A parent has this child to wait for.
Waited(c) == dep[c] = "failed" \/ (dep[c] = "pending" /\ job[c].state \in Unfinished)

Expecting(p) == job[p].state = "waiting-children" \/ \E r \in parking : r.job = p

\* The open transaction on p leaves it with a child to wait for, or wakes it.
Provides(t, p) ==
  \/ t.forces \/ t.wakes
  \/ \E c \in Children(p) \ {t.job} : Waited(c)
  \/ t.linked /\ t.dep = "failed" /\ dep[t.job] # "none"

WaitOK(p) ==
  /\ \A t \in Open : On(t, p) => Provides(t, p)
  /\ (\A t \in Open : ~On(t, p)) => \E c \in Children(p) : Waited(c)

WaitsOK == \A p \in Job \ spoiled : Expecting(p) => WaitOK(p)

IInv == /\ TypeOK /\ job \in [Job -> Rows] /\ LeasesOK /\ RunsOK
        /\ LinksOK /\ PlantedTogether /\ OpenOK /\ ParkedOK /\ DepsSay /\ WaitsOK

-----------------------------------------------------------------------------
(* The flow does not change, and what follows from it.                       *)

LEMMA FlowIs ==
  ASSUME TypeOK
  PROVE  /\ Parent \in [Job -> Job \union {NoJob}] /\ QueueOf \in [Job -> Queue]
         /\ Place \in [Job -> Places] /\ opt \in [Job -> Strategies] /\ Late \in SUBSET Job
         /\ \A j \in Job : Parent[j] # j
<1>1. flow \in FlowType /\ \A j \in Job : flow.parent[j] # j
  BY FlowsAssumption DEF TypeOK
<1>2. FlowType = [parent: [Job -> Job \union {NoJob}], queue: [Job -> Queue],
             place: [Job -> Places], opt: [Job -> Strategies], late: SUBSET Job]
  BY DEF FlowType
<1> QED BY <1>1, <1>2 DEF Parent, QueueOf, Place, opt, Late

LEMMA SameFlow ==
  ASSUME flow' = flow
  PROVE  /\ Parent' = Parent /\ QueueOf' = QueueOf /\ Place' = Place /\ opt' = opt /\ Late' = Late
         /\ \A p : Children(p)' = Children(p)
<1>1. Parent' = Parent /\ QueueOf' = QueueOf /\ Place' = Place /\ opt' = opt /\ Late' = Late
  BY DEF Parent, QueueOf, Place, opt, Late
<1> QED BY <1>1 DEF Children

LEMMA ChildIs ==
  ASSUME TypeOK, NEW p \in Job, NEW c \in Children(p)
  PROVE  c \in Job /\ Parent[c] = p /\ c # p
BY FlowIs DEF Children

LEMMA OpenIs ==
  ASSUME TypeOK, NEW t \in Open
  PROVE  /\ t \in Transaction /\ t.job \in Job
         /\ finishing[QueueOf[t.job]] = t
<1>1. PICK q \in Queue : finishing[q] = t /\ t # Nothing
  BY DEF Open
<1>2. t \in Transaction /\ QueueOf[t.job] = q
  BY <1>1 DEF TypeOK
<1> QED BY <1>1, <1>2 DEF Transaction

\* What a recursive query finds it finds by a link from what it has found before.
LEMMA ReachedBy ==
  ASSUME NEW j \in Job, NEW links, \A l \in links : l[2] \in Job,
         NEW k \in Reached(j, links), k # j
  PROVE  \E l \in links : l[1] \in Reached(j, links) /\ l[2] = k
<1> SUFFICES ASSUME \A l \in links : ~(l[1] \in Reached(j, links) /\ l[2] = k)
             PROVE  FALSE
  OBVIOUS
<1> DEFINE found == Reached(j, links)
           S == found \ {k}
<1>1. found \in SUBSET Job /\ j \in found /\ k \in found
  BY DEF Reached
<1>2. ASSUME NEW l \in links, l[1] \in found PROVE l[2] \in found
  <2>1. ASSUME NEW T \in SUBSET Job, j \in T, \A m \in links : m[1] \in T => m[2] \in T
        PROVE  l[2] \in T
    BY <1>2, <2>1 DEF Reached
  <2> QED BY <2>1 DEF Reached
<1>3. S \in SUBSET Job /\ j \in S /\ \A l \in links : l[1] \in S => l[2] \in S
  BY <1>1, <1>2
<1>4. k \in S
  BY <1>3 DEF Reached
<1> QED BY <1>4

-----------------------------------------------------------------------------
(* Rows.                                                                    *)

LEMMA Bounds == MaxClaims \in Nat /\ MaxHappens \in Nat /\ NoJob \notin Job
BY BoundAssumption, FlowsAssumption

LEMMA RowIs ==
  ASSUME NEW row \in Rows
  PROVE  /\ row = [state |-> row.state, claim |-> row.claim, token |-> row.token, deferred |-> row.deferred]
         /\ row.state \in NoRow \union Unfinished \union Over /\ row.claim \in 0 .. MaxClaims
         /\ row.token \in 0 .. MaxClaims /\ row.deferred \in BOOLEAN
         /\ row.token =< row.claim
BY DEF Rows, RowType, RowOK

\* A row that is put in another state.
LEMMA MovedRow ==
  ASSUME NEW row \in Rows, NEW s \in NoRow \union Unfinished \union Over
  PROVE  /\ [row EXCEPT !.state = s] \in Rows
         /\ [row EXCEPT !.state = s].state = s
         /\ [row EXCEPT !.state = s].token = row.token
         /\ [row EXCEPT !.state = s].claim = row.claim
<1> DEFINE new == [row EXCEPT !.state = s]
<1>1. new = [state |-> s, claim |-> row.claim, token |-> row.token, deferred |-> row.deferred]
  BY RowIs
<1>2. new \in RowType /\ RowOK(new)
  BY <1>1, RowIs, Bounds DEF RowType, RowOK
<1> QED BY <1>1, <1>2 DEF Rows

\* A row that loses its token.
LEMMA ReleasedRow ==
  ASSUME NEW row \in Rows, NEW s \in NoRow \union Unfinished \union Over, NEW d \in BOOLEAN,
         NEW new, new = [state |-> s, claim |-> row.claim, token |-> 0, deferred |-> d]
  PROVE  new \in Rows /\ new.state = s /\ new.token = 0 /\ new.claim = row.claim
<1>1. new \in RowType /\ RowOK(new)
  BY RowIs, Bounds DEF RowType, RowOK
<1> QED BY <1>1 DEF Rows

\* The parent that waits for children is woken, every other row stays.
LEMMA WokenRow ==
  ASSUME TypeOK, NEW p \in Job, NEW row \in Rows
  PROVE  /\ Woken(row, p) \in Rows /\ Woken(row, p).claim = row.claim /\ Woken(row, p).token = row.token
         /\ row.state # "waiting-children" => Woken(row, p) = row
         /\ row.state = "waiting-children" => Woken(row, p).state \in Places
<1>1. Place[p] \in Places /\ Places \subseteq Unfinished
  BY FlowIs DEF Places, Unfinished
<1>2. CASE row.state = "waiting-children"
  BY <1>1, <1>2, MovedRow DEF Woken, Placed
<1>3. CASE row.state # "waiting-children"
  BY <1>3 DEF Woken
<1> QED BY <1>2, <1>3

LEMMA DeletedIs ==
  ASSUME NEW table \in [Job -> Rows], NEW set \in SUBSET Job
  PROVE  /\ Deleted(table, set) \in [Job -> Rows]
         /\ \A j \in Job : Deleted(table, set)[j].claim = table[j].claim
         /\ \A j \in set : Deleted(table, set)[j].state = "gone" /\ Deleted(table, set)[j].token = 0
         /\ \A j \in Job \ set : Deleted(table, set)[j] = table[j]
<1>1. ASSUME NEW j \in set
      PROVE  /\ Deleted(table, set)[j] \in Rows /\ Deleted(table, set)[j].state = "gone"
             /\ Deleted(table, set)[j].token = 0 /\ Deleted(table, set)[j].claim = table[j].claim
  <2>1. table[j] \in Rows
    OBVIOUS
  <2>2. Deleted(table, set)[j] = [table[j] EXCEPT !.state = "gone", !.token = 0, !.deferred = FALSE]
    BY DEF Deleted
  <2>3. Deleted(table, set)[j] = [state |-> "gone", claim |-> table[j].claim, token |-> 0, deferred |-> FALSE]
    BY <2>1, <2>2, RowIs
  <2> DEFINE row == table[j]
             new == Deleted(table, set)[j]
  <2> HIDE DEF row, new
  <2>4. new = [state |-> "gone", claim |-> row.claim, token |-> 0, deferred |-> FALSE]
    BY <2>3 DEF row, new
  <2>5. row \in Rows
    BY <2>1 DEF row
  <2>6. "gone" \in NoRow \union Unfinished \union Over
    BY DEF NoRow
  <2>7. new \in Rows /\ new.state = "gone" /\ new.token = 0 /\ new.claim = row.claim
    BY <2>4, <2>5, <2>6, ReleasedRow
  <2> QED BY <2>7 DEF row, new
<1>2. \A j \in Job \ set : Deleted(table, set)[j] = table[j]
  BY DEF Deleted
<1>3. Deleted(table, set) = [j \in Job |-> Deleted(table, set)[j]]
  BY DEF Deleted
<1> QED BY <1>1, <1>2, <1>3

-----------------------------------------------------------------------------
(* Steps that open and end no transaction.                                  *)

\* What FamilyKeepsLeases and ChildrenFirst say of a step.
Spares ==
  \A r \in runs \intersect runs' :
    Holds(r) /\ job[r.job].state = "active" /\ r.job \notin spoiled' /\ "stall" \notin happened' \ happened
    => Holds(r)' /\ job'[r.job].state = "active"

First ==
  \A q \in Queue :
    finishing'[q] \notin {Nothing, finishing[q]} /\ finishing'[q].target = "completed"
    => \A c \in Children(finishing'[q].job) \ spoiled :
         dep[c] # "none" => \/ job[c].state \in {"completed", "gone"}
                            \/ job[c].state = "failed" /\ opt[c] \in {"idof", "cpof"}

Kept == IInv' /\ Spares /\ First

\* What p has to wait for it still has, or has now.
Same(p) == \A c \in Children(p) : (Waited(c) => Waited(c)') /\ (dep[c] # "none" => dep'[c] # "none")

Fresh(p) == \E c \in Children(p) : Waited(c)' /\ \A t \in Open : t.job # c

LEMMA LinksKeep ==
  ASSUME IInv, flow' = flow,
         \A j \in Job : job[j].state # "none" => job'[j].state # "none",
         \A c \in Job : dep'[c] # "none" => dep[c] # "none",
         \A c \in Job : Parent[c] \in Job /\ job[Parent[c]].state # "gone" /\ job'[Parent[c]].state = "gone"
                        => dep'[c] = "none"
  PROVE  LinksOK'
<1>1. Parent' = Parent
  BY SameFlow
<1> QED BY <1>1 DEF IInv, LinksOK, NoRow

LEMMA PlantedKeep ==
  ASSUME IInv, flow' = flow,
         \A j \in Job : job[j].state # "none" => job'[j].state # "none",
         \A j \in Job \ Late : job[j].state = "none" => job'[j].state = "none"
  PROVE  PlantedTogether'
<1>1. Parent' = Parent /\ Late' = Late
  BY SameFlow
<1> QED BY <1>1 DEF IInv, PlantedTogether

LEMMA RunsKeep ==
  ASSUME IInv, job' \in [Job -> Rows], \A j \in Job : job[j].claim =< job'[j].claim,
         \/ runs' = runs
         \/ \E r \in runs : Ends(r) \/ Fails(r)
  PROVE  RunsOK' /\ runs' \subseteq RunType
<1>1. \A j \in Job : job[j].claim \in Nat /\ job'[j].claim \in Nat
  BY RowIs, Bounds DEF IInv
<1>2. runs \subseteq RunType /\ \A r \in runs : r.job \in Job /\ r.claim \in Nat /\ r.claim =< job[r.job].claim
  BY Bounds DEF IInv, TypeOK, RunType, RunsOK
<1>3. runs' \subseteq RunType /\ \A r \in runs' : \E s \in runs : r.job = s.job /\ r.claim = s.claim
  <2>1. CASE runs' = runs
    BY <1>2, <2>1
  <2>2. ASSUME NEW r \in runs, Ends(r) PROVE <1>3!:
    BY <1>2, <2>2 DEF Ends
  <2>3. ASSUME NEW r \in runs, Fails(r) PROVE <1>3!:
    <3> DEFINE s == [r EXCEPT !.failing = TRUE]
    <3>1. s \in RunType /\ s.job = r.job /\ s.claim = r.claim
      BY <1>2 DEF RunType
    <3> QED BY <1>2, <2>3, <3>1 DEF Fails
  <2> QED BY <2>1, <2>2, <2>3
<1>4. \A r \in runs' : r.claim =< job'[r.job].claim
  BY <1>1, <1>2, <1>3
<1>5. ASSUME NEW r \in runs', NEW s \in runs', r.job = s.job, r.claim = s.claim PROVE r = s
  <2>0. \A u, v \in runs : u.job = v.job /\ u.claim = v.claim => u = v
    BY DEF IInv, RunsOK
  <2>1. CASE runs' \subseteq runs
    BY <1>5, <2>0, <2>1
  <2>2. ASSUME NEW u \in runs, Fails(u) PROVE r = s
    <3> DEFINE n == [u EXCEPT !.failing = TRUE]
    <3>1. n.job = u.job /\ n.claim = u.claim
      BY <1>2 DEF RunType
    <3>2. runs' = (runs \ {u}) \union {n}
      BY <2>2 DEF Fails
    <3> HIDE DEF n
    <3> QED BY <1>5, <2>0, <3>1, <3>2
  <2> QED BY <2>1, <2>2 DEF Ends
<1> QED BY <1>3, <1>4, <1>5 DEF RunsOK

LEMMA DepsKeep ==
  ASSUME IInv, flow' = flow, spoiled \subseteq spoiled',
         \A c \in Job : c \notin spoiled' /\ dep'[c] \in {"processed", "failed", "ignored"}
                        => dep'[c] = dep[c] /\ job'[c].state \in {job[c].state, "gone"},
         \A c \in Job : dep'[c] = "pending" /\ job'[c].state \in Over
                        => Parent[c] \in spoiled' \/ (dep[c] = "pending" /\ job[c].state \in Over)
  PROVE  DepsSay'
<1>1. Parent' = Parent /\ opt' = opt
  BY SameFlow
<1>2. ASSUME NEW c \in Job PROVE ChildSays(c)'
  <2>1. ChildSays(c)
    BY DEF IInv, DepsSay
  <2>2. c \notin spoiled' => c \notin spoiled
    OBVIOUS
  <2> QED BY <1>1, <2>1, <2>2 DEF ChildSays
<1> QED BY <1>2 DEF DepsSay

LEMMA StateIs ==
  ASSUME IInv, NEW j \in Job
  PROVE  /\ job[j] \in Rows
         /\ job[j].state \in NoRow \union Unfinished \union Over
         /\ job[j].claim \in Nat
         /\ job[j].state # "active" /\ j \notin spoiled => job[j].token = 0
<1>1. job[j] \in Rows
  BY DEF IInv
<1> QED BY <1>1, RowIs, Bounds DEF IInv, LeasesOK

\* A job that rests does so until it is claimed, and claims are counted up.
Rests(j) ==
  /\ job[j].claim =< job'[j].claim
  /\ job'[j].claim = job[j].claim /\ job[j].state \in Resting => job'[j].state \in Resting

\* A step that changes no claim and takes no resting job from where it rests.
LEMMA RestsIs ==
  ASSUME IInv, NEW j \in Job, job'[j].claim = job[j].claim,
         \/ job'[j].state = job[j].state \/ job'[j].state \in Resting
         \/ job[j].state \notin Resting
  PROVE  Rests(j)
BY StateIs DEF Rests

LEMMA LeasesKeep ==
  ASSUME IInv, spoiled \subseteq spoiled',
         \A j \in Job \ spoiled' :
           \/ job'[j].token = 0
           \/ job'[j].token = job[j].token /\ (job[j].state = "active" => job'[j].state = "active")
  PROVE  LeasesOK'
BY DEF IInv, LeasesOK

\* A step leaves an open transaction its row, or that of a spoiled job its token.
Leaves(t) ==
  \/ job'[t.job] = job[t.job]
  \/ /\ t.job \in spoiled /\ job'[t.job].token = job[t.job].token
     /\ job'[t.job].state \notin NoRow

\* Whatever happens to rows and dependencies, as long as no transaction begins or ends:
\* what is left to show is about the rows that transactions and workers have, and that
\* each parent which waits is left with something.
LEMMA RowsKeep ==
  ASSUME IInv, finishing' = finishing, flow' = flow,
         job' \in [Job -> Rows], dep' \in [Job -> Statuses], happened' \subseteq Happens,
         spoiled \subseteq spoiled', spoiled' \subseteq Job,
         parking' \subseteq runs', runs' \subseteq RunType, RunsOK',
         LeasesOK', LinksOK', PlantedTogether', ParkedOK', DepsSay',
         \A j \in Job : Rests(j),
         \A t \in Open :
           /\ Leaves(t)
           /\ dep'[t.job] # "none" => dep[t.job] # "none" \/ Parent[t.job] \in spoiled'
           /\ \A r \in runs' : r.job = t.job => ~Holds(r)',
         \A p \in Job \ spoiled' : Expecting(p)' => Fresh(p) \/ (Expecting(p) /\ Same(p))
  PROVE  IInv' /\ First
<1>1. /\ Parent' = Parent /\ opt' = opt /\ QueueOf' = QueueOf
      /\ \A p : Children(p)' = Children(p)
  BY SameFlow
<1>2. Open' = Open /\ TypeOK
  BY DEF Open, IInv
<1>3. TypeOK'
  <2>1. Rows \subseteq RowType
    BY DEF Rows
  <2> QED BY <1>1, <1>2, <2>1 DEF TypeOK, RunType
<1>4. OpenOK'
  <2>1. ASSUME NEW t \in Open PROVE TransactionOK(t)'
    <3>1. TransactionOK(t) /\ t.job \in Job
      BY <1>2, <2>1, OpenIs DEF IInv, OpenOK
    <3>2. t.job \notin spoiled' => t.job \notin spoiled
      OBVIOUS
    <3>3. ~t.linked /\ dep'[t.job] # "none" => Parent[t.job] \in spoiled'
      BY <3>1 DEF TransactionOK
    <3>4. ASSUME t.forces
          PROVE  /\ t.seen =< job'[Parent[t.job]].claim
                 /\ job'[Parent[t.job]].claim = t.seen => job'[Parent[t.job]].state \in Resting
      <4>1. PICK p \in Job : p = Parent[t.job]
        BY <3>1, <3>4 DEF TransactionOK
      <4>2. /\ t.seen =< job[p].claim
            /\ job[p].claim = t.seen => job[p].state \in Resting
        BY <3>1, <3>4, <4>1 DEF TransactionOK
      <4>3. t.seen \in Nat /\ job[p].claim \in Nat /\ job'[p].claim \in Nat
        <5>1. t.seen \in 0 .. MaxClaims
          BY <1>2, <2>1, OpenIs DEF Transaction
        <5>2. job[p] \in Rows /\ job'[p] \in Rows
          BY DEF IInv
        <5> QED BY <5>1, <5>2, RowIs, Bounds
      <4>4. Rests(p)
        OBVIOUS
      <4> QED BY <4>1, <4>2, <4>3, <4>4 DEF Rests
    <3>5. /\ job'[t.job].state \notin NoRow
          /\ t.job \notin spoiled' => job'[t.job].state = "active"
      BY <2>1, <3>1, <3>2 DEF Leaves, TransactionOK
    <3> QED BY <1>1, <2>1, <3>1, <3>2, <3>3, <3>4, <3>5 DEF TransactionOK
  <2>2. \A t, u \in Open : Parent[t.job] = Parent[u.job] /\ Parent[t.job] \in Job \ spoiled' => u = t
    BY DEF IInv, OpenOK
  <2> QED BY <1>1, <1>2, <2>1, <2>2 DEF OpenOK
<1>5. ASSUME NEW p \in Job \ spoiled', Expecting(p)' PROVE WaitOK(p)'
  <2>1. CASE Fresh(p)
    <3>1. PICK c \in Children(p) : Waited(c)' /\ \A t \in Open : t.job # c
      BY <2>1 DEF Fresh
    <3> QED BY <1>1, <1>2, <3>1 DEF WaitOK, Provides, On
  <2>2. CASE Expecting(p) /\ Same(p)
    <3>1. WaitOK(p)
      BY <1>5, <2>2 DEF IInv, WaitsOK
    <3>2. ASSUME NEW t \in Open, On(t, p) PROVE Provides(t, p)'
      <4>1. Provides(t, p) /\ t.job \in Children(p)
        BY <1>2, <3>1, <3>2, OpenIs DEF WaitOK, On, Children
      <4> QED BY <1>1, <2>2, <4>1 DEF Provides, Same
    <3>3. ASSUME \A t \in Open : ~On(t, p) PROVE \E c \in Children(p) : Waited(c)'
      BY <2>2, <3>1, <3>3 DEF WaitOK, Same
    <3> QED BY <1>1, <1>2, <3>2, <3>3 DEF WaitOK, On
  <2> QED BY <1>5, <2>1, <2>2
<1>6. First
  BY DEF First
<1> QED BY <1>3, <1>4, <1>5, <1>6 DEF IInv, WaitsOK

LEMMA OpenRow ==
  ASSUME IInv, NEW t \in Open
  PROVE  /\ t.job \in Job /\ job[t.job].state \notin NoRow
         /\ t.job \notin spoiled => job[t.job].state = "active"
         /\ \A r \in runs : r.job = t.job => ~Holds(r)
<1>1. t.job \in Job
  BY OpenIs DEF IInv
<1>2. TransactionOK(t)
  BY DEF IInv, OpenOK
<1> QED BY <1>1, <1>2 DEF IInv, OpenOK, TransactionOK

LEMMA NotLocked ==
  ASSUME IInv, NEW t \in Open, NEW j, ~Locked(j)
  PROVE  t.job # j
BY DEF Locked

LEMMA RunIs ==
  ASSUME IInv, NEW r \in runs
  PROVE  /\ r \in RunType /\ r.job \in Job /\ r.claim \in 1 .. MaxClaims
         /\ Holds(r) => job[r.job].token # 0
         /\ Holds(r) /\ r.job \notin spoiled => job[r.job].state = "active"
<1>1. r \in RunType /\ r.job \in Job /\ r.claim \in 1 .. MaxClaims
  BY DEF IInv, TypeOK, RunType
<1>2. job[r.job] \in Rows
  BY <1>1 DEF IInv
<1>3. Holds(r) => job[r.job].token # 0
  BY <1>1, <1>2, RowIs, Bounds DEF Holds
<1> QED BY <1>1, <1>3 DEF IInv, LeasesOK

\* A step of neither transactions nor workers.
LEMMA StepKeeps ==
  ASSUME IInv, finishing' = finishing, flow' = flow, parking' = parking, runs' = runs,
         job' \in [Job -> Rows], dep' \in [Job -> Statuses], happened' \subseteq Happens,
         spoiled \subseteq spoiled', spoiled' \subseteq Job,
         \A j \in Job : job'[j].claim = job[j].claim,
         LeasesOK', LinksOK', PlantedTogether', DepsSay',
         \A j \in Job : Rests(j),
         \A t \in Open :
           /\ Leaves(t)
           /\ dep'[t.job] # "none" => dep[t.job] # "none" \/ Parent[t.job] \in spoiled',
         \A r \in runs :
           Holds(r) /\ r.job \notin spoiled' /\ (r \in parking \/ "stall" \notin happened' \ happened)
           => job'[r.job].state = "active" /\ job'[r.job].token = job[r.job].token,
         \A p \in Job \ spoiled' : Expecting(p)' => Fresh(p) \/ (Expecting(p) /\ Same(p))
  PROVE  Kept
<1>0. Parent' = Parent /\ Open' = Open
  BY SameFlow DEF Open
<1>1. RunsOK' /\ runs' \subseteq RunType
  <2>1. \A j \in Job : job[j].claim =< job'[j].claim
    BY RowIs, Bounds DEF IInv
  <2> QED BY <2>1, RunsKeep
<1>2. parking' \subseteq runs'
  BY DEF IInv, TypeOK
<1>3. ParkedOK'
  <2>1. ASSUME NEW r \in parking, r.job \notin spoiled'
        PROVE  job'[r.job].state = "active" /\ Holds(r)' /\ \A t \in Open : ~On(t, r.job)
    <3>1. r.job \notin spoiled /\ r \in runs
      BY <1>2, <2>1
    <3>2. Holds(r) /\ \A t \in Open : ~On(t, r.job)
      BY <2>1, <3>1 DEF IInv, ParkedOK
    <3>3. job'[r.job].state = "active" /\ job'[r.job].token = job[r.job].token
      BY <2>1, <3>1, <3>2
    <3> QED BY <3>2, <3>3 DEF Holds, NoRow
  <2> QED BY <1>0, <2>1 DEF ParkedOK, On
<1>4. ASSUME NEW t \in Open, NEW r \in runs', r.job = t.job PROVE ~Holds(r)'
  <2>1. ~Holds(r)
    BY <1>4, OpenRow
  <2>2. job'[r.job].token = job[r.job].token /\ job[r.job].state \notin NoRow
    BY <1>4, OpenRow DEF Leaves
  <2> QED BY <2>1, <2>2 DEF Holds
<1>5. \A t \in Open :
        /\ Leaves(t)
        /\ dep'[t.job] # "none" => dep[t.job] # "none" \/ Parent[t.job] \in spoiled'
        /\ \A r \in runs' : r.job = t.job => ~Holds(r)'
  BY <1>4
<1>6. IInv' /\ First
  BY <1>1, <1>2, <1>3, <1>5, RowsKeep
<1>7. Spares
  <2>1. ASSUME NEW r \in runs, Holds(r), r.job \notin spoiled', "stall" \notin happened' \ happened
        PROVE  Holds(r)' /\ job'[r.job].state = "active"
    <3>1. job'[r.job].state = "active" /\ job'[r.job].token = job[r.job].token
      BY <2>1
    <3> QED BY <2>1, <3>1 DEF Holds, NoRow
  <2> QED BY <2>1 DEF Spares
<1> QED BY <1>6, <1>7 DEF Kept

\* The same of a client's command: no job is added and no dependency made.
LEMMA CommandKeeps ==
  ASSUME IInv, finishing' = finishing, flow' = flow, parking' = parking, runs' = runs,
         job' \in [Job -> Rows], dep' \in [Job -> Statuses], happened' \subseteq Happens,
         spoiled \subseteq spoiled', spoiled' \subseteq Job,
         \A j \in Job : /\ job'[j].claim = job[j].claim
                        /\ (job'[j].state = "none") <=> (job[j].state = "none"),
         \A c \in Job :
           /\ dep'[c] # "none" => dep[c] # "none"
           /\ Parent[c] \in Job /\ job[Parent[c]].state # "gone" /\ job'[Parent[c]].state = "gone"
              => dep'[c] = "none"
           /\ c \notin spoiled' /\ dep'[c] \in {"processed", "failed", "ignored"}
              => dep'[c] = dep[c] /\ job'[c].state \in {job[c].state, "gone"}
           /\ dep'[c] = "pending" /\ job'[c].state \in Over
              => Parent[c] \in spoiled' \/ (dep[c] = "pending" /\ job[c].state \in Over),
         LeasesOK', \A j \in Job : Rests(j),
         \A t \in Open : Leaves(t),
         \A r \in runs :
           Holds(r) /\ r.job \notin spoiled' /\ (r \in parking \/ "stall" \notin happened' \ happened)
           => job'[r.job].state = "active" /\ job'[r.job].token = job[r.job].token,
         \A p \in Job \ spoiled' : Expecting(p)' => Fresh(p) \/ (Expecting(p) /\ Same(p))
  PROVE  Kept
<1>1. LinksOK' /\ PlantedTogether'
  BY LinksKeep, PlantedKeep
<1>2. DepsSay'
  BY DepsKeep
<1>3. \A t \in Open :
        /\ Leaves(t)
        /\ dep'[t.job] # "none" => dep[t.job] # "none" \/ Parent[t.job] \in spoiled'
  BY OpenRow
<1>4. \A j \in Job : job'[j].claim = job[j].claim
  OBVIOUS
<1> QED BY <1>1, <1>2, <1>3, <1>4, StepKeeps

-----------------------------------------------------------------------------
(* The actions.                                                             *)

LEMMA DueKeeps ==
  ASSUME IInv, NEW j \in Job, Due(j)
  PROVE  Kept
<1>0. TypeOK
  BY DEF IInv
<1>1. /\ job[j].state = "delayed" /\ ~Locked(j) /\ job' = [job EXCEPT ![j] = Waits(job[j])]
      /\ UNCHANGED <<flow, dep, finishing, parking, runs, happened, spoiled>>
  BY DEF Due
<1>2. job[j] \in Rows /\ (j \notin spoiled => job[j].token = 0)
  BY <1>1, StateIs
<1>3. Waits(job[j]) \in Rows /\ Waits(job[j]).state = "wait" /\ Waits(job[j]).claim = job[j].claim
      /\ Waits(job[j]).token = job[j].token
  BY <1>2, MovedRow DEF Waits, Unfinished
<1>4. /\ job' \in [Job -> Rows] /\ job'[j].state = "wait" /\ job'[j].claim = job[j].claim
      /\ job'[j].token = job[j].token
      /\ \A k \in Job \ {j} : job'[k] = job[k]
  BY <1>1, <1>3 DEF IInv
<1>5. \A t \in Open : job'[t.job] = job[t.job]
  BY <1>1, <1>4, OpenRow, NotLocked
<1>6. \A r \in runs :
        Holds(r) /\ r.job \notin spoiled' => job'[r.job].state = "active" /\ job'[r.job].token = job[r.job].token
  BY <1>1, <1>4, RunIs
<1>7. ASSUME NEW p \in Job, Expecting(p)' PROVE Expecting(p) /\ Same(p)
  <2>1. Expecting(p)
    BY <1>1, <1>4, <1>7 DEF Expecting
  <2>2. \A c \in Children(p) : Waited(c) => Waited(c)'
    BY <1>0, <1>1, <1>4, ChildIs DEF Waited, Unfinished
  <2> QED BY <1>1, <2>1, <2>2 DEF Same
<1>8. \A c \in Job :
        /\ dep'[c] # "none" => dep[c] # "none"
        /\ Parent[c] \in Job /\ job[Parent[c]].state # "gone" /\ job'[Parent[c]].state = "gone"
              => dep'[c] = "none"
        /\ c \notin spoiled' /\ dep'[c] \in {"processed", "failed", "ignored"}
              => dep'[c] = dep[c] /\ job'[c].state \in {job[c].state, "gone"}
        /\ dep'[c] = "pending" /\ job'[c].state \in Over
              => Parent[c] \in spoiled' \/ (dep[c] = "pending" /\ job[c].state \in Over)
  BY <1>1, <1>4 DEF IInv, DepsSay, ChildSays, Over
<1>9. dep' \in [Job -> Statuses] /\ happened' \subseteq Happens /\ spoiled' \subseteq Job
  BY <1>0, <1>1 DEF TypeOK
<1>10. \A k \in Job : /\ job'[k].claim = job[k].claim
                      /\ (job'[k].state = "none") <=> (job[k].state = "none")
  BY <1>1, <1>4
<1>90. LeasesOK'
  BY <1>1, <1>2, <1>4, StateIs, LeasesKeep
<1>91. \A k \in Job : Rests(k)
  BY <1>1, <1>2, <1>4, RestsIs DEF Places, Resting
<1> QED BY <1>1, <1>4, <1>5, <1>6, <1>7, <1>8, <1>9, <1>10, <1>90, <1>91, CommandKeeps DEF Leaves

LEMMA StatesKeep ==
  ASSUME IInv, flow' = flow, dep' = dep,
         \A k \in Job : /\ job[k].state # "none" => job'[k].state # "none"
                        /\ (k \notin Late /\ job[k].state = "none") => job'[k].state = "none"
                        /\ job'[k].state = "gone" => job[k].state = "gone"
  PROVE  LinksOK' /\ PlantedTogether'
<1>1. LinksOK'
  BY LinksKeep
<1>2. PlantedTogether'
  BY PlantedKeep
<1> QED BY <1>1, <1>2

LEMMA ClaimKeeps ==
  ASSUME IInv, NEW j \in Job, Claim(j)
  PROVE  Kept
<1> DEFINE n == job[j].claim + 1
           own == [job |-> j, claim |-> n, failing |-> job[j].deferred]
<1>0. TypeOK
  BY DEF IInv
<1>1. /\ job[j].state \in {"wait", "prioritized"} /\ job[j].claim < MaxClaims /\ ~Locked(j)
      /\ job' = [job EXCEPT ![j].state = "active", ![j].claim = job[j].claim + 1, ![j].token = job[j].claim + 1]
      /\ runs' = runs \union {own}
      /\ UNCHANGED <<flow, dep, finishing, parking, happened, spoiled>>
  BY DEF Claim
<1>2. job[j] \in Rows /\ (j \notin spoiled => job[j].token = 0) /\ job[j].claim \in Nat /\ n \in 1 .. MaxClaims
  BY <1>1, StateIs, Bounds
<1>3. job'[j] = [state |-> "active", claim |-> n, token |-> n, deferred |-> job[j].deferred]
  BY <1>1, <1>2, RowIs DEF IInv
<1>4. job'[j] \in Rows
  BY <1>2, <1>3, RowIs, Bounds DEF Rows, RowType, RowOK, Unfinished
<1>5. /\ job' \in [Job -> Rows] /\ job'[j].state = "active" /\ job'[j].claim = n /\ job'[j].token = n
      /\ \A k \in Job \ {j} : job'[k] = job[k]
  BY <1>1, <1>3, <1>4 DEF IInv
<1>6. own \in RunType /\ own.job = j /\ own.claim = n
  BY <1>2, RowIs DEF RunType
<1> HIDE DEF own
<1>7. /\ runs \subseteq RunType /\ \A r \in runs : r.claim \in Nat /\ r.job \in Job /\ r.claim =< job[r.job].claim
      /\ \A r, s \in runs : r.job = s.job /\ r.claim = s.claim => r = s
  BY RunIs, Bounds DEF IInv, TypeOK, RunType, RunsOK
<1>8. RunsOK' /\ runs' \subseteq RunType
  <2>1. \A r \in runs : r.job = j => r.claim < n
    BY <1>2, <1>7
  <2>2. \A r, s \in runs' : r.job = s.job /\ r.claim = s.claim => r = s
    BY <1>1, <1>2, <1>6, <1>7, <2>1
  <2>3. \A r \in runs' : r.claim =< job'[r.job].claim
    BY <1>1, <1>2, <1>5, <1>6, <1>7, <2>1
  <2> QED BY <1>1, <1>6, <1>7, <2>2, <2>3 DEF RunsOK
<1>9. \A t \in Open :
        job'[t.job] = job[t.job] /\ t.job # j
  BY <1>1, <1>5, OpenRow, NotLocked
<1>10. \A r \in runs : Holds(r) /\ r.job \notin spoiled => r.job # j /\ job'[r.job] = job[r.job]
  BY <1>1, <1>5, RunIs
<1>11. \A t \in Open : \A r \in runs' : r.job = t.job => ~Holds(r)'
  <2>1. \A t \in Open : \A r \in runs : r.job = t.job => ~Holds(r)
    BY OpenRow
  <2>2. ASSUME NEW t \in Open, NEW r \in runs', r.job = t.job PROVE ~Holds(r)'
    <3>1. t.job # j /\ r \in runs
      BY <1>1, <1>6, <1>9, <2>2
    <3>2. ~Holds(r) /\ job'[r.job] = job[r.job]
      BY <1>9, <2>1, <2>2, <3>1
    <3> QED BY <3>2 DEF Holds
  <2> QED BY <2>2
<1>12. ParkedOK'
  <2>1. Parent' = Parent /\ Open' = Open
    BY <1>1, SameFlow DEF Open
  <2>2. ASSUME NEW r \in parking, r.job \notin spoiled
        PROVE  job'[r.job].state = "active" /\ Holds(r)' /\ \A t \in Open : ~On(t, r.job)
    <3>1. r \in runs /\ Holds(r) /\ job[r.job].state = "active" /\ \A t \in Open : ~On(t, r.job)
      BY <1>0, <2>2 DEF IInv, ParkedOK, TypeOK
    <3> QED BY <1>10, <2>2, <3>1 DEF Holds
  <2> QED BY <1>1, <2>1, <2>2 DEF ParkedOK, On
<1>13. ASSUME NEW p \in Job, Expecting(p)' PROVE Expecting(p) /\ Same(p)
  <2>1. Expecting(p)
    BY <1>1, <1>5, <1>13 DEF Expecting
  <2>2. \A c \in Children(p) : Waited(c) => Waited(c)'
    BY <1>0, <1>1, <1>5, ChildIs DEF Waited, Unfinished
  <2> QED BY <1>1, <2>1, <2>2 DEF Same
<1>14. LinksOK' /\ PlantedTogether'
  <2>1. \A k \in Job : /\ job[k].state # "none" => job'[k].state # "none"
                       /\ (k \notin Late /\ job[k].state = "none") => job'[k].state = "none"
                       /\ job'[k].state = "gone" => job[k].state = "gone"
    BY <1>1, <1>5
  <2> QED BY <1>1, <2>1, StatesKeep
<1>15. DepsSay'
  <2>1. \A c \in Job :
        /\ c \notin spoiled' /\ dep'[c] \in {"processed", "failed", "ignored"}
              => dep'[c] = dep[c] /\ job'[c].state \in {job[c].state, "gone"}
        /\ dep'[c] = "pending" /\ job'[c].state \in Over
              => Parent[c] \in spoiled' \/ (dep[c] = "pending" /\ job[c].state \in Over)
    BY <1>1, <1>5 DEF IInv, DepsSay, ChildSays, Over
  <2> QED BY <1>1, <2>1, DepsKeep
<1>16. /\ dep' \in [Job -> Statuses] /\ happened' \subseteq Happens /\ spoiled' \subseteq Job
       /\ parking' \subseteq runs'
  BY <1>0, <1>1 DEF TypeOK
<1>90. LeasesOK'
  BY <1>1, <1>5, LeasesKeep DEF IInv, LeasesOK
<1>91. \A k \in Job : Rests(k)
  BY <1>1, <1>2, <1>5, StateIs DEF Rests
<1>17. IInv' /\ First
  <2>1. \A t \in Open :
           /\ job'[t.job] = job[t.job]
           /\ dep'[t.job] # "none" => dep[t.job] # "none" \/ Parent[t.job] \in spoiled'
           /\ \A r \in runs' : r.job = t.job => ~Holds(r)'
    BY <1>1, <1>9, <1>11
  <2> QED BY <1>1, <1>5, <1>8, <1>12, <1>13, <1>14, <1>15, <1>16, <1>90, <1>91, <2>1, RowsKeep DEF Leaves
<1>18. Spares
  BY <1>1, <1>10 DEF Spares, Holds
<1> QED BY <1>17, <1>18 DEF Kept

LEMMA AddAloneKeeps ==
  ASSUME IInv, NEW j \in Job, AddAlone(j)
  PROVE  Kept
<1>0. TypeOK
  BY DEF IInv
<1>1. /\ j \in Late /\ job[j].state = "none" /\ job' = [job EXCEPT ![j] = Placed(job[j], j)]
      /\ happened' = happened \union {"addAlone"} /\ "addAlone" \in Happens
      /\ UNCHANGED <<flow, dep, finishing, parking, runs, spoiled>>
  BY DEF AddAlone, Once
<1>2. job[j] \in Rows /\ (j \notin spoiled => job[j].token = 0) /\ Place[j] \in Places /\ dep[j] = "none"
  BY <1>0, <1>1, StateIs, FlowIs DEF IInv, LinksOK
<1>3. Placed(job[j], j) \in Rows /\ Placed(job[j], j).state \in Places /\ Placed(job[j], j).claim = job[j].claim
      /\ Placed(job[j], j).token = job[j].token
  BY <1>2, MovedRow DEF Placed, Unfinished, Places
<1>4. /\ job' \in [Job -> Rows] /\ job'[j].state \in Places /\ job'[j].claim = job[j].claim
      /\ job'[j].token = job[j].token
      /\ \A k \in Job \ {j} : job'[k] = job[k]
  BY <1>1, <1>3 DEF IInv
<1>5. \A t \in Open : job'[t.job] = job[t.job]
  BY <1>1, <1>4, OpenRow DEF NoRow
<1>6. \A r \in runs :
        Holds(r) /\ r.job \notin spoiled' => job'[r.job].state = "active" /\ job'[r.job].token = job[r.job].token
  BY <1>1, <1>4, RunIs
<1>7. ASSUME NEW p \in Job, Expecting(p)' PROVE Expecting(p) /\ Same(p)
  <2>1. Expecting(p)
    BY <1>1, <1>4, <1>7 DEF Expecting, Places
  <2>2. \A c \in Children(p) : Waited(c) => Waited(c)'
    BY <1>0, <1>1, <1>2, <1>4, ChildIs DEF Waited
  <2> QED BY <1>1, <2>1, <2>2 DEF Same
<1>8. DepsSay'
  <2>1. \A c \in Job :
        /\ c \notin spoiled' /\ dep'[c] \in {"processed", "failed", "ignored"}
              => dep'[c] = dep[c] /\ job'[c].state \in {job[c].state, "gone"}
        /\ dep'[c] = "pending" /\ job'[c].state \in Over
              => Parent[c] \in spoiled' \/ (dep[c] = "pending" /\ job[c].state \in Over)
    BY <1>1, <1>2, <1>4
  <2> QED BY <1>1, <2>1, DepsKeep
<1>9. LinksOK' /\ PlantedTogether'
  <2>1. \A k \in Job : /\ job[k].state # "none" => job'[k].state # "none"
                       /\ (k \notin Late /\ job[k].state = "none") => job'[k].state = "none"
                       /\ job'[k].state = "gone" => job[k].state = "gone"
    BY <1>1, <1>4 DEF Places
  <2> QED BY <1>1, <2>1, StatesKeep
<1>10. dep' \in [Job -> Statuses] /\ happened' \subseteq Happens /\ spoiled' \subseteq Job
  BY <1>0, <1>1 DEF TypeOK
<1>90. LeasesOK'
  BY <1>1, <1>2, <1>4, StateIs, LeasesKeep
<1>91. \A k \in Job : Rests(k)
  BY <1>1, <1>2, <1>4, RestsIs DEF Places, Resting
<1> QED BY <1>1, <1>4, <1>5, <1>6, <1>7, <1>8, <1>9, <1>10, <1>90, <1>91, StepKeeps DEF Leaves

LEMMA StallKeeps ==
  ASSUME IInv, NEW j \in Job, NEW target \in {"wait", "failed"}, Stall(j, target)
  PROVE  Kept
<1>0. TypeOK
  BY DEF IInv
<1>1. /\ job[j].state = "active" /\ ~Locked(j)
      /\ job' = [job EXCEPT ![j].state = target, ![j].token = 0, ![j].deferred = FALSE]
      /\ happened' = happened \union {"stall"} /\ "stall" \in Happens \ happened
      /\ UNCHANGED <<flow, dep, finishing, parking, runs>>
      /\ spoiled' = spoiled \union (IF target = "failed" THEN {Parent[j]} \intersect Job ELSE {})
                            \union {r.job : r \in {s \in parking : s.job = j}}
  BY DEF Stall, Once
<1>2. job[j] \in Rows
  BY DEF IInv
<1>3. job'[j] = [state |-> target, claim |-> job[j].claim, token |-> 0, deferred |-> FALSE]
  <2>1. job'[j] = [job[j] EXCEPT !.state = target, !.token = 0, !.deferred = FALSE]
    BY <1>1 DEF IInv
  <2>2. CASE target = "wait"
    BY <1>2, <2>1, <2>2, RowIs
  <2>3. CASE target = "failed"
    BY <1>2, <2>1, <2>3, RowIs
  <2> QED BY <2>2, <2>3
<1>4. job'[j] \in Rows
  <2>1. target \in NoRow \union Unfinished \union Over /\ FALSE \in BOOLEAN
    BY DEF Unfinished, Over
  <2> DEFINE row == job[j]
             new == job'[j]
  <2>2. row \in Rows /\ new = [state |-> target, claim |-> row.claim, token |-> 0, deferred |-> FALSE]
    BY <1>2, <1>3
  <2> HIDE DEF row, new
  <2>3. new \in Rows
    BY <2>1, <2>2, ReleasedRow
  <2> QED BY <2>3 DEF new
<1>5. /\ job' \in [Job -> Rows] /\ job'[j].state = target /\ job'[j].claim = job[j].claim
      /\ job'[j].token = 0
      /\ \A k \in Job \ {j} : job'[k] = job[k]
  BY <1>1, <1>3, <1>4 DEF IInv
<1>11. dep' \in [Job -> Statuses] /\ happened' \subseteq Happens /\ spoiled \subseteq spoiled' /\ spoiled' \subseteq Job
  BY <1>0, <1>1 DEF TypeOK
<1>6. \A t \in Open : job'[t.job] = job[t.job]
  BY <1>1, <1>5, OpenRow, NotLocked
<1>7. \A r \in parking : r.job \notin spoiled' => r.job # j
  BY <1>1
<1>8. ASSUME NEW r \in runs, Holds(r), r.job \notin spoiled', r \in parking \/ "stall" \notin happened' \ happened
      PROVE  job'[r.job].state = "active" /\ job'[r.job].token = job[r.job].token
  <2>1. r.job # j
    BY <1>1, <1>7, <1>8
  <2> QED BY <1>5, <1>8, <1>11, <2>1, RunIs
<1>9. ASSUME NEW p \in Job \ spoiled', Expecting(p)' PROVE Expecting(p) /\ Same(p)
  <2>1. Expecting(p)
    BY <1>1, <1>5, <1>9 DEF Expecting
  <2>2. \A c \in Children(p) : Waited(c) => Waited(c)'
    <3>1. j \in Children(p) => target = "wait"
      BY <1>0, <1>1, <1>9, ChildIs
    <3> QED BY <1>0, <1>1, <1>5, <3>1, ChildIs DEF Waited, Unfinished
  <2> QED BY <1>1, <2>1, <2>2 DEF Same
<1>10. \A c \in Job :
        /\ dep'[c] # "none" => dep[c] # "none"
        /\ Parent[c] \in Job /\ job[Parent[c]].state # "gone" /\ job'[Parent[c]].state = "gone"
              => dep'[c] = "none"
        /\ c \notin spoiled' /\ dep'[c] \in {"processed", "failed", "ignored"}
              => dep'[c] = dep[c] /\ job'[c].state \in {job[c].state, "gone"}
        /\ dep'[c] = "pending" /\ job'[c].state \in Over
              => Parent[c] \in spoiled' \/ (dep[c] = "pending" /\ job[c].state \in Over)
  <2>1. \A c \in Job : ChildSays(c) /\ (dep[c] # "none" => Parent[c] \in Job)
    BY DEF IInv, DepsSay, LinksOK
  <2> QED BY <1>1, <1>5, <2>1 DEF ChildSays, Over
<1>12. \A k \in Job : /\ job'[k].claim = job[k].claim
                      /\ (job'[k].state = "none") <=> (job[k].state = "none")
  BY <1>1, <1>5
<1>90. LeasesOK'
  BY <1>1, <1>5, <1>11, StateIs, LeasesKeep
<1>91. \A k \in Job : Rests(k)
  BY <1>1, <1>5, <1>11, RestsIs DEF Places, Resting
<1> QED BY <1>1, <1>5, <1>6, <1>8, <1>9, <1>10, <1>11, <1>12, <1>90, <1>91, CommandKeeps DEF Leaves

\* What is known of a parent that is not spoiled, and will not be.
LEMMA PendingWaits ==
  ASSUME IInv, NEW p \in Job \ spoiled, NEW c \in Children(p), dep[c] = "pending"
  PROVE  c \in Job /\ job[c].state \in Unfinished /\ Waited(c)
<1>1. c \in Job /\ Parent[c] = p
  BY ChildIs DEF IInv
<1>2. job[c].state \notin Over /\ job[c].state # "none" /\ job[c] \in Rows
  BY <1>1 DEF IInv, DepsSay, ChildSays, LinksOK
<1>3. job[c].state \in Unfinished
  BY <1>2, RowIs DEF NoRow, Over
<1> QED BY <1>1, <1>3 DEF Waited

LEMMA ParkedHolds ==
  ASSUME IInv, NEW r \in parking, r.job \notin spoiled
  PROVE  /\ r \in runs /\ r.job \in Job /\ Holds(r)
         /\ job[r.job].state = "active" /\ job[r.job].token # 0
<1>1. r \in runs /\ Holds(r)
  BY DEF IInv, TypeOK, ParkedOK
<1> QED BY <1>1, RunIs

LEMMA NotMet ==
  ASSUME IInv, NEW p \in Job, p \notin Met(p)
  PROVE  /\ \A t \in Open : Parent[t.job] # p
         /\ \A r \in parking : r.job # p
         /\ \A c \in Children(p) : \A t \in Open : t.job # c
BY ChildIs DEF Met, IInv

LEMMA FreeIs ==
  ASSUME NEW set, Free(set), NEW t \in Open
  PROVE  t.job \notin set /\ Parent[t.job] \notin set
BY DEF Free

LEMMA ReprocessKeeps ==
  ASSUME IInv, NEW c \in Job, ReprocessJob(c)
  PROVE  Kept
<1>0. TypeOK
  BY DEF IInv
<1>1. /\ job[c].state \in {"completed", "failed"} /\ ~Locked(c)
      /\ job' = [job EXCEPT ![c] = Released(Waits(job[c]))]
      /\ dep' = [dep EXCEPT ![c] = IF dep[c] = "none" THEN dep[c] ELSE "pending"]
      /\ happened' = happened \union {"reprocess"} /\ "reprocess" \in Happens
      /\ UNCHANGED <<flow, finishing, parking, runs, spoiled>>
  BY DEF ReprocessJob, Once
<1>2. job[c] \in Rows
  BY <1>1, StateIs
<1>3. /\ Released(Waits(job[c])) \in Rows /\ Released(Waits(job[c])).state = "wait"
      /\ Released(Waits(job[c])).claim = job[c].claim /\ Released(Waits(job[c])).token = 0
  <2> DEFINE row == Waits(job[c])
             new == Released(row)
  <2>1. row \in Rows /\ row.state = "wait" /\ row.claim = job[c].claim
    BY <1>2, MovedRow DEF Waits, Unfinished
  <2> HIDE DEF row
  <2>2. new = [state |-> row.state, claim |-> row.claim, token |-> 0, deferred |-> row.deferred]
    <3>1. new = [row EXCEPT !.token = 0]
      BY DEF Released
    <3>2. row = [state |-> row.state, claim |-> row.claim, token |-> row.token, deferred |-> row.deferred]
      BY <2>1, RowIs
    <3> QED BY <3>1, <3>2
  <2>3. row.state \in NoRow \union Unfinished \union Over /\ row.deferred \in BOOLEAN
    BY <2>1, RowIs
  <2> HIDE DEF new
  <2>4. new \in Rows /\ new.state = row.state /\ new.token = 0 /\ new.claim = row.claim
    BY <2>1, <2>2, <2>3, ReleasedRow
  <2> QED BY <2>1, <2>4 DEF row, new
<1>4. /\ job' \in [Job -> Rows] /\ job'[c].state = "wait" /\ job'[c].claim = job[c].claim
      /\ job'[c].token = 0
      /\ \A k \in Job \ {c} : job'[k] = job[k]
  BY <1>1, <1>3 DEF IInv
<1>5. /\ dep' \in [Job -> Statuses] /\ dep'[c] \in {"none", "pending"}
      /\ dep'[c] = "none" <=> dep[c] = "none"
      /\ \A k \in Job \ {c} : dep'[k] = dep[k]
  BY <1>0, <1>1 DEF TypeOK, Statuses
<1>6. \A t \in Open : job'[t.job] = job[t.job]
  BY <1>1, <1>4, OpenRow, NotLocked
<1>7. \A r \in runs :
        Holds(r) /\ r.job \notin spoiled' => job'[r.job].state = "active" /\ job'[r.job].token = job[r.job].token
  BY <1>1, <1>4, RunIs
<1>8. ASSUME NEW p \in Job, Expecting(p)' PROVE Expecting(p) /\ Same(p)
  <2>1. Expecting(p)
    BY <1>1, <1>4, <1>8 DEF Expecting
  <2>2. \A k \in Children(p) : (Waited(k) => Waited(k)') /\ (dep[k] # "none" => dep'[k] # "none")
    BY <1>0, <1>1, <1>4, <1>5, ChildIs DEF Waited, Unfinished
  <2> QED BY <2>1, <2>2 DEF Same
<1>9. \A k \in Job :
        /\ dep'[k] # "none" => dep[k] # "none"
        /\ Parent[k] \in Job /\ job[Parent[k]].state # "gone" /\ job'[Parent[k]].state = "gone"
              => dep'[k] = "none"
        /\ k \notin spoiled' /\ dep'[k] \in {"processed", "failed", "ignored"}
              => dep'[k] = dep[k] /\ job'[k].state \in {job[k].state, "gone"}
        /\ dep'[k] = "pending" /\ job'[k].state \in Over
              => Parent[k] \in spoiled' \/ (dep[k] = "pending" /\ job[k].state \in Over)
  BY <1>1, <1>4, <1>5 DEF Over
<1>10. happened' \subseteq Happens /\ spoiled' \subseteq Job
  BY <1>0, <1>1 DEF TypeOK
<1>11. \A k \in Job : /\ job'[k].claim = job[k].claim
                      /\ (job'[k].state = "none") <=> (job[k].state = "none")
  BY <1>1, <1>4
<1>90. LeasesOK'
  BY <1>1, <1>4, StateIs, LeasesKeep
<1>91. \A k \in Job : Rests(k)
  BY <1>1, <1>4, RestsIs DEF Places, Resting
<1> QED BY <1>1, <1>4, <1>5, <1>6, <1>7, <1>8, <1>9, <1>10, <1>11, <1>90, <1>91, CommandKeeps DEF Leaves

LEMMA RemoveChildDependencyKeeps ==
  ASSUME IInv, NEW c \in Job, RemoveChildDependency(c)
  PROVE  Kept
<1> DEFINE p == Parent[c]
           wakes == job[p].state = "waiting-children" /\ \A d \in Children(p) \ {c} : dep[d] # "pending"
<1>0. TypeOK
  BY DEF IInv
<1>1. /\ p \in Job /\ ~Locked(p) /\ dep' = [dep EXCEPT ![c] = "none"]
      /\ job' = IF wakes THEN [job EXCEPT ![p] = Waits(job[p])] ELSE job
      /\ spoiled' = spoiled \union Met(p)
      /\ happened' = happened \union {"removeChildDependency"} /\ "removeChildDependency" \in Happens
      /\ UNCHANGED <<flow, finishing, parking, runs>>
  BY DEF RemoveChildDependency, Once
<1>2. /\ job' \in [Job -> Rows]
      /\ job[p].state = "waiting-children" /\ wakes => job'[p].state = "wait" /\ job'[p].token = job[p].token
      /\ job'[p].claim = job[p].claim /\ (~wakes => job'[p] = job[p])
      /\ \A k \in Job \ {p} : job'[k] = job[k]
  <2>1. CASE wakes
    <3>1. job[p] \in Rows
      BY <1>1, <2>1, StateIs
    <3>2. /\ Waits(job[p]) \in Rows /\ Waits(job[p]).state = "wait"
          /\ Waits(job[p]).token = job[p].token /\ Waits(job[p]).claim = job[p].claim
      BY <3>1, MovedRow DEF Waits, Unfinished
    <3> QED BY <1>1, <2>1, <3>2 DEF IInv
  <2>2. CASE ~wakes
    BY <1>1, <2>2 DEF IInv
  <2> QED BY <2>1, <2>2
<1> HIDE DEF p
<1>3. dep' \in [Job -> Statuses] /\ dep'[c] = "none" /\ \A k \in Job \ {c} : dep'[k] = dep[k]
  BY <1>0, <1>1 DEF TypeOK, Statuses
<1>8. /\ happened' \subseteq Happens /\ spoiled' \subseteq Job /\ spoiled \subseteq spoiled'
  BY <1>0, <1>1 DEF TypeOK, Met
<1>4. \A t \in Open : job'[t.job] = job[t.job]
  BY <1>1, <1>2, OpenRow, NotLocked
<1>5. \A r \in runs :
        Holds(r) /\ r.job \notin spoiled' => job'[r.job].state = "active" /\ job'[r.job].token = job[r.job].token
  BY <1>1, <1>2, <1>8, RunIs
<1>6. ASSUME NEW k \in Job \ spoiled', Expecting(k)' PROVE Fresh(k) \/ (Expecting(k) /\ Same(k))
  <2>1. CASE k = p
    <3>1. k \notin Met(k) /\ k \notin spoiled
      BY <1>1, <1>6, <2>1
    <3>2. job'[k].state = "waiting-children"
      BY <1>1, <1>6, <3>1, NotMet DEF Expecting
    <3>3. ~wakes /\ job[p].state = "waiting-children"
      BY <1>1, <1>2, <2>1, <3>2
    <3>4. PICK d \in Children(k) \ {c} : dep[d] = "pending"
      BY <2>1, <3>3
    <3>5. d \in Job /\ job[d].state \in Unfinished
      BY <1>6, <3>1, <3>4, PendingWaits
    <3>6. Waited(d)'
      BY <1>1, <1>2, <1>3, <2>1, <3>3, <3>4, <3>5 DEF Waited
    <3> QED BY <3>1, <3>4, <3>6, <1>6, NotMet DEF Fresh
  <2>2. CASE k # p
    <3>1. Expecting(k)
      BY <1>1, <1>2, <1>6, <2>2 DEF Expecting
    <3>2. ASSUME NEW d \in Children(k)
          PROVE  (Waited(d) => Waited(d)') /\ (dep[d] # "none" => dep'[d] # "none")
      <4>1. d \in Job /\ d # c
        BY <1>0, <1>6, <2>2, <3>2, ChildIs DEF p
      <4> QED BY <1>1, <1>2, <1>3, <4>1 DEF Waited, Unfinished
    <3> QED BY <3>1, <3>2 DEF Same
  <2> QED BY <2>1, <2>2
<1>7. \A k \in Job :
        /\ dep'[k] # "none" => dep[k] # "none"
        /\ Parent[k] \in Job /\ job[Parent[k]].state # "gone" /\ job'[Parent[k]].state = "gone"
              => dep'[k] = "none"
        /\ k \notin spoiled' /\ dep'[k] \in {"processed", "failed", "ignored"}
              => dep'[k] = dep[k] /\ job'[k].state \in {job[k].state, "gone"}
        /\ dep'[k] = "pending" /\ job'[k].state \in Over
              => Parent[k] \in spoiled' \/ (dep[k] = "pending" /\ job[k].state \in Over)
  <2>1. \A k \in Job : k \notin spoiled /\ dep[k] \in {"processed", "failed", "ignored"} => job[k].state # "waiting-children"
    BY DEF IInv, DepsSay, ChildSays
  <2>2. \A k \in Job : \/ job'[k] = job[k]
                       \/ job[k].state = "waiting-children" /\ job'[k].state = "wait"
    BY <1>1, <1>2
  <2>3. \A k \in Job : dep'[k] # "none" => dep'[k] = dep[k]
    BY <1>3
  <2>4. \A k \in Job : k \notin spoiled' => k \notin spoiled
    BY <1>1
  <2>5. \A k \in Job : job'[k].state \in {"gone", "none"} \union Over => job'[k] = job[k]
    BY <2>2 DEF Over
  <2>6. ASSUME NEW k \in Job, k \notin spoiled', dep'[k] \in {"processed", "failed", "ignored"}
        PROVE  dep'[k] = dep[k] /\ job'[k].state \in {job[k].state, "gone"}
    BY <2>1, <2>2, <2>3, <2>4, <2>6
  <2> QED BY <2>3, <2>5, <2>6
<1>9. \A k \in Job : /\ job'[k].claim = job[k].claim
                     /\ (job'[k].state = "none") <=> (job[k].state = "none")
  BY <1>1, <1>2
<1>90. LeasesOK'
  BY <1>1, <1>2, <1>8, LeasesKeep
<1>91. \A k \in Job : Rests(k)
  <2>1. \A k \in Job : job'[k] = job[k] \/ job'[k].state = "wait"
    BY <1>1, <1>2
  <2> QED BY <1>9, <2>1, RestsIs DEF Resting, Places
<1> QED BY <1>1, <1>2, <1>3, <1>4, <1>5, <1>6, <1>7, <1>8, <1>9, <1>90, <1>91, CommandKeeps DEF Leaves

LEMMA CascadedIs ==
  ASSUME TypeOK, NEW set
  PROVE  /\ Cascaded(dep, set) \in [Job -> Statuses]
         /\ \A c \in Job : Cascaded(dep, set)[c] = IF Parent[c] \in set THEN "none" ELSE dep[c]
BY DEF Cascaded, TypeOK, Statuses

\* Commands that delete rows without a token, but for spoiled jobs, which no open
\* transaction has, and cascade to the dependencies: what becomes of children whose parent stays.
LEMMA DeletionKeeps ==
  ASSUME IInv, finishing' = finishing, flow' = flow, parking' = parking, runs' = runs,
         NEW gone \in SUBSET Job,
         job' = Deleted(job, gone), dep' = Cascaded(dep, gone),
         happened' \subseteq Happens, spoiled \subseteq spoiled', spoiled' \subseteq Job,
         \A j \in gone : job[j].state \notin NoRow /\ (j \notin spoiled' => job[j].token = 0),
         \A t \in Open : t.job \notin gone,
         \A c \in gone : dep[c] # "none" => Parent[c] \in spoiled' \union gone
  PROVE  Kept
<1>0. TypeOK
  BY DEF IInv
<1>1. /\ job' \in [Job -> Rows] /\ \A j \in Job : job'[j].claim = job[j].claim
      /\ \A j \in gone : job'[j].state = "gone" /\ job'[j].token = 0
      /\ \A j \in Job \ gone : job'[j] = job[j]
  BY DeletedIs DEF IInv
<1>2. /\ dep' \in [Job -> Statuses]
      /\ \A c \in Job : dep'[c] = IF Parent[c] \in gone THEN "none" ELSE dep[c]
  BY <1>0, CascadedIs
<1>3. \A t \in Open : job'[t.job] = job[t.job]
  BY <1>1, OpenRow
<1>4. \A r \in runs :
        Holds(r) /\ r.job \notin spoiled' => job'[r.job].state = "active" /\ job'[r.job].token = job[r.job].token
  BY <1>1, RunIs
<1>5. ASSUME NEW p \in Job \ spoiled', Expecting(p)' PROVE Expecting(p) /\ Same(p)
  <2>1. p \notin gone
    <3>1. CASE job'[p].state = "waiting-children"
      BY <1>1, <3>1
    <3>2. CASE \E r \in parking : r.job = p
      BY <1>5, <3>2, ParkedHolds
    <3> QED BY <1>5, <3>1, <3>2 DEF Expecting
  <2>2. Expecting(p)
    BY <1>1, <1>5, <2>1 DEF Expecting
  <2>3. ASSUME NEW c \in Children(p) PROVE (Waited(c) => Waited(c)') /\ (dep[c] # "none" => dep'[c] # "none")
    <3>1. c \in Job /\ Parent[c] = p
      BY <1>0, ChildIs
    <3>2. dep'[c] = dep[c] /\ (dep[c] # "none" => job'[c] = job[c])
      BY <1>1, <1>2, <1>5, <2>1, <3>1
    <3> QED BY <3>2 DEF Waited
  <2> QED BY <2>2, <2>3 DEF Same
<1>6. \A k \in Job :
        /\ dep'[k] # "none" => dep[k] # "none"
        /\ Parent[k] \in Job /\ job[Parent[k]].state # "gone" /\ job'[Parent[k]].state = "gone"
              => dep'[k] = "none"
        /\ k \notin spoiled' /\ dep'[k] \in {"processed", "failed", "ignored"}
              => dep'[k] = dep[k] /\ job'[k].state \in {job[k].state, "gone"}
        /\ dep'[k] = "pending" /\ job'[k].state \in Over
              => Parent[k] \in spoiled' \/ (dep[k] = "pending" /\ job[k].state \in Over)
  BY <1>1, <1>2
<1>7. \A k \in Job : /\ job'[k].claim = job[k].claim
                     /\ (job'[k].state = "none") <=> (job[k].state = "none")
  BY <1>1 DEF NoRow
<1>90. LeasesOK'
  BY <1>1, StateIs, LeasesKeep
<1>91. \A k \in Job : Rests(k)
  BY <1>1, RestsIs DEF Resting
<1> QED BY <1>1, <1>2, <1>3, <1>4, <1>5, <1>6, <1>7, <1>90, <1>91, CommandKeeps DEF Leaves

LEMMA DrainKeeps ==
  ASSUME IInv, NEW q \in Queue, Drain(q)
  PROVE  Kept
<1> DEFINE gone == {j \in Job : QueueOf[j] = q /\ job[j].state \in {"wait", "prioritized", "delayed"}}
<1>0. TypeOK
  BY DEF IInv
<1>1. /\ Free(gone) /\ job' = Deleted(job, gone) /\ dep' = Cascaded(dep, gone)
      /\ spoiled' = spoiled \union {p \in Job : Children(p) \intersect gone # {}}
      /\ happened' = happened \union {"drain"} /\ "drain" \in Happens
      /\ UNCHANGED <<flow, finishing, parking, runs>>
  BY DEF Drain, Once
<1>2. \A j \in gone : job[j].state \notin NoRow /\ (j \notin spoiled' => job[j].token = 0)
  BY <1>1, StateIs DEF NoRow
<1>3. \A t \in Open : t.job \notin gone
  BY <1>1, FreeIs
<1>4. \A c \in gone : dep[c] # "none" => Parent[c] \in spoiled' \union gone
  <2>1. \A c \in Job : dep[c] # "none" => Parent[c] \in Job /\ c \in Children(Parent[c])
    BY DEF IInv, LinksOK, Children
  <2> QED BY <1>1, <2>1
<1>5. /\ happened' \subseteq Happens /\ spoiled' \subseteq Job /\ spoiled \subseteq spoiled'
      /\ gone \in SUBSET Job
  BY <1>0, <1>1 DEF TypeOK
<1> HIDE DEF gone
<1> QED BY <1>1, <1>2, <1>3, <1>4, <1>5, DeletionKeeps

LEMMA RemoveUnprocessedKeeps ==
  ASSUME IInv, NEW p \in Job, RemoveUnprocessedChildren(p)
  PROVE  Kept
<1> DEFINE open == {c \in Job : dep[c] = "pending" /\ job[c].token = 0}
           links == {<<Parent[c], c>> : c \in open}
           gone == {k \in Reached(p, links) \ {p} : job[k].state \notin NoRow}
<1>0. TypeOK
  BY DEF IInv
<1>1. /\ job' = Deleted(job, gone) /\ dep' = Cascaded(dep, gone) /\ Free(gone)
      /\ spoiled' = spoiled \union {p}
      /\ happened' = happened \union {"removeUnprocessedChildren"} /\ "removeUnprocessedChildren" \in Happens
      /\ UNCHANGED <<flow, finishing, parking, runs>>
  BY DEF RemoveUnprocessedChildren, Once
<1>2. ASSUME NEW c \in gone
      PROVE  /\ c \in Job /\ job[c].state \notin NoRow /\ job[c].token = 0
             /\ Parent[c] \in spoiled' \union gone
  <2>1. c \in Job /\ c # p /\ c \in Reached(p, links)
    BY DEF Reached
  <2>2. \A l \in links : l[2] \in Job
    OBVIOUS
  <2> HIDE DEF links
  <2>3. PICK l \in links : l[1] \in Reached(p, links) /\ l[2] = c
    BY <2>1, <2>2, ReachedBy
  <2> USE DEF links
  <2>4. c \in open /\ Parent[c] \in Reached(p, links)
    BY <2>3
  <2>5. Parent[c] \in Job /\ job[Parent[c]].state \notin NoRow
    BY <2>1, <2>4 DEF IInv, LinksOK
  <2> QED BY <1>1, <2>1, <2>4, <2>5
<1>3. \A t \in Open : t.job \notin gone
  BY <1>1, FreeIs
<1>4. /\ happened' \subseteq Happens /\ spoiled' \subseteq Job /\ spoiled \subseteq spoiled'
      /\ gone \in SUBSET Job
  BY <1>0, <1>1, <1>2 DEF TypeOK
<1> HIDE DEF gone
<1> QED BY <1>1, <1>2, <1>3, <1>4, DeletionKeeps

LEMMA RemoveJobKeeps ==
  ASSUME IInv, NEW j \in Job, NEW children \in BOOLEAN, RemoveJob(j, children)
  PROVE  Kept
<1> DEFINE p      == Parent[j]
           leased == IF children THEN Subtree(j, {"pending"}) ELSE {j}
           gone   == IF children THEN Subtree(j, {"pending", "processed", "failed", "ignored"}) ELSE {j}
           deps   == [c \in Job |-> IF c \in Dangling \union gone \/ Parent[c] \in gone THEN "none" ELSE dep[c]]
           done   == Deleted(job, gone)
           wakes  == p \in Job /\ dep[j] # "none" /\ Settled(deps, p)
<1>0. TypeOK
  BY DEF IInv
<1>1. /\ job[j].state \notin NoRow /\ Free(gone)
      /\ dep' = deps /\ job' = IF wakes THEN [done EXCEPT ![p] = Woken(done[p], p)] ELSE done
      /\ spoiled' = spoiled \union Met(p) \union {Parent[c] : c \in Dangling}
                      \union {k \in gone : job[k].token # 0}
      /\ happened' = happened \union {"removeJob"} /\ "removeJob" \in Happens
      /\ UNCHANGED <<flow, finishing, parking, runs>>
  BY DEF RemoveJob, Once
<1>2. ASSUME NEW c \in gone
      PROVE  /\ c \in Job /\ job[c].state \notin NoRow
             /\ c # j => Parent[c] \in gone
  <2>1. CASE ~children
    BY <1>1, <2>1
  <2>2. CASE children
    <3> DEFINE status == {"pending", "processed", "failed", "ignored"}
               links == {<<Parent[d], d>> : d \in {e \in Job : dep[e] \in status}}
    <3>1. gone = {k \in Reached(j, links) : job[k].state \notin NoRow}
      BY <2>2 DEF Subtree
    <3>2. c \in Job /\ c \in Reached(j, links) /\ job[c].state \notin NoRow
      BY <3>1 DEF Reached
    <3>3. \A l \in links : l[2] \in Job
      OBVIOUS
    <3>4. ASSUME c # j PROVE Parent[c] \in gone
      <4> HIDE DEF links, gone
      <4>1. PICK l \in links : l[1] \in Reached(j, links) /\ l[2] = c
        BY <3>2, <3>3, <3>4, ReachedBy
      <4>2. dep[c] # "none" /\ Parent[c] \in Reached(j, links)
        BY <4>1 DEF links
      <4>3. job[Parent[c]].state \notin NoRow
        BY <3>2, <4>2 DEF IInv, LinksOK
      <4> QED BY <3>1, <4>2, <4>3
    <3> QED BY <3>2, <3>4
  <2> QED BY <2>1, <2>2
<1>3. j \in gone
  BY <1>1 DEF Subtree, Reached
<1>4. gone \in SUBSET Job /\ \A c \in Job : Parent[c] \in Job \union {NoJob}
  BY <1>0, <1>2, FlowIs
<1>5. /\ done \in [Job -> Rows] /\ \A k \in Job : done[k].claim = job[k].claim
      /\ \A k \in gone : done[k].state = "gone" /\ done[k].token = 0
      /\ \A k \in Job \ gone : done[k] = job[k]
  BY <1>4, DeletedIs DEF IInv
<1> HIDE DEF gone, done
<1>6. /\ job' \in [Job -> Rows] /\ \A k \in Job : job'[k].claim = done[k].claim /\ job'[k].token = done[k].token
      /\ \A k \in Job : done[k].state # "waiting-children" => job'[k] = done[k]
      /\ \A k \in Job : done[k].state = "waiting-children"
                         => job'[k].state \in Places \/ (job'[k] = done[k] /\ ~(k = p /\ wakes))
  <2>1. CASE wakes
    <3>1. done[p] \in Rows
      BY <1>5, <2>1
    <3>2. /\ Woken(done[p], p) \in Rows /\ Woken(done[p], p).claim = done[p].claim
          /\ Woken(done[p], p).token = done[p].token
          /\ done[p].state # "waiting-children" => Woken(done[p], p) = done[p]
          /\ done[p].state = "waiting-children" => Woken(done[p], p).state \in Places
      BY <1>0, <2>1, <3>1, WokenRow
    <3>3. job'[p] = Woken(done[p], p) /\ \A k \in Job \ {p} : job'[k] = done[k]
      BY <1>1, <1>5, <2>1
    <3>4. job' \in [Job -> Rows]
      BY <1>1, <1>5, <2>1, <3>2
    <3> HIDE DEF p, wakes
    <3> QED BY <3>2, <3>3, <3>4
  <2>2. CASE ~wakes
    BY <1>1, <1>5, <2>2
  <2> QED BY <2>1, <2>2
<1>7. /\ \A k \in gone : job'[k].state = "gone" /\ job'[k].token = 0
      /\ \A k \in Job \ gone :
           /\ job'[k].token = job[k].token
           /\ job[k].state # "waiting-children" => job'[k] = job[k]
           /\ job[k].state = "waiting-children"
              => job'[k].state \in Places \/ (job'[k] = job[k] /\ ~(k = p /\ wakes))
  <2> HIDE DEF p, wakes
  <2> QED BY <1>4, <1>5, <1>6
<1>8. /\ deps \in [Job -> Statuses]
      /\ \A c \in Job : dep'[c] = IF c \in Dangling \union gone \/ Parent[c] \in gone THEN "none" ELSE dep[c]
  BY <1>0, <1>1 DEF TypeOK, Statuses
<1>9. \A c \in Dangling : Parent[c] \in Job /\ Parent[c] \in spoiled'
  BY <1>1 DEF Dangling, IInv, LinksOK
<1> HIDE DEF deps, wakes
<1>10. \A t \in Open : Leaves(t)
  <2>1. ASSUME NEW t \in Open
        PROVE  Leaves(t)
    <3>1. t.job \in Job \ gone /\ (t.job \notin spoiled => job[t.job].state = "active")
      BY <1>1, OpenRow, FreeIs
    <3>2. CASE job'[t.job] = job[t.job]
      BY <3>2 DEF Leaves
    <3>3. CASE job'[t.job] # job[t.job]
      BY <1>7, <3>1, <3>3 DEF Leaves, Places, NoRow
    <3> QED BY <3>2, <3>3
  <2> QED BY <2>1
<1>11. ASSUME NEW r \in runs, Holds(r), r.job \notin spoiled'
       PROVE  job'[r.job].state = "active" /\ job'[r.job].token = job[r.job].token
  <2>1. r.job \in Job /\ job[r.job].state = "active" /\ job[r.job].token # 0
    BY <1>1, <1>11, RunIs
  <2>2. r.job \notin gone
    BY <1>1, <1>11, <2>1
  <2> QED BY <1>7, <2>1, <2>2
<1>12. ASSUME NEW k \in Job \ spoiled', Expecting(k)' PROVE Fresh(k) \/ (Expecting(k) /\ Same(k))
  <2>1. k \notin gone
    <3>1. CASE job'[k].state = "waiting-children"
      BY <1>7, <3>1
    <3>2. CASE \E r \in parking : r.job = k
      <4>1. k \notin spoiled
        BY <1>1, <1>12
      <4>2. job[k].token # 0
        BY <3>2, <4>1, ParkedHolds
      <4> QED BY <1>1, <1>12, <4>2
    <3> QED BY <1>1, <1>12, <3>1, <3>2 DEF Expecting
  <2>2. Expecting(k)
    BY <1>1, <1>7, <1>12, <2>1 DEF Expecting
  <2>3. ASSUME NEW c \in Children(k), c \notin gone
        PROVE  /\ c \in Job /\ dep'[c] = dep[c] /\ (Waited(c) => Waited(c)')
    <3>1. c \in Job /\ Parent[c] = k /\ c \notin Dangling
      BY <1>0, <1>9, <1>12, <2>3, ChildIs
    <3>2. dep'[c] = dep[c]
      BY <1>8, <2>1, <2>3, <3>1
    <3> QED BY <1>7, <2>3, <3>1, <3>2 DEF Waited, Unfinished, Places
  <2>4. CASE k = p /\ dep[j] # "none"
    <3>1. k \notin Met(k) /\ k \notin spoiled
      BY <1>1, <1>12, <2>4
    <3>2. job'[k].state = "waiting-children"
      BY <1>1, <1>12, <3>1, NotMet DEF Expecting
    <3>3. ~Settled(deps, p)
      BY <1>7, <2>1, <2>4, <3>2 DEF wakes, Places
    <3>4. PICK c \in Children(k) : deps[c] \notin {"none", "processed", "ignored"}
      BY <2>4, <3>3 DEF Settled
    <3>5. c \in Job /\ dep'[c] # "none" /\ dep'[c] \in {"pending", "failed"}
      BY <1>0, <1>1, <1>8, <3>4, ChildIs DEF Statuses
    <3>6. c \notin gone
      BY <1>8, <3>5
    <3>7. dep[c] \in {"pending", "failed"}
      BY <2>3, <3>5, <3>6
    <3>8. Waited(c)
      BY <1>12, <3>1, <3>7, PendingWaits DEF Waited
    <3>9. Waited(c)'
      BY <2>3, <3>6, <3>8
    <3> QED BY <1>12, <3>1, <3>9, NotMet DEF Fresh
  <2>5. CASE k # p \/ dep[j] = "none"
    <3>1. ASSUME NEW c \in Children(k)
          PROVE  (Waited(c) => Waited(c)') /\ (dep[c] # "none" => dep'[c] # "none")
      <4>1. CASE c \in gone
        <5>1. Parent[c] = k
          BY <1>0, <1>12, ChildIs
        <5>2. c = j /\ k = p
          BY <1>2, <2>1, <4>1, <5>1
        <5> QED BY <2>5, <5>2 DEF Waited
      <4>2. CASE c \notin gone
        BY <2>3, <4>2
      <4> QED BY <4>1, <4>2
    <3> QED BY <2>2, <3>1 DEF Same
  <2> QED BY <2>4, <2>5
<1>13. \A k \in Job :
        /\ dep'[k] # "none" => dep[k] # "none"
        /\ Parent[k] \in Job /\ job[Parent[k]].state # "gone" /\ job'[Parent[k]].state = "gone"
              => dep'[k] = "none"
        /\ k \notin spoiled' /\ dep'[k] \in {"processed", "failed", "ignored"}
              => dep'[k] = dep[k] /\ job'[k].state \in {job[k].state, "gone"}
        /\ dep'[k] = "pending" /\ job'[k].state \in Over
              => Parent[k] \in spoiled' \/ (dep[k] = "pending" /\ job[k].state \in Over)
  <2>1. \A k \in Job : k \notin spoiled' /\ dep[k] \in {"processed", "failed", "ignored"} =>
            job[k].state # "waiting-children"
    BY <1>1 DEF IInv, DepsSay, ChildSays
  <2>2. \A k \in Job : dep'[k] # "none" => dep'[k] = dep[k] /\ k \notin gone /\ Parent[k] \notin gone
    BY <1>8
  <2>3. \A k \in Job \ gone :
          \/ job'[k] = job[k]
          \/ job[k].state = "waiting-children" /\ job'[k].state \in Places
    BY <1>7
  <2>4. \A k \in Job \ gone : job'[k].state \in Over => job'[k] = job[k]
    BY <2>3 DEF Over, Places
  <2>5. ASSUME NEW k \in Job
        PROVE  /\ dep'[k] # "none" => dep[k] # "none"
               /\ Parent[k] \in Job /\ job[Parent[k]].state # "gone" /\ job'[Parent[k]].state = "gone"
                     => dep'[k] = "none"
    BY <2>2, <2>4 DEF Over
  <2>6. ASSUME NEW k \in Job
        PROVE  /\ k \notin spoiled' /\ dep'[k] \in {"processed", "failed", "ignored"}
                     => dep'[k] = dep[k] /\ job'[k].state \in {job[k].state, "gone"}
               /\ dep'[k] = "pending" /\ job'[k].state \in Over
                     => Parent[k] \in spoiled' \/ (dep[k] = "pending" /\ job[k].state \in Over)
    BY <2>1, <2>2, <2>3, <2>4
  <2> QED BY <2>5, <2>6
<1>14. /\ happened' \subseteq Happens /\ spoiled' \subseteq Job /\ spoiled \subseteq spoiled'
       /\ dep' \in [Job -> Statuses]
  <2>1. Met(p) \subseteq Job
    BY DEF Met
  <2> QED BY <1>0, <1>1, <1>4, <1>8, <1>9, <2>1 DEF TypeOK
<1>15. \A k \in Job :
        /\ job'[k].claim = job[k].claim
        /\ (job'[k].state = "none") <=> (job[k].state = "none")
  BY <1>2, <1>5, <1>6, <1>7 DEF NoRow, Places
<1>90. LeasesOK'
  BY <1>7, <1>14, LeasesKeep
<1>91. \A k \in Job : Rests(k)
  <2>1. \A k \in Job : job'[k].state = job[k].state \/ job'[k].state \in Resting
    BY <1>7 DEF Resting
  <2> QED BY <1>15, <2>1, RestsIs
<1> HIDE DEF p, leased
<1> QED BY <1>1, <1>6, <1>10, <1>11, <1>12, <1>13, <1>14, <1>15, <1>90, <1>91, CommandKeeps

LEMMA CleanKeeps ==
  ASSUME IInv, NEW j \in Job, Clean(j)
  PROVE  Kept
<1> DEFINE gone  == Falls(j)
           above == {k \in Job \ gone : \E c \in Children(k) : c \in gone /\ dep[c] # "none"}
           wakes == {k \in above : job[k].state = "waiting-children"
                                   /\ \A c \in Children(k) : c \in gone => Outstanding(k, c) = {}}
           done  == Deleted(job, gone)
<1>0. TypeOK
  BY DEF IInv
<1>1. /\ job[j].state \in {"wait", "prioritized", "delayed", "completed", "failed"}
      /\ Free(gone) /\ \A k \in above : ~Locked(k)
      /\ job' = [k \in Job |-> IF k \in wakes THEN Waits(done[k]) ELSE done[k]]
      /\ dep' = [c \in Job |-> IF Parent[c] \in gone THEN "none"
                               ELSE IF Parent[c] \in above /\ c \in gone \union Dangling THEN "none"
                               ELSE dep[c]]
      /\ spoiled' = spoiled \union ({k \in above : Settled(dep', k)} \ wakes)
                            \union UNION {Met(k) : k \in above}
      /\ happened' = happened \union {"clean"} /\ "clean" \in Happens
      /\ UNCHANGED <<flow, finishing, parking, runs>>
  BY DEF Clean, Once
<1>2. ASSUME NEW k \in gone
      PROVE  /\ k \in Job /\ job[k].state \notin NoRow \union {"active"}
             /\ k \notin spoiled => job[k].token = 0
  <2>1. CASE k = j
    BY <1>1, <2>1, StateIs DEF NoRow
  <2>2. CASE k # j
    <3> DEFINE links == {<<c, Parent[c]>> : c \in {d \in Job : Frees(d, QueueOf[j])}}
    <3>1. k \in Reached(j, links)
      BY DEF Falls
    <3>2. \A l \in links : l[2] \in Job /\ job[l[2]].state = "waiting-children"
      BY DEF Frees
    <3> HIDE DEF links
    <3>3. PICK l \in links : l[2] = k
      BY <2>2, <3>1, <3>2, ReachedBy
    <3> QED BY <3>2, <3>3, StateIs DEF NoRow
  <2> QED BY <2>1, <2>2
<1> HIDE DEF gone
<1>3. /\ gone \in SUBSET Job /\ above \subseteq Job \ gone /\ wakes \subseteq above
      /\ \A k \in wakes : job[k].state = "waiting-children"
  BY <1>2
<1>4. /\ done \in [Job -> Rows] /\ \A k \in Job : done[k].claim = job[k].claim
      /\ \A k \in gone : done[k].state = "gone" /\ done[k].token = 0
      /\ \A k \in Job \ gone : done[k] = job[k]
  BY <1>3, DeletedIs DEF IInv
<1> HIDE DEF done
<1>5. ASSUME NEW k \in wakes
      PROVE  /\ job'[k] \in Rows /\ job'[k].state = "wait" /\ job'[k].claim = job[k].claim
             /\ job'[k].token = job[k].token
  <2>1. k \in Job /\ job'[k] = Waits(job[k]) /\ job[k] \in Rows
    BY <1>1, <1>3, <1>4, StateIs
  <2> QED BY <2>1, MovedRow DEF Waits, Unfinished
<1>6. ASSUME NEW k \in Job \ wakes PROVE job'[k] = done[k]
  BY <1>1
<1>7. \A c \in Job : dep'[c] = IF Parent[c] \in gone THEN "none"
                               ELSE IF Parent[c] \in above /\ c \in gone \union Dangling THEN "none"
                               ELSE dep[c]
  BY <1>1
<1>8. \A c \in gone : dep[c] # "none" => Parent[c] \in gone \union above
  <2>1. \A c \in Job : dep[c] # "none" => Parent[c] \in Job /\ c \in Children(Parent[c])
    BY DEF IInv, LinksOK, Children
  <2> QED BY <1>2, <2>1
<1>9. /\ happened' \subseteq Happens /\ spoiled' \subseteq Job /\ spoiled \subseteq spoiled'
      /\ dep' \in [Job -> Statuses]
      /\ \A k \in above : Met(k) \subseteq spoiled'
      /\ \A k \in above \ wakes : k \notin spoiled' => ~Settled(dep', k)
  <2>1. dep' \in [Job -> Statuses]
    BY <1>0, <1>1 DEF TypeOK, Statuses
  <2>2. UNION {Met(k) : k \in above} \subseteq Job
    BY DEF Met
  <2>3. \A k \in above : Met(k) \subseteq spoiled'
    BY <1>1
  <2>4. \A k \in above \ wakes : k \notin spoiled' => ~Settled(dep', k)
    BY <1>1
  <2> HIDE DEF above, wakes
  <2>5. {k \in above : Settled(dep', k)} \ wakes \subseteq Job
    BY <1>3
  <2> QED BY <1>0, <1>1, <2>1, <2>2, <2>3, <2>4, <2>5 DEF TypeOK
<1>10. ASSUME NEW k \in Job \ spoiled', Expecting(k)' PROVE Fresh(k) \/ (Expecting(k) /\ Same(k))
  <2>1. k \notin gone
    <3>1. CASE job'[k].state = "waiting-children"
      BY <1>3, <1>4, <1>6, <3>1
    <3>2. CASE \E r \in parking : r.job = k
      BY <1>2, <1>9, <1>10, <3>2, ParkedHolds
    <3> QED BY <1>1, <1>10, <3>1, <3>2 DEF Expecting
  <2>2. ASSUME NEW c \in Job \ gone, Waited(c), dep'[c] = dep[c] PROVE Waited(c)'
    BY <1>4, <1>5, <1>6, <2>2 DEF Waited, Unfinished
  <2>3. CASE k \in above
    <3>1. k \notin Met(k) /\ k \notin spoiled
      BY <1>9, <1>10, <2>3
    <3>2. k \notin wakes
      BY <1>1, <1>5, <1>10, <3>1, NotMet DEF Expecting
    <3>3. PICK c \in Children(k) : dep'[c] \notin {"none", "processed", "ignored"}
      BY <1>9, <1>10, <2>3, <3>2 DEF Settled
    <3>4. c \in Job /\ Parent[c] = k
      BY <1>0, ChildIs
    <3>5. c \notin gone /\ dep'[c] = dep[c] /\ dep[c] \in {"pending", "failed"}
      BY <1>7, <1>9, <2>1, <2>3, <3>3, <3>4 DEF Statuses
    <3>6. Waited(c)
      BY <3>1, <3>5, PendingWaits DEF Waited
    <3>7. Waited(c)'
      BY <2>2, <3>4, <3>5, <3>6
    <3> QED BY <3>1, <3>7, NotMet DEF Fresh
  <2>4. CASE k \notin above
    <3>1. Expecting(k)
      BY <1>1, <1>3, <1>4, <1>6, <1>10, <2>1, <2>4 DEF Expecting
    <3>2. ASSUME NEW c \in Children(k)
          PROVE  (Waited(c) => Waited(c)') /\ (dep[c] # "none" => dep'[c] # "none")
      <4>1. c \in Job /\ Parent[c] = k
        BY <1>0, ChildIs
      <4>2. dep'[c] = dep[c] /\ (dep[c] # "none" => c \notin gone)
        BY <1>7, <1>8, <2>1, <2>4, <4>1
      <4> QED BY <2>2, <4>1, <4>2 DEF Waited
    <3> QED BY <3>1, <3>2 DEF Same
  <2> QED BY <2>3, <2>4
<1> HIDE DEF above, wakes
<1>11. \A t \in Open : job'[t.job] = job[t.job]
  <2>1. ASSUME NEW t \in Open
        PROVE  job'[t.job] = job[t.job]
    <3>1. t.job \notin gone \union above
      BY <1>1, FreeIs, NotLocked
    <3> QED BY <1>3, <1>4, <1>6, <3>1, OpenRow
  <2> QED BY <2>1
<1>12. \A r \in runs :
        Holds(r) /\ r.job \notin spoiled' => job'[r.job].state = "active" /\ job'[r.job].token = job[r.job].token
  BY <1>2, <1>3, <1>4, <1>6, <1>9, RunIs
<1>13. \A k \in Job :
        /\ dep'[k] # "none" => dep[k] # "none"
        /\ Parent[k] \in Job /\ job[Parent[k]].state # "gone" /\ job'[Parent[k]].state = "gone"
              => dep'[k] = "none"
        /\ k \notin spoiled' /\ dep'[k] \in {"processed", "failed", "ignored"}
              => dep'[k] = dep[k] /\ job'[k].state \in {job[k].state, "gone"}
        /\ dep'[k] = "pending" /\ job'[k].state \in Over
              => Parent[k] \in spoiled' \/ (dep[k] = "pending" /\ job[k].state \in Over)
  <2>1. \A k \in Job : dep'[k] # "none" => dep'[k] = dep[k] /\ Parent[k] \notin gone /\ k \notin gone
    BY <1>7, <1>8
  <2>2. \A k \in Job \ gone :
          \/ job'[k] = job[k]
          \/ job[k].state = "waiting-children" /\ job'[k].state = "wait"
    BY <1>3, <1>4, <1>5, <1>6
  <2>3. \A k \in Job : k \notin spoiled' /\ dep[k] \in {"processed", "failed", "ignored"} =>
            job[k].state # "waiting-children"
    BY <1>9 DEF IInv, DepsSay, ChildSays
  <2>4. \A k \in Job \ gone : job'[k].state \in Over => job'[k] = job[k]
    BY <2>2 DEF Over
  <2>5. ASSUME NEW k \in Job
        PROVE  /\ dep'[k] # "none" => dep[k] # "none"
               /\ Parent[k] \in Job /\ job[Parent[k]].state # "gone" /\ job'[Parent[k]].state = "gone"
                     => dep'[k] = "none"
    BY <2>1, <2>4 DEF Over
  <2>6. ASSUME NEW k \in Job
        PROVE  /\ k \notin spoiled' /\ dep'[k] \in {"processed", "failed", "ignored"}
                     => dep'[k] = dep[k] /\ job'[k].state \in {job[k].state, "gone"}
               /\ dep'[k] = "pending" /\ job'[k].state \in Over
                     => Parent[k] \in spoiled' \/ (dep[k] = "pending" /\ job[k].state \in Over)
    BY <2>1, <2>2, <2>3, <2>4
  <2> QED BY <2>5, <2>6
<1>14. \A k \in Job :
        /\ job'[k].claim = job[k].claim
        /\ (job'[k].state = "none") <=> (job[k].state = "none")
  <2>1. ASSUME NEW k \in gone PROVE job'[k].state = "gone" /\ job'[k].claim = job[k].claim
    BY <1>2, <1>3, <1>4, <1>6
  <2>2. ASSUME NEW k \in Job \ gone
        PROVE  /\ job'[k].claim = job[k].claim
               /\ job'[k] = job[k] \/ (job[k].state = "waiting-children" /\ job'[k].state = "wait")
    BY <1>3, <1>4, <1>5, <1>6
  <2> QED BY <1>2, <2>1, <2>2 DEF NoRow
<1>15. job' \in [Job -> Rows]
  <2>1. job' = [k \in Job |-> job'[k]]
    BY <1>1
  <2>2. \A k \in Job : job'[k] \in Rows
    BY <1>4, <1>5, <1>6
  <2> QED BY <2>1, <2>2
<1>90. LeasesOK'
  <2>1. \A k \in Job : job'[k].token = 0 \/ (job'[k].token = job[k].token /\ (job[k].state = "active" => job'[k] = job[k]))
    BY <1>3, <1>4, <1>5, <1>6
  <2> QED BY <1>9, <2>1, LeasesKeep
<1>91. \A k \in Job : Rests(k)
  <2>1. \A k \in Job : job'[k] = job[k] \/ job'[k].state \in {"wait", "gone"}
    BY <1>3, <1>4, <1>5, <1>6
  <2> QED BY <1>14, <2>1, RestsIs DEF Resting, Places
<1> QED BY <1>1, <1>9, <1>10, <1>11, <1>12, <1>13, <1>14, <1>15, <1>90, <1>91, CommandKeeps DEF Leaves

LEMMA AddChildKeeps ==
  ASSUME IInv, NEW c \in Job, AddChild(c)
  PROVE  Kept
<1> DEFINE p      == Parent[c]
           table  == IF job[c].state = "none" THEN [job EXCEPT ![c] = Placed(job[c], c)] ELSE job
           status == LinkStatus(table[c].state)
           deps   == [dep EXCEPT ![c] = status]
           wakes  == status # "pending" /\ Settled(deps, p)
<1>0. TypeOK
  BY DEF IInv
<1>1. /\ c \in Late /\ p \in Job /\ dep[c] = "none"
      /\ job[p].state \notin NoRow /\ ~Locked(p) /\ job[c].state # "gone"
      /\ dep' = deps /\ job' = IF wakes THEN [table EXCEPT ![p] = Woken(table[p], p)] ELSE table
      /\ happened' \subseteq happened \union ({"addChild"} \intersect Happens)
      /\ "stall" \in happened' => "stall" \in happened
      /\ spoiled' = spoiled \union Met(p)
      /\ UNCHANGED <<flow, finishing, parking, runs>>
  <2>1. Link(table, c)
    BY DEF AddChild
  <2> HIDE DEF table
  <2>2. dep' = deps /\ job' = IF wakes THEN [table EXCEPT ![p] = Woken(table[p], p)] ELSE table
    BY <2>1 DEF Link
  <2> HIDE DEF deps, wakes
  <2> QED BY <2>2 DEF AddChild, Once
<1>2. p # c
  BY <1>0, FlowIs
<1>3. /\ table \in [Job -> Rows] /\ table[c].state \notin NoRow /\ table[c].claim = job[c].claim
      /\ table[c].token = job[c].token
      /\ \A k \in Job \ {c} : table[k] = job[k]
      /\ table[c] = job[c] \/ (job[c].state = "none" /\ table[c].state \in Places)
  <2>1. CASE job[c].state = "none"
    <3>1. job[c] \in Rows /\ Place[c] \in Places
      BY <1>0, <2>1, StateIs, FlowIs
    <3>2. /\ Placed(job[c], c) \in Rows /\ Placed(job[c], c).state \in Places
          /\ Placed(job[c], c).claim = job[c].claim /\ Placed(job[c], c).token = job[c].token
      BY <3>1, MovedRow DEF Placed, Unfinished, Places
    <3> QED BY <2>1, <3>2 DEF IInv, Places, NoRow
  <2>2. CASE job[c].state # "none"
    BY <1>1, <2>2 DEF IInv, NoRow
  <2> QED BY <2>1, <2>2
<1> HIDE DEF table
<1>4. /\ job' \in [Job -> Rows] /\ \A k \in Job \ {p} : job'[k] = table[k]
      /\ job'[p].claim = job[p].claim /\ job'[p].token = job[p].token
      /\ \/ job'[p] = job[p] /\ (wakes => job[p].state # "waiting-children")
         \/ job[p].state = "waiting-children" /\ job'[p].state \in Places
  <2>1. table[p] = job[p] /\ job[p] \in Rows
    BY <1>1, <1>2, <1>3
  <2>2. CASE wakes
    <3>1. /\ Woken(job[p], p) \in Rows /\ Woken(job[p], p).claim = job[p].claim
          /\ Woken(job[p], p).token = job[p].token
          /\ job[p].state # "waiting-children" => Woken(job[p], p) = job[p]
          /\ job[p].state = "waiting-children" => Woken(job[p], p).state \in Places
      BY <1>0, <1>1, <2>1, WokenRow
    <3>2. job' = [table EXCEPT ![p] = Woken(job[p], p)]
      BY <1>1, <2>1, <2>2
    <3> HIDE DEF wakes, p
    <3> QED BY <1>1, <1>3, <3>1, <3>2
  <2>3. CASE ~wakes
    BY <1>1, <1>3, <2>1, <2>3
  <2> QED BY <2>2, <2>3
<1>5. /\ status \in {"processed", "failed", "pending"} /\ dep' \in [Job -> Statuses]
      /\ dep'[c] = status
      /\ \A k \in Job \ {c} : dep'[k] = dep[k]
      /\ (status = "processed") <=> (job'[c].state = "completed")
      /\ (status = "failed") <=> (job'[c].state = "failed")
  <2>1. job'[c] = table[c]
    BY <1>2, <1>4
  <2>2. /\ status \in {"processed", "failed", "pending"}
        /\ (status = "processed") <=> (table[c].state = "completed")
        /\ (status = "failed") <=> (table[c].state = "failed")
    BY DEF LinkStatus
  <2> HIDE DEF status
  <2> QED BY <1>0, <1>1, <2>1, <2>2 DEF TypeOK, Statuses
<1> HIDE DEF p, wakes, deps, status
<1>6. \A t \in Open :
        /\ job'[t.job] = job[t.job]
        /\ dep'[t.job] # "none" => dep[t.job] # "none" \/ Parent[t.job] \in spoiled'
  <2>1. ASSUME NEW t \in Open
        PROVE  job'[t.job] = job[t.job]
    <3>1. t.job # p /\ t.job \in Job /\ job[t.job].state # "none"
      BY <1>1, OpenRow, NotLocked DEF NoRow
    <3> QED BY <1>3, <1>4, <3>1
  <2>2. ASSUME NEW t \in Open, dep'[t.job] # "none"
        PROVE  dep[t.job] # "none" \/ Parent[t.job] \in spoiled'
    <3>1. CASE t.job = c
      BY <1>1, <3>1 DEF Met, p
    <3>2. CASE t.job # c
      BY <1>5, <2>2, <3>2, OpenRow
    <3> QED BY <3>1, <3>2
  <2> QED BY <2>1, <2>2
<1>7. \A r \in runs :
        Holds(r) /\ r.job \notin spoiled' => job'[r.job].state = "active" /\ job'[r.job].token = job[r.job].token
  BY <1>1, <1>3, <1>4, RunIs
<1>8. ASSUME NEW k \in Job \ spoiled', Expecting(k)' PROVE Expecting(k) /\ Same(k)
  <2>1. Expecting(k)
    BY <1>1, <1>3, <1>4, <1>8 DEF Expecting, Places
  <2>2. ASSUME NEW d \in Children(k) PROVE (Waited(d) => Waited(d)') /\ (dep[d] # "none" => dep'[d] # "none")
    <3>1. d \in Job
      BY <1>0, <1>8, ChildIs
    <3>2. CASE d = c
      BY <1>1, <3>2 DEF Waited
    <3>3. CASE d # c
      BY <1>1, <1>3, <1>4, <1>5, <3>1, <3>3 DEF Waited, Unfinished, Places
    <3> QED BY <3>2, <3>3
  <2> QED BY <2>1, <2>2 DEF Same
<1>9. \A k \in Job :
        /\ job[k].state # "none" => job'[k].state # "none"
        /\ (k \notin Late /\ job[k].state = "none") => job'[k].state = "none"
        /\ job'[k].state = "gone" => job[k].state = "gone"
        /\ job'[k].claim = job[k].claim
        /\ k # c => \/ job'[k] = job[k]
                    \/ job[k].state = "waiting-children" /\ job'[k].state \in Places
  <2>1. \A k \in Job \ {c} : \/ job'[k] = job[k]
                             \/ job[k].state = "waiting-children" /\ job'[k].state \in Places
    BY <1>1, <1>3, <1>4
  <2>2. job'[c] = table[c]
    BY <1>2, <1>4
  <2>3. \A k \in Job : job'[k].claim = job[k].claim
    BY <1>1, <1>2, <1>3, <1>4
  <2> QED BY <1>1, <1>3, <2>1, <2>2, <2>3 DEF Places, NoRow
<1>10. PlantedTogether'
  BY <1>1, <1>9, PlantedKeep
<1>11. LinksOK'
  <2>1. Parent' = Parent
    BY <1>1, SameFlow
  <2>2. ASSUME NEW k \in Job, dep'[k] # "none"
        PROVE  Parent[k] \in Job /\ job'[k].state # "none" /\ job'[Parent[k]].state \notin NoRow
    <3>1. Parent[k] \in Job /\ job[Parent[k]].state \notin NoRow /\ (k # c => job[k].state # "none")
      BY <1>1, <1>5, <2>2 DEF IInv, LinksOK, p
    <3>2. job'[c].state # "none"
      BY <1>2, <1>3, <1>4 DEF NoRow
    <3> QED BY <1>9, <3>1, <3>2 DEF NoRow
  <2> QED BY <2>1, <2>2 DEF LinksOK
<1>12. DepsSay'
  <2>1. Parent' = Parent /\ opt' = opt /\ spoiled \subseteq spoiled'
    BY <1>1, SameFlow
  <2>2. ChildSays(c)'
    <3>1. job'[c].state # "gone"
      BY <1>2, <1>3, <1>4 DEF NoRow
    <3> QED BY <1>5, <3>1 DEF ChildSays, Over
  <2>3. ASSUME NEW k \in Job \ {c} PROVE ChildSays(k)'
    <3>1. ChildSays(k) /\ dep'[k] = dep[k]
      BY <1>5 DEF IInv, DepsSay
    <3>2. \/ job'[k] = job[k]
          \/ job[k].state = "waiting-children" /\ job'[k].state \notin Over
      BY <1>9 DEF Places, Over
    <3>3. k \notin spoiled' => k \notin spoiled
      BY <2>1
    <3>4. CASE job'[k] = job[k]
      BY <2>1, <3>1, <3>3, <3>4 DEF ChildSays
    <3>5. CASE job[k].state = "waiting-children" /\ job'[k].state \notin Over
      BY <2>1, <3>1, <3>3, <3>5 DEF ChildSays
    <3> QED BY <3>2, <3>4, <3>5
  <2> QED BY <2>2, <2>3 DEF DepsSay
<1>13. /\ happened' \subseteq Happens /\ spoiled' \subseteq Job /\ spoiled \subseteq spoiled'
  BY <1>0, <1>1 DEF TypeOK, Met
<1>14. \A k \in Job : job'[k].claim = job[k].claim
  BY <1>9
<1>90. LeasesOK'
  <2>1. \A k \in Job : job'[k].token = job[k].token /\ (job[k].state = "active" => job'[k] = job[k])
    BY <1>1, <1>2, <1>3, <1>4
  <2> QED BY <1>13, <2>1, LeasesKeep
<1>91. \A k \in Job : Rests(k)
  <2>1. \A k \in Job : job'[k] = job[k] \/ job'[k].state \in Places
    BY <1>1, <1>2, <1>3, <1>4
  <2> QED BY <1>14, <2>1, RestsIs DEF Resting
<1> QED BY <1>1, <1>4, <1>5, <1>6, <1>7, <1>8, <1>10, <1>11, <1>12, <1>13, <1>14, <1>90, <1>91, StepKeeps DEF Leaves

LEMMA AddKeeps ==
  ASSUME IInv, NEW root \in Job, Add(root)
  PROVE  Kept
<1> DEFINE nodes == InFlow(root)
           links == {<<Parent[c], c>> : c \in Job \ Late}
<1>0. TypeOK
  BY DEF IInv
<1>1. /\ Parent[root] = NoJob /\ job[root].state = "none" /\ Planted(nodes)
      /\ UNCHANGED <<flow, finishing, parking, runs, happened, spoiled>>
  BY DEF Add
<1>2. ASSUME NEW k \in nodes
      PROVE  /\ k \in Job /\ job[k].state = "none" /\ dep[k] = "none"
             /\ k # root => k \notin Late /\ Parent[k] \in nodes
  <2> DEFINE S == {m \in Job : job[m].state = "none"}
  <2>1. k \in Reached(root, links) /\ k \in Job
    BY DEF InFlow, Reached
  <2>2. root \in S /\ \A l \in links : l[1] \in S => l[2] \in S
    BY <1>1 DEF IInv, PlantedTogether
  <2>3. k \in S
    <3> HIDE DEF S, links
    <3>1. S \in SUBSET Job
      BY DEF S
    <3> QED BY <2>1, <2>2, <3>1 DEF Reached
  <2>4. ASSUME k # root PROVE k \notin Late /\ Parent[k] \in nodes
    <3>1. \A l \in links : l[2] \in Job
      OBVIOUS
    <3> HIDE DEF links
    <3>2. PICK l \in links : l[1] \in Reached(root, links) /\ l[2] = k
      BY <2>1, <2>4, <3>1, ReachedBy
    <3>3. k \notin Late /\ l[1] = Parent[k]
      BY <3>2 DEF links
    <3> QED BY <3>2, <3>3 DEF InFlow, links
  <2>5. job[k].state = "none" /\ dep[k] = "none"
    BY <2>1, <2>3 DEF IInv, LinksOK
  <2> QED BY <2>1, <2>4, <2>5
<1> HIDE DEF nodes
<1>3. /\ \A k \in Job \ nodes : job'[k] = job[k] /\ dep'[k] = dep[k]
      /\ \A k \in Job : Parent[k] \notin nodes => dep'[k] = dep[k]
      /\ \A k \in nodes : Parent[k] \in nodes => dep'[k] = "pending"
      /\ job' = [k \in Job |-> job'[k]] /\ dep' \in [Job -> Statuses]
  BY <1>0, <1>1, <1>2 DEF Planted, TypeOK, Statuses
<1>4. ASSUME NEW k \in nodes
      PROVE  /\ job'[k] \in Rows /\ job'[k].claim = job[k].claim /\ job'[k].token = job[k].token
             /\ job'[k].state \in Places \union {"waiting-children"}
             /\ job'[k].state = "waiting-children" => Children(k) \intersect nodes # {}
  <2>1. k \in Job /\ job[k] \in Rows /\ Place[k] \in Places
    BY <1>0, <1>2, StateIs, FlowIs
  <2>2. CASE Children(k) \intersect nodes # {}
    <3>1. job'[k] = [job[k] EXCEPT !.state = "waiting-children"]
      BY <1>1, <2>1, <2>2 DEF Planted
    <3> QED BY <2>1, <2>2, <3>1, MovedRow DEF Unfinished
  <2>3. CASE Children(k) \intersect nodes = {}
    <3>1. job'[k] = Placed(job[k], k)
      BY <1>1, <2>1, <2>3 DEF Planted
    <3>2. Place[k] \in NoRow \union Unfinished \union Over
      BY <2>1 DEF Places, Unfinished
    <3>3. /\ job'[k] \in Rows /\ job'[k].claim = job[k].claim /\ job'[k].token = job[k].token
          /\ job'[k].state = Place[k]
      BY <2>1, <3>1, <3>2, MovedRow DEF Placed
    <3> QED BY <2>1, <3>3 DEF Places
  <2> QED BY <2>2, <2>3
<1>5. job' \in [Job -> Rows] /\ \A k \in Job : job'[k].claim = job[k].claim
  BY <1>3, <1>4 DEF IInv
<1>6. \A k \in Job : job[k].state # "none" => job'[k] = job[k] /\ dep'[k] = dep[k]
  BY <1>2, <1>3
<1>7. \A t \in Open :
        /\ job'[t.job] = job[t.job]
        /\ dep'[t.job] # "none" => dep[t.job] # "none" \/ Parent[t.job] \in spoiled'
  BY <1>6, OpenRow DEF NoRow
<1>8. \A r \in runs :
        Holds(r) /\ r.job \notin spoiled' => job'[r.job].state = "active" /\ job'[r.job].token = job[r.job].token
  BY <1>1, <1>6, RunIs
<1>9. ASSUME NEW k \in Job \ spoiled', Expecting(k)' PROVE Fresh(k) \/ (Expecting(k) /\ Same(k))
  <2>1. CASE k \in nodes
    <3>1. job'[k].state = "waiting-children"
      BY <1>1, <1>2, <1>9, <2>1, ParkedHolds DEF Expecting
    <3>2. PICK c \in Children(k) : c \in nodes
      BY <1>4, <2>1, <3>1
    <3>3. dep'[c] = "pending" /\ job'[c].state \in Unfinished
      BY <1>0, <1>3, <1>4, <1>9, <2>1, <3>2, ChildIs DEF Places, Unfinished
    <3>4. \A t \in Open : t.job # c
      BY <1>2, <3>2, OpenRow DEF NoRow
    <3> QED BY <3>3, <3>4 DEF Fresh, Waited
  <2>2. CASE k \notin nodes
    <3>1. Expecting(k)
      BY <1>1, <1>3, <1>9, <2>2 DEF Expecting
    <3>2. ASSUME NEW c \in Children(k) PROVE (Waited(c) => Waited(c)') /\ (dep[c] # "none" => dep'[c] # "none")
      <4>1. c \in Job /\ Parent[c] = k
        BY <1>0, <1>9, ChildIs
      <4>2. dep'[c] = dep[c] /\ (dep[c] # "none" => job'[c] = job[c])
        BY <1>2, <1>3, <2>2, <4>1
      <4> QED BY <4>2 DEF Waited
    <3> QED BY <3>1, <3>2 DEF Same
  <2> QED BY <2>1, <2>2
<1>10. LinksOK'
  <2>1. Parent' = Parent
    BY <1>1, SameFlow
  <2>2. ASSUME NEW c \in Job, dep'[c] # "none"
        PROVE  Parent[c] \in Job /\ job'[c].state # "none" /\ job'[Parent[c]].state \notin NoRow
    <3>1. CASE c \in nodes
      <4>1. Parent[c] \in nodes
        BY <1>2, <1>3, <2>2, <3>1
      <4> QED BY <1>2, <1>4, <3>1, <4>1 DEF Places, NoRow
    <3>2. CASE c \notin nodes
      BY <1>3, <1>6, <2>2, <3>2 DEF IInv, LinksOK, NoRow
    <3> QED BY <3>1, <3>2
  <2> QED BY <2>1, <2>2 DEF LinksOK
<1>11. PlantedTogether'
  <2>1. Parent' = Parent /\ Late' = Late
    BY <1>1, SameFlow
  <2>2. ASSUME NEW k \in Job \ Late, Parent[k] \in Job, job'[Parent[k]].state = "none"
        PROVE  job'[k].state = "none"
    <3>1. Parent[k] \notin nodes /\ job[Parent[k]].state = "none"
      BY <1>3, <1>4, <2>2 DEF Places
    <3>2. job[k].state = "none"
      BY <2>2, <3>1 DEF IInv, PlantedTogether
    <3>3. k \notin nodes
      BY <1>1, <1>2, <2>2, <3>1, Bounds
    <3> QED BY <1>3, <3>2, <3>3
  <2> QED BY <2>1, <2>2 DEF PlantedTogether
<1>12. DepsSay'
  <2>1. \A c \in Job : dep'[c] \in {"processed", "failed", "ignored"} => dep'[c] = dep[c] /\ job'[c] = job[c]
    <3>1. \A c \in nodes : dep'[c] \in {"none", "pending"}
      BY <1>2, <1>3
    <3> QED BY <1>3, <3>1
  <2>2. \A c \in Job : job'[c].state \in Over /\ dep'[c] = "pending" => job'[c] = job[c] /\ dep[c] = "pending"
    <3>1. \A c \in nodes : job'[c].state \notin Over
      BY <1>4 DEF Over, Places
    <3> QED BY <1>3, <3>1
  <2> QED BY <1>1, <2>1, <2>2, DepsKeep
<1>13. happened' \subseteq Happens /\ spoiled' \subseteq Job
  BY <1>0, <1>1 DEF TypeOK
<1>90. LeasesOK'
  <2>1. \A k \in Job : job'[k].token = job[k].token /\ (job[k].state = "active" => job'[k] = job[k])
    BY <1>2, <1>3, <1>4
  <2> QED BY <1>1, <2>1, LeasesKeep
<1>91. \A k \in Job : Rests(k)
  <2>1. \A k \in Job : job'[k] = job[k] \/ job'[k].state \in Resting
    BY <1>3, <1>4 DEF Resting
  <2> QED BY <1>5, <2>1, RestsIs
<1> QED BY <1>1, <1>3, <1>5, <1>7, <1>8, <1>9, <1>10, <1>11, <1>12, <1>13, <1>90, <1>91, StepKeeps DEF Leaves

LEMMA ParkKeeps ==
  ASSUME IInv, NEW r \in runs, Park(r)
  PROVE  Kept
<1> DEFINE k == r.job
<1>0. TypeOK
  BY DEF IInv
<1>1. /\ r \in parking /\ ~Locked(k) /\ k \in Job
      /\ job' = IF job[k].state \in NoRow THEN job
                ELSE [job EXCEPT ![k] = [Released(job[k]) EXCEPT !.state = "waiting-children"]]
      /\ parking' = parking \ {r} /\ Ends(r) /\ runs' = runs \ {r}
      /\ UNCHANGED <<flow, dep, finishing, happened, spoiled>>
  BY RunIs DEF Park, Ends
<1> HIDE DEF k
<1>2. /\ job' \in [Job -> Rows] /\ job'[k].claim = job[k].claim
      /\ \/ job'[k] = job[k]
         \/ job[k].state \notin NoRow /\ job'[k].state = "waiting-children" /\ job'[k].token = 0
      /\ \A j \in Job \ {k} : job'[j] = job[j]
  <2>1. CASE job[k].state \in NoRow
    BY <1>1, <2>1 DEF IInv
  <2>2. CASE job[k].state \notin NoRow
    <3> DEFINE row == job[k]
               new == [Released(row) EXCEPT !.state = "waiting-children"]
    <3>1. row \in Rows
      BY <1>1, StateIs
    <3> HIDE DEF row
    <3>2. new = [state |-> "waiting-children", claim |-> row.claim, token |-> 0, deferred |-> row.deferred]
      <4>1. row = [state |-> row.state, claim |-> row.claim, token |-> row.token, deferred |-> row.deferred]
        BY <3>1, RowIs
      <4>2. Released(row) = [state |-> row.state, claim |-> row.claim, token |-> 0, deferred |-> row.deferred]
        BY <4>1 DEF Released
      <4> QED BY <4>2
    <3>3. new \in Rows /\ new.state = "waiting-children" /\ new.claim = row.claim /\ new.token = 0
      <4>1. "waiting-children" \in NoRow \union Unfinished \union Over /\ row.deferred \in BOOLEAN
        BY <3>1, RowIs DEF Unfinished
      <4> HIDE DEF new
      <4> QED BY <3>1, <3>2, <4>1, ReleasedRow
    <3>4. job' = [job EXCEPT ![k] = new]
      BY <1>1, <2>2 DEF row
    <3> HIDE DEF new
    <3> QED BY <1>1, <2>2, <3>3, <3>4 DEF IInv, row
  <2> QED BY <2>1, <2>2
<1>3. ASSUME NEW s \in runs', s.job = k, Holds(s) PROVE k \in spoiled
  <2>1. ASSUME k \notin spoiled PROVE FALSE
    <3>1. Holds(r)
      BY <1>1, <2>1, ParkedHolds DEF k
    <3>2. s.job = r.job /\ s.claim = r.claim /\ s \in runs
      BY <1>1, <1>3, <3>1 DEF Holds, k
    <3>3. s = r
      BY <3>2 DEF IInv, RunsOK
    <3> QED BY <1>1, <3>3
  <2> QED BY <2>1
<1>4. \A t \in Open :
        /\ job'[t.job] = job[t.job]
        /\ dep'[t.job] # "none" => dep[t.job] # "none" \/ Parent[t.job] \in spoiled'
        /\ \A s \in runs' : s.job = t.job => ~Holds(s)'
  <2>1. ASSUME NEW t \in Open
        PROVE  job'[t.job] = job[t.job]
    BY <1>1, <1>2, OpenRow, NotLocked
  <2> QED BY <1>1, <2>1, OpenRow DEF Holds
<1>5. RunsOK' /\ runs' \subseteq RunType
  <2>1. \A j \in Job : job[j].claim =< job'[j].claim
    BY <1>2, RowIs, Bounds DEF IInv
  <2> QED BY <1>1, <1>2, <2>1, RunsKeep
<1>6. ASSUME NEW s \in runs', Holds(s), s.job \notin spoiled'
      PROVE  s \in runs /\ s.job \in Job /\ job'[s.job] = job[s.job] /\ job[s.job].state = "active"
  <2>1. s \in runs /\ s.job # k /\ s.job \notin spoiled
    BY <1>1, <1>3, <1>6
  <2> QED BY <1>2, <1>6, <2>1, RunIs
<1>7. ParkedOK'
  <2>1. Parent' = Parent /\ Open' = Open
    BY <1>1, SameFlow DEF Open
  <2>2. ASSUME NEW s \in parking', s.job \notin spoiled'
        PROVE  job'[s.job].state = "active" /\ Holds(s)' /\ \A t \in Open : ~On(t, s.job)
    <3>1. Holds(s) /\ s \in runs' /\ \A t \in Open : ~On(t, s.job)
      BY <1>0, <1>1, <2>2 DEF IInv, ParkedOK, TypeOK
    <3> QED BY <1>6, <2>2, <3>1 DEF Holds
  <2> QED BY <2>1, <2>2 DEF ParkedOK, On
<1>8. LinksOK' /\ PlantedTogether'
  <2>1. \A j \in Job : /\ job[j].state # "none" => job'[j].state # "none"
                       /\ (j \notin Late /\ job[j].state = "none") => job'[j].state = "none"
                       /\ job'[j].state = "gone" => job[j].state = "gone"
    BY <1>1, <1>2 DEF NoRow
  <2> QED BY <1>1, <2>1, StatesKeep
<1>9. DepsSay'
  <2>1. k \notin spoiled => job[k].state = "active" /\ dep[k] \notin {"processed", "failed", "ignored"}
    <3>1. ASSUME k \notin spoiled PROVE job[k].state = "active"
      BY <1>1, <3>1, ParkedHolds DEF k
    <3> QED BY <1>1, <3>1 DEF IInv, DepsSay, ChildSays
  <2>2. \A c \in Job : c \notin spoiled' /\ dep'[c] \in {"processed", "failed", "ignored"}
                         => dep'[c] = dep[c] /\ job'[c].state \in {job[c].state, "gone"}
    BY <1>1, <1>2, <2>1
  <2>3. \A c \in Job : dep'[c] = "pending" /\ job'[c].state \in Over
                         => Parent[c] \in spoiled' \/ (dep[c] = "pending" /\ job[c].state \in Over)
    BY <1>1, <1>2 DEF Over
  <2> QED BY <1>1, <2>2, <2>3, DepsKeep
<1>10. ASSUME NEW p \in Job \ spoiled', Expecting(p)' PROVE Expecting(p) /\ Same(p)
  <2>1. Expecting(p)
    <3>1. CASE p = k
      BY <1>1, <3>1 DEF Expecting, k
    <3>2. CASE p # k
      BY <1>1, <1>2, <1>10, <3>2 DEF Expecting
    <3> QED BY <3>1, <3>2
  <2>2. \A c \in Children(p) : Waited(c) => Waited(c)'
    BY <1>0, <1>1, <1>2, ChildIs DEF Waited, Unfinished
  <2> QED BY <1>1, <2>1, <2>2 DEF Same
<1>11. /\ dep' \in [Job -> Statuses] /\ happened' \subseteq Happens /\ spoiled' \subseteq Job
       /\ parking' \subseteq runs'
  BY <1>0, <1>1 DEF TypeOK
<1>90. LeasesOK'
  BY <1>1, <1>2, LeasesKeep
<1>91. \A j \in Job : Rests(j)
  BY <1>2, RestsIs DEF Resting
<1>12. IInv' /\ First
  BY <1>1, <1>2, <1>4, <1>5, <1>7, <1>8, <1>9, <1>10, <1>11, <1>90, <1>91, RowsKeep DEF Leaves
<1>13. Spares
  BY <1>6 DEF Spares, Holds
<1> QED BY <1>12, <1>13 DEF Kept

\* A worker learns something, or a job is about to wait for its children, and no row changes.
LEMMA WorkersKeep ==
  ASSUME IInv, UNCHANGED <<job, flow, dep, finishing, happened>>,
         spoiled \subseteq spoiled', spoiled' \subseteq Job,
         parking' \subseteq runs',
         \/ runs' = runs
         \/ \E r \in runs : Ends(r) \/ Fails(r),
         \A r \in parking' \ parking :
           /\ Holds(r) /\ job[r.job].state = "active"
           /\ r.job \notin spoiled' => Fresh(r.job) /\ \A t \in Open : ~On(t, r.job)
  PROVE  Kept
<1>0. TypeOK /\ job' \in [Job -> Rows]
  BY DEF IInv
<1>1. Parent' = Parent /\ Open' = Open
  BY SameFlow DEF Open
<1>2. RunsOK' /\ runs' \subseteq RunType
  <2>1. \A j \in Job : job[j].claim =< job'[j].claim
    BY RowIs, Bounds DEF IInv
  <2> QED BY <1>0, <2>1, RunsKeep
<1>3. \A s \in runs' : \E r \in runs : r.job = s.job /\ r.claim = s.claim
  BY DEF Ends, Fails, IInv, TypeOK
<1>4. \A s : Holds(s)' <=> Holds(s)
  BY DEF Holds
<1>5. \A t \in Open :
        /\ Leaves(t)
        /\ dep'[t.job] # "none" => dep[t.job] # "none" \/ Parent[t.job] \in spoiled'
        /\ \A s \in runs' : s.job = t.job => ~Holds(s)'
  <2>1. ASSUME NEW t \in Open, NEW s \in runs', s.job = t.job PROVE ~Holds(s)'
    <3>1. PICK r \in runs : r.job = s.job /\ r.claim = s.claim
      BY <1>3
    <3>2. ~Holds(r)
      BY <2>1, <3>1, OpenRow
    <3> QED BY <1>4, <3>1, <3>2 DEF Holds
  <2> QED BY <2>1 DEF Leaves
<1>6. ParkedOK'
  <2>1. ASSUME NEW r \in parking', r.job \notin spoiled'
        PROVE  job'[r.job].state = "active" /\ Holds(r)' /\ \A t \in Open : ~On(t, r.job)
    <3>1. CASE r \in parking
      <4>1. r.job \notin spoiled
        BY <2>1
      <4> QED BY <1>4, <3>1, <4>1 DEF IInv, ParkedOK
    <3>2. CASE r \notin parking
      BY <1>4, <2>1, <3>2
    <3> QED BY <3>1, <3>2
  <2> QED BY <1>1, <2>1 DEF ParkedOK, On
<1>7. LinksOK' /\ PlantedTogether'
  BY StatesKeep
<1>8. DepsSay'
  BY DepsKeep
<1>9. ASSUME NEW p \in Job \ spoiled', Expecting(p)' PROVE Fresh(p) \/ (Expecting(p) /\ Same(p))
  <2>1. Same(p)
    BY DEF Same, Waited
  <2>2. CASE Expecting(p)
    BY <2>1, <2>2
  <2>3. CASE ~Expecting(p)
    BY <1>9, <2>3 DEF Expecting
  <2> QED BY <2>2, <2>3
<1>10. dep' \in [Job -> Statuses] /\ happened' \subseteq Happens
  BY <1>0 DEF TypeOK
<1>13. LeasesOK'
  BY LeasesKeep
<1>14. \A j \in Job : Rests(j)
  BY StateIs DEF Rests
<1>11. IInv' /\ First
  BY <1>0, <1>2, <1>5, <1>6, <1>7, <1>8, <1>9, <1>10, <1>13, <1>14, RowsKeep
<1>12. Spares
  BY <1>4 DEF Spares
<1> QED BY <1>11, <1>12 DEF Kept

LEMMA MoveToWaitingChildrenKeeps ==
  ASSUME IInv, NEW r \in runs, MoveToWaitingChildren(r)
  PROVE  Kept
<1> DEFINE p       == r.job
           status  == {dep[c] : c \in Children(p)}
           allowed == Holds(r) /\ job[p].state = "active" /\ "failed" \notin status
<1>1. /\ r \in runs \ parking /\ ~r.failing
      /\ "pending" \in status \/ ~allowed
      /\ IF allowed THEN parking' = parking \union {r} /\ UNCHANGED runs
                    ELSE Fails(r) /\ UNCHANGED parking
      /\ spoiled' = spoiled \union Met(p)
      /\ UNCHANGED <<job, flow, dep, finishing, happened>>
  BY DEF MoveToWaitingChildren
<1>2. p \in Job /\ spoiled \subseteq spoiled' /\ spoiled' \subseteq Job /\ parking \subseteq runs
  BY <1>1, RunIs DEF Met, IInv, TypeOK
<1>3. CASE allowed
  <2>1. parking' \subseteq runs' /\ runs' = runs /\ parking' \ parking \subseteq {r}
    BY <1>1, <1>2, <1>3
  <2>2. ASSUME p \notin spoiled' PROVE Fresh(p) /\ \A t \in Open : ~On(t, p)
    <3>1. p \notin spoiled /\ p \notin Met(p)
      BY <1>1, <2>2
    <3>2. PICK c \in Children(p) : dep[c] = "pending"
      BY <1>1, <1>3
    <3>3. Waited(c)'
      BY <1>1, <1>2, <3>1, <3>2, PendingWaits DEF Waited
    <3> QED BY <1>2, <3>1, <3>2, <3>3, NotMet DEF Fresh, On
  <2> QED BY <1>1, <1>2, <1>3, <2>1, <2>2, WorkersKeep
<1>4. CASE ~allowed
  <2>1. parking' \subseteq runs' /\ Fails(r) /\ parking' \ parking = {}
    BY <1>1, <1>2, <1>4 DEF Fails
  <2> QED BY <1>1, <1>2, <2>1, WorkersKeep
<1> QED BY <1>3, <1>4

\* The transaction that emq_move_to_finished_v1 opens for the job j.
Opened(j, target, keep) ==
  [job |-> j, target |-> target, keep |-> keep, linked |-> dep[j] # "none",
   dep |-> Resolved(j, target, keep), arms |-> Arms(j, target),
   forces |-> Forces(j, target), wakes |-> Wakes(j, target, keep), seen |-> Seen(j)]

LEMMA ResolvedIs ==
  ASSUME IInv, NEW j \in Job, NEW target \in {"completed", "failed"}, NEW keep \in BOOLEAN
  PROVE  /\ Resolved(j, target, keep) \in Statuses \ {"pending"}
         /\ dep[j] = "none" => Resolved(j, target, keep) = "none"
         /\ target = "completed" => Resolved(j, target, keep) \in {"none", "processed"}
         /\ Resolved(j, target, keep) = "processed" => target = "completed" \/ dep[j] = "processed"
         /\ Resolved(j, target, keep) = "ignored" => opt[j] \in {"idof", "cpof"} \/ dep[j] = "ignored"
<1>1. dep[j] \in Statuses
  BY DEF IInv, TypeOK
<1> DEFINE new == Resolved(j, target, keep)
<1>2. CASE dep[j] = "none"
  BY <1>2 DEF Resolved, Statuses
<1>3. CASE dep[j] # "none" /\ target = "completed"
  BY <1>3 DEF Resolved, Statuses
<1>4. CASE dep[j] # "none" /\ target = "failed"
  <2>1. CASE opt[j] = "rdof"
    BY <1>4, <2>1 DEF Resolved, Statuses
  <2>2. CASE opt[j] # "rdof" /\ opt[j] \in {"idof", "cpof"}
    BY <1>4, <2>2 DEF Resolved, Statuses
  <2>3. CASE opt[j] # "rdof" /\ opt[j] \notin {"idof", "cpof"} /\ dep[j] = "pending"
    <3>1. new \in {"none", "failed"}
      BY <1>4, <2>3 DEF Resolved
    <3> QED BY <1>4, <2>3, <3>1 DEF Statuses
  <2>4. CASE opt[j] # "rdof" /\ opt[j] \notin {"idof", "cpof"} /\ dep[j] # "pending"
    <3>1. new = dep[j]
      BY <1>4, <2>4 DEF Resolved
    <3> QED BY <1>1, <1>4, <2>4, <3>1 DEF Statuses
  <2> QED BY <2>1, <2>2, <2>3, <2>4
<1> QED BY <1>2, <1>3, <1>4

\* What a transaction is when it opens.
LEMMA OpenedIs ==
  ASSUME IInv, NEW j \in Job, NEW target \in {"completed", "failed"}, NEW keep \in BOOLEAN,
         job[j].state \notin NoRow, j \notin spoiled => job[j].state = "active",
         NEW t, t = Opened(j, target, keep)
  PROVE  t \in Transaction /\ t # Nothing /\ t.job = j /\ t.target = target /\ TransactionOK(t)
<1>1. /\ t.job = j /\ t.target = target /\ t.linked = (dep[j] # "none")
      /\ t.dep = Resolved(j, target, keep) /\ t.arms = Arms(j, target)
      /\ t.forces = Forces(j, target) /\ t.wakes = Wakes(j, target, keep) /\ t.seen = Seen(j)
  BY DEF Opened
<1>2. t \in Transaction
  <2>1. Resolved(j, target, keep) \in Statuses
    BY ResolvedIs
  <2>2. /\ Arms(j, target) \in BOOLEAN /\ Forces(j, target) \in BOOLEAN
        /\ Wakes(j, target, keep) \in BOOLEAN /\ (dep[j] # "none") \in BOOLEAN
    BY DEF Arms, Forces, Wakes
  <2>4. Seen(j) \in 0 .. MaxClaims
    <3>1. \A k \in Job : job[k].claim \in 0 .. MaxClaims
      BY RowIs DEF IInv
    <3> QED BY <3>1, Bounds DEF Seen
  <2> HIDE DEF Transaction
  <2>3. t = [job |-> j, target |-> target, keep |-> keep, linked |-> dep[j] # "none",
             dep |-> Resolved(j, target, keep), arms |-> Arms(j, target),
             forces |-> Forces(j, target), wakes |-> Wakes(j, target, keep), seen |-> Seen(j)]
    BY DEF Opened
  <2> QED BY <2>1, <2>2, <2>3, <2>4 DEF Transaction
<1>3. t # Nothing
  BY <1>1, Bounds DEF Nothing
<1>4. t.dep # "pending"
  BY <1>1, ResolvedIs
<1>5. t.forces => /\ t.arms /\ t.seen =< job[Parent[t.job]].claim
                  /\ job[Parent[t.job]].state \in Resting
  <2>1. ASSUME t.forces
        PROVE  /\ Arms(j, target) /\ Parent[j] \in Job
               /\ job[Parent[j]].state \in {"waiting-children", "delayed"}
    BY <1>1, <2>1 DEF Forces, Arms
  <2>2. ASSUME t.forces PROVE t.seen =< job[Parent[j]].claim
    BY <1>1, <2>1, <2>2, StateIs DEF Seen
  <2> QED BY <1>1, <2>1, <2>2 DEF Resting, Places
<1>6. t.wakes => ~t.arms
  BY <1>1 DEF Wakes, Forces
<1>7. t.arms => Parent[t.job] \in Job
  BY <1>1 DEF Arms
<1>8. j \notin spoiled => dep[j] \notin {"processed", "failed", "ignored"}
  BY DEF IInv, DepsSay, ChildSays
<1>9. t.job \notin spoiled =>
       /\ t.dep = "processed" => t.target = "completed"
       /\ t.dep \in {"failed", "ignored"} => t.target = "failed"
       /\ t.dep = "ignored" => opt[t.job] \in {"idof", "cpof"}
  BY <1>1, <1>8, ResolvedIs
<1>10. ~t.linked => dep[t.job] = "none"
  BY <1>1
<1> QED BY <1>1, <1>2, <1>3, <1>4, <1>5, <1>6, <1>7, <1>9, <1>10 DEF TransactionOK

\* A transaction on a parent that waits for something provides.
LEMMA OpenedProvides ==
  ASSUME IInv, NEW j \in Job, NEW target \in {"completed", "failed"}, NEW keep \in BOOLEAN,
         NEW t, t = Opened(j, target, keep),
         Parent[j] \in Job \ spoiled, job[Parent[j]].state = "waiting-children",
         \E c \in Children(Parent[j]) : Waited(c)
  PROVE  Provides(t, Parent[j])
<1> DEFINE p    == Parent[j]
           new  == Resolved(j, target, keep)
           deps == [dep EXCEPT ![j] = new]
<1>1. /\ t.job = j /\ t.linked = (dep[j] # "none") /\ t.dep = new
      /\ t.forces = Forces(j, target) /\ t.wakes = Wakes(j, target, keep)
  BY DEF Opened
<1>2. SUFFICES ASSUME ~Forces(j, target), ~Wakes(j, target, keep), \A c \in Children(p) \ {j} : ~Waited(c)
               PROVE  new = "failed" /\ dep[j] # "none"
  BY <1>1 DEF Provides
<1>3. Waited(j)
  BY <1>2
<1>4. dep[j] # "none"
  BY <1>3 DEF Waited
<1>5. ~Settled(deps, p)
  BY <1>2, <1>4 DEF Wakes
<1>6. PICK c \in Children(p) : deps[c] \notin {"none", "processed", "ignored"}
  BY <1>5 DEF Settled
<1>7. c \in Job /\ dep \in [Job -> Statuses]
  BY <1>6, ChildIs DEF IInv, TypeOK
<1>8. CASE c # j
  <2>1. dep[c] \in {"pending", "failed"}
    BY <1>6, <1>7, <1>8 DEF Statuses
  <2>2. Waited(c)
    BY <1>6, <2>1, PendingWaits DEF Waited
  <2> QED BY <1>2, <1>6, <1>8, <2>2
<1>9. CASE c = j
  <2>1. new \in Statuses \ {"pending"}
    BY ResolvedIs
  <2>2. deps[c] = new
    BY <1>7, <1>9
  <2> QED BY <1>4, <1>6, <2>1, <2>2 DEF Statuses
<1> QED BY <1>8, <1>9

LEMMA MoveToFinishedKeeps ==
  ASSUME IInv, NEW r \in runs, NEW target \in {"completed", "failed"}, NEW keep \in BOOLEAN,
         MoveToFinished(r, target, keep)
  PROVE  Kept
<1> DEFINE j == r.job
           q == QueueOf[j]
           t == Opened(j, target, keep)
<1>0. TypeOK
  BY DEF IInv
<1>1. /\ r \in runs \ parking /\ finishing[q] = Nothing /\ j \in Job /\ q \in Queue
      /\ UNCHANGED <<job, flow, dep, parking, happened>>
  BY <1>0, RunIs, FlowIs DEF MoveToFinished
<1>2. \/ (Ends(r) \/ Fails(r)) /\ UNCHANGED <<finishing, spoiled>>
      \/ /\ Holds(r) /\ Accepts(r, target) /\ Ends(r)
         /\ finishing' = [finishing EXCEPT ![q] = t]
         /\ spoiled' = spoiled \union Met(Parent[j])
  <2>1. CASE ~Holds(r)
    BY <2>1 DEF MoveToFinished
  <2>2. CASE Holds(r) /\ ~Accepts(r, target)
    BY <2>2 DEF MoveToFinished
  <2>3. CASE Holds(r) /\ Accepts(r, target)
    BY <2>3 DEF MoveToFinished, Opened
  <2> QED BY <2>1, <2>2, <2>3
<1>3. CASE (Ends(r) \/ Fails(r)) /\ UNCHANGED <<finishing, spoiled>>
  <2>1. spoiled' \subseteq Job /\ parking' \subseteq runs'
    BY <1>0, <1>1, <1>3 DEF TypeOK, Ends, Fails
  <2> QED BY <1>1, <1>3, <2>1, WorkersKeep
<1>4. CASE /\ Holds(r) /\ Accepts(r, target) /\ Ends(r)
           /\ finishing' = [finishing EXCEPT ![q] = t]
           /\ spoiled' = spoiled \union Met(Parent[j])
  <2> HIDE DEF t
  <2>1. job[j].state \notin NoRow /\ (j \notin spoiled => job[j].state = "active") /\ job[j].token = r.claim
    BY <1>4, RunIs DEF Holds
  <2>2. t \in Transaction /\ t # Nothing /\ t.job = j /\ t.target = target /\ TransactionOK(t)
    BY <1>1, <2>1, OpenedIs DEF t
  <2>3. /\ Parent' = Parent /\ QueueOf' = QueueOf /\ opt' = opt
        /\ \A p : Children(p)' = Children(p)
    BY <1>1, SameFlow
  <2>4. /\ finishing'[q] = t /\ \A x \in Queue \ {q} : finishing'[x] = finishing[x]
        /\ finishing' \in [Queue -> {Nothing} \union Transaction]
    <3>1. finishing \in [Queue -> {Nothing} \union Transaction]
      BY <1>0 DEF TypeOK
    <3> HIDE DEF q
    <3> QED BY <1>1, <1>4, <2>2, <3>1
  <2>5. Open' = Open \union {t}
    <3> HIDE DEF q
    <3> QED BY <1>1, <2>2, <2>4 DEF Open
  <2>6. spoiled \subseteq spoiled' /\ spoiled' \subseteq Job
    BY <1>0, <1>4 DEF TypeOK, Met
  <2>7. RunsOK' /\ runs' \subseteq RunType /\ job' \in [Job -> Rows]
    <3>1. \A k \in Job : job[k].claim =< job'[k].claim
      BY <1>1, RowIs, Bounds DEF IInv
    <3>2. job' \in [Job -> Rows]
      BY <1>1 DEF IInv
    <3> QED BY <1>1, <1>4, <3>1, <3>2, RunsKeep
  <2>8. TypeOK'
    <3>1. Rows \subseteq RowType
      BY DEF Rows
    <3>2. \A x \in Queue : finishing'[x] # Nothing => QueueOf[finishing'[x].job] = x
      BY <1>0, <2>2, <2>4 DEF TypeOK
    <3> QED BY <1>0, <1>1, <1>4, <2>3, <2>4, <2>6, <2>7, <3>1, <3>2 DEF TypeOK, RunType, Ends
  <2>9. LinksOK' /\ PlantedTogether'
    BY <1>1, StatesKeep
  <2>10. DepsSay'
    BY <1>1, <2>6, DepsKeep
  <2>11. \A u \in Open : Parent[u.job] = Parent[j] /\ Parent[j] \in Job => Parent[j] \in spoiled'
    BY <1>4 DEF Met
  <2>12. OpenOK'
    <3>1. ASSUME NEW u \in Open' PROVE TransactionOK(u)'
      <4>1. TransactionOK(u)
        BY <2>2, <2>5 DEF IInv, OpenOK
      <4>2. u.job \notin spoiled' => u.job \notin spoiled
        BY <2>6
      <4>3. Parent'[u.job] = Parent[u.job]
        BY <2>3
      <4> QED BY <1>1, <2>3, <2>6, <4>1, <4>2, <4>3 DEF TransactionOK
    <3>2. ASSUME NEW u \in Open', NEW s \in runs', s.job = u.job PROVE ~Holds(s)'
      <4>1. s \in runs /\ s # r
        BY <1>4 DEF Ends
      <4>2. ~Holds(s)
        <5>1. CASE u \in Open
          BY <3>2, <4>1, <5>1, OpenRow
        <5>2. CASE u = t
          BY <1>4, <2>2, <3>2, <4>1, <5>2 DEF Holds, IInv, RunsOK
        <5> QED BY <2>5, <5>1, <5>2
      <4> QED BY <1>1, <4>2 DEF Holds
    <3>3. ASSUME NEW u \in Open', NEW v \in Open', Parent[u.job] = Parent[v.job],
                 Parent[u.job] \in Job \ spoiled'
          PROVE  v = u
      <4>1. CASE u \in Open /\ v \in Open
        BY <2>6, <3>3, <4>1 DEF IInv, OpenOK
      <4>2. CASE u = t \/ v = t
        BY <2>2, <2>5, <2>11, <3>3, <4>2
      <4> QED BY <2>5, <4>1, <4>2
    <3> QED BY <2>3, <3>1, <3>2, <3>3 DEF OpenOK
  <2>13. ParkedOK'
    <3>1. ASSUME NEW s \in parking, s.job \notin spoiled'
          PROVE  /\ job[s.job].state = "active" /\ Holds(s)
                 /\ \A u \in Open' : ~On(u, s.job)
      <4>1. s.job \notin spoiled /\ s.job \in Job
        BY <2>6, <3>1, ParkedHolds
      <4>2. Parent[j] # s.job
        BY <1>4, <3>1, <4>1 DEF Met
      <4> QED BY <2>2, <2>5, <3>1, <4>1, <4>2 DEF IInv, ParkedOK, On
    <3> QED BY <1>1, <2>3, <3>1 DEF ParkedOK, On, Holds
  <2>14. ASSUME NEW p \in Job \ spoiled', Expecting(p)' PROVE WaitOK(p)'
    <3>1. p \notin spoiled /\ Expecting(p) /\ WaitOK(p)
      BY <1>1, <2>6, <2>14 DEF Expecting, IInv, WaitsOK
    <3>2. \A c : Waited(c)' <=> Waited(c)
      BY <1>1 DEF Waited
    <3>3. \A u : Provides(u, p)' <=> Provides(u, p)
      BY <1>1, <2>3, <3>2 DEF Provides
    <3>4. \A u : On(u, p)' <=> On(u, p)
      BY <2>3 DEF On
    <3>5. CASE Parent[j] # p
      BY <2>2, <2>3, <2>5, <3>1, <3>2, <3>3, <3>4, <3>5 DEF WaitOK, On
    <3>6. CASE Parent[j] = p
      <4>1. p \notin Met(p)
        BY <1>4, <2>14, <3>6
      <4>2. \A u \in Open : ~On(u, p)
        BY <4>1, NotMet DEF On
      <4>3. job[p].state = "waiting-children" /\ \E c \in Children(p) : Waited(c)
        BY <3>1, <4>1, <4>2, NotMet DEF Expecting, WaitOK
      <4>4. Provides(t, p)
        BY <1>1, <2>14, <3>1, <3>6, <4>3, OpenedProvides DEF t
      <4>5. On(t, p)
        BY <2>2, <3>6 DEF On
      <4> QED BY <2>5, <3>3, <3>4, <4>2, <4>4, <4>5 DEF WaitOK
    <3> QED BY <3>5, <3>6
  <2>18. LeasesOK'
    BY <1>1, <2>6, LeasesKeep
  <2>15. IInv'
    BY <2>18, <2>7, <2>8, <2>9, <2>10, <2>12, <2>13, <2>14 DEF IInv, WaitsOK
  <2>16. First
    <3>1. ASSUME NEW x \in Queue, finishing'[x] \notin {Nothing, finishing[x]}, finishing'[x].target = "completed",
                 NEW c \in Children(finishing'[x].job) \ spoiled, dep[c] # "none"
          PROVE  \/ job[c].state \in {"completed", "gone"}
                 \/ job[c].state = "failed" /\ opt[c] \in {"idof", "cpof"}
      <4>1. x = q /\ finishing'[x] = t /\ target = "completed"
        BY <2>2, <2>4, <3>1
      <4>2. c \in Children(j) /\ c \in Job
        BY <1>0, <1>1, <2>2, <3>1, <4>1, ChildIs
      <4>3. Settled(dep, j)
        BY <1>4, <4>1 DEF Accepts
      <4>4. dep[c] \in {"processed", "ignored"}
        BY <3>1, <4>2, <4>3 DEF Settled
      <4> QED BY <3>1, <4>2, <4>4 DEF IInv, DepsSay, ChildSays
    <3> QED BY <3>1 DEF First
  <2>17. Spares
    BY <1>1 DEF Spares, Holds
  <2> QED BY <2>15, <2>16, <2>17 DEF Kept
<1> QED BY <1>2, <1>3, <1>4

\* Fields that are written.
LEMMA Marked ==
  ASSUME NEW s, NEW c, NEW o, NEW d, NEW row, row = [state |-> s, claim |-> c, token |-> o, deferred |-> d],
         NEW e, NEW new, new = [row EXCEPT !.deferred = e]
  PROVE  new = [state |-> s, claim |-> c, token |-> o, deferred |-> e]
OBVIOUS

LEMMA Moved ==
  ASSUME NEW s, NEW c, NEW o, NEW d, NEW row, row = [state |-> s, claim |-> c, token |-> o, deferred |-> d],
         NEW e, NEW target, NEW new, new = [row EXCEPT !.state = target, !.deferred = e]
  PROVE  new = [state |-> target, claim |-> c, token |-> o, deferred |-> e]
OBVIOUS

\* What a commit makes of the row of the parent: nothing, if it is not one that waits to
\* be processed, but a mark, unless it is to be put in the wait list.
LEMMA ParentRowIs ==
  ASSUME TypeOK, NEW row \in Rows, NEW k \in Job, NEW t
  PROVE  /\ ParentRow(row, t, k) \in Rows
         /\ ParentRow(row, t, k).claim = row.claim /\ ParentRow(row, t, k).token = row.token
         /\ \/ ParentRow(row, t, k).state = row.state
               /\ (row.state = "waiting-children" => ~t.forces /\ (t.wakes => t.arms))
            \/ /\ row.state \in Places \union {"waiting-children"}
               /\ ParentRow(row, t, k).state \in Places
            \/ t.forces /\ row.state \notin NoRow /\ ParentRow(row, t, k).state = "wait"
         /\ ~t.forces /\ ~t.arms /\ ~t.wakes => ParentRow(row, t, k) = row
<1> DEFINE new  == ParentRow(row, t, k)
           mark == [row EXCEPT !.deferred = TRUE]
<1>0. row = [state |-> row.state, claim |-> row.claim, token |-> row.token, deferred |-> row.deferred]
  BY RowIs
<1>1. CASE row.state \in NoRow
  <2>1. new = row
    BY <1>1 DEF ParentRow
  <2>2. row.state # "waiting-children"
    BY <1>1 DEF NoRow
  <2> QED BY <2>1, <2>2
<1>2. CASE row.state \notin NoRow /\ t.forces
  <2>2. new = [Waits(row) EXCEPT !.deferred = TRUE]
    BY <1>2 DEF ParentRow
  <2>3. Waits(row) = [state |-> "wait", claim |-> row.claim, token |-> row.token, deferred |-> row.deferred]
    BY <1>0 DEF Waits
  <2>4. new = [state |-> "wait", claim |-> row.claim, token |-> row.token, deferred |-> TRUE]
    <3> DEFINE waits == Waits(row)
    <3>1. waits = [state |-> "wait", claim |-> row.claim, token |-> row.token, deferred |-> row.deferred]
      BY <2>3
    <3> HIDE DEF waits
    <3>2. new = [waits EXCEPT !.deferred = TRUE]
      BY <2>2 DEF waits
    <3> HIDE DEF new
    <3> QED BY <3>1, <3>2, Marked
  <2>5. "wait" \in NoRow \union Unfinished \union Over /\ TRUE \in BOOLEAN
    BY DEF Unfinished
  <2> HIDE DEF new
  <2>6. new \in RowType /\ RowOK(new)
    BY <2>4, <2>5, RowIs, Bounds DEF RowType, RowOK
  <2>7. new \in Rows /\ new.state = "wait" /\ new.token = row.token /\ new.claim = row.claim
    BY <2>4, <2>6 DEF Rows
  <2> QED BY <1>2, <2>7 DEF new
<1>3. CASE row.state \notin NoRow /\ ~t.forces /\ t.arms
  <2>1. new = mark
    BY <1>3 DEF ParentRow
  <2>2. mark = [state |-> row.state, claim |-> row.claim, token |-> row.token, deferred |-> TRUE]
    <3> DEFINE m == mark
    <3>1. m = [row EXCEPT !.deferred = TRUE]
      OBVIOUS
    <3> HIDE DEF m
    <3>2. m = [state |-> row.state, claim |-> row.claim, token |-> row.token, deferred |-> TRUE]
      BY <1>0, <3>1, Marked
    <3> QED BY <3>2 DEF m
  <2> HIDE DEF mark
  <2>3. mark \in RowType /\ RowOK(mark)
    BY <2>2, RowIs, Bounds DEF RowType, RowOK
  <2> QED BY <1>3, <2>1, <2>2, <2>3 DEF Rows
<1>4. CASE row.state \notin NoRow /\ ~t.forces /\ ~t.arms /\ t.wakes
  <2>1. new = Woken(row, k)
    BY <1>4 DEF ParentRow
  <2>2. /\ Woken(row, k) \in Rows /\ Woken(row, k).claim = row.claim /\ Woken(row, k).token = row.token
        /\ row.state # "waiting-children" => Woken(row, k) = row
        /\ row.state = "waiting-children" => Woken(row, k).state \in Places
    BY WokenRow
  <2> HIDE DEF new
  <2> QED BY <1>4, <2>1, <2>2 DEF new
<1>5. CASE row.state \notin NoRow /\ ~t.forces /\ ~t.arms /\ ~t.wakes
  <2>1. new = row
    BY <1>5 DEF ParentRow
  <2> QED BY <1>5, <2>1
<1> QED BY <1>1, <1>2, <1>3, <1>4, <1>5

LEMMA FinishedRowIs ==
  ASSUME NEW row \in Rows, row.state = "active", NEW t \in Transaction
  PROVE  /\ FinishedRow(row, t) \in Rows /\ FinishedRow(row, t).state = t.target
         /\ FinishedRow(row, t).token = 0 /\ FinishedRow(row, t).claim = row.claim
<1> DEFINE new == FinishedRow(row, t)
           d   == row.deferred /\ t.target = "completed"
<1>1. t.target \in {"completed", "failed"}
  BY DEF Transaction
<1>2. new = [Released(row) EXCEPT !.state = t.target, !.deferred = d]
  BY RowIs DEF FinishedRow, Released
<1>3. Released(row) = [state |-> row.state, claim |-> row.claim, token |-> 0, deferred |-> row.deferred]
  BY RowIs DEF Released
<1>4. new = [state |-> t.target, claim |-> row.claim, token |-> 0, deferred |-> d]
  <2> DEFINE free == Released(row)
             target == t.target
  <2>1. free = [state |-> row.state, claim |-> row.claim, token |-> 0, deferred |-> row.deferred]
    BY <1>3
  <2>2. new = [free EXCEPT !.state = target, !.deferred = d]
    BY <1>2
  <2> HIDE DEF free, target, d, new
  <2>3. new = [state |-> target, claim |-> row.claim, token |-> 0, deferred |-> d]
    BY <2>1, <2>2, Moved
  <2> QED BY <2>3 DEF target
<1>5. t.target \in NoRow \union Unfinished \union Over /\ d \in BOOLEAN
  BY <1>1 DEF Over
<1> HIDE DEF new, d
<1> QED BY <1>4, <1>5, ReleasedRow DEF new

LEMMA CommitKeeps ==
  ASSUME IInv, NEW q \in Queue, Commit(q)
  PROVE  Kept
<1> DEFINE t    == finishing[q]
           j    == t.job
           k    == Parent[j]
           gone == IF t.keep THEN {} ELSE {j}
           done == [i \in Job |-> IF i = j THEN FinishedRow(job[i], t)
                                  ELSE IF i = k THEN ParentRow(job[i], t, i)
                                  ELSE job[i]]
           deps == [dep EXCEPT ![j] = IF t.linked /\ dep[j] # "none" THEN t.dep ELSE dep[j]]
<1>0. TypeOK
  BY DEF IInv
<1>1. /\ t # Nothing
      /\ job' = Deleted(done, gone) /\ dep' = Cascaded(deps, gone)
      /\ finishing' = [finishing EXCEPT ![q] = Nothing]
      /\ t.arms \/ t.wakes => ~Locked(k)
      /\ spoiled' = spoiled \union (IF Overtaken(t) THEN {k} ELSE {})
      /\ UNCHANGED <<flow, parking, runs, happened>>
  BY DEF Commit
<1>2. /\ t \in Open /\ t \in Transaction /\ j \in Job /\ k # j /\ TransactionOK(t)
      /\ job[j].state \notin NoRow /\ (j \notin spoiled => job[j].state = "active")
      /\ \A r \in runs : r.job = j => ~Holds(r)
  BY <1>0, <1>1, OpenIs, OpenRow, FlowIs DEF Open, IInv, OpenOK
<1>3. /\ Parent' = Parent /\ QueueOf' = QueueOf /\ opt' = opt /\ Late' = Late
      /\ \A p : Children(p)' = Children(p)
  BY <1>1, SameFlow
<1>4. /\ finishing'[q] = Nothing /\ \A x \in Queue \ {q} : finishing'[x] = finishing[x]
      /\ finishing' \in [Queue -> {Nothing} \union Transaction]
      /\ Open' = Open \ {t}
      /\ \A u \in Open : u # t => u.job # j
  <2>1. finishing \in [Queue -> {Nothing} \union Transaction]
    BY <1>0 DEF TypeOK
  <2>2. /\ finishing'[q] = Nothing /\ \A x \in Queue \ {q} : finishing'[x] = finishing[x]
        /\ finishing' \in [Queue -> {Nothing} \union Transaction]
    BY <1>1, <2>1
  <2>3. \A u \in Open : finishing[QueueOf[u.job]] = u
    BY <1>0, OpenIs
  <2>4. QueueOf[j] = q
    BY <1>0, <1>1 DEF TypeOK
  <2>5. \A x \in Queue : finishing[x] = t => x = q
    BY <1>0, <1>1, <2>4 DEF TypeOK
  <2> HIDE DEF t
  <2>6. Open' = Open \ {t}
    BY <1>2, <2>2, <2>5 DEF Open, t
  <2> QED BY <2>2, <2>3, <2>4, <2>6 DEF t
<1>5. /\ FinishedRow(job[j], t) \in Rows /\ FinishedRow(job[j], t).claim = job[j].claim
      /\ \/ /\ job[j].state = "active" /\ FinishedRow(job[j], t).state = t.target
            /\ FinishedRow(job[j], t).token = 0
         \/ j \in spoiled /\ FinishedRow(job[j], t) = job[j]
      /\ t.target \in {"completed", "failed"}
  <2>1. CASE job[j].state = "active"
    BY <1>2, <2>1, StateIs, FinishedRowIs DEF Transaction
  <2>2. CASE job[j].state # "active"
    BY <1>2, <2>2, StateIs DEF Transaction, FinishedRow
  <2> QED BY <2>1, <2>2
<1>24. /\ spoiled \subseteq spoiled' /\ spoiled' \subseteq Job
       /\ t.forces /\ k \in Job \ spoiled' => job[k].state \in Resting
  <2>1. Overtaken(t) => k \in Job
    BY <1>2 DEF Overtaken, TransactionOK
  <2>2. spoiled \subseteq spoiled' /\ spoiled' \subseteq Job
    BY <1>0, <1>1, <2>1 DEF TypeOK
  <2>3. ASSUME t.forces, k \in Job \ spoiled' PROVE job[k].state \in Resting
    <3>1. ~Overtaken(t)
      BY <1>1, <2>3
    <3> QED BY <1>2, <2>3, <3>1 DEF Overtaken, TransactionOK
  <2> QED BY <2>2, <2>3
<1>6. ASSUME k \in Job
      PROVE  /\ ParentRow(job[k], t, k) \in Rows
             /\ ParentRow(job[k], t, k).claim = job[k].claim /\ ParentRow(job[k], t, k).token = job[k].token
             /\ \/ ParentRow(job[k], t, k).state = job[k].state
                   /\ (job[k].state = "waiting-children" => ~t.forces /\ ~t.wakes)
                \/ /\ job[k].state \in Places \union {"waiting-children"}
                   /\ ParentRow(job[k], t, k).state \in Places
                \/ /\ k \in spoiled' /\ job[k].state \notin NoRow
                   /\ ParentRow(job[k], t, k).state = "wait"
             /\ ~t.arms /\ ~t.wakes => ParentRow(job[k], t, k) = job[k]
  <2>1. (t.forces => t.arms) /\ (t.forces /\ k \notin spoiled' => job[k].state \in Resting)
    BY <1>2, <1>6, <1>24 DEF TransactionOK
  <2>2. t.wakes => ~t.arms
    BY <1>2 DEF TransactionOK
  <2>3. job[k] \in Rows
    BY <1>6, StateIs
  <2> HIDE DEF t, k
  <2>4. /\ ParentRow(job[k], t, k) \in Rows
        /\ ParentRow(job[k], t, k).claim = job[k].claim /\ ParentRow(job[k], t, k).token = job[k].token
        /\ \/ ParentRow(job[k], t, k).state = job[k].state
              /\ (job[k].state = "waiting-children" => ~t.forces /\ (t.wakes => t.arms))
           \/ /\ job[k].state \in Places \union {"waiting-children"}
              /\ ParentRow(job[k], t, k).state \in Places
           \/ t.forces /\ job[k].state \notin NoRow /\ ParentRow(job[k], t, k).state = "wait"
        /\ ~t.forces /\ ~t.arms /\ ~t.wakes => ParentRow(job[k], t, k) = job[k]
    BY <1>0, <1>6, <2>3, ParentRowIs
  <2>5. t.forces /\ k \notin spoiled' /\ job[k].state \notin NoRow
        => job[k].state \in Places \union {"waiting-children"}
    BY <2>1 DEF Resting, NoRow
  <2>6. "wait" \in Places
    BY DEF Places
  <2> QED BY <2>1, <2>2, <2>4, <2>5, <2>6
<1> HIDE DEF t, j, k
<1>7. /\ done \in [Job -> Rows] /\ done[j] = FinishedRow(job[j], t)
      /\ k \in Job => done[k] = ParentRow(job[k], t, k)
      /\ \A i \in Job \ {j, k} : done[i] = job[i]
  BY <1>2, <1>5, <1>6 DEF IInv
<1> HIDE DEF done
<1>8. /\ job' \in [Job -> Rows]
      /\ \/ job[j].state = "active" /\ job'[j].state = t.target /\ job'[j].token = 0
         \/ job'[j].state = "gone" /\ job'[j].token = 0
         \/ j \in spoiled /\ job'[j] = job[j]
      /\ t.keep => job'[j] = done[j]
      /\ ~t.keep => job'[j].state = "gone"
      /\ k \in Job => job'[k] = done[k]
      /\ \A i \in Job \ {j, k} : job'[i] = job[i]
      /\ \A i \in Job : job'[i].claim = job[i].claim
  <2>1. gone \in SUBSET Job
    BY <1>2
  <2>2. /\ job' \in [Job -> Rows] /\ \A i \in Job : job'[i].claim = done[i].claim
        /\ \A i \in gone : job'[i].state = "gone" /\ job'[i].token = 0
        /\ \A i \in Job \ gone : job'[i] = done[i]
    <3> HIDE DEF gone
    <3> QED BY <1>1, <1>7, <2>1, DeletedIs
  <2>3. \A i \in Job : done[i].claim = job[i].claim
    BY <1>5, <1>6, <1>7
  <2> QED BY <1>2, <1>5, <1>7, <2>2, <2>3
<1>9. \A i \in Job \ {j} :
        /\ job'[i].token = job[i].token
        /\ \/ job'[i].state = job[i].state
              /\ (i = k /\ job[i].state = "waiting-children" => ~t.forces /\ ~t.wakes)
           \/ /\ job[i].state \in Places \union {"waiting-children"}
              /\ job'[i].state \in Places
           \/ i = k /\ i \in spoiled' /\ job[i].state \notin NoRow /\ job'[i].state = "wait"
  BY <1>6, <1>7, <1>8
<1>10. /\ dep' \in [Job -> Statuses]
       /\ dep'[j] = IF t.linked /\ dep[j] # "none" THEN t.dep ELSE dep[j]
       /\ \A c \in Job : Parent[c] = j \/ (c # j => dep'[c] = dep[c])
       /\ \A c \in Job : Parent[c] = j => dep'[c] = dep[c] \/ dep'[c] = "none"
       /\ \A c \in Job : Parent[c] = j /\ ~t.keep => dep'[c] = "none"
  <2>1. /\ dep \in [Job -> Statuses] /\ deps \in [Job -> Statuses]
        /\ deps[j] = IF t.linked /\ dep[j] # "none" THEN t.dep ELSE dep[j]
        /\ \A c \in Job \ {j} : deps[c] = dep[c]
    <3>1. t.dep \in Statuses
      BY <1>2 DEF Transaction
    <3> QED BY <1>0, <1>2, <3>1 DEF TypeOK
  <2> HIDE DEF deps
  <2>2. dep' = [c \in Job |-> IF Parent[c] \in gone THEN "none" ELSE deps[c]]
    BY <1>1 DEF Cascaded
  <2>3. \A c \in Job : Parent[c] # j => Parent[c] \notin gone
    OBVIOUS
  <2>4. \A c \in Job : Parent[c] = j => c # j
    BY <1>2 DEF k
  <2>5. "none" \in Statuses
    BY DEF Statuses
  <2>6. Parent[j] \notin gone
    BY <1>2 DEF k
  <2> HIDE DEF gone
  <2>7. \A c \in Job : dep'[c] = IF Parent[c] \in gone THEN "none" ELSE deps[c]
    BY <2>2
  <2>8. dep' \in [Job -> Statuses]
    BY <2>1, <2>2, <2>5
  <2>9. \A c \in Job : Parent[c] = j /\ ~t.keep => dep'[c] = "none"
    BY <2>7 DEF gone
  <2> QED BY <1>2, <2>1, <2>3, <2>4, <2>6, <2>7, <2>8, <2>9
<1> HIDE DEF gone, deps
<1>11. RunsOK' /\ runs' \subseteq RunType
  <2>1. \A i \in Job : job[i].claim =< job'[i].claim
    BY <1>8, RowIs, Bounds DEF IInv
  <2> QED BY <1>1, <1>8, <2>1, RunsKeep
<1>12. TypeOK'
  <2>1. Rows \subseteq RowType
    BY DEF Rows
  <2>2. \A x \in Queue : finishing'[x] # Nothing => QueueOf[finishing'[x].job] = x
    BY <1>0, <1>4 DEF TypeOK
  <2> QED BY <1>0, <1>1, <1>3, <1>4, <1>8, <1>10, <1>24, <2>1, <2>2 DEF TypeOK
<1>13. \A i \in Job :
         /\ job[i].state # "none" => job'[i].state # "none"
         /\ job[i].state = "none" => job'[i].state = "none"
         /\ job'[i].state = "gone" => job[i].state = "gone" \/ i = j
  BY <1>2, <1>5, <1>8, <1>9 DEF Places, NoRow
<1>14. LinksOK' /\ PlantedTogether'
  <2>1. \A c \in Job : dep'[c] # "none" => dep[c] # "none"
    BY <1>10
  <2>2. ASSUME NEW c \in Job, Parent[c] \in Job, job[Parent[c]].state # "gone", job'[Parent[c]].state = "gone"
        PROVE  dep'[c] = "none"
    <3>1. Parent[c] = j
      BY <1>13, <2>2
    <3>2. ~t.keep
      <4>1. t.keep => job'[j].state \in {t.target, job[j].state}
        BY <1>5, <1>7, <1>8
      <4> QED BY <1>5, <2>2, <3>1, <4>1
    <3> QED BY <1>10, <3>1, <3>2
  <2> QED BY <1>1, <1>13, <2>1, <2>2, LinksKeep, PlantedKeep
<1>15. DepsSay'
  <2>1. ASSUME NEW c \in Job, c = j PROVE ChildSays(c)'
    <3>1. ChildSays(c)
      BY DEF IInv, DepsSay
    <3>2. CASE t.linked /\ dep[j] # "none"
      <4>1. dep'[c] = t.dep /\ t.dep # "pending"
        BY <1>2, <1>10, <2>1, <3>2 DEF TransactionOK
      <4>2. c \notin spoiled =>
              /\ t.dep = "processed" => t.target = "completed"
              /\ t.dep \in {"failed", "ignored"} => t.target = "failed"
              /\ t.dep = "ignored" => opt[c] \in {"idof", "cpof"}
        BY <1>2, <2>1 DEF TransactionOK, j
      <4>3. c \in spoiled \/ job'[c].state \in {t.target, "gone"}
        BY <1>8, <2>1
      <4> QED BY <1>1, <1>3, <1>5, <1>24, <4>1, <4>2, <4>3 DEF ChildSays
    <3>3. CASE ~(t.linked /\ dep[j] # "none")
      <4>1. dep'[c] = dep[c] /\ (c \notin spoiled => job[c].state = "active")
        BY <1>2, <1>10, <2>1, <3>3
      <4>2. dep[c] # "none" => Parent[c] \in spoiled
        BY <1>2, <2>1, <3>3 DEF TransactionOK, j
      <4> QED BY <1>3, <1>24, <3>1, <4>1, <4>2 DEF ChildSays
    <3> QED BY <3>2, <3>3
  <2>2. ASSUME NEW c \in Job \ {j} PROVE ChildSays(c)'
    <3>1. ChildSays(c)
      BY DEF IInv, DepsSay
    <3>2. dep'[c] = dep[c] \/ dep'[c] = "none"
      BY <1>10
    <3>3. CASE dep'[c] = "none"
      BY <3>3 DEF ChildSays
    <3>4. CASE dep'[c] = dep[c] /\ job'[c].state = job[c].state
      BY <1>24, <1>3, <3>1, <3>4 DEF ChildSays
    <3>6. CASE dep'[c] = dep[c] /\ c \in spoiled' /\ job'[c].state = "wait"
      BY <3>6 DEF ChildSays, Over
    <3>5. CASE dep'[c] = dep[c] /\ job[c].state \in Places \union {"waiting-children"} /\ job'[c].state \in Places
      BY <1>24, <1>3, <3>1, <3>5 DEF ChildSays, Places, Over
    <3> QED BY <1>9, <3>2, <3>3, <3>4, <3>5, <3>6
  <2> QED BY <2>1, <2>2 DEF DepsSay
<1>16. ASSUME NEW u \in Open, u # t
       PROVE  /\ u.job \in Job \ {j} /\ TransactionOK(u)'
              /\ \A r \in runs : r.job = u.job => ~Holds(r)'
  <2>1. /\ u.job \in Job \ {j} /\ job[u.job].state \notin NoRow
        /\ \A r \in runs : r.job = u.job => ~Holds(r)
    BY <1>4, <1>16, OpenRow
  <2>4. TransactionOK(u)
    BY DEF IInv, OpenOK
  <2>2. job'[u.job] = job[u.job]
    <3>1. CASE u.job # k
      BY <1>8, <2>1, <3>1
    <3>2. CASE u.job = k
      <4>1. ~t.arms /\ ~t.wakes
        BY <1>1, <1>16, <3>2 DEF Locked
      <4> QED BY <1>6, <1>7, <1>8, <2>1, <3>2, <4>1
    <3> QED BY <3>1, <3>2
  <2>3. ASSUME u.forces
        PROVE  /\ u.seen =< job'[Parent[u.job]].claim
               /\ job'[Parent[u.job]].claim = u.seen => job'[Parent[u.job]].state \in Resting
    <3>1. PICK p \in Job : p = Parent[u.job]
      BY <2>3, <2>4 DEF TransactionOK
    <3>2. job'[p].claim = job[p].claim
      BY <1>8
    <3>3. job[p].state \in Resting => job'[p].state \in Resting
      <4>1. CASE p = j
        BY <1>8, <4>1 DEF Resting, Places
      <4>2. CASE p # j
        BY <1>9, <4>2 DEF Resting, Places
      <4> QED BY <4>1, <4>2
    <3> QED BY <2>3, <2>4, <3>1, <3>2, <3>3 DEF TransactionOK
  <2>5. ~u.linked /\ dep'[u.job] # "none" => Parent[u.job] \in spoiled
    BY <1>10, <2>1, <2>4 DEF TransactionOK
  <2>6. TransactionOK(u)'
    <3>1. u.job \notin spoiled' => u.job \notin spoiled
      BY <1>24
    <3>2. ~u.linked /\ dep'[u.job] # "none" => Parent[u.job] \in spoiled'
      BY <1>24, <2>5
    <3> QED BY <1>3, <2>2, <2>3, <2>4, <3>1, <3>2 DEF TransactionOK
  <2>7. \A r \in runs : r.job = u.job => ~Holds(r)'
    BY <2>1, <2>2 DEF Holds
  <2> QED BY <2>1, <2>2, <2>6, <2>7
<1>17. OpenOK'
  <2>1. \A u, v \in Open : Parent[u.job] = Parent[v.job] /\ Parent[u.job] \in Job \ spoiled => v = u
    BY DEF IInv, OpenOK
  <2>2. \A p : p \in Job \ spoiled' => p \in Job \ spoiled
    BY <1>24
  <2> QED BY <1>1, <1>3, <1>4, <1>16, <2>1, <2>2 DEF OpenOK
<1>18. ASSUME NEW r \in parking, r.job \notin spoiled
       PROVE  /\ r.job \in Job \ {j} /\ r.job # k
              /\ job'[r.job].state = "active" /\ Holds(r)'
              /\ \A u \in Open : ~On(u, r.job)
  <2>1. /\ r \in runs /\ r.job \in Job /\ Holds(r) /\ job[r.job].state = "active"
        /\ \A u \in Open : ~On(u, r.job)
    BY <1>18, ParkedHolds DEF IInv, ParkedOK
  <2>2. r.job # j /\ r.job # k
    BY <1>2, <2>1 DEF On, k, j
  <2>3. job'[r.job] = job[r.job]
    BY <1>8, <2>1, <2>2
  <2> QED BY <2>1, <2>2, <2>3 DEF Holds
<1>19. ParkedOK'
  BY <1>1, <1>3, <1>4, <1>18, <1>24 DEF ParkedOK, On
<1>20. ASSUME NEW p \in Job \ spoiled', Expecting(p)' PROVE WaitOK(p)'
  <2>1. p \notin spoiled /\ p # j
    BY <1>1, <1>2, <1>5, <1>8, <1>18, <1>20, <1>24 DEF Expecting
  <2>2. ASSUME NEW c \in Children(p) \ {j}
        PROVE  c \in Job /\ dep'[c] = dep[c] /\ (Waited(c) => Waited(c)')
    <3>1. c \in Job /\ dep'[c] = dep[c]
      BY <1>0, <1>10, <1>20, <2>1, ChildIs
    <3> QED BY <1>9, <2>2, <3>1 DEF Waited, Places, Unfinished
  <2>3. CASE p = k
    <3>1. job'[p].state = "waiting-children"
      BY <1>1, <1>18, <1>20, <2>1, <2>3 DEF Expecting
    <3>2. job[p].state = "waiting-children" /\ ~t.forces /\ ~t.wakes
      BY <1>9, <1>20, <2>1, <2>3, <3>1 DEF Places
    <3>3. On(t, p)
      BY <2>3 DEF On, k, j
    <3>4. Provides(t, p)
      BY <1>2, <2>1, <3>2, <3>3 DEF IInv, WaitsOK, Expecting, WaitOK
    <3>5. \/ \E c \in Children(p) \ {j} : Waited(c)
          \/ t.linked /\ t.dep = "failed" /\ dep[j] # "none"
      BY <3>2, <3>4 DEF Provides, j
    <3>6. \E c \in Children(p) : Waited(c)'
      <4>1. CASE \E c \in Children(p) \ {j} : Waited(c)
        BY <2>2, <4>1
      <4>2. CASE t.linked /\ t.dep = "failed" /\ dep[j] # "none"
        <5>1. dep'[j] = "failed"
          BY <1>10, <4>2
        <5>2. j \in Children(p)
          BY <1>2, <2>3 DEF Children, k
        <5> QED BY <5>1, <5>2 DEF Waited
      <4> QED BY <3>5, <4>1, <4>2
    <3>7. \A u \in Open' : ~On(u, p)'
      <4>1. ASSUME NEW u \in Open, u # t, Parent[u.job] = p PROVE FALSE
        BY <1>2, <1>20, <2>1, <3>3, <4>1 DEF IInv, OpenOK, On
      <4> QED BY <1>3, <1>4, <4>1 DEF On
    <3> QED BY <1>3, <3>6, <3>7 DEF WaitOK
  <2>4. CASE p # k
    <3>1. job'[p] = job[p]
      BY <1>8, <1>20, <2>1, <2>4
    <3>2. WaitOK(p)
      BY <1>1, <1>20, <2>1, <3>1 DEF Expecting, IInv, WaitsOK
    <3>3. \A c \in Children(p) : c # j
      BY <1>0, <1>20, <2>4, ChildIs DEF k
    <3>4. ~On(t, p)
      BY <2>4 DEF On, k, j
    <3>5. ASSUME NEW u \in Open, u # t, On(u, p) PROVE Provides(u, p)'
      <4>1. Provides(u, p)
        BY <3>2, <3>5 DEF WaitOK
      <4>2. u.job \in Children(p)
        BY <1>16, <3>5 DEF On, Children
      <4> QED BY <1>3, <2>2, <3>3, <4>1, <4>2 DEF Provides
    <3>6. ASSUME \A u \in Open' : ~On(u, p) PROVE \E c \in Children(p) : Waited(c)'
      <4>1. \E c \in Children(p) : Waited(c)
        BY <1>4, <3>2, <3>4, <3>6 DEF WaitOK
      <4> QED BY <2>2, <3>3, <4>1
    <3> QED BY <1>3, <1>4, <3>5, <3>6 DEF WaitOK, On
  <2> QED BY <2>3, <2>4
<1>25. LeasesOK'
  <2>1. ASSUME NEW i \in Job \ spoiled'
        PROVE  \/ job'[i].token = 0
               \/ job'[i].token = job[i].token /\ (job[i].state = "active" => job'[i].state = "active")
    <3>1. CASE i = j
      BY <1>8, <1>24, <3>1
    <3>2. CASE i # j
      BY <1>9, <3>2 DEF Places
    <3> QED BY <3>1, <3>2
  <2> QED BY <1>24, <2>1, LeasesKeep
<1>21. IInv'
  BY <1>25, <1>8, <1>11, <1>12, <1>14, <1>15, <1>17, <1>19, <1>20 DEF IInv, WaitsOK
<1>22. First
  BY <1>4 DEF First
<1>23. Spares
  <2>1. ASSUME NEW r \in runs, Holds(r), job[r.job].state = "active", r.job \notin spoiled'
        PROVE  Holds(r)' /\ job'[r.job].state = "active"
    <3>1. r.job \in Job \ {j}
      BY <1>2, <2>1, RunIs
    <3> QED BY <1>9, <2>1, <3>1 DEF Holds, Places, NoRow
  <2> QED BY <2>1 DEF Spares
<1> QED BY <1>21, <1>22, <1>23 DEF Kept

-----------------------------------------------------------------------------
LEMMA InitHolds ==
  ASSUME Init
  PROVE  IInv
<1>1. /\ job = [j \in Job |-> [state |-> "none", claim |-> 0, token |-> 0, deferred |-> FALSE]]
      /\ flow \in Flows /\ dep = [j \in Job |-> "none"]
      /\ finishing = [q \in Queue |-> Nothing]
      /\ parking = {} /\ runs = {} /\ happened = {} /\ spoiled = {}
  BY DEF Init
<1>2. job \in [Job -> Rows]
  <2>1. [state |-> "none", claim |-> 0, token |-> 0, deferred |-> FALSE] \in Rows
    BY Bounds DEF Rows, RowType, RowOK, NoRow
  <2> QED BY <1>1, <2>1
<1>3. \A j \in Job : job[j].state = "none" /\ dep[j] = "none"
  BY <1>1
<1>4. Open = {}
  BY <1>1 DEF Open
<1>5. TypeOK
  <2>1. Rows \subseteq RowType
    BY DEF Rows
  <2>2. finishing \in [Queue -> {Nothing} \union Transaction] /\ \A q \in Queue : finishing[q] = Nothing
    BY <1>1
  <2> QED BY <1>1, <1>2, <2>1, <2>2 DEF TypeOK, Statuses
<1>9. LeasesOK
  BY <1>1 DEF LeasesOK
<1>6. RunsOK /\ OpenOK /\ ParkedOK
  BY <1>1, <1>4 DEF RunsOK, OpenOK, ParkedOK
<1>7. LinksOK /\ PlantedTogether
  BY <1>3 DEF LinksOK, PlantedTogether
<1>8. DepsSay /\ WaitsOK
  BY <1>1, <1>3 DEF DepsSay, ChildSays, WaitsOK, Expecting
<1> QED BY <1>2, <1>5, <1>6, <1>7, <1>8, <1>9 DEF IInv

LEMMA Stuttering ==
  ASSUME IInv, UNCHANGED vars
  PROVE  Kept
<1>1. UNCHANGED <<job, flow, dep, finishing, parking, runs, happened, spoiled>>
  BY DEF vars
<1>2. spoiled' \subseteq Job /\ parking' \subseteq runs'
  BY <1>1 DEF IInv, TypeOK
<1> QED BY <1>1, <1>2, WorkersKeep

LEMMA CommandsKeep ==
  ASSUME IInv, Commands
  PROVE  Kept
<1>1. PICK j \in Job :
        \/ AddChild(j) \/ AddAlone(j)
        \/ \E target \in {"wait", "failed"} : Stall(j, target)
        \/ ReprocessJob(j) \/ RemoveChildDependency(j)
        \/ \E children \in BOOLEAN : RemoveJob(j, children)
        \/ RemoveUnprocessedChildren(j) \/ Clean(j)
  BY DEF Commands
<1>2. CASE AddChild(j)
  BY <1>2, AddChildKeeps
<1>3. CASE AddAlone(j)
  BY <1>3, AddAloneKeeps
<1>4. CASE \E target \in {"wait", "failed"} : Stall(j, target)
  BY <1>4, StallKeeps
<1>5. CASE ReprocessJob(j)
  BY <1>5, ReprocessKeeps
<1>6. CASE RemoveChildDependency(j)
  BY <1>6, RemoveChildDependencyKeeps
<1>7. CASE \E children \in BOOLEAN : RemoveJob(j, children)
  BY <1>7, RemoveJobKeeps
<1>8. CASE RemoveUnprocessedChildren(j)
  BY <1>8, RemoveUnprocessedKeeps
<1>9. CASE Clean(j)
  BY <1>9, CleanKeeps
<1> QED BY <1>1, <1>2, <1>3, <1>4, <1>5, <1>6, <1>7, <1>8, <1>9

LEMMA NextKeeps ==
  ASSUME IInv, [Next]_vars
  PROVE  Kept
<1>1. CASE \E j \in Job : Add(j)
  BY <1>1, AddKeeps
<1>2. CASE \E j \in Job : Due(j)
  BY <1>2, DueKeeps
<1>3. CASE \E j \in Job : Claim(j)
  BY <1>3, ClaimKeeps
<1>4. CASE \E j \in Job : Work(j)
  BY <1>4, MoveToFinishedKeeps DEF Work
<1>5. CASE \E j \in Job : Waiting(j)
  <2>1. PICK r \in runs : MoveToWaitingChildren(r) \/ Park(r)
    BY <1>5 DEF Waiting
  <2> QED BY <2>1, MoveToWaitingChildrenKeeps, ParkKeeps
<1>6. CASE \E q \in Queue : Commit(q)
  BY <1>6, CommitKeeps
<1>7. CASE \E q \in Queue : Drain(q)
  BY <1>7, DrainKeeps
<1>8. CASE Commands
  BY <1>8, CommandsKeep
<1>9. CASE UNCHANGED vars
  BY <1>9, Stuttering
<1> QED BY <1>1, <1>2, <1>3, <1>4, <1>5, <1>6, <1>7, <1>8, <1>9 DEF Next

LEMMA AlwaysIInv == Spec => []IInv
<1>1. IInv /\ [Next]_vars => IInv'
  BY NextKeeps DEF Kept
<1> QED BY <1>1, InitHolds, PTL DEF Spec

\* Rows have their types, and what emq_job_deps says of a child is what became of it,
\* for any flow: a result only of a child that completed, a failure only of one that
\* failed, and a child that is over is not pending, unless two transactions met on the
\* parent (emq_move_to_finished_v1, emq_link_child_to_parent_v1, emq_reprocess_job_v1).
THEOREM DependenciesFollow == Spec => []DepsOK
<1>1. IInv => DepsOK
  BY DEF IInv, DepsSay, ChildSays, DepsOK, DepsFollowChildren
<1> QED BY <1>1, AlwaysIInv, PTL

\* A parent in waiting-children has a child that is not over, or one that failed with
\* nothing to forgive it, unless two transactions met on it or its children were taken
\* away without a word to it: no flow hangs by what its jobs do.
THEOREM NoParentWaitsInVain == Spec => []WaitsForSomething
<1>1. IInv => WaitsForSomething
  BY DEF IInv, WaitsOK, Expecting, WaitOK, On, Waited, WaitsForSomething
<1> QED BY <1>1, AlwaysIInv, PTL

\* emq_move_to_finished_v1 completes no job before each child that it has by then has
\* completed, is removed, or has failed and may be ignored.
THEOREM ParentsCompleteLast == Spec => ChildrenFirst
<1>1. IInv /\ [Next]_vars
      => [\A q \in Queue :
            finishing'[q] \notin {Nothing, finishing[q]} /\ finishing'[q].target = "completed"
            => \A c \in Children(finishing'[q].job) \ spoiled :
                 dep[c] # "none" => \/ job[c].state \in {"completed", "gone"}
                                    \/ job[c].state = "failed" /\ opt[c] \in {"idof", "cpof"}]_vars
  BY NextKeeps DEF Kept, First
<1> QED BY <1>1, AlwaysIInv, PTL DEF Spec, ChildrenFirst

\* Neither the children nor the parent of a job take it from the worker that processes
\* it under a live lease, whatever finishes, is added or is removed, but in the ways the
\* history tells: the stalled sweep, removeJob of an ancestor, and a failed child with
\* failParentOnFailure whose transaction had read the row before the claim
\* (310_moveToFinished-14.sql:466-484).
THEOREM FamilySparesLeases == Spec => FamilyKeepsLeases
<1>1. IInv /\ [Next]_vars
      => [\A r \in runs \intersect runs' :
            Holds(r) /\ job[r.job].state = "active" /\ r.job \notin spoiled' /\ "stall" \notin happened' \ happened
            => Holds(r)' /\ job'[r.job].state = "active"]_vars
  BY NextKeeps DEF Kept, Spares
<1> QED BY <1>1, AlwaysIInv, PTL DEF Spec, FamilyKeepsLeases
=============================================================================
