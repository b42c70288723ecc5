------------------------------ MODULE EmqFlow ------------------------------
(***************************************************************************)
(* Flows: a job that waits for its children (flow-producer.ts, the table   *)
(* emq_job_deps and the procedures that write it).  A procedure runs in one *)
(* transaction at READ COMMITTED: emq_move_to_finished_v1 under the lock of *)
(* the child's queue, emq_move_to_waiting_children_v1 under none.  Both are *)
(* two steps here, what they read and decide and then their commit, since   *)
(* neither sees what another transaction has written and not committed.     *)
(*                                                                         *)
(* A job has at most one parent.  Leases have no time: one lives until the  *)
(* stalled sweep takes it.                                                  *)
(***************************************************************************)
EXTENDS Naturals, FiniteSets

CONSTANTS
  Job,         \* job ids; an id is not used again when its row has been deleted
  NoJob,       \* null, where a job could be
  Queue,       \* queues
  Flows,       \* the flows that may be added, with what is asked for each job
  MaxClaims,   \* bound: how often a job is claimed
  Happens,     \* what may happen to a flow but its processing
  MaxHappens   \* bound: how much of it in one behaviour

Strategies == {"none", "fpof", "cpof", "idof", "rdof"}
Places     == {"wait", "prioritized", "delayed"}

\* A flow: the parent and the queue of each job, where its delay and its priority
\* put it, what is asked for when it fails, and which jobs come later.
FlowType == [parent: [Job -> Job \union {NoJob}], queue: [Job -> Queue],
             place: [Job -> Places], opt: [Job -> Strategies], late: SUBSET Job]

\* A job is not its own parent.
ASSUME FlowsAssumption ==
  NoJob \notin Job /\ \A f \in Flows : f \in FlowType /\ \A j \in Job : f.parent[j] # j
ASSUME BoundAssumption == {MaxClaims, MaxHappens} \subseteq Nat

VARIABLES
  job,       \* emq_jobs
  flow,      \* the flow of this behaviour, the arguments of FlowProducer.add
  dep,       \* emq_job_deps: the status of the row with this child
  finishing, \* per queue, the emq_move_to_finished_v1 that holds its lock
  parking,   \* the emq_move_to_waiting_children_v1 that have not written yet
  runs,      \* the jobs that workers process: each with its claim, and what is known of it
  happened,  \* history: what has happened
  spoiled    \* history: parents on which two transactions have met, or whose
             \* dependencies were left behind without them, jobs that were deleted
             \* in spite of their leases, and parents that were put in the wait list
             \* on the strength of a state from before a claim

vars == <<job, flow, dep, finishing, parking, runs, happened, spoiled>>

Parent  == flow.parent
QueueOf == flow.queue
Place   == flow.place
opt     == flow.opt
Late    == flow.late

Children(p) == {c \in Job : Parent[c] = p}
Unfinished  == {"wait", "prioritized", "delayed", "active", "waiting-children"}
Over        == {"completed", "failed", "gone"}
NoRow       == {"none", "gone"}
Nothing     == [job |-> NoJob]

Init ==
  /\ job = [j \in Job |-> [state |-> "none", claim |-> 0, token |-> 0, deferred |-> FALSE]]
  /\ flow \in Flows
  /\ dep = [j \in Job |-> "none"]
  /\ finishing = [q \in Queue |-> Nothing]
  /\ parking = {} /\ runs = {}
  /\ happened = {} /\ spoiled = {}

-----------------------------------------------------------------------------
(* Rows, dependencies, and the transactions that are open                   *)

\* Mutant of Settled: an ignored failure still counts.
SettledProcessed(deps, p) == \A c \in Children(p) : deps[c] \in {"none", "processed"}

\* No dependency of p is outstanding; one that failed without a strategy is.
Settled(deps, p) == \A c \in Children(p) : deps[c] \in {"none", "processed", "ignored"}

Waits(row)    == [row EXCEPT !.state = "wait"]
Released(row) == [row EXCEPT !.token = 0]
Placed(row, j) == [row EXCEPT !.state = Place[j]]

\* A parent that leaves waiting-children goes where its delay and priority say.
Woken(row, p) == IF row.state = "waiting-children" THEN Placed(row, p) ELSE row

\* Rows that are deleted take the dependencies they are the parent of with them;
\* those they are the child of keep their status, without a child.
Deleted(table, set) ==
  [j \in Job |-> IF j \in set THEN [table[j] EXCEPT !.state = "gone", !.token = 0, !.deferred = FALSE]
                 ELSE table[j]]
Cascaded(deps, set) == [c \in Job |-> IF Parent[c] \in set THEN "none" ELSE deps[c]]
Dangling == {c \in Job : dep[c] # "none" /\ job[c].state = "gone"}

Open      == {finishing[q] : q \in Queue} \ {Nothing}
\* An open transaction has locked the row of the job it finishes: a write to that waits for
\* it.  That of the parent it reads without a lock, and writes when it commits.
Locked(j) == \E t \in Open : t.job = j
\* A transaction that has read what p waits for is open: it does not see what is
\* written now, and what it writes is not seen.
Met(p)    == {k \in {p} \intersect Job : \/ \E t \in Open : Parent[t.job] = k
                                        \/ \E r \in parking : r.job = k}

\* The least set with j that a recursive query along these links makes.
Reached(j, links) ==
  {k \in Job : \A S \in SUBSET Job : j \in S /\ (\A l \in links : l[1] \in S => l[2] \in S)
                                    => k \in S}

Once(what) == /\ what \in Happens \ happened
              /\ Cardinality(happened) < MaxHappens
              /\ happened' = happened \union {what}

Fails(r) == runs' = (runs \ {r}) \union {[r EXCEPT !.failing = TRUE]}
Ends(r)  == runs' = runs \ {r}

-----------------------------------------------------------------------------
(* Adding                                                                   *)

\* The jobs of the flow with this root.
InFlow(root) == Reached(root, {<<Parent[c], c>> : c \in Job \ Late})

\* FlowProducer.addNode: a job with children waits for them, the others may run;
\* each child is linked to its parent.
Planted(nodes) ==
  /\ job' = [j \in Job |->
               IF j \notin nodes THEN job[j]
               ELSE IF Children(j) \intersect nodes # {}
                    THEN [job[j] EXCEPT !.state = "waiting-children"]
                    ELSE Placed(job[j], j)]
  /\ dep' = [j \in Job |-> IF j \in nodes /\ Parent[j] \in nodes THEN "pending" ELSE dep[j]]

\* FlowProducer.add: the whole tree in one transaction.
Add(root) ==
  /\ Parent[root] = NoJob /\ job[root].state = "none"
  /\ Planted(InFlow(root))
  /\ UNCHANGED <<flow, finishing, parking, runs, happened, spoiled>>

\* Mutant of LinkStatus: a child that is linked late has not finished yet.
LinkPending(state) == "pending"

LinkStatus(state) ==
  CASE state = "completed" -> "processed" [] state = "failed" -> "failed" [] OTHER -> "pending"

\* emq_link_child_to_parent_v1 for a child row as it is: a parent that waits for
\* nothing else is woken.
Link(table, c) ==
  LET p      == Parent[c]
      status == LinkStatus(table[c].state)
      deps   == [dep EXCEPT ![c] = status]
  IN  /\ dep' = deps
      /\ job' = IF status # "pending" /\ Settled(deps, p)
                THEN [table EXCEPT ![p] = Woken(@, p)] ELSE table

\* Queue.add of a late child, by the processor of its parent or by a client; with
\* the id of a job that exists it only links that job.
AddChild(c) ==
  LET p == Parent[c] IN
  /\ c \in Late /\ p \in Job /\ dep[c] = "none"
  /\ job[p].state \notin NoRow /\ ~Locked(p) /\ job[c].state # "gone"
  /\ \A t \in Open : t.job = c => t.keep
  /\ \/ \E r \in runs \ parking : r.job = p /\ ~r.failing
        /\ UNCHANGED happened
     \/ job[p].state \in Unfinished /\ Once("addChild")
  /\ IF job[c].state = "none" THEN Link([job EXCEPT ![c] = Placed(@, c)], c) ELSE Link(job, c)
  /\ spoiled' = spoiled \union Met(p)
  /\ UNCHANGED <<flow, finishing, parking, runs>>

\* A late child is added on its own first, by a client that names no parent.
AddAlone(c) ==
  /\ c \in Late /\ job[c].state = "none"
  /\ Once("addAlone")
  /\ job' = [job EXCEPT ![c] = Placed(@, c)]
  /\ UNCHANGED <<flow, dep, finishing, parking, runs, spoiled>>

-----------------------------------------------------------------------------
(* Processing                                                               *)

\* emq_move_to_active_v1 promotes a job whose delay is over.
Due(j) ==
  /\ job[j].state = "delayed" /\ ~Locked(j) /\ finishing[QueueOf[j]] = Nothing
  /\ job' = [job EXCEPT ![j] = Waits(@)]
  /\ UNCHANGED <<flow, dep, finishing, parking, runs, happened, spoiled>>

\* The claim of emq_move_to_active_v1: the row locked by another transaction is
\* skipped, and the worker knows from the row whether a child has failed it.
Claim(j) ==
  /\ job[j].state \in {"wait", "prioritized"} /\ job[j].claim < MaxClaims
  /\ ~Locked(j) /\ finishing[QueueOf[j]] = Nothing
  /\ job' = [job EXCEPT ![j].state = "active", ![j].claim = @ + 1, ![j].token = job[j].claim + 1]
  /\ runs' = runs \union {[job |-> j, claim |-> job[j].claim + 1, failing |-> job[j].deferred]}
  /\ UNCHANGED <<flow, dep, finishing, parking, happened, spoiled>>

Holds(r) == job[r.job].state \notin NoRow /\ job[r.job].token = r.claim

\* What emq_move_to_finished_v1 makes of the dependency with the child j.
Resolved(j, target, keep) ==
  IF dep[j] = "none" THEN "none"
  ELSE IF target = "completed" THEN "processed"
  ELSE IF opt[j] = "rdof" THEN "none"
  ELSE IF opt[j] \in {"idof", "cpof"} THEN "ignored"
  ELSE IF dep[j] # "pending" THEN dep[j]
  ELSE IF keep \/ opt[j] = "fpof" THEN "failed" ELSE "none"

\* Mutant of Arms: the failure stays with the child.
ArmsNever(j, target) == FALSE

\* A child that fails its parent arms it; a parent that waits or is delayed is put
\* in the wait list, whatever its priority.
Arms(j, target)   == target = "failed" /\ opt[j] = "fpof" /\ dep[j] # "none" /\ Parent[j] \in Job

\* Mutant of Forces: the parent is put in the list from any state.
ForcesAny(j, target) == Arms(j, target)

Forces(j, target) == Arms(j, target) /\ job[Parent[j]].state \in {"waiting-children", "delayed"}
Wakes(j, target, keep) ==
  /\ dep[j] # "none" /\ Parent[j] \in Job
  /\ job[Parent[j]].state = "waiting-children" /\ ~Forces(j, target)
  /\ \/ target = "failed" /\ opt[j] = "cpof"
     \/ Settled([dep EXCEPT ![j] = Resolved(j, target, keep)], Parent[j])

\* Mutant of Accepts: nothing is asked of the children of a job that completes.
AcceptsAnyway(r, target) == Holds(r)

Accepts(r, target) == Holds(r) /\ (target = "completed" => Settled(dep, r.job))

\* Which claim of its parent was the last one when the transaction of j read that row.
Seen(j) == IF Parent[j] \in Job THEN job[Parent[j]].claim ELSE 0

\* The transaction: its lock, its checks, and what it will have written.  A job
\* whose children are outstanding is not completed (-4, -9): its worker fails it.
MoveToFinished(r, target, keep) ==
  LET j == r.job IN
  /\ r \in runs \ parking /\ finishing[QueueOf[j]] = Nothing
  /\ r.failing => target = "failed"
  /\ CASE ~Holds(r) -> Ends(r) /\ UNCHANGED <<finishing, spoiled>>
       [] Holds(r) /\ ~Accepts(r, target) -> Fails(r) /\ UNCHANGED <<finishing, spoiled>>
       [] OTHER ->
            /\ finishing' = [finishing EXCEPT ![QueueOf[j]] =
                 [job |-> j, target |-> target, keep |-> keep, linked |-> dep[j] # "none",
                  dep |-> Resolved(j, target, keep), arms |-> Arms(j, target),
                  forces |-> Forces(j, target), wakes |-> Wakes(j, target, keep),
                  seen |-> Seen(j)]]
            /\ Ends(r)
            /\ spoiled' = spoiled \union Met(Parent[j])
  /\ UNCHANGED <<job, flow, dep, parking, happened>>

\* The row of the parent of t.job, as the transaction leaves it.  To put it in the wait
\* list the update asks for its key only, not again for the state; nor does it take a token.
ParentRow(row, t, p) ==
  IF row.state \in NoRow THEN row
  ELSE IF t.forces THEN [Waits(row) EXCEPT !.deferred = TRUE]
  ELSE IF t.arms THEN [row EXCEPT !.deferred = TRUE]
  ELSE IF t.wakes THEN Woken(row, p) ELSE row

\* The row of the job, which only an active one lets itself be finished.
FinishedRow(row, t) ==
  IF row.state # "active" THEN row
  ELSE [Released(row) EXCEPT !.state = t.target,
                             !.deferred = @ /\ t.target = "completed"]

\* The parent has been claimed since t read that it waits for its children or is delayed.
Overtaken(t) == t.forces /\ job[Parent[t.job]].claim # t.seen

\* The updates of the parent, which wait for a transaction that finishes it, and the commit.
Commit(q) ==
  LET t    == finishing[q]
      gone == IF t.keep THEN {} ELSE {t.job}
      done == [j \in Job |-> IF j = t.job THEN FinishedRow(job[j], t)
                             ELSE IF j = Parent[t.job] THEN ParentRow(job[j], t, j)
                             ELSE job[j]]
  IN  /\ t # Nothing
      /\ t.arms \/ t.wakes => ~Locked(Parent[t.job])
      /\ job' = Deleted(done, gone)
      /\ dep' = Cascaded([dep EXCEPT ![t.job] = IF t.linked /\ @ # "none" THEN t.dep ELSE @], gone)
      /\ finishing' = [finishing EXCEPT ![q] = Nothing]
      /\ spoiled' = spoiled \union (IF Overtaken(t) THEN {Parent[t.job]} ELSE {})
      /\ UNCHANGED <<flow, parking, runs, happened>>

\* emq_move_to_waiting_children_v1 up to its update: what it has read holds no lock.
MoveToWaitingChildren(r) ==
  LET p       == r.job
      status  == {dep[c] : c \in Children(p)}
      allowed == Holds(r) /\ job[p].state = "active" /\ "failed" \notin status
  IN  /\ r \in runs \ parking /\ ~r.failing
      /\ "pending" \in status \/ ~allowed
      /\ IF allowed THEN parking' = parking \union {r} /\ UNCHANGED runs
                    ELSE Fails(r) /\ UNCHANGED parking
      /\ spoiled' = spoiled \union Met(p)
      /\ UNCHANGED <<job, flow, dep, finishing, happened>>

\* The update, of whatever the row has become.
Park(r) ==
  /\ r \in parking /\ ~Locked(r.job)
  /\ job' = IF job[r.job].state \in NoRow THEN job
            ELSE [job EXCEPT ![r.job] = [Released(@) EXCEPT !.state = "waiting-children"]]
  /\ parking' = parking \ {r} /\ Ends(r)
  /\ UNCHANGED <<flow, dep, finishing, happened, spoiled>>

\* A lease runs out and emq_move_stalled_jobs_to_wait_v1 takes the job, back to the
\* list or failed.  It knows nothing of children or parents.
Stall(j, target) ==
  /\ job[j].state = "active" /\ ~Locked(j) /\ finishing[QueueOf[j]] = Nothing
  /\ Once("stall")
  /\ job' = [job EXCEPT ![j].state = target, ![j].token = 0, ![j].deferred = FALSE]
  /\ spoiled' = spoiled \union (IF target = "failed" THEN {Parent[j]} \intersect Job ELSE {})
                        \union {r.job : r \in {s \in parking : s.job = j}}
  /\ UNCHANGED <<flow, dep, finishing, parking, runs>>

-----------------------------------------------------------------------------
(* Client commands.  Each is one step, taken when no open transaction has    *)
(* written the rows it writes.                                              *)

Free(set) == \A j \in set : ~Locked(j) /\ \A t \in Open : t.job # j /\ Parent[t.job] # j

\* emq_reprocess_job_v1: the dependency is pending again.
ReprocessJob(c) ==
  /\ job[c].state \in {"completed", "failed"} /\ ~Locked(c)
  /\ Once("reprocess")
  /\ job' = [job EXCEPT ![c] = Released(Waits(@))]
  /\ dep' = [dep EXCEPT ![c] = IF @ = "none" THEN @ ELSE "pending"]
  /\ UNCHANGED <<flow, finishing, parking, runs, spoiled>>

\* emq_remove_child_dependency_v1 counts what is pending, not what has failed.
RemoveChildDependency(c) ==
  LET p == Parent[c] IN
  /\ p \in Job /\ dep[c] # "none" /\ job[c].state \notin NoRow /\ ~Locked(c) /\ ~Locked(p)
  /\ Once("removeChildDependency")
  /\ dep' = [dep EXCEPT ![c] = "none"]
  /\ job' = IF job[p].state = "waiting-children" /\ \A d \in Children(p) \ {c} : dep[d] # "pending"
            THEN [job EXCEPT ![p] = Waits(@)] ELSE job
  /\ spoiled' = spoiled \union Met(p)
  /\ UNCHANGED <<flow, finishing, parking, runs>>

\* j and its descendants along the dependencies with one of these statuses.
Subtree(j, status) ==
  {k \in Reached(j, {<<Parent[c], c>> : c \in {d \in Job : dep[d] \in status}}) :
     job[k].state \notin NoRow}

\* emq_remove_job_v1: leases are looked for along pending dependencies, rows are
\* deleted along all, and every dependency without a child goes, whosever it is.
RemoveJob(j, children) ==
  LET p     == Parent[j]
      leased == IF children THEN Subtree(j, {"pending"}) ELSE {j}
      gone   == IF children THEN Subtree(j, {"pending", "processed", "failed", "ignored"}) ELSE {j}
      deps   == [c \in Job |-> IF c \in Dangling \union gone \/ Parent[c] \in gone THEN "none" ELSE dep[c]]
      done   == Deleted(job, gone)
  IN  /\ job[j].state \notin NoRow /\ Free(gone)
      /\ \A k \in leased : job[k].token = 0
      /\ Once("removeJob")
      /\ dep' = deps
      /\ job' = IF p \in Job /\ dep[j] # "none" /\ Settled(deps, p)
                THEN [done EXCEPT ![p] = Woken(@, p)] ELSE done
      /\ spoiled' = spoiled \union Met(p)
                      \union {Parent[c] : c \in Dangling}
                      \union {k \in gone : job[k].token # 0}
      /\ UNCHANGED <<flow, finishing, parking, runs>>

\* emq_remove_unprocessed_children_v1: the dependencies stay, pending, without a child.
RemoveUnprocessedChildren(p) ==
  LET open == {c \in Job : dep[c] = "pending" /\ job[c].token = 0}
      gone == {k \in Reached(p, {<<Parent[c], c>> : c \in open}) \ {p} : job[k].state \notin NoRow}
  IN  /\ job[p].state \notin NoRow /\ gone # {} /\ Free(gone)
      /\ Once("removeUnprocessedChildren")
      /\ job' = Deleted(job, gone)
      /\ dep' = Cascaded(dep, gone)
      /\ spoiled' = spoiled \union {p}
      /\ UNCHANGED <<flow, finishing, parking, runs>>

\* emq_drain_v1 deletes what waits and tells no parent.
Drain(q) ==
  LET gone == {j \in Job : QueueOf[j] = q /\ job[j].state \in {"wait", "prioritized", "delayed"}}
  IN  /\ gone # {} /\ Free(gone)
      /\ Once("drain")
      /\ job' = Deleted(job, gone)
      /\ dep' = Cascaded(dep, gone)
      /\ spoiled' = spoiled \union {p \in Job : Children(p) \intersect gone # {}}
      /\ UNCHANGED <<flow, finishing, parking, runs>>

\* emq_cascade_parent_cleanup_v1 after the deletion of j: an ancestor in the same
\* queue that waits for nothing else is deleted too.  An ignored failure counts as
\* something it waits for.
Outstanding(p, c) == {d \in Children(p) \ {c} : dep[d] \notin {"none", "processed"} /\ d \notin Dangling}
Frees(c, q) ==
  LET p == Parent[c]
  IN  /\ p \in Job /\ job[p].state = "waiting-children" /\ QueueOf[p] = q
      /\ dep[c] # "none" /\ Outstanding(p, c) = {}
Falls(j) == Reached(j, {<<c, Parent[c]>> : c \in {d \in Job : Frees(d, QueueOf[j])}})

\* emq_clean_jobs_in_set_v1 with a limit of one job.
Clean(j) ==
  LET gone  == Falls(j)
      above == {k \in Job \ gone : \E c \in Children(k) : c \in gone /\ dep[c] # "none"}
      wakes == {k \in above : job[k].state = "waiting-children"
                              /\ \A c \in Children(k) : c \in gone => Outstanding(k, c) = {}}
      done  == Deleted(job, gone)
  IN  /\ job[j].state \in {"wait", "prioritized", "delayed", "completed", "failed"}
      /\ Free(gone) /\ \A k \in above : ~Locked(k)
      /\ Once("clean")
      /\ job' = [k \in Job |-> IF k \in wakes THEN Waits(done[k]) ELSE done[k]]
      /\ dep' = [c \in Job |-> IF Parent[c] \in gone THEN "none"
                               ELSE IF Parent[c] \in above /\ c \in gone \union Dangling THEN "none"
                               ELSE dep[c]]
      /\ spoiled' = spoiled \union ({k \in above : Settled(dep', k)} \ wakes)
                            \union UNION {Met(k) : k \in above}
      /\ UNCHANGED <<flow, finishing, parking, runs>>

-----------------------------------------------------------------------------
Work(j) == \E r \in runs : r.job = j /\ \E target \in {"completed", "failed"}, keep \in BOOLEAN :
             MoveToFinished(r, target, keep)
Waiting(j) == \E r \in runs : r.job = j /\ (MoveToWaitingChildren(r) \/ Park(r))

Commands ==
  \E j \in Job :
    \/ AddChild(j) \/ AddAlone(j)
    \/ \E target \in {"wait", "failed"} : Stall(j, target)
    \/ ReprocessJob(j) \/ RemoveChildDependency(j)
    \/ \E children \in BOOLEAN : RemoveJob(j, children)
    \/ RemoveUnprocessedChildren(j) \/ Clean(j)

Next ==
  \/ \E j \in Job : Add(j) \/ Due(j) \/ Claim(j) \/ Work(j) \/ Waiting(j)
  \/ \E q \in Queue : Commit(q) \/ Drain(q)
  \/ Commands

Spec == Init /\ [][Next]_vars

\* Workers poll every queue, a processor returns, and a transaction commits.
Fairness ==
  /\ \A j \in Job : WF_vars(Due(j)) /\ WF_vars(Claim(j)) /\ WF_vars(Work(j))
                    /\ WF_vars(\E r \in runs : r.job = j /\ Park(r))
  /\ \A q \in Queue : WF_vars(Commit(q))

FairSpec == Spec /\ Fairness

-----------------------------------------------------------------------------
RowType == [state: NoRow \union Unfinished \union Over, claim: 0 .. MaxClaims,
            token: 0 .. MaxClaims, deferred: BOOLEAN]
Statuses == {"none", "pending", "processed", "failed", "ignored"}
Transaction == [job: Job, target: {"completed", "failed"}, keep: BOOLEAN, linked: BOOLEAN,
                dep: Statuses, arms: BOOLEAN, forces: BOOLEAN, wakes: BOOLEAN,
                seen: 0 .. MaxClaims]

TypeOK ==
  /\ job \in [Job -> RowType]
  /\ flow \in Flows /\ dep \in [Job -> Statuses]
  /\ finishing \in [Queue -> {Nothing} \union Transaction]
  /\ \A q \in Queue : finishing[q] # Nothing => QueueOf[finishing[q].job] = q
  /\ parking \subseteq runs /\ runs \subseteq [job: Job, claim: 1 .. MaxClaims, failing: BOOLEAN]
  /\ happened \subseteq Happens /\ spoiled \subseteq Job

\* What emq_job_deps says of a child is what became of it: a result only of one
\* that completed, a failure only of one that failed, forgiven only if its options
\* forgive it; and a child that is over does not stay pending, but with a parent
\* that was spoiled (emq_move_to_finished_v1, emq_link_child_to_parent_v1,
\* emq_reprocess_job_v1).
DepsFollowChildren ==
  \A c \in Job \ spoiled :
    /\ dep[c] = "processed" => job[c].state \in {"completed", "gone"}
    /\ dep[c] \in {"failed", "ignored"} => job[c].state \in {"failed", "gone"}
    /\ dep[c] = "ignored" => opt[c] \in {"idof", "cpof"}
    /\ dep[c] = "pending" /\ job[c].state \in Over => Parent[c] \in spoiled

\* The rows have their types, and the dependencies say what became of the children.
DepsOK == TypeOK /\ DepsFollowChildren

\* A parent that waits for children has one to wait for, unfinished, or failed with
\* nothing to forgive it, unless it was spoiled.
WaitsForSomething ==
  \A p \in Job :
    job[p].state = "waiting-children" /\ p \notin spoiled
    /\ (\A t \in Open : Parent[t.job] # p)
    => \E c \in Children(p) :
         dep[c] = "failed" \/ (dep[c] = "pending" /\ job[c].state \in Unfinished)

\* The same of every parent (flow-producer.ts: whenever the children of a given
\* parent are completed, the parent will be processed).
ParentsAreProcessed ==
  \A p \in Job :
    job[p].state = "waiting-children" /\ (\A t \in Open : Parent[t.job] # p)
    => \E c \in Children(p) : job[c].state # "completed"

\* A job is let complete only when each child it has by then has completed, is
\* removed, or has failed and may be ignored.
ChildrenFirst ==
  [][\A q \in Queue :
       finishing'[q] \notin {Nothing, finishing[q]} /\ finishing'[q].target = "completed"
       => \A c \in Children(finishing'[q].job) \ spoiled :
            dep[c] # "none" => \/ job[c].state \in {"completed", "gone"}
                               \/ job[c].state = "failed" /\ opt[c] \in {"idof", "cpof"}]_vars

\* What happens to a job's children and parents does not take it from the worker
\* that processes it under a live lease, unless it was spoiled: among others, unless a
\* child that fails it had read its state before that worker claimed it
\* (310_moveToFinished-14.sql:466-484).
FamilyKeepsLeases ==
  [][\A r \in runs \intersect runs' :
       Holds(r) /\ job[r.job].state = "active" /\ r.job \notin spoiled' /\ "stall" \notin happened' \ happened
       => Holds(r)' /\ job'[r.job].state = "active"]_vars

\* The same of a row that is deleted (400_removeJob-2.sql:33-36: active jobs with live
\* locks must not be silently dropped from under a running worker).
RemovalSparesLeases == [][\A r \in runs : Holds(r) => job'[r.job].state # "gone"]_vars

\* A job that waits behind a child that failed for good, or behind one that does.
Blocked(j) ==
  LET B[k \in Job] ==
        \/ k \in spoiled
        \/ /\ job[k].state = "waiting-children"
           /\ \E c \in Children(k) : \/ dep[c] = "failed" /\ opt[c] # "fpof"
                                     \/ dep[c] = "pending" /\ B[c]
  IN  B[j]

\* Every job of a flow is over in the end, or waits behind a failed child that
\* nothing forgives, or behind a spoiled parent: children finish, wake their
\* parent, and a failure with failParentOnFailure reaches it.
FlowEnds == \A j \in Job : job[j].state \in Unfinished ~> (job[j].state \in Over \/ Blocked(j))
=============================================================================
