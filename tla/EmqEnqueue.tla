----------------------------- MODULE EmqEnqueue ----------------------------
(***************************************************************************)
(* The client's side of adding jobs: the calls add, addBulk, addBulkAtomic *)
(* and inTransaction that run at the same time on one Queue object.  They  *)
(* share the object's promise chain, which lets one insert run at a time,  *)
(* the connections of its pool, and the field that pins a connection; in   *)
(* the database they share the row of emq_queue_counters, which an insert  *)
(* locks until its transaction ends.                                       *)
(***************************************************************************)
EXTENDS Naturals, Sequences, FiniteSets, SequencesExt

CONSTANTS
  NoConn,     \* no connection
  Pool,       \* the client of a query that takes whichever connection is idle
  MaxConns,   \* PoolConfig.max
  MaxCalls,   \* bounds: calls on the object,
  MaxLong,    \*   bulks and transactions among them,
  MaxJobs,    \*   jobs of one bulk, and adds of the function of one transaction,
  MaxFails    \*   and inserts that fail

ASSUME ConnAssumption == NoConn # Pool /\ {NoConn, Pool} \cap Nat = {}
ASSUME MaxAssumption == MaxConns \in Nat \ {0}
ASSUME BoundAssumption == {MaxCalls, MaxLong, MaxFails} \subseteq Nat /\ MaxJobs \in Nat \ {0}

VARIABLES
  queueId,    \* the promise of QueueBase.queueId: "asked", "known", "failed"
  call,       \* the calls, in the order in which they were made
  chain,      \* addJobChainByQueue: the calls whose inserts are in it, in order
  owner,      \* the connections made so far: who has checked it out, 0 for nobody
  txn,        \* the transaction open on each of them
  pinned,     \* Queue.transactionClient
  rows,       \* emq_jobs in the order of the ids, with those not committed yet
  fails

vars == <<queueId, call, chain, owner, txn, pinned, rows, fails>>

Calls == 1..Len(call)

\* via is the client the next insert uses; own the connection of the call's own
\* transaction; left and done count its jobs; turn, a history, orders the
\* inserts by when they joined the chain; mixed tells whether the call has shared
\* a transaction with another one.
Fresh(kind) ==
  [kind |-> kind, at |-> "called", via |-> NoConn, own |-> NoConn,
   left |-> IF kind = "add" THEN 1 ELSE MaxJobs, done |-> 0, turn |-> 0, mixed |-> FALSE]

Init ==
  /\ queueId = "asked"
  /\ call = <<>>
  /\ chain = <<>>
  /\ owner = <<>>
  /\ txn = <<>>
  /\ pinned = NoConn
  /\ rows = <<>>
  /\ fails = 0

\* Call record r after the step to at; a call that is over keeps its result only.
Going(r, at) ==
  IF at \in {"resolved", "rejected"}
  THEN [r EXCEPT !.at = at, !.via = NoConn, !.own = NoConn, !.left = 0, !.turn = 0]
  ELSE [r EXCEPT !.at = at]

Settled(c) == call[c].at \in {"resolved", "rejected"}

\* The client the object hands out: the pinned connection, or the pool.
Client == IF pinned = NoConn THEN Pool ELSE pinned

Conns == DOMAIN owner

Idle == {k \in Conns : owner[k] = 0}

\* No query is under way on connection k.
Quiet(k) == \A d \in Calls : ~ (call[d].at = "sent" /\ call[d].via = k)

\* Call c is given connection k, an idle one or, with none idle, a new one.
Checkout(c, k, transaction) ==
  \/ /\ k \in Idle
     /\ owner' = [owner EXCEPT ![k] = c]
     /\ txn' = [txn EXCEPT ![k] = transaction]
  \/ /\ Idle = {} /\ Len(owner) < MaxConns
     /\ k = Len(owner) + 1
     /\ owner' = Append(owner, c)
     /\ txn' = Append(txn, transaction)

Committed(c) == {i \in DOMAIN rows : rows[i].call = c /\ rows[i].in = NoConn}

-----------------------------------------------------------------------------
(* The queue's row.                                                        *)

\* queueId is asked for once, by the constructor's update of the metas, and its
\* promise is kept whichever way it settles.
GetQueueId ==
  /\ queueId = "asked"
  /\ \/ queueId' = "known" /\ UNCHANGED fails
     \/ fails < MaxFails /\ queueId' = "failed" /\ fails' = fails + 1
  /\ UNCHANGED <<call, chain, owner, txn, pinned, rows>>

MetasUpdated == queueId # "asked"

-----------------------------------------------------------------------------
(* Calls.                                                                  *)

Call(kind) ==
  /\ Len(call) < MaxCalls
  /\ kind # "add" => Cardinality({c \in Calls : call[c].kind # "add"}) < MaxLong
  /\ call' = Append(call, Fresh(kind))
  /\ UNCHANGED <<queueId, chain, owner, txn, pinned, rows, fails>>

\* Where an error leaves call c: a bulk rolls its own transaction back; the
\* function of a transaction may catch the error and go on.
AfterError(c) ==
  CASE call[c].kind = "add"  -> {"rejected"}
    [] call[c].kind = "bulk" -> {"undoing"}
    [] call[c].kind = "tx"   -> {"undoing", "running"}

\* Options that addJob refuses: the job does not enter the chain.
Refuse(c) ==
  /\ \/ call[c].at = "called" /\ call[c].kind = "add" /\ MetasUpdated
     \/ call[c].at = "running" /\ call[c].left > 0
  /\ fails < MaxFails
  /\ fails' = fails + 1
  /\ \E at \in AfterError(c) : 
       call' = [call EXCEPT ![c] = Going([call[c] EXCEPT !.left = call[c].left - 1], at)]
  /\ UNCHANGED <<queueId, chain, owner, txn, pinned, rows>>

LastTurn ==
  Max({0} \cup {rows[i].turn : i \in DOMAIN rows} \cup {call[c].turn : c \in Calls})

\* Call c enters the chain with the client it has just been handed.
Join(c, client) ==
  /\ call' = [call EXCEPT ![c].at = "chained", ![c].via = client, ![c].turn = LastTurn + 1]
  /\ chain' = Append(chain, c)
  /\ UNCHANGED <<queueId, owner, txn, pinned, rows, fails>>

Add(c) ==
  /\ call[c].kind = "add"
  /\ call[c].at = "called"
  /\ MetasUpdated
  /\ Join(c, Client)

\* createBulk takes the client.  It would know a pinned connection, whose transaction its
\* comment has the bulk join, by the want of a method connect; but a client of pg has that
\* method, so the bulk connects the connected client again, and that rejects.  addBulk waits
\* for the metas before, addBulkAtomic does not.
CreateBulk(c) ==
  /\ call[c].kind = "bulk"
  /\ call[c].at = "called"
  /\ call' = [call EXCEPT ![c] = Going(@, IF pinned = NoConn THEN "connecting" ELSE "rejected")]
  /\ UNCHANGED <<queueId, chain, owner, txn, pinned, rows, fails>>

\* A second inTransaction is refused while a connection is pinned, not while
\* the first is still waiting for its connection.
InTransaction(c) ==
  /\ call[c].kind = "tx"
  /\ call[c].at = "called"
  /\ call' = [call EXCEPT ![c].at = IF pinned = NoConn THEN "connecting" ELSE "rejected"]
  /\ UNCHANGED <<queueId, chain, owner, txn, pinned, rows, fails>>

Begun(c) == "open"

\* pool.connect and BEGIN; inTransaction then pins the connection.
Connect(c) ==
  /\ call[c].at = "connecting"
  /\ \E k \in 1..MaxConns :
       /\ Quiet(k)
       /\ Checkout(c, k, Begun(c))
       /\ call' = [call EXCEPT ![c].at = "running", ![c].own = k, ![c].via = k]
       /\ pinned' = IF call[c].kind = "tx" THEN k ELSE pinned
  /\ UNCHANGED <<queueId, chain, rows, fails>>

\* The next job of a bulk, with the bulk's client; the next add of the
\* function, with the client the object hands out now.
NextJob(c) ==
  /\ call[c].at = "running"
  /\ call[c].left > 0
  /\ \/ call[c].kind # "tx" /\ Join(c, call[c].via)
     \/ call[c].kind = "tx" /\ MetasUpdated /\ Join(c, Client)

-----------------------------------------------------------------------------
(* The insert whose turn it is.                                            *)

\* Mutant of HasTurn: inserts of one object run side by side.
HasTurnAtOnce(c) == call[c].at = "chained"

\* Mutant of HasTurn: after a failure the next insert is never begun.
HasTurnUntilFailure(c) == call[c].at = "chained" /\ chain[1] = c /\ fails = 0

HasTurn(c) == call[c].at = "chained" /\ chain[1] = c

\* The query is sent: on the client it was handed, or on one of the pool's.
Send(c) ==
  /\ HasTurn(c)
  /\ queueId = "known"
  /\ \/ /\ call[c].via # Pool
        /\ call' = [call EXCEPT ![c].at = "sent"]
        /\ UNCHANGED <<owner, txn>>
     \/ /\ call[c].via = Pool
        /\ \E k \in 1..MaxConns :
             /\ Checkout(c, k, "none")
             /\ call' = [call EXCEPT ![c].at = "sent", ![c].via = k]
  /\ UNCHANGED <<queueId, chain, pinned, rows, fails>>

\* A connection taken for one query goes back with its answer.
Returned(c) ==
  LET k == call[c].via
  IN  IF k \in Conns /\ owner[k] = c /\ call[c].own # k
      THEN [owner EXCEPT ![k] = 0] ELSE owner

\* The counters' row is free for a query on connection k.
LockFree(k) == \A i \in DOMAIN rows : rows[i].in \in {NoConn, k}

\* The transaction on call c's client is not that of c.
Foreign(c) ==
  LET k == call[c].via
  IN  \/ k \in Conns /\ txn[k] # "none" /\ owner[k] # c
      \/ call[c].kind = "tx" /\ call[c].own # k

\* The calls that share a transaction with c once its query on k has run.
Mixes(c) ==
  IF Foreign(c) THEN {c} \cup ({owner[k] : k \in {call[c].via} \cap Conns} \ {0}) ELSE {}

Marked(cs) == [d \in Calls |-> [call[d] EXCEPT !.mixed = call[d].mixed \/ d \in cs]]

Inserted(c) ==
  LET k == call[c].via
      m == Marked(Mixes(c))
  IN  /\ call[c].at = "sent"
      /\ txn[k] # "aborted"
      /\ LockFree(k)
      /\ rows' = Append(rows, [call |-> c, turn |-> call[c].turn,
                               in |-> IF txn[k] = "open" THEN k ELSE NoConn])
      /\ call' = [m EXCEPT ![c] =
           Going([m[c] EXCEPT !.left = m[c].left - 1, !.done = m[c].done + 1, !.turn = 0],
                 IF call[c].kind = "add" THEN "resolved" ELSE "running")]
      /\ owner' = Returned(c)
      /\ chain' = Tail(chain)
      /\ UNCHANGED <<queueId, txn, pinned, fails>>

\* A failed insert lets the next one go on.
Leaves == Tail(chain)

\* The insert fails and the error reaches the caller.
\* spoils: the error has aborted the transaction the query was in.
Error(c, spoils) ==
  LET m == Marked(Mixes(c) \cup IF spoils THEN {c} ELSE {})
  IN  /\ \E at \in AfterError(c) :
           call' = [m EXCEPT ![c] =
             Going([m[c] EXCEPT !.left = m[c].left - 1, !.turn = 0], at)]
      /\ chain' = Leaves
      /\ owner' = Returned(c)
      /\ UNCHANGED <<queueId, pinned, rows>>

\* The procedure answers with a negative code (no such parent).
Declined(c) ==
  /\ call[c].at = "sent"
  /\ txn[call[c].via] # "aborted"
  /\ fails < MaxFails
  /\ fails' = fails + 1
  /\ Error(c, FALSE)
  /\ UNCHANGED txn

\* The query raises an error, which aborts the transaction it was part of.
Raised(c) ==
  LET k == call[c].via
  IN  /\ call[c].at = "sent"
      /\ txn[k] # "aborted"
      /\ fails < MaxFails
      /\ fails' = fails + 1
      /\ Error(c, txn[k] = "open")
      /\ txn' = [txn EXCEPT ![k] = IF @ = "open" THEN "aborted" ELSE @]

\* Nothing runs in a transaction that is aborted.
InAborted(c) ==
  /\ call[c].at = "sent"
  /\ txn[call[c].via] = "aborted"
  /\ Error(c, TRUE)
  /\ UNCHANGED <<txn, fails>>

\* The promise of queueId has rejected, and rejects for every insert.
WithoutQueueId(c) ==
  /\ HasTurn(c)
  /\ queueId = "failed"
  /\ Error(c, FALSE)
  /\ UNCHANGED <<txn, fails>>

Answer(c) ==
  \/ Inserted(c) \/ InAborted(c) \/ WithoutQueueId(c)

-----------------------------------------------------------------------------
(* The end of a transaction.                                               *)

\* Mutant of Unpinned: only a commit clears the field.
UnpinnedByCommit(c, at) ==
  IF call[c].kind = "tx" /\ at = "resolved" THEN NoConn ELSE pinned

Unpinned(c, at) == IF call[c].kind = "tx" THEN NoConn ELSE pinned

Ends(c, table, at) ==
  /\ Quiet(call[c].own)
  /\ rows' = table
  /\ call' = [call EXCEPT ![c] = Going(@, at)]
  /\ txn' = [txn EXCEPT ![call[c].own] = "none"]
  /\ owner' = [owner EXCEPT ![call[c].own] = 0]
  /\ pinned' = Unpinned(c, at)
  /\ UNCHANGED <<queueId, chain, fails>>

\* The table once the transaction on k has been committed, or rolled back; that gives the
\* ids back as well, and they are the last, since it has the lock on the counters.
Kept(k) ==
  [i \in DOMAIN rows |-> IF rows[i].in = k THEN [rows[i] EXCEPT !.in = NoConn] ELSE rows[i]]
Dropped(k) == Restrict(rows, {i \in DOMAIN rows : rows[i].in # k})

\* A bulk commits when all is done, inTransaction when its function returns.
\* COMMIT of an aborted transaction rolls it back and raises no error.
Commit(c) ==
  /\ call[c].at = "running"
  /\ call[c].left = 0 \/ call[c].kind = "tx"
  /\ LET k == call[c].own
     IN  Ends(c, IF txn[k] = "aborted" THEN Dropped(k) ELSE Kept(k), "resolved")

\* Mutant of Undone: the catch block does not throw the error again.
UndoneQuietly(c) == "resolved"

Undone(c) == "rejected"

Rollback(c) ==
  /\ call[c].at = "undoing"
  /\ Ends(c, Dropped(call[c].own), Undone(c))

\* The function of inTransaction throws an error of its own.
Throw(c) ==
  /\ call[c].at = "running"
  /\ call[c].kind = "tx"
  /\ call' = [call EXCEPT ![c].at = "undoing"]
  /\ UNCHANGED <<queueId, chain, owner, txn, pinned, rows, fails>>

-----------------------------------------------------------------------------
Progress(c) ==
  \/ Add(c) \/ CreateBulk(c) \/ InTransaction(c) \/ Connect(c) \/ NextJob(c)
  \/ Send(c) \/ Answer(c) \/ Commit(c) \/ Rollback(c)

Fails(c) == Refuse(c) \/ Declined(c) \/ Raised(c) \/ Throw(c)

Kinds == {"add", "bulk", "tx"}

Begins == \E kind \in Kinds : Call(kind)

Next ==
  \/ GetQueueId
  \/ Begins
  \/ \E c \in Calls : Progress(c) \/ Fails(c)

Spec == Init /\ [][Next]_vars

\* The promises of the code settle and the pool and the database answer; a
\* function given to inTransaction returns or throws.  Nobody need call, and no
\* insert need fail.  A call takes finitely many steps, so it is enough that some
\* step is taken while there is one.
FairSpec == Spec /\ WF_vars(GetQueueId \/ \E c \in Calls : Progress(c))

-----------------------------------------------------------------------------
(* Properties.                                                             *)

Ats == {"called", "connecting", "running", "chained", "sent", "undoing", "resolved", "rejected"}

\* Every variable keeps its type, and the chain holds the calls whose insert is
\* waiting for its turn or under way.
TypeOK ==
  /\ queueId \in {"asked", "known", "failed"}
  /\ call \in Seq([kind : Kinds, at : Ats, via : Conns \cup {NoConn, Pool},
                   own : Conns \cup {NoConn}, left : 0..MaxJobs, done : 0..MaxJobs,
                   turn : Nat, mixed : BOOLEAN])
  /\ Len(call) <= MaxCalls
  /\ ToSet(chain) = {c \in Calls : call[c].at \in {"chained", "sent"}}
  /\ IsInjective(chain)
  /\ owner \in Seq(0..Len(call)) /\ Len(owner) <= MaxConns
  /\ txn \in [Conns -> {"none", "open", "aborted"}]
  /\ pinned \in Conns \cup {NoConn}
  /\ rows \in Seq([call : Calls, turn : Nat, in : Conns \cup {NoConn}])
  /\ fails \in 0..MaxFails

\* The ids are given in the order in which the inserts joined the object's chain
\* (the comment at the head of add-jobs.ts), with failures and rollbacks between.
InCallOrder == \A i, j \in DOMAIN rows : i < j => rows[i].turn < rows[j].turn

\* A bulk that has had its transaction to itself is seen whole or not at all (createBulk:
\* "consumers must not observe a partial bulk").
NoPartialBulk ==
  \A c \in Calls :
    call[c].kind = "bulk" /\ ~ call[c].mixed => Cardinality(Committed(c)) \in {0, MaxJobs}

\* What a call told its caller is what the table has: all its jobs when it
\* resolved, none when it rejected, unless it shared a transaction with another
\* call or went on in an aborted one.
OutcomeHolds ==
  \A c \in Calls : Settled(c) /\ ~ call[c].mixed
    => Cardinality(Committed(c)) = IF call[c].at = "resolved" THEN call[c].done ELSE 0

\* What a caller was told of one add, of a bulk or of a transaction is true of the table, and a
\* bulk is there whole.
OutcomesHold == NoPartialBulk /\ OutcomeHolds

\* A connection that is checked out, pinned or in a transaction belongs to a
\* call in progress: none is lost to the pool, and none goes back to it in a transaction.
ConnsAreOwned ==
  /\ \A k \in Conns : owner[k] # 0 => ~ Settled(owner[k])
  /\ \A k \in Conns : txn[k] # "none" => owner[k] # 0 /\ call[owner[k]].own = k
  /\ pinned # NoConn => owner[pinned] # 0 /\ call[owner[pinned]].kind = "tx"

\* The variables have their types, and no connection is lost.
ConnsOK == TypeOK /\ ConnsAreOwned

\* Together is what README.md says of inTransaction: its adds commit with it or
\* are rolled back with it.  A second call made while the first waits for its
\* connection pins another one, to which the first call's adds go.
Together ==
  \A c \in Calls : call[c].kind = "tx" /\ ~ Settled(c) => Committed(c) = {}

\* The calls that can go on only when call c has had its turn, and c.
Behind(c) == {c} \cup {d \in Calls : call[d].at = "chained"}

\* The insert whose turn it is waits in the database for a transaction whose
\* next insert is behind it in the chain, or for a connection that only such
\* transactions could give back.  Nothing ends this.
Jammed ==
  /\ chain # <<>>
  /\ LET c == chain[1]
     IN  \/ /\ call[c].at = "sent"
            /\ \E i \in DOMAIN rows : /\ rows[i].in \notin {NoConn, call[c].via}
                                      /\ owner[rows[i].in] \in Behind(c)
         \/ /\ call[c].at = "chained"
            /\ call[c].via = Pool
            /\ Len(owner) = MaxConns
            /\ \A k \in Conns : owner[k] \in Behind(c)

\* Every call settles unless the object is jammed: no failure of an insert, of a
\* transaction or of the queue's row keeps the chain or the pool from going on.
Settles ==
  (\E c \in Calls : ~ Settled(c)) ~> (\A c \in Calls : Settled(c)) \/ Jammed
=============================================================================
