-------------------------- MODULE EmqAdding_proofs --------------------------
(***************************************************************************)
(* Adding jobs: by calls on a Queue object (EmqEnqueue), and by schedulers *)
(* (EmqScheduler).                                                         *)
(*                                                                         *)
(* For every pool and any number of calls: the inserts run in the order of *)
(* the calls, no connection is lost, and a call that has not shared a      *)
(* transaction told its caller what the table has.  The order holds        *)
(* because a turn is given at the end of the chain and leaves it at its    *)
(* head: Ordered.  A connection is that of one call, whose transaction or  *)
(* query is on it: Owned.  The counters' row belongs to one transaction,   *)
(* so that the rows not committed are the last: Locked.  And a call that   *)
(* has shared nothing counts its rows: Account.                            *)
(*                                                                         *)
(* And for any number of workers and callers, every set of intervals and   *)
(* whatever happens between the statements of 020, 410 and 490: one        *)
(* iteration of a scheduler is ahead, but for those the procedures leave   *)
(* astray, and it is not lost. Nothing is ahead but where the row stands:  *)
(* who moves the row counts a turn for the iteration it leaves, or has it  *)
(* deleted, or has looked for it elsewhere (OneAhead). A caller moves the  *)
(* row on the strength of a look that may be old: what is pending there    *)
(* when it does came later, and is astray since (Looked). And what the row *)
(* stands at is pending, or with workers that have yet to move the row     *)
(* from it (Ahead), or was moved to by a worker that is about to add it    *)
(* (Coming): 490 has found the id free, and if it is taken by then the row *)
(* was overtaken (InReach).                                                *)
(***************************************************************************)
EXTENDS EmqEnqueue, EmqScheduler, SequenceTheorems, FiniteSetTheorems, TLAPS

-----------------------------------------------------------------------------
(* Calls on a Queue (EmqEnqueue): the inductive invariant.                 *)

Mid == {"running", "chained", "sent", "undoing"}

CallType(K) ==
  [kind : Kinds, at : Ats, via : K \union {NoConn, Pool}, own : K \union {NoConn},
   left : 0 .. MaxJobs, done : 0 .. MaxJobs, turn : Nat, mixed : BOOLEAN]

\* What call r is at each point, when the connections K have been made.
Shape(r, K) ==
  /\ r \in CallType(K) /\ r.left + r.done <= MaxJobs
  /\ r.at \in {"called", "connecting"} => r.own = NoConn /\ r.done = 0 /\ (r.kind # "add" => r.left = MaxJobs)
  /\ r.at = "called" => r.left > 0
  /\ r.at \in {"connecting", "running", "undoing"} => r.kind # "add"
  /\ r.turn # 0 <=> r.at \in {"chained", "sent"}
  /\ r.at \in {"chained", "sent"} => r.left > 0 /\ r.via # NoConn
  /\ r.at = "sent" => r.via # Pool
  /\ r.own # NoConn => r.at \in Mid /\ r.kind # "add"
  /\ (r.kind # "add" /\ r.at \in Mid) \/ r.at = "undoing" => r.own # NoConn
  /\ r.kind = "add" /\ r.at \in {"called", "chained", "sent"} => r.done = 0

\* A bulk keeps its client, and all its jobs are to come or done.
BulkShape(r, K) ==
  r.kind = "bulk" =>
    /\ r.at \in Mid => r.via \in K /\ r.via = r.own
    /\ r.at \in {"running", "chained", "sent"} => r.left + r.done = MaxJobs
    /\ r.at = "resolved" => r.done = MaxJobs

Shapes ==
  /\ call \in Seq(CallType(Conns)) /\ Len(call) <= MaxCalls
  /\ \A c \in Calls : Shape(call[c], Conns) /\ BulkShape(call[c], Conns)

\* The chain holds the calls whose insert is waiting or under way; only the first is under way.
Chained ==
  /\ chain \in Seq(Calls)
  /\ \A c \in Calls : call[c].at \in {"chained", "sent"} <=> \E i \in DOMAIN chain : chain[i] = c
  /\ \A i \in DOMAIN chain : call[chain[i]].at = "sent" => i = 1

\* Turns grow along the table and on along the chain.
Ordered ==
  /\ InCallOrder
  /\ \A i, j \in DOMAIN chain : i < j => call[chain[i]].turn < call[chain[j]].turn
  /\ \A i \in DOMAIN rows, j \in DOMAIN chain : rows[i].turn < call[chain[j]].turn

\* A connection is checked out by the call whose transaction is open on it, or whose query is under
\* way on it.
Owned ==
  /\ owner \in Seq(0 .. Len(call)) /\ Len(owner) <= MaxConns
  /\ txn \in [Conns -> {"none", "open", "aborted"}]
  /\ pinned \in Conns \union {NoConn}
  /\ \A c \in Calls : call[c].own # NoConn => owner[call[c].own] = c /\ txn[call[c].own] # "none"
  /\ \A k \in Conns : owner[k] # 0 =>
       call[owner[k]].own = k \/ (call[owner[k]].at = "sent" /\ call[owner[k]].via = k)
  /\ \A k \in Conns : txn[k] # "none" => owner[k] # 0 /\ call[owner[k]].own = k
  /\ pinned # NoConn => txn[pinned] # "none" /\ call[owner[pinned]].kind = "tx"

RowType(cs, K) == [call : cs, turn : Nat, in : K \union {NoConn}]

\* The rows not committed are the last ones, all of one transaction.
Locked ==
  /\ rows \in Seq(RowType(Calls, Conns))
  /\ \A i, j \in DOMAIN rows : i < j /\ rows[i].in # NoConn => rows[j].in = rows[i].in
  /\ \A i \in DOMAIN rows : rows[i].in # NoConn => txn[rows[i].in] # "none"

RowsOf(c) == {i \in DOMAIN rows : rows[i].call = c}

\* A call has the rows it counts, in its own transaction until that ends, unless it has shared one.
Account(c) ==
  /\ call[c].at \in {"called", "connecting"} \/ (call[c].kind = "add" /\ ~ Settled(c)) => RowsOf(c) = {}
  /\ ~ call[c].mixed /\ call[c].at \in Mid /\ call[c].kind # "add" =>
       /\ txn[call[c].own] = "open"
       /\ \A i \in DOMAIN rows : rows[i].call = c <=> rows[i].in = call[c].own
       /\ Cardinality(RowsOf(c)) = call[c].done
  /\ ~ call[c].mixed /\ Settled(c) =>
       /\ \A i \in RowsOf(c) : rows[i].in = NoConn
       /\ Cardinality(RowsOf(c)) = IF call[c].at = "resolved" THEN call[c].done ELSE 0

IInv ==
  /\ queueId \in {"asked", "known", "failed"} /\ fails \in 0 .. MaxFails
  /\ Shapes /\ Chained /\ Ordered /\ Owned /\ Locked
  /\ \A c \in Calls : Account(c)

-----------------------------------------------------------------------------
(* Records and sequences.                                                  *)

\* A call's record is a call's record still when more connections have been made.
LEMMA MoreConns ==
  ASSUME NEW K, NEW L, K \subseteq L
  PROVE  CallType(K) \subseteq CallType(L)
BY DEF CallType

LEMMA Constants ==
  /\ NoConn # Pool /\ NoConn \notin Nat /\ Pool \notin Nat
  /\ MaxConns \in Nat \ {0} /\ MaxJobs \in Nat \ {0}
  /\ MaxCalls \in Nat /\ MaxLong \in Nat /\ MaxFails \in Nat
BY ConnAssumption, MaxAssumption, BoundAssumption

LEMMA AtIs ==
  ASSUME NEW K, NEW r \in CallType(K), NEW at \in Ats
  PROVE  LET s == [r EXCEPT !.at = at]
         IN  /\ s \in CallType(K) /\ s.at = at
             /\ s.kind = r.kind /\ s.via = r.via /\ s.own = r.own /\ s.left = r.left
             /\ s.done = r.done /\ s.turn = r.turn /\ s.mixed = r.mixed
BY DEF CallType

\* A call that goes on keeps all but the point where it is; one that settles keeps its result.
LEMMA GoingIs ==
  ASSUME NEW K, NEW r \in CallType(K), NEW at \in Ats
  PROVE  LET s == Going(r, at)
         IN  /\ s \in CallType(K) /\ s.at = at
             /\ s.kind = r.kind /\ s.done = r.done /\ s.mixed = r.mixed
             /\ at \in {"resolved", "rejected"} =>
                  s.via = NoConn /\ s.own = NoConn /\ s.left = 0 /\ s.turn = 0
             /\ at \notin {"resolved", "rejected"} =>
                  s.via = r.via /\ s.own = r.own /\ s.left = r.left /\ s.turn = r.turn
<1>1. CASE at \in {"resolved", "rejected"}
  <2>1. PICK s1 : s1 = [r EXCEPT !.at = at]
    OBVIOUS
  <2>2. s1 \in CallType(K) /\ s1.at = at /\ s1.kind = r.kind /\ s1.done = r.done /\ s1.mixed = r.mixed
    BY <2>1, AtIs
  <2>3. PICK s2 : s2 = [s1 EXCEPT !.via = NoConn]
    OBVIOUS
  <2>4. /\ s2 \in CallType(K) /\ s2.at = at /\ s2.kind = r.kind /\ s2.done = r.done
        /\ s2.mixed = r.mixed /\ s2.via = NoConn
    BY <2>2, <2>3 DEF CallType
  <2>5. PICK s3 : s3 = [s2 EXCEPT !.own = NoConn]
    OBVIOUS
  <2>6. /\ s3 \in CallType(K) /\ s3.at = at /\ s3.kind = r.kind /\ s3.done = r.done
        /\ s3.mixed = r.mixed /\ s3.via = NoConn /\ s3.own = NoConn
    BY <2>4, <2>5 DEF CallType
  <2>7. PICK s4 : s4 = [s3 EXCEPT !.left = 0]
    OBVIOUS
  <2>8. /\ s4 \in CallType(K) /\ s4.at = at /\ s4.kind = r.kind /\ s4.done = r.done
        /\ s4.mixed = r.mixed /\ s4.via = NoConn /\ s4.own = NoConn /\ s4.left = 0
    BY <2>6, <2>7, Constants DEF CallType
  <2>9. PICK s5 : s5 = [s4 EXCEPT !.turn = 0]
    OBVIOUS
  <2>10. /\ s5 \in CallType(K) /\ s5.at = at /\ s5.kind = r.kind /\ s5.done = r.done /\ s5.mixed = r.mixed
         /\ s5.via = NoConn /\ s5.own = NoConn /\ s5.left = 0 /\ s5.turn = 0
    BY <2>8, <2>9 DEF CallType
  <2>11. Going(r, at) = s5
    BY <1>1, <2>1, <2>3, <2>5, <2>7, <2>9 DEF Going
  <2> QED BY <1>1, <2>10, <2>11
<1>2. CASE at \notin {"resolved", "rejected"}
  BY <1>2, AtIs DEF Going
<1> QED BY <1>1, <1>2

LEMMA LeftIs ==
  ASSUME NEW K, NEW r \in CallType(K), NEW n \in 0 .. MaxJobs
  PROVE  LET s == [r EXCEPT !.left = n]
         IN  /\ s \in CallType(K) /\ s.left = n
             /\ s.kind = r.kind /\ s.at = r.at /\ s.via = r.via /\ s.own = r.own
             /\ s.done = r.done /\ s.turn = r.turn /\ s.mixed = r.mixed
BY DEF CallType

LEMMA DoneIs ==
  ASSUME NEW K, NEW r \in CallType(K), NEW n \in 0 .. MaxJobs
  PROVE  LET s == [r EXCEPT !.done = n]
         IN  /\ s \in CallType(K) /\ s.done = n
             /\ s.kind = r.kind /\ s.at = r.at /\ s.via = r.via /\ s.own = r.own
             /\ s.left = r.left /\ s.turn = r.turn /\ s.mixed = r.mixed
BY DEF CallType

LEMMA TurnIs ==
  ASSUME NEW K, NEW r \in CallType(K), NEW n \in Nat
  PROVE  LET s == [r EXCEPT !.turn = n]
         IN  /\ s \in CallType(K) /\ s.turn = n
             /\ s.kind = r.kind /\ s.at = r.at /\ s.via = r.via /\ s.own = r.own
             /\ s.left = r.left /\ s.done = r.done /\ s.mixed = r.mixed
BY DEF CallType

LEMMA MixedIs ==
  ASSUME NEW K, NEW r \in CallType(K), NEW b \in BOOLEAN
  PROVE  LET s == [r EXCEPT !.mixed = b]
         IN  /\ s \in CallType(K) /\ s.mixed = b
             /\ s.kind = r.kind /\ s.at = r.at /\ s.via = r.via /\ s.own = r.own
             /\ s.left = r.left /\ s.done = r.done /\ s.turn = r.turn
BY DEF CallType

LEMMA ViaIs ==
  ASSUME NEW K, NEW r \in CallType(K), NEW k \in K \union {NoConn, Pool}
  PROVE  LET s == [r EXCEPT !.via = k]
         IN  /\ s \in CallType(K) /\ s.via = k
             /\ s.kind = r.kind /\ s.at = r.at /\ s.own = r.own /\ s.left = r.left
             /\ s.done = r.done /\ s.turn = r.turn /\ s.mixed = r.mixed
BY DEF CallType

LEMMA OwnIs ==
  ASSUME NEW K, NEW r \in CallType(K), NEW k \in K \union {NoConn}
  PROVE  LET s == [r EXCEPT !.own = k]
         IN  /\ s \in CallType(K) /\ s.own = k
             /\ s.kind = r.kind /\ s.at = r.at /\ s.via = r.via /\ s.left = r.left
             /\ s.done = r.done /\ s.turn = r.turn /\ s.mixed = r.mixed
BY DEF CallType

-----------------------------------------------------------------------------
(* States.                                                                 *)

\* The sets the invariant is about.
LEMMA Sets ==
  ASSUME IInv
  PROVE  /\ Len(call) \in Nat /\ Calls = 1 .. Len(call) /\ DOMAIN call = Calls
         /\ Len(owner) \in Nat /\ Conns = 1 .. Len(owner) /\ NoConn \notin Conns /\ Pool \notin Conns
         /\ Len(chain) \in Nat /\ DOMAIN chain = 1 .. Len(chain)
         /\ Len(rows) \in Nat /\ DOMAIN rows = 1 .. Len(rows)
         /\ \A c \in Calls : call[c] \in CallType(Conns)
         /\ \A k \in Conns : owner[k] \in 0 .. Len(call) /\ (owner[k] # 0 => owner[k] \in Calls)
         /\ \A i \in DOMAIN chain : chain[i] \in Calls
         /\ \A i \in DOMAIN rows : rows[i] \in RowType(Calls, Conns)
<1>1. /\ call \in Seq(CallType(Conns)) /\ owner \in Seq(0 .. Len(call)) /\ chain \in Seq(Calls)
      /\ rows \in Seq(RowType(Calls, Conns))
  BY DEF IInv, Shapes, Chained, Owned, Locked
<1>2. Len(call) \in Nat /\ DOMAIN call = 1 .. Len(call) /\ call \in [1 .. Len(call) -> CallType(Conns)]
  BY <1>1, LenProperties
<1>3. Len(owner) \in Nat /\ DOMAIN owner = 1 .. Len(owner) /\ owner \in [1 .. Len(owner) -> 0 .. Len(call)]
  BY <1>1, LenProperties
<1>4. Len(chain) \in Nat /\ DOMAIN chain = 1 .. Len(chain) /\ chain \in [1 .. Len(chain) -> Calls]
  BY <1>1, LenProperties
<1>5. /\ Len(rows) \in Nat /\ DOMAIN rows = 1 .. Len(rows)
      /\ rows \in [1 .. Len(rows) -> RowType(Calls, Conns)]
  BY <1>1, LenProperties
<1>6. Calls = 1 .. Len(call) /\ Conns = 1 .. Len(owner)
  BY <1>3 DEF Calls, Conns
<1>7. NoConn \notin Conns /\ Pool \notin Conns
  BY <1>6, <1>3, Constants
<1>8. \A c \in Calls : call[c] \in CallType(Conns)
  BY <1>2, <1>6
<1>9. \A k \in Conns : owner[k] \in 0 .. Len(call) /\ (owner[k] # 0 => owner[k] \in Calls)
  BY <1>2, <1>3, <1>6
<1>10. \A i \in DOMAIN chain : chain[i] \in Calls
  BY <1>4
<1>11. \A i \in DOMAIN rows : rows[i] \in RowType(Calls, Conns)
  BY <1>5
<1> QED BY <1>2, <1>3, <1>4, <1>5, <1>6, <1>7, <1>8, <1>9, <1>10, <1>11

\* The invariant, for one call.
LEMMA CallIs ==
  ASSUME IInv, NEW c \in Calls
  PROVE  /\ call[c] \in CallType(Conns) /\ Shape(call[c], Conns) /\ BulkShape(call[c], Conns) /\ Account(c)
         /\ call[c].own # NoConn =>
              call[c].own \in Conns /\ owner[call[c].own] = c /\ txn[call[c].own] # "none"
         /\ c \in Nat /\ c # 0 /\ c \in DOMAIN call
<1>1. Shape(call[c], Conns) /\ BulkShape(call[c], Conns) /\ Account(c)
  BY DEF IInv, Shapes
<1>2. call[c] \in CallType(Conns) /\ c \in Nat /\ c # 0 /\ c \in DOMAIN call
  BY Sets
<1>3. call[c].own # NoConn => call[c].own \in Conns
  BY <1>2 DEF CallType
<1>4. call[c].own # NoConn => owner[call[c].own] = c /\ txn[call[c].own] # "none"
  BY DEF IInv, Owned
<1> QED BY <1>1, <1>2, <1>3, <1>4

-----------------------------------------------------------------------------
(* Steps that change one call, and may mark others.                        *)

Like(r, s) ==
  /\ s.kind = r.kind /\ s.at = r.at /\ s.via = r.via /\ s.own = r.own /\ s.left = r.left
  /\ s.done = r.done /\ s.turn = r.turn /\ (r.mixed => s.mixed)

Others(c) ==
  /\ call' \in Seq(CallType(Conns')) /\ Len(call') = Len(call) /\ Conns \subseteq Conns'
  /\ \A d \in Calls : d # c => Like(call[d], call'[d])

LEMMA ShapesKeep ==
  ASSUME IInv, NEW c \in Calls, Others(c), Shape(call'[c], Conns'), BulkShape(call'[c], Conns')
  PROVE  Shapes' /\ Calls' = Calls /\ \A d \in Calls : call'[d] \in CallType(Conns')
<1>1. Calls' = Calls /\ Len(call') <= MaxCalls
  BY DEF Others, Calls, IInv, Shapes
<1>2. \A d \in Calls : call'[d] \in CallType(Conns')
  BY ElementOfSeq DEF Others, Calls
<1>3. ASSUME NEW d \in Calls, d # c
      PROVE  Shape(call'[d], Conns') /\ BulkShape(call'[d], Conns')
  <2>1. Shape(call[d], Conns) /\ BulkShape(call[d], Conns) /\ call[d] \in CallType(Conns)
    BY CallIs
  <2>2. Like(call[d], call'[d]) /\ call'[d] \in CallType(Conns') /\ Conns \subseteq Conns'
    BY <1>2, <1>3 DEF Others
  <2>3. PICK r, s, K, L : r = call[d] /\ s = call'[d] /\ K = Conns /\ L = Conns'
    OBVIOUS
  <2>4. Shape(r, K) /\ BulkShape(r, K) /\ Like(r, s) /\ s \in CallType(L) /\ K \subseteq L
    BY <2>1, <2>2, <2>3
  <2>5. Shape(s, L)
    BY <2>4 DEF Shape, Like
  <2>6. BulkShape(s, L)
    BY <2>4 DEF BulkShape, Like
  <2> QED BY <2>3, <2>5, <2>6
<1>4. \A d \in Calls : Shape(call'[d], Conns') /\ BulkShape(call'[d], Conns')
  BY <1>3
<1> QED BY <1>1, <1>2, <1>4 DEF Shapes, Others

-----------------------------------------------------------------------------
(* The chain.                                                              *)

InChain == {"chained", "sent"}

\* No call is twice in the chain.
LEMMA OncePerCall ==
  ASSUME IInv, NEW i \in DOMAIN chain, NEW j \in DOMAIN chain, chain[i] = chain[j]
  PROVE  i = j
<1>1. /\ \A a, b \in DOMAIN chain : a < b => call[chain[a]].turn < call[chain[b]].turn
      /\ i \in Nat /\ j \in Nat /\ \A a \in DOMAIN chain : call[chain[a]].turn \in Nat
  <2>1. \A a \in DOMAIN chain : call[chain[a]].turn \in Nat
    BY Sets DEF CallType
  <2> QED BY <2>1, Sets DEF IInv, Ordered
<1> QED BY <1>1

\* A query that is under way is that of the head of the chain.
LEMMA Head1 ==
  ASSUME IInv, NEW c \in Calls, call[c].at = "sent" \/ HasTurn(c)
  PROVE  /\ chain # <<>> /\ 1 \in DOMAIN chain /\ chain[1] = c /\ call[c].at \in InChain
         /\ \A i \in DOMAIN chain : chain[i] = c <=> i = 1
<1>1. call[c].at \in InChain
  BY DEF HasTurn, InChain
<1>2. PICK i \in DOMAIN chain : chain[i] = c
  BY <1>1 DEF IInv, Chained, InChain
<1>3. 1 \in DOMAIN chain /\ chain # <<>>
  BY <1>2, Sets
<1>4. chain[1] = c
  BY <1>2 DEF HasTurn, IInv, Chained
<1> QED BY <1>1, <1>3, <1>4, OncePerCall

\* The calls in the chain are the same, each with the turn it had.
LEMMA ChainStays ==
  ASSUME IInv, NEW c \in Calls, Others(c), chain' = chain,
         call'[c].at \in InChain <=> call[c].at \in InChain,
         call'[c].at \in InChain => call'[c].turn = call[c].turn,
         call'[c].at = "sent" => call[c].at = "sent" \/ HasTurn(c),
         DOMAIN rows' \subseteq DOMAIN rows,
         \A i \in DOMAIN rows' : rows'[i].turn = rows[i].turn
  PROVE  Chained' /\ Ordered'
<1>1. Calls' = Calls
  BY DEF Others, Calls
<1>2. \A d \in Calls : call'[d].at \in InChain <=> call[d].at \in InChain
  BY DEF Others, Like
<1>3. \A d \in Calls : call'[d].at \in InChain => call'[d].turn = call[d].turn
  BY DEF Others, Like
<1>4. \A i \in DOMAIN chain : chain[i] \in Calls /\ call[chain[i]].at \in InChain
  BY Sets DEF IInv, Chained, InChain
<1>5. \A i \in DOMAIN chain : call'[chain[i]].turn = call[chain[i]].turn
  BY <1>2, <1>3, <1>4
<1>6. ASSUME NEW i \in DOMAIN chain, call'[chain[i]].at = "sent"
      PROVE  i = 1
  <2>1. CASE chain[i] = c
    <3>1. call[c].at = "sent" \/ HasTurn(c)
      BY <1>6, <2>1
    <3> QED BY <2>1, <3>1, Head1
  <2>2. CASE chain[i] # c
    <3>1. call[chain[i]].at = "sent"
      BY <1>4, <1>6, <2>2 DEF Others, Like
    <3> QED BY <3>1 DEF IInv, Chained
  <2> QED BY <2>1, <2>2
<1>7. chain' \in Seq(Calls')
  BY <1>1 DEF IInv, Chained
<1>8. \A d \in Calls : call'[d].at \in {"chained", "sent"} <=> \E i \in DOMAIN chain : chain[i] = d
  BY <1>2 DEF IInv, Chained, InChain
<1>9. Chained'
  BY <1>1, <1>6, <1>7, <1>8 DEF Chained
<1>10. InCallOrder'
  BY DEF InCallOrder, IInv, Ordered
<1>11. \A i, j \in DOMAIN chain : i < j => call'[chain[i]].turn < call'[chain[j]].turn
  BY <1>5 DEF IInv, Ordered
<1>12. \A i \in DOMAIN rows', j \in DOMAIN chain : rows'[i].turn < call'[chain[j]].turn
  BY <1>5 DEF IInv, Ordered
<1> QED BY <1>9, <1>10, <1>11, <1>12 DEF Ordered

\* A call joins the chain at its end, with the last of the turns.
LEMMA ChainGrows ==
  ASSUME IInv, NEW c \in Calls, Others(c), chain' = Append(chain, c), call[c].at \notin InChain,
         call'[c].at = "chained", rows' = rows,
         \A i \in DOMAIN rows : rows[i].turn < call'[c].turn,
         \A d \in Calls : call[d].turn < call'[c].turn
  PROVE  Chained' /\ Ordered'
<1>1. Calls' = Calls
  BY DEF Others, Calls
<1>2. /\ chain' \in Seq(Calls) /\ DOMAIN chain' = 1 .. Len(chain) + 1 /\ Len(chain) \in Nat
      /\ DOMAIN chain = 1 .. Len(chain)
      /\ \A i \in 1 .. Len(chain) : chain'[i] = chain[i]
      /\ chain'[Len(chain) + 1] = c
  <2>1. chain \in Seq(Calls)
    BY DEF IInv, Chained
  <2>2. Append(chain, c) \in Seq(Calls)
    BY <2>1, AppendProperties
  <2>3. DOMAIN Append(chain, c) = 1 .. Len(Append(chain, c))
    BY <2>2, LenProperties
  <2> QED BY <2>1, <2>2, <2>3, AppendProperties, Sets
<1>3. \A i \in DOMAIN chain : chain[i] \in Calls /\ call[chain[i]].at \in InChain /\ chain[i] # c
  BY Sets DEF IInv, Chained, InChain
<1>4. \A i \in DOMAIN chain : Like(call[chain[i]], call'[chain[i]])
  BY <1>3 DEF Others
<1>5. ASSUME NEW d \in Calls
      PROVE  call'[d].at \in {"chained", "sent"} <=> \E i \in DOMAIN chain' : chain'[i] = d
  <2>1. CASE d = c
    <3>1. Len(chain) + 1 \in DOMAIN chain'
      BY <1>2
    <3> QED BY <1>2, <2>1, <3>1
  <2>2. CASE d # c
    <3>1. call'[d].at \in {"chained", "sent"} <=> \E i \in DOMAIN chain : chain[i] = d
      BY <2>2 DEF Others, Like, IInv, Chained
    <3>2. (\E i \in DOMAIN chain : chain[i] = d) <=> \E i \in DOMAIN chain' : chain'[i] = d
      BY <1>2, <2>2
    <3> QED BY <3>1, <3>2
  <2> QED BY <2>1, <2>2
<1>6. ASSUME NEW i \in DOMAIN chain', call'[chain'[i]].at = "sent"
      PROVE  i = 1
  <2>1. i \in DOMAIN chain
    BY <1>2, <1>6
  <2>2. call[chain[i]].at = "sent"
    BY <1>2, <1>4, <1>6, <2>1 DEF Like
  <2> QED BY <2>1, <2>2 DEF IInv, Chained
<1>7. Chained'
  BY <1>1, <1>2, <1>5, <1>6 DEF Chained
<1>8. InCallOrder'
  BY DEF InCallOrder, IInv, Ordered
<1>9. \A i \in DOMAIN chain : call'[chain'[i]].turn = call[chain[i]].turn /\ call[chain[i]].turn < call'[c].turn
  BY <1>2, <1>3, <1>4 DEF Like
<1>10. ASSUME NEW i \in DOMAIN chain', NEW j \in DOMAIN chain', i < j
       PROVE  call'[chain'[i]].turn < call'[chain'[j]].turn
  <2>1. i \in DOMAIN chain
    BY <1>2, <1>10
  <2>2. CASE j \in DOMAIN chain
    BY <1>9, <1>10, <2>1, <2>2 DEF IInv, Ordered
  <2>3. CASE j \notin DOMAIN chain
    BY <1>2, <1>9, <2>1, <2>3
  <2> QED BY <2>2, <2>3
<1>11. ASSUME NEW i \in DOMAIN rows', NEW j \in DOMAIN chain'
       PROVE  rows'[i].turn < call'[chain'[j]].turn
  <2>1. CASE j \in DOMAIN chain
    BY <1>9, <2>1 DEF IInv, Ordered
  <2>2. CASE j \notin DOMAIN chain
    BY <1>2, <2>2
  <2> QED BY <2>1, <2>2
<1> QED BY <1>7, <1>8, <1>10, <1>11 DEF Ordered

\* A row added is the last.
LEMMA RowAdded ==
  ASSUME IInv, NEW r \in RowType(Calls, Conns), rows' = Append(rows, r)
  PROVE  /\ rows' \in Seq(RowType(Calls, Conns))
         /\ Len(rows) \in Nat /\ DOMAIN rows = 1 .. Len(rows) /\ DOMAIN rows' = 1 .. Len(rows) + 1
         /\ \A i \in DOMAIN rows : rows'[i] = rows[i]
         /\ rows'[Len(rows) + 1] = r
<1> DEFINE S == RowType(Calls, Conns)
<1>1. rows \in Seq(S)
  BY DEF IInv, Locked
<1>2. r \in S
  OBVIOUS
<1>3. Len(rows) \in Nat /\ DOMAIN rows = 1 .. Len(rows)
  BY Sets
<1> HIDE DEF S
<1>4. /\ Append(rows, r) \in Seq(S) /\ Len(Append(rows, r)) = Len(rows) + 1
      /\ \A i \in 1 .. Len(rows) : Append(rows, r)[i] = rows[i]
      /\ Append(rows, r)[Len(rows) + 1] = r
  BY <1>1, <1>2, AppendProperties
<1>5. DOMAIN Append(rows, r) = 1 .. Len(Append(rows, r))
  BY <1>4, LenProperties
<1> QED BY <1>3, <1>4, <1>5 DEF S

\* The head of the chain leaves it; if its insert has added a row, that is the last.
LEMMA ChainShrinks ==
  ASSUME IInv, NEW c \in Calls, Others(c), call[c].at = "sent" \/ HasTurn(c), chain' = Tail(chain),
         call'[c].at \notin InChain,
         \/ rows' = rows
         \/ \E r \in RowType(Calls, Conns) :
              r.turn = call[c].turn /\ rows' = Append(rows, r)
  PROVE  Chained' /\ Ordered'
<1>1. Calls' = Calls
  BY DEF Others, Calls
<1>2. /\ chain # <<>> /\ 1 \in DOMAIN chain /\ chain[1] = c /\ call[c].at \in InChain
      /\ \A i \in DOMAIN chain : chain[i] = c <=> i = 1
  BY Head1
<1>3. /\ chain' \in Seq(Calls) /\ Len(chain) \in Nat /\ DOMAIN chain = 1 .. Len(chain)
      /\ DOMAIN chain' = 1 .. Len(chain) - 1
      /\ \A i \in 1 .. Len(chain) - 1 : chain'[i] = chain[i + 1]
  <2>1. chain \in Seq(Calls)
    BY DEF IInv, Chained
  <2>2. /\ Tail(chain) \in Seq(Calls) /\ Len(Tail(chain)) = Len(chain) - 1
        /\ \A i \in 1 .. Len(Tail(chain)) : Tail(chain)[i] = chain[i + 1]
    BY <1>2, <2>1, HeadTailProperties
  <2>3. DOMAIN Tail(chain) = 1 .. Len(Tail(chain))
    BY <2>2, LenProperties
  <2> QED BY <2>2, <2>3, Sets
<1>4. \A i \in DOMAIN chain : i # 1 => Like(call[chain[i]], call'[chain[i]])
  BY <1>2, Sets DEF Others
<1>5. \A i \in DOMAIN chain' : i + 1 \in DOMAIN chain /\ i + 1 # 1 /\ chain'[i] = chain[i + 1]
  BY <1>3
<1>6. \A i \in DOMAIN chain : i # 1 => i - 1 \in DOMAIN chain' /\ chain'[i - 1] = chain[i]
  BY <1>3
<1>7. ASSUME NEW d \in Calls
      PROVE  call'[d].at \in {"chained", "sent"} <=> \E i \in DOMAIN chain' : chain'[i] = d
  <2>1. CASE d = c
    BY <1>2, <1>5, <2>1 DEF InChain
  <2>2. CASE d # c
    <3>1. call'[d].at \in {"chained", "sent"} <=> \E i \in DOMAIN chain : chain[i] = d
      BY <2>2 DEF Others, Like, IInv, Chained
    <3>2. ASSUME NEW i \in DOMAIN chain, chain[i] = d
          PROVE  \E j \in DOMAIN chain' : chain'[j] = d
      <4>1. i - 1 \in DOMAIN chain' /\ chain'[i - 1] = chain[i]
        BY <1>2, <1>6, <2>2, <3>2
      <4> QED BY <3>2, <4>1
    <3>3. ASSUME NEW j \in DOMAIN chain', chain'[j] = d
          PROVE  \E i \in DOMAIN chain : chain[i] = d
      BY <1>5, <3>3
    <3> QED BY <3>1, <3>2, <3>3
  <2> QED BY <2>1, <2>2
<1>8. ASSUME NEW i \in DOMAIN chain', call'[chain'[i]].at = "sent"
      PROVE  FALSE
  <2>1. i + 1 \in DOMAIN chain /\ i + 1 # 1 /\ call[chain[i + 1]].at = "sent"
    BY <1>4, <1>5, <1>8 DEF Like
  <2> QED BY <2>1 DEF IInv, Chained
<1>9. Chained'
  BY <1>1, <1>3, <1>7, <1>8 DEF Chained
<1>10. \A i \in DOMAIN chain' : call'[chain'[i]].turn = call[chain[i + 1]].turn
  BY <1>4, <1>5 DEF Like
<1>11. \A i, j \in DOMAIN chain' : i < j => call'[chain'[i]].turn < call'[chain'[j]].turn
  <2>1. \A i, j \in DOMAIN chain' : i < j => i + 1 < j + 1
    BY <1>3
  <2> QED BY <1>5, <1>10, <2>1 DEF IInv, Ordered
<1>12. \A i \in DOMAIN rows, j \in DOMAIN chain' : rows[i].turn < call'[chain'[j]].turn
  BY <1>5, <1>10 DEF IInv, Ordered
<1>13. CASE rows' = rows
  <2>1. InCallOrder'
    BY <1>13 DEF InCallOrder, IInv, Ordered
  <2> QED BY <1>9, <1>11, <1>12, <1>13, <2>1 DEF Ordered
<1>14. ASSUME NEW r \in RowType(Calls, Conns),
              r.turn = call[c].turn, rows' = Append(rows, r)
       PROVE  Chained' /\ Ordered'
  <2>1. /\ Len(rows) \in Nat /\ DOMAIN rows = 1 .. Len(rows) /\ DOMAIN rows' = 1 .. Len(rows) + 1
        /\ \A i \in DOMAIN rows : rows'[i] = rows[i]
        /\ rows'[Len(rows) + 1] = r
    BY <1>14, RowAdded
  <2>2. \A i \in DOMAIN rows : rows[i].turn < r.turn
    BY <1>2, <1>14 DEF IInv, Ordered
  <2>3. \A i, j \in DOMAIN rows : i < j => rows[i].turn < rows[j].turn
    BY DEF IInv, Ordered, InCallOrder
  <2>4. \A i, j \in DOMAIN rows' : i < j => rows'[i].turn < rows'[j].turn
    BY <2>1, <2>2, <2>3
  <2>5. \A j \in DOMAIN chain' : r.turn < call'[chain'[j]].turn
    <3>1. \A j \in DOMAIN chain' : 1 < j + 1
      BY <1>3
    <3> QED BY <1>2, <1>5, <1>10, <1>14, <3>1 DEF IInv, Ordered
  <2>6. ASSUME NEW i \in DOMAIN rows', NEW j \in DOMAIN chain'
        PROVE  rows'[i].turn < call'[chain'[j]].turn
    <3>1. CASE i \in DOMAIN rows
      BY <1>12, <2>1, <3>1
    <3>2. CASE i \notin DOMAIN rows
      <4>1. rows'[i] = r
        BY <2>1, <3>2
      <4> QED BY <2>5, <4>1
    <3> QED BY <3>1, <3>2
  <2>7. InCallOrder'
    BY <2>4 DEF InCallOrder
  <2> QED BY <1>9, <1>11, <2>6, <2>7 DEF Ordered
<1> QED BY <1>13, <1>14

-----------------------------------------------------------------------------
(* Connections, and the rows of each call.                                 *)

\* A call that is under way, and has shared nothing, has a transaction of its own.
LEMMA OwnTransaction ==
  ASSUME IInv, NEW c \in Calls, ~ call[c].mixed, call[c].at \in Mid, call[c].kind # "add"
  PROVE  call[c].own # NoConn /\ call[c].own \in Conns
<1>1. call[c].kind \in {"bulk", "tx"}
  BY CallIs DEF CallType, Kinds
<1>2. call[c].own # NoConn
  BY <1>1, CallIs DEF Shape, BulkShape
<1> QED BY <1>2, CallIs

\* The rows of a call are as many as they were: the table has changed for others only.
LEMMA AccountKeeps ==
  ASSUME IInv, NEW c \in Calls, Others(c), NEW d \in Calls, d # c, RowsOf(d)' \subseteq RowsOf(d),
         ~ call'[d].mixed =>
           /\ RowsOf(d)' = RowsOf(d)
           /\ \A i \in RowsOf(d) : rows'[i].in = rows[i].in
           /\ call[d].own # NoConn =>
                /\ txn'[call[d].own] = txn[call[d].own]
                /\ \A i \in DOMAIN rows' : rows'[i].in = call[d].own => rows'[i].call = d
  PROVE  Account(d)'
<1>1. Like(call[d], call'[d])
  BY DEF Others
<1>2. Account(d) /\ Shape(call[d], Conns)
  BY CallIs
<1>3. ASSUME call'[d].at \in {"called", "connecting"} \/ (call'[d].kind = "add" /\ ~ Settled(d)')
      PROVE  RowsOf(d)' = {}
  <2>1. call[d].at \in {"called", "connecting"} \/ (call[d].kind = "add" /\ ~ Settled(d))
    BY <1>1, <1>3 DEF Like, Settled
  <2> QED BY <1>2, <2>1 DEF Account
<1>4. ASSUME ~ call'[d].mixed, call'[d].at \in Mid, call'[d].kind # "add"
      PROVE  /\ txn'[call'[d].own] = "open"
             /\ \A i \in DOMAIN rows' : rows'[i].call = d <=> rows'[i].in = call'[d].own
             /\ Cardinality(RowsOf(d)') = call'[d].done
  <2>1. ~ call[d].mixed /\ call[d].at \in Mid /\ call[d].kind # "add" /\ call'[d].own = call[d].own
    BY <1>1, <1>4 DEF Like
  <2>2. call[d].own # NoConn
    BY <2>1, OwnTransaction
  <2>3. /\ txn[call[d].own] = "open"
        /\ \A i \in DOMAIN rows : rows[i].call = d <=> rows[i].in = call[d].own
        /\ Cardinality(RowsOf(d)) = call[d].done
    BY <1>2, <2>1 DEF Account
  <2>4. ASSUME NEW i \in DOMAIN rows', rows'[i].call = d
        PROVE  rows'[i].in = call[d].own
    <3>1. i \in RowsOf(d)' /\ RowsOf(d)' = RowsOf(d)
      BY <1>4, <2>4 DEF RowsOf
    <3>2. i \in DOMAIN rows /\ rows[i].call = d /\ rows'[i].in = rows[i].in
      BY <1>4, <3>1 DEF RowsOf
    <3> QED BY <2>3, <3>2
  <2>5. Cardinality(RowsOf(d)') = call'[d].done
    BY <1>1, <1>4, <2>3 DEF Like
  <2> QED BY <1>4, <2>1, <2>2, <2>3, <2>4, <2>5
<1>5. ASSUME ~ call'[d].mixed, Settled(d)'
      PROVE  /\ \A i \in RowsOf(d)' : rows'[i].in = NoConn
             /\ Cardinality(RowsOf(d)') = IF call'[d].at = "resolved" THEN call'[d].done ELSE 0
  <2>1. ~ call[d].mixed /\ Settled(d)
    BY <1>1, <1>5 DEF Like, Settled
  <2> QED BY <1>1, <1>2, <1>5, <2>1 DEF Account, Like
<1> QED BY <1>3, <1>4, <1>5 DEF Account

\* Steps of the object alone: the database and the connections are as they were.
LEMMA ObjectOnly ==
  ASSUME IInv, NEW c \in Calls, Others(c), UNCHANGED <<owner, txn, pinned, rows>>,
         Shape(call'[c], Conns), BulkShape(call'[c], Conns),
         call'[c].own = call[c].own, call'[c].kind = call[c].kind, call[c].at # "sent",
         Chained', Ordered', Account(c)',
         queueId' = queueId, fails' \in 0 .. MaxFails
  PROVE  IInv'
<1>1. Conns' = Conns
  BY DEF Conns
<1>2. Shapes' /\ Calls' = Calls
  BY <1>1, ShapesKeep
<1>3. \A d \in Calls : call'[d].own = call[d].own /\ call'[d].kind = call[d].kind
  BY DEF Others, Like
<1>4. \A d \in Calls : call[d].at = "sent" => call'[d].at = "sent" /\ call'[d].via = call[d].via
  BY DEF Others, Like
<1>5. \A k \in Conns : owner[k] # 0 => owner[k] \in Calls
  BY Sets
<1>6. Owned'
  <2>1. owner' \in Seq(0 .. Len(call')) /\ Len(owner') <= MaxConns
    BY DEF Others, IInv, Owned
  <2>2. /\ txn' \in [Conns' -> {"none", "open", "aborted"}]
        /\ pinned' \in Conns' \union {NoConn}
    BY <1>1 DEF IInv, Owned
  <2>3. \A d \in Calls' : call'[d].own # NoConn => owner'[call'[d].own] = d /\ txn'[call'[d].own] # "none"
    BY <1>2, <1>3 DEF IInv, Owned
  <2>4. ASSUME NEW k \in Conns', owner'[k] # 0
        PROVE  call'[owner'[k]].own = k \/ (call'[owner'[k]].at = "sent" /\ call'[owner'[k]].via = k)
    <3>1. k \in Conns /\ owner[k] # 0 /\ owner[k] \in Calls /\ owner'[k] = owner[k]
      BY <1>1, <1>5, <2>4
    <3>2. call[owner[k]].own = k \/ (call[owner[k]].at = "sent" /\ call[owner[k]].via = k)
      BY <3>1 DEF IInv, Owned
    <3> QED BY <1>3, <1>4, <3>1, <3>2
  <2>5. ASSUME NEW k \in Conns', txn'[k] # "none"
        PROVE  owner'[k] # 0 /\ call'[owner'[k]].own = k
    <3>1. k \in Conns /\ owner[k] # 0 /\ call[owner[k]].own = k
      BY <1>1, <2>5 DEF IInv, Owned
    <3> QED BY <1>3, <1>5, <3>1
  <2>6. ASSUME pinned' # NoConn
        PROVE  txn'[pinned'] # "none" /\ call'[owner'[pinned']].kind = "tx"
    <3>1. pinned \in Conns /\ txn[pinned] # "none" /\ call[owner[pinned]].kind = "tx"
      BY <2>6 DEF IInv, Owned
    <3>2. owner[pinned] \in Calls
      BY <1>5, <3>1 DEF IInv, Owned
    <3> QED BY <1>3, <3>1, <3>2
  <2> QED BY <2>1, <2>2, <2>3, <2>4, <2>5, <2>6 DEF Owned
<1>7. Locked'
  BY <1>1, <1>2 DEF IInv, Locked
<1>8. ASSUME NEW d \in Calls
      PROVE  Account(d)'
  <2>1. CASE d = c
    BY <2>1
  <2>2. CASE d # c
    <3>1. RowsOf(d)' = RowsOf(d)
      BY DEF RowsOf
    <3>2. ASSUME ~ call'[d].mixed, call[d].own # NoConn
          PROVE  \A i \in DOMAIN rows : rows[i].in = call[d].own => rows[i].call = d
      <4>1. ~ call[d].mixed /\ call[d].at \in Mid /\ call[d].kind # "add"
        <5>1. ~ call[d].mixed
          BY <2>2, <3>2 DEF Others, Like
        <5> QED BY <3>2, <5>1, CallIs DEF Shape
      <4> QED BY <4>1, CallIs DEF Account
    <3> QED BY <2>2, <3>1, <3>2, AccountKeeps
  <2> QED BY <2>1, <2>2
<1> QED BY <1>2, <1>6, <1>7, <1>8 DEF IInv

-----------------------------------------------------------------------------
(* The steps of the object alone.                                          *)

\* Only call c changes: it is s now.
LEMMA OneCall ==
  ASSUME IInv, NEW c \in Calls, Conns \subseteq Conns', NEW s \in CallType(Conns'),
         call' = [call EXCEPT ![c] = s]
  PROVE  Others(c) /\ call'[c] = s
<1> DEFINE S == CallType(Conns')
<1>1. call \in Seq(S)
  <2>1. call \in Seq(CallType(Conns))
    BY DEF IInv, Shapes
  <2>2. CallType(Conns) \subseteq S
    BY MoreConns
  <2> HIDE DEF S
  <2> QED BY <2>1, <2>2, SeqMonotonic
<1>2. s \in S
  OBVIOUS
<1>3. c \in 1 .. Len(call)
  BY DEF Calls
<1>4. call' \in Seq(S) /\ Len(call') = Len(call) /\ \A d \in 1 .. Len(call) : call'[d] = IF d = c THEN s ELSE call[d]
  <2> HIDE DEF S
  <2> QED BY <1>1, <1>2, <1>3, ExceptSeq
<1>5. \A d \in Calls : d # c => call'[d] = call[d]
  BY <1>4 DEF Calls
<1>6. call'[c] = s
  BY <1>3, <1>4
<1> QED BY <1>4, <1>5, <1>6 DEF Others, Like

LEMMA GetQueueIdKeeps ==
  ASSUME IInv, GetQueueId
  PROVE  IInv'
<1>1. UNCHANGED <<call, chain, owner, txn, pinned, rows>>
  BY DEF GetQueueId
<1>2. queueId' \in {"asked", "known", "failed"} /\ fails' \in 0 .. MaxFails
  BY Constants DEF GetQueueId, IInv
<1>3. Calls' = Calls /\ Conns' = Conns
  BY <1>1 DEF Calls, Conns
<1>4. Shapes' /\ Chained' /\ Ordered' /\ Owned' /\ Locked'
  BY <1>1, <1>3 DEF IInv, Shapes, Chained, Ordered, InCallOrder, Owned, Locked
<1>5. \A c \in Calls : Account(c)'
  BY <1>1 DEF IInv, Account, Settled, RowsOf
<1> QED BY <1>2, <1>3, <1>4, <1>5 DEF IInv

\* Every turn given so far is below the next.
LEMMA LastTurnIs ==
  ASSUME IInv
  PROVE  /\ LastTurn \in Nat
         /\ \A i \in DOMAIN rows : rows[i].turn <= LastTurn
         /\ \A c \in Calls : call[c].turn <= LastTurn
<1> DEFINE S == {0} \cup {rows[i].turn : i \in DOMAIN rows} \cup {call[c].turn : c \in Calls}
<1>1. \A i \in DOMAIN rows : rows[i].turn \in Nat
  BY Sets DEF RowType
<1>2. \A c \in Calls : call[c].turn \in Nat
  BY Sets DEF CallType
<1>3. \A c \in Calls : call[c].at \in InChain \/ call[c].turn = 0
  BY CallIs DEF Shape, InChain
<1>4. \A c \in Calls : call[c].at \in InChain => \E i \in DOMAIN chain : chain[i] = c
  BY DEF IInv, Chained, InChain
<1>5. \E m \in S : \A n \in S : m >= n
  <2>1. CASE chain # <<>>
    <3>1. Len(chain) \in DOMAIN chain
      BY <2>1, EmptySeq, Sets DEF IInv, Chained
    <3>2. chain[Len(chain)] \in Calls
      BY <3>1, Sets
    <3>3. PICK m : m = call[chain[Len(chain)]].turn
      OBVIOUS
    <3>4. m \in S /\ m \in Nat
      BY <1>2, <3>2, <3>3
    <3>5. \A i \in DOMAIN rows : m >= rows[i].turn
      BY <1>1, <3>1, <3>3, <3>4 DEF IInv, Ordered
    <3>6. ASSUME NEW c \in Calls
          PROVE  m >= call[c].turn
      <4>1. CASE call[c].at \in InChain
        <5>1. PICK i \in DOMAIN chain : chain[i] = c
          BY <1>4, <4>1
        <5>2. i = Len(chain) \/ i < Len(chain)
          BY Sets
        <5> QED BY <1>2, <3>1, <3>3, <3>4, <5>1, <5>2 DEF IInv, Ordered
      <4>2. CASE call[c].at \notin InChain
        BY <1>3, <3>4, <4>2
      <4> QED BY <4>1, <4>2
    <3> QED BY <3>4, <3>5, <3>6
  <2>2. CASE chain = <<>>
    <3>1. DOMAIN chain = {}
      BY <2>2
    <3>2. \A c \in Calls : call[c].turn = 0
      BY <1>3, <1>4, <3>1
    <3>3. CASE DOMAIN rows = {}
      BY <3>2, <3>3
    <3>4. CASE DOMAIN rows # {}
      <4>1. Len(rows) \in DOMAIN rows
        BY <3>4, Sets
      <4>2. PICK m : m = rows[Len(rows)].turn
        OBVIOUS
      <4>3. m \in S /\ m \in Nat
        BY <1>1, <4>1, <4>2
      <4>4. ASSUME NEW i \in DOMAIN rows
            PROVE  m >= rows[i].turn
        <5>1. i = Len(rows) \/ i < Len(rows)
          BY Sets
        <5>2. i < Len(rows) => rows[i].turn < rows[Len(rows)].turn
          BY <4>1 DEF IInv, Ordered, InCallOrder
        <5> QED BY <1>1, <4>1, <4>2, <5>1, <5>2
      <4> QED BY <3>2, <4>3, <4>4
    <3> QED BY <3>3, <3>4
  <2> QED BY <2>1, <2>2
<1>6. LastTurn = Max(S)
  BY DEF LastTurn
<1>7. LastTurn \in S /\ \A n \in S : LastTurn >= n
  <2> HIDE DEF S
  <2> QED BY <1>5, <1>6 DEF Max
<1>8. LastTurn \in Nat
  BY <1>1, <1>2, <1>7
<1>9. \A i \in DOMAIN rows : LastTurn >= rows[i].turn
  BY <1>7
<1>10. \A c \in Calls : LastTurn >= call[c].turn
  BY <1>7
<1> QED BY <1>1, <1>2, <1>8, <1>9, <1>10

LEMMA ClientIs ==
  ASSUME IInv
  PROVE  /\ Client \in Conns \union {Pool} /\ Client # NoConn
         /\ pinned # NoConn => pinned \in Conns /\ Client = pinned
BY Constants, Sets DEF Client, IInv, Owned

LEMMA JoinKeeps ==
  ASSUME IInv, NEW c \in Calls, NEW client \in Conns \union {Pool}, Join(c, client),
         \/ call[c].at = "called" /\ call[c].kind = "add"
         \/ call[c].at = "running" /\ call[c].left > 0,
         call[c].kind = "bulk" => client = call[c].via
  PROVE  IInv'
<1>1. PICK r : r = call[c]
  OBVIOUS
<1>2. r \in CallType(Conns) /\ Shape(r, Conns) /\ BulkShape(r, Conns)
  BY <1>1, CallIs
<1>3. LastTurn \in Nat /\ LastTurn + 1 \in Nat /\ LastTurn + 1 # 0
  BY LastTurnIs
<1>4. PICK s1 : s1 = [r EXCEPT !.at = "chained"]
  OBVIOUS
<1>5. s1 \in CallType(Conns) /\ s1.at = "chained" /\ s1 = [r EXCEPT !.at = "chained"]
  BY <1>2, <1>4, AtIs DEF Ats
<1>6. PICK s2 : s2 = [s1 EXCEPT !.via = client]
  OBVIOUS
<1>7. s2 \in CallType(Conns) /\ s2.via = client /\ s2.at = "chained"
  <2>1. client \in Conns \union {NoConn, Pool}
    OBVIOUS
  <2> QED BY <1>5, <1>6, <2>1 DEF CallType
<1>8. PICK s : s = [s2 EXCEPT !.turn = LastTurn + 1]
  OBVIOUS
<1>9. /\ s \in CallType(Conns) /\ s.at = "chained" /\ s.via = client /\ s.turn = LastTurn + 1
      /\ s.kind = r.kind /\ s.own = r.own /\ s.left = r.left /\ s.done = r.done /\ s.mixed = r.mixed
  <2>1. s \in CallType(Conns) /\ s.turn = LastTurn + 1 /\ s.at = s2.at /\ s.via = s2.via
        /\ s.kind = s2.kind /\ s.own = s2.own /\ s.left = s2.left /\ s.done = s2.done /\ s.mixed = s2.mixed
    BY <1>3, <1>7, <1>8, TurnIs
  <2>2. /\ s2.kind = s1.kind /\ s2.own = s1.own /\ s2.left = s1.left /\ s2.done = s1.done
        /\ s2.mixed = s1.mixed
    BY <1>5, <1>6, <1>7, ViaIs
  <2>3. /\ s1.kind = r.kind /\ s1.own = r.own /\ s1.left = r.left /\ s1.done = r.done
        /\ s1.mixed = r.mixed
    BY <1>2, <1>4, AtIs DEF Ats
  <2> QED BY <1>7, <2>1, <2>2, <2>3
<1>10. call' = [call EXCEPT ![c] = s]
  BY <1>1, <1>4, <1>6, <1>8, CallIs DEF Join
<1>11. UNCHANGED <<queueId, owner, txn, pinned, rows, fails>> /\ chain' = Append(chain, c) /\ Conns' = Conns
  BY DEF Join, Conns
<1>12. Others(c) /\ call'[c] = s
  BY <1>9, <1>10, <1>11, OneCall
<1>13. client # NoConn
  BY Sets, Constants
<1>14. Shape(s, Conns)
  BY <1>1, <1>2, <1>3, <1>9, <1>13 DEF Shape, Mid
<1>15. BulkShape(s, Conns)
  BY <1>1, <1>2, <1>9 DEF BulkShape, Mid
<1>16. Chained' /\ Ordered'
  <2>1. \A i \in DOMAIN rows : rows[i].turn < s.turn
    BY <1>9, LastTurnIs, Sets DEF RowType
  <2>2. \A d \in Calls : call[d].turn < s.turn
    BY <1>9, LastTurnIs, Sets DEF CallType
  <2> QED BY <1>9, <1>11, <1>12, <2>1, <2>2, ChainGrows DEF InChain
<1>17. Account(c)'
  <2>1. Account(c)
    BY CallIs
  <2>2. RowsOf(c)' = RowsOf(c)
    BY <1>11 DEF RowsOf
  <2> QED BY <1>1, <1>9, <1>11, <1>12, <2>1, <2>2 DEF Account, Settled, Mid
<1>18. fails' \in 0 .. MaxFails
  BY <1>11 DEF IInv
<1> QED BY <1>1, <1>9, <1>11, <1>12, <1>14, <1>15, <1>16, <1>17, <1>18, ObjectOnly

\* Call c is at another point, or has another client: s.
LEMMA MovedCall ==
  ASSUME IInv, NEW c \in Calls, NEW s \in CallType(Conns), call' = [call EXCEPT ![c] = s],
         UNCHANGED <<queueId, chain, owner, txn, pinned, rows>>, fails' \in 0 .. MaxFails,
         Shape(s, Conns), BulkShape(s, Conns),
         s.own = call[c].own, s.kind = call[c].kind, call[c].at # "sent",
         s.at \in InChain <=> call[c].at \in InChain,
         s.at \in InChain => s.turn = call[c].turn,
         s.at = "sent" => HasTurn(c),
         call'[c] = s => Account(c)'
  PROVE  IInv'
<1>1. Conns' = Conns
  BY DEF Conns
<1>2. Others(c) /\ call'[c] = s
  BY <1>1, OneCall
<1>3. Chained' /\ Ordered'
  BY <1>2, ChainStays
<1> QED BY <1>2, <1>3, ObjectOnly

\* A call that has no rows of its own, and one whose rows are as they were.
LEMMA SameRows ==
  ASSUME IInv, NEW c \in Calls, rows' = rows, txn' = txn,
         call'[c].at = "called" => call[c].at = "called",
         call'[c].kind = call[c].kind, call'[c].own = call[c].own, call'[c].done = call[c].done,
         call'[c].mixed = call[c].mixed, call'[c].at \in Mid \union {"called"},
         call[c].at \in Mid \union {"called"}, call'[c].at \in Mid => call[c].at \in Mid
  PROVE  Account(c)'
<1>1. RowsOf(c)' = RowsOf(c)
  BY DEF RowsOf
<1> QED BY <1>1, CallIs DEF Account, Settled, Mid

LEMMA CreateBulkKeeps ==
  ASSUME IInv, NEW c \in Calls, CreateBulk(c)
  PROVE  IInv'
<1>1. PICK r : r = call[c]
  OBVIOUS
<1>2. r \in CallType(Conns) /\ Shape(r, Conns) /\ BulkShape(r, Conns) /\ r.kind = "bulk" /\ r.at = "called"
  BY <1>1, CallIs DEF CreateBulk
<1>3. PICK at : at = IF pinned = NoConn THEN "connecting" ELSE "rejected"
  OBVIOUS
<1>4. at \in Ats
  BY <1>3 DEF Ats
<1>5. r.own = NoConn /\ r.done = 0 /\ r.left = MaxJobs /\ r.turn = 0
  BY <1>2 DEF Shape
<1>6. PICK s : s = Going(r, at)
  OBVIOUS
<1>7. /\ s \in CallType(Conns) /\ s.at = at /\ s.kind = r.kind /\ s.own = NoConn
      /\ s.done = 0 /\ s.turn = 0 /\ s.mixed = r.mixed
      /\ at = "connecting" => s.left = MaxJobs
      /\ at = "rejected" => s.left = 0
  BY <1>2, <1>3, <1>4, <1>5, <1>6, GoingIs
<1>8. call' = [call EXCEPT ![c] = s]
  BY <1>1, <1>3, <1>6, CallIs DEF CreateBulk
<1>9. UNCHANGED <<queueId, chain, owner, txn, pinned, rows, fails>>
  BY DEF CreateBulk
<1>10. Shape(s, Conns) /\ BulkShape(s, Conns)
  BY <1>2, <1>3, <1>7, Constants DEF Shape, BulkShape, Mid
<1>11. call'[c] = s => Account(c)'
  <2>1. RowsOf(c)' = RowsOf(c) /\ RowsOf(c) = {}
    BY <1>1, <1>2, <1>9, CallIs DEF RowsOf, Account
  <2> QED BY <1>2, <1>3, <1>7, <2>1, FS_EmptySet DEF Account, Settled, Mid
<1>12. s.at \notin InChain /\ call[c].at \notin InChain /\ s.at # "sent"
  BY <1>1, <1>2, <1>3, <1>7 DEF InChain
<1>13. fails' \in 0 .. MaxFails
  BY <1>9 DEF IInv
<1>14. s.own = call[c].own /\ s.kind = call[c].kind /\ call[c].at # "sent"
  BY <1>1, <1>2, <1>5, <1>7
<1> QED BY <1>7, <1>8, <1>9, <1>10, <1>11, <1>12, <1>13, <1>14, MovedCall

LEMMA InTransactionKeeps ==
  ASSUME IInv, NEW c \in Calls, InTransaction(c)
  PROVE  IInv'
<1>1. PICK r : r = call[c]
  OBVIOUS
<1>2. r \in CallType(Conns) /\ Shape(r, Conns) /\ r.kind = "tx" /\ r.at = "called"
  BY <1>1, CallIs DEF InTransaction
<1>3. PICK at : at = IF pinned = NoConn THEN "connecting" ELSE "rejected"
  OBVIOUS
<1>4. at \in Ats
  BY <1>3 DEF Ats
<1>5. PICK s : s = [r EXCEPT !.at = at]
  OBVIOUS
<1>6. /\ s \in CallType(Conns) /\ s.at = at /\ s.via = r.via /\ s.kind = r.kind /\ s.own = r.own
      /\ s.left = r.left /\ s.done = r.done /\ s.turn = r.turn /\ s.mixed = r.mixed
  BY <1>2, <1>4, <1>5, AtIs
<1>7. call' = [call EXCEPT ![c] = s]
  BY <1>1, <1>3, <1>5, CallIs DEF InTransaction
<1>8. UNCHANGED <<queueId, chain, owner, txn, pinned, rows, fails>>
  BY DEF InTransaction
<1>9. Shape(s, Conns) /\ BulkShape(s, Conns)
  BY <1>2, <1>3, <1>6 DEF Shape, BulkShape, Mid
<1>10. call'[c] = s => Account(c)'
  <2>1. RowsOf(c)' = RowsOf(c) /\ RowsOf(c) = {}
    BY <1>1, <1>2, <1>8, CallIs DEF RowsOf, Account
  <2> QED BY <1>2, <1>3, <1>6, <2>1, FS_EmptySet DEF Account, Settled, Mid
<1>11. s.at \notin InChain /\ call[c].at \notin InChain /\ s.at # "sent"
  BY <1>1, <1>2, <1>3, <1>6 DEF InChain
<1>12. fails' \in 0 .. MaxFails
  BY <1>8 DEF IInv
<1>13. s.own = call[c].own /\ s.kind = call[c].kind /\ call[c].at # "sent"
  BY <1>1, <1>2, <1>6
<1> QED BY <1>6, <1>7, <1>8, <1>9, <1>10, <1>11, <1>12, <1>13, MovedCall

LEMMA ThrowKeeps ==
  ASSUME IInv, NEW c \in Calls, Throw(c)
  PROVE  IInv'
<1>1. PICK r : r = call[c]
  OBVIOUS
<1>2. r \in CallType(Conns) /\ Shape(r, Conns) /\ r.kind = "tx" /\ r.at = "running"
  BY <1>1, CallIs DEF Throw
<1>3. PICK s : s = [r EXCEPT !.at = "undoing"]
  OBVIOUS
<1>4. /\ s \in CallType(Conns) /\ s.at = "undoing" /\ s.via = r.via /\ s.kind = r.kind /\ s.own = r.own
      /\ s.left = r.left /\ s.done = r.done /\ s.turn = r.turn /\ s.mixed = r.mixed
  <2>1. "undoing" \in Ats
    BY DEF Ats
  <2> QED BY <1>2, <1>3, <2>1, AtIs
<1>5. call' = [call EXCEPT ![c] = s]
  BY <1>1, <1>3, CallIs DEF Throw
<1>6. UNCHANGED <<queueId, chain, owner, txn, pinned, rows, fails>>
  BY DEF Throw
<1>7. Shape(s, Conns) /\ BulkShape(s, Conns)
  BY <1>2, <1>4 DEF Shape, BulkShape, Mid
<1>8. call'[c] = s => Account(c)'
  BY <1>1, <1>2, <1>4, <1>6, SameRows DEF Mid
<1>9. s.at \notin InChain /\ call[c].at \notin InChain /\ s.at # "sent"
  BY <1>1, <1>2, <1>4 DEF InChain
<1>10. fails' \in 0 .. MaxFails
  BY <1>6 DEF IInv
<1>11. s.own = call[c].own /\ s.kind = call[c].kind /\ call[c].at # "sent"
  BY <1>1, <1>2, <1>4
<1> QED BY <1>4, <1>5, <1>6, <1>7, <1>8, <1>9, <1>10, <1>11, MovedCall

LEMMA RefuseKeeps ==
  ASSUME IInv, NEW c \in Calls, Refuse(c)
  PROVE  IInv'
<1>1. PICK r : r = call[c]
  OBVIOUS
<1>2. /\ r \in CallType(Conns) /\ Shape(r, Conns) /\ BulkShape(r, Conns) /\ r.left > 0
      /\ (r.at = "called" /\ r.kind = "add") \/ r.at = "running"
  BY <1>1, CallIs DEF Refuse, Shape
<1>3. PICK at \in AfterError(c) :
        call' = [call EXCEPT ![c] = Going([call[c] EXCEPT !.left = call[c].left - 1], at)]
  BY DEF Refuse
<1>4. /\ at \in Ats /\ at \notin InChain /\ at \in {"rejected", "undoing", "running"}
      /\ at = "rejected" <=> r.own = NoConn
      /\ at = "running" => r.kind = "tx"
  BY <1>1, <1>2, <1>3 DEF AfterError, Ats, InChain, Shape, Mid, CallType, Kinds
<1>5. r.left - 1 \in 0 .. MaxJobs
  BY <1>2, Constants DEF CallType
<1>6. PICK s1 : s1 = [r EXCEPT !.left = r.left - 1]
  OBVIOUS
<1>7. /\ s1 \in CallType(Conns) /\ s1.left = r.left - 1 /\ s1.kind = r.kind /\ s1.at = r.at
      /\ s1.via = r.via /\ s1.own = r.own /\ s1.done = r.done /\ s1.turn = r.turn /\ s1.mixed = r.mixed
  BY <1>2, <1>5, <1>6, LeftIs
<1>8. PICK s : s = Going(s1, at)
  OBVIOUS
<1>9. /\ s \in CallType(Conns) /\ s.at = at /\ s.kind = r.kind /\ s.done = r.done /\ s.mixed = r.mixed
      /\ at = "rejected" => s.via = NoConn /\ s.own = NoConn /\ s.left = 0 /\ s.turn = 0
      /\ at # "rejected" => s.via = r.via /\ s.own = r.own /\ s.left = r.left - 1 /\ s.turn = r.turn
  BY <1>4, <1>7, <1>8, GoingIs
<1>10. call' = [call EXCEPT ![c] = s]
  BY <1>1, <1>3, <1>6, <1>8
<1>11. UNCHANGED <<queueId, chain, owner, txn, pinned, rows>>
  BY DEF Refuse
<1>12. fails' \in 0 .. MaxFails
  BY Constants DEF Refuse, IInv
<1>13. Shape(s, Conns) /\ BulkShape(s, Conns)
  <2>1. r.left \in Nat /\ r.done \in Nat /\ r.left + r.done <= MaxJobs
    BY <1>2 DEF Shape, CallType
  <2> QED BY <1>2, <1>4, <1>9, <2>1, Constants DEF Shape, BulkShape, Mid
<1>14. call'[c] = s => Account(c)'
  <2>1. RowsOf(c)' = RowsOf(c)
    BY <1>11 DEF RowsOf
  <2>2. CASE at # "rejected"
    <3>1. r.at = "running"
      BY <1>2, <1>4, <2>2 DEF Shape
    <3> QED BY <1>1, <1>4, <1>9, <1>11, <2>2, <3>1, SameRows DEF Mid
  <2>3. CASE at = "rejected"
    <3>1. r.at = "called" \/ r.mixed
      <4>1. r.kind \in {"bulk", "tx"} \/ r.at = "called"
        BY <1>2 DEF Shape, CallType, Kinds
      <4> QED BY <1>2, <1>4, <2>3, <4>1 DEF Shape, BulkShape, Mid
    <3>2. r.at = "called" => RowsOf(c)' = {}
      BY <1>1, <2>1, CallIs DEF Account
    <3> QED BY <1>9, <2>3, <3>1, <3>2, FS_EmptySet DEF Account, Settled, Mid
  <2> QED BY <2>2, <2>3
<1>15. s.at \notin InChain /\ call[c].at \notin InChain /\ s.at # "sent"
  BY <1>1, <1>2, <1>4, <1>9 DEF InChain
<1>16. s.own = call[c].own /\ s.kind = call[c].kind /\ call[c].at # "sent"
  BY <1>1, <1>2, <1>4, <1>9
<1> QED BY <1>9, <1>10, <1>11, <1>12, <1>13, <1>14, <1>15, <1>16, MovedCall

-----------------------------------------------------------------------------
(* A call begins.                                                          *)

LEMMA FreshIs ==
  ASSUME NEW K, NEW kind \in Kinds
  PROVE  /\ Fresh(kind) \in CallType(K) /\ Shape(Fresh(kind), K) /\ BulkShape(Fresh(kind), K)
         /\ Fresh(kind).at = "called" /\ Fresh(kind).own = NoConn
<1>1. "called" \in Ats
  BY DEF Ats
<1>2. Fresh(kind) \in CallType(K)
  BY <1>1, Constants DEF Fresh, CallType
<1>3. /\ Fresh(kind).at = "called" /\ Fresh(kind).kind = kind /\ Fresh(kind).own = NoConn
      /\ Fresh(kind).done = 0 /\ Fresh(kind).turn = 0
      /\ Fresh(kind).left = IF kind = "add" THEN 1 ELSE MaxJobs
  BY DEF Fresh
<1>4. Shape(Fresh(kind), K)
  BY <1>2, <1>3, Constants DEF Shape, Mid
<1>5. BulkShape(Fresh(kind), K)
  BY <1>3 DEF BulkShape, Mid
<1> QED BY <1>2, <1>3, <1>4, <1>5

LEMMA CallKeeps ==
  ASSUME IInv, NEW kind \in Kinds, Call(kind)
  PROVE  IInv'
<1>1. PICK n : n = Len(call)
  OBVIOUS
<1>2. UNCHANGED <<queueId, chain, owner, txn, pinned, rows, fails>> /\ n < MaxCalls /\ Conns' = Conns
  BY <1>1 DEF Call, Conns
<1>3. PICK s : s = Fresh(kind)
  OBVIOUS
<1>4. /\ s \in CallType(Conns) /\ Shape(s, Conns) /\ BulkShape(s, Conns)
      /\ s.at = "called" /\ s.own = NoConn
  BY <1>3, FreshIs
<1>5. /\ call' \in Seq(CallType(Conns)) /\ Len(call') = n + 1 /\ n \in Nat
      /\ \A d \in 1 .. n : call'[d] = call[d]
      /\ call'[n + 1] = s
  <2> DEFINE S == CallType(Conns)
  <2>1. call \in Seq(S) /\ s \in S
    BY <1>4 DEF IInv, Shapes
  <2>2. call' = Append(call, s)
    BY <1>3 DEF Call
  <2> HIDE DEF S
  <2>3. /\ Append(call, s) \in Seq(S) /\ Len(Append(call, s)) = Len(call) + 1
        /\ \A d \in 1 .. Len(call) : Append(call, s)[d] = call[d]
        /\ Append(call, s)[Len(call) + 1] = s
    BY <2>1, AppendProperties
  <2> QED BY <1>1, <2>2, <2>3, Sets DEF S
<1>6. Calls = 1 .. n /\ Calls' = 1 .. n + 1 /\ Calls \subseteq Calls' /\ n + 1 \notin Calls
  BY <1>1, <1>5 DEF Calls
<1>7. \A d \in Calls' : d \in Calls \/ d = n + 1
  BY <1>5, <1>6
<1>8. \A d \in Calls : call'[d] = call[d]
  BY <1>5, <1>6
<1>9. \A k \in Conns : owner[k] # 0 => owner[k] \in Calls
  BY Sets
<1>10. Shapes'
  <2>1. Len(call') <= MaxCalls
    BY <1>2, <1>5, Constants
  <2>2. \A d \in Calls' : Shape(call'[d], Conns) /\ BulkShape(call'[d], Conns)
    BY <1>4, <1>5, <1>7, <1>8, CallIs
  <2> QED BY <1>2, <1>5, <2>1, <2>2 DEF Shapes
<1>11. \A i \in DOMAIN chain : chain[i] \in Calls
  BY Sets
<1>12. Chained'
  <2>1. chain \in Seq(Calls')
    BY <1>6, SeqMonotonic DEF IInv, Chained
  <2>2. \A d \in Calls : call'[d].at \in {"chained", "sent"} <=> \E i \in DOMAIN chain : chain[i] = d
    BY <1>8 DEF IInv, Chained
  <2>3. call'[n + 1].at \notin {"chained", "sent"} /\ \A i \in DOMAIN chain : chain[i] # n + 1
    BY <1>4, <1>5, <1>6, <1>11
  <2>4. \A i \in DOMAIN chain : call'[chain[i]].at = "sent" => i = 1
    BY <1>8, <1>11 DEF IInv, Chained
  <2> QED BY <1>2, <1>7, <2>1, <2>2, <2>3, <2>4 DEF Chained
<1>13. Ordered'
  BY <1>2, <1>8, <1>11 DEF IInv, Ordered, InCallOrder
<1>14. Owned'
  <2>1. owner \in Seq(0 .. Len(call'))
    <3>1. 0 .. Len(call) \subseteq 0 .. Len(call')
      BY <1>1, <1>5
    <3> QED BY <3>1, SeqMonotonic DEF IInv, Owned
  <2>2. \A d \in Calls' : call'[d].own # NoConn => owner[call'[d].own] = d /\ txn[call'[d].own] # "none"
    BY <1>4, <1>5, <1>7, <1>8 DEF IInv, Owned
  <2>3. \A k \in Conns : owner[k] # 0 =>
          call'[owner[k]].own = k \/ (call'[owner[k]].at = "sent" /\ call'[owner[k]].via = k)
    BY <1>8, <1>9 DEF IInv, Owned
  <2>4. \A k \in Conns : txn[k] # "none" => owner[k] # 0 /\ call'[owner[k]].own = k
    BY <1>8, <1>9 DEF IInv, Owned
  <2>5. pinned # NoConn => txn[pinned] # "none" /\ call'[owner[pinned]].kind = "tx"
    <3>1. pinned # NoConn => pinned \in Conns /\ txn[pinned] # "none" /\ owner[pinned] \in Calls
      BY <1>9 DEF IInv, Owned
    <3> QED BY <1>8, <3>1 DEF IInv, Owned
  <2> QED BY <1>2, <2>1, <2>2, <2>3, <2>4, <2>5 DEF IInv, Owned
<1>15. Locked'
  <2>1. RowType(Calls, Conns) \subseteq RowType(Calls', Conns)
    BY <1>6 DEF RowType
  <2>2. rows \in Seq(RowType(Calls', Conns))
    BY <2>1, SeqMonotonic DEF IInv, Locked
  <2> QED BY <1>2, <2>2 DEF IInv, Locked
<1>16. ASSUME NEW d \in Calls'
       PROVE  Account(d)'
  <2>1. RowsOf(d)' = RowsOf(d)
    BY <1>2 DEF RowsOf
  <2>2. CASE d \in Calls
    <3>1. Account(d) /\ call'[d] = call[d]
      BY <1>8, <2>2, CallIs
    <3> QED BY <1>2, <2>1, <3>1 DEF Account, Settled
  <2>3. CASE d = n + 1
    <3>1. \A i \in DOMAIN rows : rows[i].call \in Calls
      BY Sets DEF RowType
    <3>2. RowsOf(d) = {}
      BY <1>6, <2>3, <3>1 DEF RowsOf
    <3> QED BY <1>4, <1>5, <2>1, <2>3, <3>2 DEF Account, Settled, Mid
  <2> QED BY <1>7, <2>2, <2>3
<1> QED BY <1>2, <1>10, <1>12, <1>13, <1>14, <1>15, <1>16 DEF IInv

-----------------------------------------------------------------------------
(* A connection is taken.                                                  *)

LEMMA CheckoutIs ==
  ASSUME IInv, NEW c \in Calls, NEW k \in 1 .. MaxConns, NEW t \in {"none", "open"}, Checkout(c, k, t)
  PROVE  /\ owner' \in Seq(0 .. Len(call)) /\ Len(owner') <= MaxConns
         /\ Conns' = Conns \union {k} /\ owner'[k] = c /\ txn'[k] = t
         /\ txn' \in [Conns' -> {"none", "open", "aborted"}]
         /\ \A j \in Conns : j # k => owner'[j] = owner[j] /\ txn'[j] = txn[j]
         /\ k \in Conns => owner[k] = 0
         /\ NoConn \notin Conns'
<1>1. owner \in Seq(0 .. Len(call)) /\ Len(owner) <= MaxConns /\ txn \in [Conns -> {"none", "open", "aborted"}]
  BY DEF IInv, Owned
<1>2. c \in 0 .. Len(call) /\ Conns = 1 .. Len(owner) /\ Len(owner) \in Nat /\ NoConn \notin Conns
  BY Sets
<1>3. CASE k \in Idle /\ owner' = [owner EXCEPT ![k] = c] /\ txn' = [txn EXCEPT ![k] = t]
  <2>1. k \in Conns /\ owner[k] = 0
    BY <1>3 DEF Idle
  <2>2. /\ owner' \in Seq(0 .. Len(call)) /\ Len(owner') = Len(owner)
        /\ \A j \in 1 .. Len(owner) : owner'[j] = IF j = k THEN c ELSE owner[j]
    BY <1>1, <1>2, <1>3, <2>1, ExceptSeq
  <2>3. Conns' = Conns
    BY <1>3 DEF Conns
  <2>4. Conns' = Conns \union {k}
    BY <2>1, <2>3
  <2>5. txn' \in [Conns -> {"none", "open", "aborted"}] /\ txn'[k] = t /\ \A j \in Conns : j # k => txn'[j] = txn[j]
    BY <1>1, <1>3, <2>1
  <2> QED BY <1>1, <1>2, <2>1, <2>2, <2>3, <2>4, <2>5
<1>4. CASE Len(owner) < MaxConns /\ k = Len(owner) + 1 /\ owner' = Append(owner, c) /\ txn' = Append(txn, t)
  <2>1. /\ Append(owner, c) \in Seq(0 .. Len(call)) /\ Len(Append(owner, c)) = Len(owner) + 1
        /\ \A j \in 1 .. Len(owner) : Append(owner, c)[j] = owner[j]
        /\ Append(owner, c)[Len(owner) + 1] = c
    BY <1>1, <1>2, AppendProperties
  <2>2. DOMAIN Append(owner, c) = 1 .. Len(owner) + 1
    BY <2>1, LenProperties
  <2>3. Conns' = 1 .. Len(owner) + 1
    BY <1>4, <2>2 DEF Conns
  <2>4. Conns' = Conns \union {k} /\ k \notin Conns
    BY <1>2, <1>4, <2>3
  <2>5. txn \in Seq({"none", "open", "aborted"}) /\ Len(txn) = Len(owner)
    <3>1. txn \in [1 .. Len(owner) -> {"none", "open", "aborted"}]
      BY <1>1, <1>2
    <3>2. txn \in Seq({"none", "open", "aborted"})
      BY <1>2, <3>1, SeqDef
    <3>3. DOMAIN txn = 1 .. Len(txn) /\ Len(txn) \in Nat
      BY <3>2, LenProperties
    <3> QED BY <1>2, <3>1, <3>2, <3>3
  <2>6. /\ Append(txn, t) \in Seq({"none", "open", "aborted"}) /\ Len(Append(txn, t)) = Len(owner) + 1
        /\ \A j \in 1 .. Len(owner) : Append(txn, t)[j] = txn[j]
        /\ Append(txn, t)[Len(owner) + 1] = t
    BY <2>5, AppendProperties
  <2>7. Append(txn, t) \in [1 .. Len(owner) + 1 -> {"none", "open", "aborted"}]
    BY <2>6, LenProperties
  <2>8. NoConn \notin Conns'
    BY <1>2, <2>3, Constants
  <2>9. owner' \in Seq(0 .. Len(call)) /\ Len(owner') <= MaxConns /\ owner'[k] = c /\ txn'[k] = t
    BY <1>2, <1>4, <2>1, <2>6, Constants
  <2>10. \A j \in Conns : owner'[j] = owner[j] /\ txn'[j] = txn[j]
    BY <1>2, <1>4, <2>1, <2>6
  <2> QED BY <1>4, <2>3, <2>4, <2>7, <2>8, <2>9, <2>10
<1> QED BY <1>3, <1>4 DEF Checkout

\* The connection taken was of no call and of no transaction.
LEMMA TakenIsFree ==
  ASSUME IInv, NEW k, k \in Conns => owner[k] = 0, k # NoConn
  PROVE  /\ \A d \in Calls : call[d].own # k
         /\ pinned # k
         /\ \A i \in DOMAIN rows : rows[i].in # k
         /\ \A j \in Conns : txn[j] # "none" => j # k
<1>1. \A j \in Conns : txn[j] # "none" => j # k
  BY DEF IInv, Owned
<1>2. ASSUME NEW d \in Calls, call[d].own = k
      PROVE  FALSE
  BY <1>2, CallIs
<1>3. pinned # k
  BY <1>1 DEF IInv, Owned
<1>4. ASSUME NEW i \in DOMAIN rows, rows[i].in = k
      PROVE  FALSE
  <2>1. rows[i].in \in Conns /\ txn[rows[i].in] # "none"
    BY <1>4, Sets DEF IInv, Locked, RowType
  <2> QED BY <1>1, <1>4, <2>1
<1> QED BY <1>1, <1>2, <1>3, <1>4

\* Call c takes connection k for a transaction of its own, or for one query.
LEMMA TakenKeeps ==
  ASSUME IInv, NEW c \in Calls, NEW k \in 1 .. MaxConns, NEW t \in {"none", "open"}, Checkout(c, k, t),
         Others(c), call[c].at # "sent", call'[c].kind = call[c].kind,
         \/ t = "open" /\ call'[c].own = k /\ call[c].own = NoConn
         \/ t = "none" /\ call'[c].own = call[c].own /\ call'[c].at = "sent" /\ call'[c].via = k,
         \/ pinned' = pinned
         \/ t = "open" /\ pinned' = k /\ call[c].kind = "tx",
         rows' = rows
  PROVE  Owned' /\ Locked' /\ \A d \in Calls : d # c => Account(d)'
<1>1. /\ owner' \in Seq(0 .. Len(call)) /\ Len(owner') <= MaxConns
      /\ Conns' = Conns \union {k} /\ owner'[k] = c /\ txn'[k] = t
      /\ txn' \in [Conns' -> {"none", "open", "aborted"}]
      /\ \A j \in Conns : j # k => owner'[j] = owner[j] /\ txn'[j] = txn[j]
      /\ k \in Conns => owner[k] = 0
      /\ NoConn \notin Conns'
  BY CheckoutIs
<1>2. k # NoConn
  BY <1>1
<1>3. /\ \A d \in Calls : call[d].own # k
      /\ pinned # k
      /\ \A i \in DOMAIN rows : rows[i].in # k
      /\ \A j \in Conns : txn[j] # "none" => j # k
  BY <1>1, <1>2, TakenIsFree
<1>4. Calls' = Calls /\ Len(call') = Len(call)
  BY DEF Others, Calls
<1>5. \A d \in Calls : d # c => Like(call[d], call'[d])
  BY DEF Others
<1>6. \A d \in Calls : call'[d].kind = call[d].kind
  BY <1>5 DEF Like
<1>7. \A j \in Conns : owner[j] # 0 => owner[j] \in Calls
  BY Sets
<1>8. ASSUME NEW d \in Calls, call'[d].own # NoConn
      PROVE  owner'[call'[d].own] = d /\ txn'[call'[d].own] # "none"
  <2>1. CASE call'[d].own = call[d].own
    <3>1. call[d].own \in Conns /\ owner[call[d].own] = d /\ txn[call[d].own] # "none" /\ call[d].own # k
      BY <1>3, <1>8, <2>1, CallIs
    <3> QED BY <1>1, <2>1, <3>1
  <2>2. CASE call'[d].own # call[d].own
    <3>1. d = c
      BY <1>5, <2>2 DEF Like
    <3> QED BY <1>1, <2>2, <3>1
  <2> QED BY <2>1, <2>2
<1>9. ASSUME NEW j \in Conns', owner'[j] # 0
      PROVE  call'[owner'[j]].own = j \/ (call'[owner'[j]].at = "sent" /\ call'[owner'[j]].via = j)
  <2>1. CASE j = k
    BY <1>1, <2>1
  <2>2. CASE j # k
    <3>1. j \in Conns /\ owner'[j] = owner[j] /\ owner[j] \in Calls
      BY <1>1, <1>7, <1>9, <2>2
    <3>2. call[owner[j]].own = j \/ (call[owner[j]].at = "sent" /\ call[owner[j]].via = j)
      BY <1>9, <3>1 DEF IInv, Owned
    <3>3. CASE owner[j] = c
      <4>1. call[c].own = j /\ j # NoConn
        BY <1>1, <3>1, <3>2, <3>3
      <4> QED BY <3>1, <3>3, <4>1
    <3>4. CASE owner[j] # c
      BY <1>5, <3>1, <3>2, <3>4 DEF Like
    <3> QED BY <3>3, <3>4
  <2> QED BY <2>1, <2>2
<1>10. ASSUME NEW j \in Conns', txn'[j] # "none"
       PROVE  owner'[j] # 0 /\ call'[owner'[j]].own = j
  <2>1. CASE j = k
    <3>1. c # 0
      BY CallIs
    <3> QED BY <1>1, <1>10, <2>1, <3>1
  <2>2. CASE j # k
    <3>1. j \in Conns /\ owner'[j] = owner[j] /\ txn[j] # "none"
      BY <1>1, <1>10, <2>2
    <3>2. owner[j] # 0 /\ owner[j] \in Calls /\ call[owner[j]].own = j
      BY <1>7, <3>1 DEF IInv, Owned
    <3>3. j # NoConn
      BY <1>1
    <3>4. call'[owner[j]].own = j
      BY <1>5, <3>2, <3>3 DEF Like
    <3> QED BY <3>1, <3>2, <3>4
  <2> QED BY <2>1, <2>2
<1>11. pinned' \in Conns' \union {NoConn}
  BY <1>1 DEF IInv, Owned
<1>12. ASSUME pinned' # NoConn
       PROVE  txn'[pinned'] # "none" /\ call'[owner'[pinned']].kind = "tx"
  <2>1. CASE pinned' = pinned
    <3>1. pinned \in Conns /\ txn[pinned] # "none" /\ call[owner[pinned]].kind = "tx" /\ pinned # k
      BY <1>3, <1>12, <2>1 DEF IInv, Owned
    <3>2. owner[pinned] \in Calls
      BY <1>7, <3>1 DEF IInv, Owned
    <3> QED BY <1>1, <1>6, <2>1, <3>1, <3>2
  <2>2. CASE t = "open" /\ pinned' = k /\ call[c].kind = "tx"
    BY <1>1, <2>2
  <2> QED BY <2>1, <2>2
<1>13. Owned'
  BY <1>1, <1>4, <1>8, <1>9, <1>10, <1>11, <1>12 DEF Owned
<1>14. Locked'
  <2>1. RowType(Calls, Conns) \subseteq RowType(Calls, Conns')
    BY <1>1 DEF RowType
  <2>2. rows' \in Seq(RowType(Calls', Conns'))
    BY <1>4, <2>1, SeqMonotonic DEF IInv, Locked
  <2>3. \A i \in DOMAIN rows : rows[i].in # NoConn => txn'[rows[i].in] # "none"
    <3>1. \A i \in DOMAIN rows : rows[i].in # NoConn => rows[i].in \in Conns /\ txn[rows[i].in] # "none"
      BY Sets DEF IInv, Locked, RowType
    <3> QED BY <1>1, <1>3, <3>1
  <2> QED BY <2>2, <2>3 DEF IInv, Locked
<1>15. ASSUME NEW d \in Calls, d # c
       PROVE  Account(d)'
  <2>1. RowsOf(d)' = RowsOf(d)
    BY DEF RowsOf
  <2>2. ASSUME ~ call'[d].mixed, call[d].own # NoConn
        PROVE  /\ txn'[call[d].own] = txn[call[d].own]
               /\ \A i \in DOMAIN rows : rows[i].in = call[d].own => rows[i].call = d
    <3>1. ~ call[d].mixed /\ call[d].at \in Mid /\ call[d].kind # "add"
      <4>1. ~ call[d].mixed
        BY <1>5, <1>15, <2>2 DEF Like
      <4> QED BY <2>2, <4>1, CallIs DEF Shape
    <3>2. call[d].own \in Conns /\ call[d].own # k
      BY <1>3, <2>2, CallIs
    <3> QED BY <1>1, <3>1, <3>2, CallIs DEF Account
  <2> QED BY <1>15, <2>1, <2>2, AccountKeeps
<1> QED BY <1>13, <1>14, <1>15

LEMMA ConnectKeeps ==
  ASSUME IInv, NEW c \in Calls, Connect(c)
  PROVE  IInv'
<1>1. PICK r : r = call[c]
  OBVIOUS
<1>2. /\ r \in CallType(Conns) /\ Shape(r, Conns) /\ BulkShape(r, Conns) /\ r.at = "connecting"
      /\ r.own = NoConn /\ r.done = 0 /\ r.kind # "add" /\ r.left = MaxJobs
  BY <1>1, CallIs DEF Connect, Shape
<1>3. PICK k \in 1 .. MaxConns :
        /\ Checkout(c, k, "open")
        /\ call' = [call EXCEPT ![c].at = "running", ![c].own = k, ![c].via = k]
        /\ pinned' = IF call[c].kind = "tx" THEN k ELSE pinned
  BY DEF Connect, Begun
<1>4. /\ Conns' = Conns \union {k} /\ owner'[k] = c /\ txn'[k] = "open"
      /\ k \in Conns => owner[k] = 0
      /\ NoConn \notin Conns'
  BY <1>3, CheckoutIs
<1>5. k # NoConn /\ k \in Conns' /\ Conns \subseteq Conns'
  BY <1>4
<1>6. \A i \in DOMAIN rows : rows[i].in # k
  BY <1>4, <1>5, TakenIsFree
<1>7. UNCHANGED <<queueId, chain, rows, fails>>
  BY DEF Connect
<1>8. PICK s1 : s1 = [r EXCEPT !.at = "running"]
  OBVIOUS
<1>9. /\ s1 \in CallType(Conns') /\ s1.at = "running" /\ s1.kind = r.kind /\ s1.left = r.left
      /\ s1.done = r.done /\ s1.turn = r.turn /\ s1.mixed = r.mixed
  <2>1. "running" \in Ats
    BY DEF Ats
  <2>2. r \in CallType(Conns')
    BY <1>2, <1>5, MoreConns
  <2> QED BY <1>8, <2>1, <2>2, AtIs
<1>10. PICK s2 : s2 = [s1 EXCEPT !.own = k]
  OBVIOUS
<1>11. /\ s2 \in CallType(Conns') /\ s2.own = k /\ s2.at = "running" /\ s2.kind = r.kind /\ s2.left = r.left
       /\ s2.done = r.done /\ s2.turn = r.turn /\ s2.mixed = r.mixed
  BY <1>5, <1>9, <1>10 DEF CallType
<1>12. PICK s : s = [s2 EXCEPT !.via = k]
  OBVIOUS
<1>13. /\ s \in CallType(Conns') /\ s.own = k /\ s.via = k /\ s.at = "running" /\ s.kind = r.kind
       /\ s.left = r.left /\ s.done = r.done /\ s.turn = r.turn /\ s.mixed = r.mixed
  BY <1>5, <1>11, <1>12 DEF CallType
<1>14. call' = [call EXCEPT ![c] = s]
  BY <1>1, <1>3, <1>8, <1>10, <1>12, CallIs
<1>15. Others(c) /\ call'[c] = s
  BY <1>5, <1>13, <1>14, OneCall
<1>16. Shape(s, Conns')
  BY <1>2, <1>5, <1>13 DEF Shape, Mid
<1>17. BulkShape(s, Conns')
  BY <1>2, <1>5, <1>13, Constants DEF BulkShape
<1>18. Shapes' /\ Calls' = Calls
  BY <1>15, <1>16, <1>17, ShapesKeep
<1>19. Chained' /\ Ordered'
  BY <1>1, <1>2, <1>7, <1>13, <1>15, ChainStays DEF InChain
<1>20. Owned' /\ Locked' /\ \A d \in Calls : d # c => Account(d)'
  <2>1. call[c].at # "sent" /\ call'[c].kind = call[c].kind /\ call'[c].own = k /\ call[c].own = NoConn
    BY <1>1, <1>2, <1>13, <1>15
  <2> QED BY <1>3, <1>7, <1>15, <2>1, TakenKeeps
<1>21. Account(c)'
  <2>1. RowsOf(c)' = {}
    <3>1. RowsOf(c) = {}
      BY <1>1, <1>2, CallIs DEF Account
    <3>2. RowsOf(c)' = RowsOf(c)
      BY <1>7 DEF RowsOf
    <3> QED BY <3>1, <3>2
  <2>2. \A i \in DOMAIN rows' : rows'[i].call # c
    BY <2>1 DEF RowsOf
  <2> QED BY <1>2, <1>4, <1>6, <1>7, <1>13, <1>15, <2>1, <2>2, FS_EmptySet DEF Account, Settled
<1> QED BY <1>7, <1>18, <1>19, <1>20, <1>21 DEF IInv

-----------------------------------------------------------------------------
(* A query is sent.                                                        *)

LEMMA SendKeeps ==
  ASSUME IInv, NEW c \in Calls, Send(c)
  PROVE  IInv'
<1>1. PICK r : r = call[c]
  OBVIOUS
<1>2. /\ r \in CallType(Conns) /\ Shape(r, Conns) /\ BulkShape(r, Conns) /\ r.at = "chained" /\ HasTurn(c)
      /\ r.via # NoConn
  BY <1>1, CallIs DEF Send, HasTurn, Shape
<1>3. UNCHANGED <<queueId, chain, pinned, rows, fails>> /\ fails' \in 0 .. MaxFails
  BY DEF Send, IInv
<1>4. PICK s1 : s1 = [r EXCEPT !.at = "sent"]
  OBVIOUS
<1>5. /\ s1 \in CallType(Conns) /\ s1.at = "sent" /\ s1.via = r.via /\ s1.kind = r.kind /\ s1.own = r.own
      /\ s1.left = r.left /\ s1.done = r.done /\ s1.turn = r.turn /\ s1.mixed = r.mixed
  <2>1. "sent" \in Ats
    BY DEF Ats
  <2> QED BY <1>2, <1>4, <2>1, AtIs
<1>6. CASE call[c].via # Pool /\ call' = [call EXCEPT ![c].at = "sent"] /\ UNCHANGED <<owner, txn>>
  <2>1. call' = [call EXCEPT ![c] = s1]
    BY <1>1, <1>4, <1>6, CallIs
  <2>2. Shape(s1, Conns)
    BY <1>1, <1>2, <1>5, <1>6 DEF Shape, Mid
  <2>3. BulkShape(s1, Conns)
    BY <1>2, <1>5 DEF BulkShape, Mid
  <2>4. call'[c] = s1 => Account(c)'
    BY <1>1, <1>2, <1>3, <1>5, <1>6, SameRows DEF Mid
  <2>5. /\ s1.at \in InChain /\ call[c].at \in InChain /\ s1.turn = call[c].turn /\ call[c].at # "sent"
        /\ s1.own = call[c].own /\ s1.kind = call[c].kind
    BY <1>1, <1>2, <1>5 DEF InChain
  <2> QED BY <1>2, <1>3, <1>5, <1>6, <2>1, <2>2, <2>3, <2>4, <2>5, MovedCall
<1>7. ASSUME call[c].via = Pool, NEW k \in 1 .. MaxConns, Checkout(c, k, "none"),
             call' = [call EXCEPT ![c].at = "sent", ![c].via = k]
      PROVE  IInv'
  <2>1. /\ Conns' = Conns \union {k}
        /\ k \in Conns => owner[k] = 0
        /\ NoConn \notin Conns'
        /\ \A j \in Conns : j # k => txn'[j] = txn[j]
        /\ owner' \in Seq(0 .. Len(call))
    BY <1>7, CheckoutIs
  <2>2. k # NoConn /\ k \in Conns' /\ Conns \subseteq Conns' /\ k # Pool
    BY <2>1, Constants
  <2>3. \A d \in Calls : call[d].own # k
    BY <2>1, <2>2, TakenIsFree
  <2>4. PICK s : s = [s1 EXCEPT !.via = k]
    OBVIOUS
  <2>5. /\ s \in CallType(Conns') /\ s.at = "sent" /\ s.via = k /\ s.kind = r.kind /\ s.own = r.own
        /\ s.left = r.left /\ s.done = r.done /\ s.turn = r.turn /\ s.mixed = r.mixed
    <3>1. s1 \in CallType(Conns')
      BY <1>5, <2>2, MoreConns
    <3> QED BY <1>5, <2>2, <2>4, <3>1 DEF CallType
  <2>6. call' = [call EXCEPT ![c] = s]
    BY <1>1, <1>4, <1>7, <2>4, CallIs
  <2>7. Others(c) /\ call'[c] = s
    BY <2>2, <2>5, <2>6, OneCall
  <2>8. Shape(s, Conns')
    BY <1>2, <2>2, <2>5 DEF Shape, Mid
  <2>9. r.kind # "bulk"
    BY <1>1, <1>2, <1>7, Sets DEF BulkShape, Mid
  <2>10. Shapes' /\ Calls' = Calls
    BY <2>5, <2>7, <2>8, <2>9, ShapesKeep DEF BulkShape
  <2>11. Chained' /\ Ordered'
    <3>1. call'[c].at \in InChain /\ call[c].at \in InChain /\ call'[c].turn = call[c].turn
      BY <1>1, <1>2, <2>5, <2>7 DEF InChain
    <3> QED BY <1>2, <1>3, <2>7, <3>1, ChainStays
  <2>12. Owned' /\ Locked' /\ \A d \in Calls : d # c => Account(d)'
    <3>1. /\ call[c].at # "sent" /\ call'[c].kind = call[c].kind /\ call'[c].own = call[c].own
          /\ call'[c].at = "sent" /\ call'[c].via = k
      BY <1>1, <1>2, <2>5, <2>7
    <3> QED BY <1>3, <1>7, <2>7, <3>1, TakenKeeps
  <2>13. Account(c)'
    <3>1. RowsOf(c)' = RowsOf(c)
      BY <1>3 DEF RowsOf
    <3>2. call[c].own # NoConn => txn'[call[c].own] = txn[call[c].own]
      BY <2>1, <2>3, CallIs
    <3>3. ~ call[c].mixed /\ call[c].kind # "add" => call[c].own # NoConn
      BY <1>1, <1>2, OwnTransaction DEF Mid
    <3> QED BY <1>1, <1>2, <1>3, <2>5, <2>7, <3>1, <3>2, <3>3, CallIs DEF Account, Settled, Mid
  <2> QED BY <1>3, <2>10, <2>11, <2>12, <2>13 DEF IInv
<1> QED BY <1>6, <1>7 DEF Send

-----------------------------------------------------------------------------
(* A query is answered.                                                    *)

LEMMA MarkedIs ==
  ASSUME IInv, NEW c \in Calls, NEW cs, NEW s \in CallType(Conns), DOMAIN owner' = DOMAIN owner,
         call' = [Marked(cs) EXCEPT ![c] = s]
  PROVE  /\ Others(c) /\ call'[c] = s
         /\ \A d \in Calls : d # c => call'[d].mixed = (call[d].mixed \/ d \in cs)
<1> DEFINE S == CallType(Conns)
<1>1. Calls = 1 .. Len(call) /\ Len(call) \in Nat /\ \A d \in Calls : call[d] \in CallType(Conns)
  BY Sets
<1>2. PICK m : m = Marked(cs)
  OBVIOUS
<1>3. \A d \in Calls : m[d] = [call[d] EXCEPT !.mixed = call[d].mixed \/ d \in cs]
  BY <1>2 DEF Marked
<1>4. ASSUME NEW d \in Calls
      PROVE  m[d] \in S /\ m[d].mixed = (call[d].mixed \/ d \in cs) /\ Like(call[d], m[d])
  <2>1. PICK r, b : r = call[d] /\ b = (call[d].mixed \/ d \in cs)
    OBVIOUS
  <2>2. r \in CallType(Conns) /\ b \in BOOLEAN /\ m[d] = [r EXCEPT !.mixed = b]
    BY <1>1, <1>3, <2>1
  <2>3. /\ m[d] \in CallType(Conns) /\ m[d].mixed = b /\ m[d].kind = r.kind /\ m[d].at = r.at
        /\ m[d].via = r.via /\ m[d].own = r.own /\ m[d].left = r.left
        /\ m[d].done = r.done /\ m[d].turn = r.turn
    BY <2>2, MixedIs
  <2> QED BY <2>1, <2>3 DEF Like
<1>5. DOMAIN m = Calls /\ m = [d \in Calls |-> m[d]]
  BY <1>2 DEF Marked
<1>6. m \in [1 .. Len(call) -> S]
  <2> HIDE DEF S
  <2> QED BY <1>1, <1>4, <1>5
<1>7. m \in Seq(S) /\ Len(m) = Len(call)
  <2> HIDE DEF S
  <2>1. m \in Seq(S)
    BY <1>1, <1>6, SeqDef
  <2>2. DOMAIN m = 1 .. Len(m) /\ Len(m) \in Nat
    BY <2>1, LenProperties
  <2> QED BY <1>1, <1>5, <2>1, <2>2
<1>8. s \in S
  OBVIOUS
<1>9. /\ call' \in Seq(S) /\ Len(call') = Len(call)
      /\ \A d \in 1 .. Len(call) : call'[d] = IF d = c THEN s ELSE m[d]
  <2> HIDE DEF S
  <2> QED BY <1>1, <1>2, <1>7, <1>8, ExceptSeq
<1>10. Conns' = Conns
  BY DEF Conns
<1>11. \A d \in Calls : d # c => call'[d] = m[d]
  BY <1>1, <1>9
<1>12. call'[c] = s
  BY <1>1, <1>9
<1> QED BY <1>4, <1>9, <1>10, <1>11, <1>12 DEF Others

\* A call that waits for its turn, or for an answer, has no connection but those two.
LEMMA ReturnedIs ==
  ASSUME IInv, NEW c \in Calls, call[c].at \in InChain
  PROVE  /\ Returned(c) \in Seq(0 .. Len(call)) /\ Len(Returned(c)) = Len(owner)
         /\ DOMAIN Returned(c) = DOMAIN owner
         /\ \A j \in Conns : \/ Returned(c)[j] = owner[j]
                             \/ Returned(c)[j] = 0 /\ owner[j] = c /\ call[c].own # j
         /\ \A j \in Conns : Returned(c)[j] = c => call[c].own = j
<1>1. owner \in Seq(0 .. Len(call)) /\ Conns = 1 .. Len(owner) /\ 0 \in 0 .. Len(call) /\ c # 0
  BY Sets, CallIs DEF IInv, Owned
<1>2. \A j \in Conns : owner[j] = c => call[c].own = j \/ (call[c].at = "sent" /\ call[c].via = j)
  BY CallIs DEF IInv, Owned
<1>3. PICK k : k = call[c].via
  OBVIOUS
<1>4. CASE k \in Conns /\ owner[k] = c /\ call[c].own # k
  <2>1. Returned(c) = [owner EXCEPT ![k] = 0]
    BY <1>3, <1>4 DEF Returned
  <2>2. /\ Returned(c) \in Seq(0 .. Len(call)) /\ Len(Returned(c)) = Len(owner)
        /\ \A j \in 1 .. Len(owner) : Returned(c)[j] = IF j = k THEN 0 ELSE owner[j]
    BY <1>1, <1>4, <2>1, ExceptSeq
  <2>3. DOMAIN Returned(c) = DOMAIN owner
    BY <2>1
  <2> QED BY <1>1, <1>2, <1>3, <1>4, <2>2, <2>3
<1>5. CASE ~ (k \in Conns /\ owner[k] = c /\ call[c].own # k)
  <2>1. Returned(c) = owner
    BY <1>3, <1>5 DEF Returned
  <2> QED BY <1>1, <1>2, <1>3, <1>5, <2>1
<1> QED BY <1>4, <1>5

\* The answer gives back a connection that is of no transaction.
LEMMA AnsweredOwned ==
  ASSUME IInv, NEW c \in Calls, call[c].at \in InChain, Others(c), owner' = Returned(c),
         txn' \in [Conns -> {"none", "open", "aborted"}],
         \A j \in Conns : txn'[j] = "none" <=> txn[j] = "none",
         pinned' = pinned, call'[c].kind = call[c].kind, call'[c].own = call[c].own
  PROVE  Owned' /\ Conns' = Conns
<1>1. /\ owner' \in Seq(0 .. Len(call)) /\ Len(owner') = Len(owner)
      /\ DOMAIN owner' = DOMAIN owner
      /\ \A j \in Conns : \/ owner'[j] = owner[j]
                          \/ owner'[j] = 0 /\ owner[j] = c /\ call[c].own # j
      /\ \A j \in Conns : owner'[j] = c => call[c].own = j
  BY ReturnedIs
<1>2. Conns' = Conns
  BY <1>1 DEF Conns
<1>3. Calls' = Calls /\ Len(call') = Len(call)
  BY DEF Others, Calls
<1>4. \A d \in Calls : call'[d].own = call[d].own /\ call'[d].kind = call[d].kind
  BY DEF Others, Like
<1>5. \A j \in Conns : owner[j] # 0 => owner[j] \in Calls
  BY Sets
<1>6. \A j \in Conns : txn[j] # "none" => owner'[j] = owner[j] /\ owner[j] # 0 /\ call[owner[j]].own = j
  BY <1>1 DEF IInv, Owned
<1>7. ASSUME NEW d \in Calls, call'[d].own # NoConn
      PROVE  owner'[call'[d].own] = d /\ txn'[call'[d].own] # "none"
  <2>1. call'[d].own = call[d].own
    BY <1>4
  <2>2. call[d].own \in Conns /\ owner[call[d].own] = d /\ txn[call[d].own] # "none"
    BY <1>7, <2>1, CallIs
  <2> QED BY <1>6, <2>1, <2>2
<1>8. ASSUME NEW j \in Conns, owner'[j] # 0
      PROVE  call'[owner'[j]].own = j \/ (call'[owner'[j]].at = "sent" /\ call'[owner'[j]].via = j)
  <2>1. owner'[j] = owner[j] /\ owner[j] \in Calls
    BY <1>1, <1>5, <1>8
  <2>2. CASE owner[j] = c
    BY <1>1, <2>1, <2>2
  <2>3. CASE owner[j] # c
    <3>1. Like(call[owner[j]], call'[owner[j]])
      BY <2>1, <2>3 DEF Others
    <3>2. call[owner[j]].own = j \/ (call[owner[j]].at = "sent" /\ call[owner[j]].via = j)
      BY <1>8, <2>1 DEF IInv, Owned
    <3> QED BY <2>1, <3>1, <3>2 DEF Like
  <2> QED BY <2>2, <2>3
<1>9. ASSUME NEW j \in Conns, txn'[j] # "none"
      PROVE  owner'[j] # 0 /\ call'[owner'[j]].own = j
  <2>1. owner'[j] = owner[j] /\ owner[j] # 0 /\ call[owner[j]].own = j
    BY <1>6, <1>9
  <2> QED BY <1>4, <1>5, <2>1
<1>10. ASSUME pinned # NoConn
       PROVE  txn'[pinned] # "none" /\ call'[owner'[pinned]].kind = "tx"
  <2>1. pinned \in Conns /\ txn[pinned] # "none" /\ call[owner[pinned]].kind = "tx"
    BY <1>10 DEF IInv, Owned
  <2>2. owner'[pinned] = owner[pinned] /\ owner[pinned] \in Calls
    BY <1>5, <1>6, <2>1
  <2> QED BY <1>4, <2>1, <2>2
<1>11. Len(owner') <= MaxConns /\ pinned' \in Conns \union {NoConn}
  BY <1>1 DEF IInv, Owned
<1> QED BY <1>1, <1>2, <1>3, <1>7, <1>8, <1>9, <1>10, <1>11 DEF Owned

\* When no transaction is shared nothing is marked.
LEMMA MixesIs ==
  ASSUME IInv, NEW c \in Calls
  PROVE  /\ Foreign(c) => c \in Mixes(c)
         /\ Foreign(c) /\ call[c].via \in Conns /\ owner[call[c].via] # 0 => owner[call[c].via] \in Mixes(c)
         /\ ~ Foreign(c) => Mixes(c) = {}
<1>1. PICK k : k = call[c].via
  OBVIOUS
<1>2. ASSUME Foreign(c)
      PROVE  Mixes(c) = {c} \cup ({owner[j] : j \in {k} \cap Conns} \ {0})
  BY <1>1, <1>2 DEF Mixes
<1>3. ASSUME k \in Conns
      PROVE  owner[k] \in {owner[j] : j \in {k} \cap Conns}
  BY <1>3
<1> QED BY <1>1, <1>2, <1>3 DEF Mixes

\* The calls whose transaction a query runs in, other than its own call, are marked.
LEMMA OthersMarked ==
  ASSUME IInv, NEW c \in Calls, NEW d \in Calls, d # c, call[d].own # NoConn, call[d].own = call[c].via
  PROVE  d \in Mixes(c)
<1>1. call[c].via \in Conns /\ owner[call[c].via] = d /\ txn[call[c].via] # "none" /\ d # 0
  BY CallIs
<1>2. Foreign(c)
  BY <1>1 DEF Foreign
<1> QED BY <1>1, <1>2, MixesIs

\* A call that is answered has a client, and a job to come; which transaction its query is in.
LEMMA AnsweredIs ==
  ASSUME IInv, NEW c \in Calls, call[c].at \in InChain
  PROVE  /\ call[c].left \in 1 .. MaxJobs /\ call[c].done \in 0 .. MaxJobs
         /\ call[c].left + call[c].done <= MaxJobs /\ call[c].at \in Mid
         /\ call[c].at = "sent" => call[c].via \in Conns
         /\ call[c].kind = "add" => call[c].own = NoConn /\ call[c].done = 0 /\ RowsOf(c) = {}
         /\ call[c].kind # "add" /\ ~ call[c].mixed =>
              /\ call[c].own \in Conns /\ call[c].own # NoConn /\ txn[call[c].own] = "open"
              /\ ~ Foreign(c) => call[c].own = call[c].via
         /\ call[c].kind \in {"bulk", "tx"} \/ call[c].kind = "add"
<1>1. /\ call[c] \in CallType(Conns) /\ Shape(call[c], Conns) /\ BulkShape(call[c], Conns) /\ Account(c)
      /\ call[c].at \in {"chained", "sent"}
  BY CallIs DEF InChain
<1>2. call[c].kind \in {"bulk", "tx"} \/ call[c].kind = "add"
  BY <1>1 DEF CallType, Kinds
<1>3. /\ call[c].left \in 1 .. MaxJobs /\ call[c].done \in 0 .. MaxJobs
      /\ call[c].left + call[c].done <= MaxJobs /\ call[c].at \in Mid
  BY <1>1, Constants DEF Shape, CallType, Mid
<1>4. call[c].at = "sent" => call[c].via \in Conns
  BY <1>1 DEF Shape, CallType
<1>5. call[c].kind = "add" => call[c].own = NoConn /\ call[c].done = 0 /\ RowsOf(c) = {}
  BY <1>1 DEF Shape, Account, Settled
<1>6. ASSUME call[c].kind # "add", ~ call[c].mixed
      PROVE  /\ call[c].own \in Conns /\ call[c].own # NoConn /\ txn[call[c].own] = "open"
             /\ ~ Foreign(c) => call[c].own = call[c].via
  <2>1. call[c].own \in Conns /\ call[c].own # NoConn
    BY <1>3, <1>6, OwnTransaction
  <2>2. txn[call[c].own] = "open"
    BY <1>1, <1>3, <1>6 DEF Account
  <2>3. call[c].kind = "bulk" => call[c].own = call[c].via
    BY <1>1, <1>3, <2>1 DEF BulkShape
  <2> QED BY <1>2, <1>6, <2>1, <2>2, <2>3 DEF Foreign
<1> QED BY <1>2, <1>3, <1>4, <1>5, <1>6

LEMMA ErrorKeeps ==
  ASSUME IInv, NEW c \in Calls, NEW spoils \in BOOLEAN, Error(c, spoils),
         call[c].at = "sent" \/ HasTurn(c), fails' \in 0 .. MaxFails,
         txn' \in [Conns -> {"none", "open", "aborted"}],
         \A j \in Conns : \/ txn'[j] = txn[j]
                          \/ j = call[c].via /\ txn[j] = "open" /\ txn'[j] = "aborted" /\ spoils
  PROVE  IInv'
<1>1. call[c].at \in InChain
  BY Head1
<1>2. PICK r : r = call[c]
  OBVIOUS
<1>3. PICK cs : cs = Mixes(c) \cup IF spoils THEN {c} ELSE {}
  OBVIOUS
<1>4. PICK m : m = Marked(cs)
  OBVIOUS
<1>5. PICK at \in AfterError(c) :
        call' = [m EXCEPT ![c] = Going([m[c] EXCEPT !.left = m[c].left - 1, !.turn = 0], at)]
  BY <1>3, <1>4 DEF Error
<1>6. UNCHANGED <<queueId, pinned, rows>> /\ chain' = Tail(chain) /\ owner' = Returned(c)
  BY DEF Error, Leaves
<1>7. /\ r \in CallType(Conns) /\ Shape(r, Conns) /\ BulkShape(r, Conns)
      /\ r.left \in 1 .. MaxJobs /\ r.done \in 0 .. MaxJobs /\ r.left + r.done <= MaxJobs /\ r.at \in Mid
      /\ r.kind = "add" => r.own = NoConn /\ r.done = 0 /\ RowsOf(c) = {}
      /\ r.kind \in {"bulk", "tx"} \/ r.kind = "add"
  BY <1>1, <1>2, CallIs, AnsweredIs
<1>8. /\ at \in Ats /\ at \notin InChain /\ at \in {"rejected", "undoing", "running"}
      /\ at = "rejected" <=> r.own = NoConn
      /\ at = "running" => r.kind = "tx"
  BY <1>1, <1>2, <1>5, <1>7 DEF AfterError, Ats, InChain, Shape, Mid
<1>9. PICK b : b = (r.mixed \/ c \in cs)
  OBVIOUS
<1>10. PICK s1 : s1 = m[c]
  OBVIOUS
<1>11. /\ s1 \in CallType(Conns) /\ s1.mixed = b /\ s1.kind = r.kind /\ s1.at = r.at
       /\ s1.via = r.via /\ s1.own = r.own /\ s1.left = r.left /\ s1.done = r.done /\ s1.turn = r.turn
  <2>1. s1 = [r EXCEPT !.mixed = b]
    BY <1>2, <1>4, <1>9, <1>10 DEF Marked
  <2>2. b \in BOOLEAN
    BY <1>9
  <2> QED BY <1>7, <2>1, <2>2, MixedIs
<1>12. r.left - 1 \in 0 .. MaxJobs
  BY <1>7, Constants
<1>13. PICK s2 : s2 = [s1 EXCEPT !.left = r.left - 1]
  OBVIOUS
<1>14. /\ s2 \in CallType(Conns) /\ s2.mixed = b /\ s2.kind = r.kind /\ s2.at = r.at
       /\ s2.via = r.via /\ s2.own = r.own /\ s2.left = r.left - 1 /\ s2.done = r.done
  BY <1>11, <1>12, <1>13, LeftIs
<1>15. PICK s3 : s3 = [s2 EXCEPT !.turn = 0]
  OBVIOUS
<1>16. /\ s3 \in CallType(Conns) /\ s3.mixed = b /\ s3.kind = r.kind /\ s3.at = r.at
       /\ s3.via = r.via /\ s3.own = r.own /\ s3.left = r.left - 1 /\ s3.done = r.done /\ s3.turn = 0
  <2>1. 0 \in Nat
    OBVIOUS
  <2> QED BY <1>14, <1>15, <2>1, TurnIs
<1>17. PICK s : s = Going(s3, at)
  OBVIOUS
<1>18. /\ s \in CallType(Conns) /\ s.at = at /\ s.kind = r.kind /\ s.done = r.done /\ s.mixed = b /\ s.turn = 0
       /\ at = "rejected" => s.via = NoConn /\ s.own = NoConn /\ s.left = 0
       /\ at # "rejected" => s.via = r.via /\ s.own = r.own /\ s.left = r.left - 1
  BY <1>8, <1>16, <1>17, GoingIs
<1>19. s3 = [m[c] EXCEPT !.left = m[c].left - 1, !.turn = 0]
  BY <1>10, <1>11, <1>13, <1>15
<1>20. call' = [Marked(cs) EXCEPT ![c] = s]
  BY <1>4, <1>5, <1>17, <1>19
<1>21. DOMAIN owner' = DOMAIN owner
  BY <1>1, <1>6, ReturnedIs
<1>22. /\ Others(c) /\ call'[c] = s
       /\ \A d \in Calls : d # c => call'[d].mixed = (call[d].mixed \/ d \in cs)
  BY <1>18, <1>20, <1>21, MarkedIs
<1>23. s.own = r.own
  BY <1>8, <1>18
<1>24. Owned' /\ Conns' = Conns
  <2>1. \A j \in Conns : txn'[j] = "none" <=> txn[j] = "none"
    OBVIOUS
  <2>2. call'[c].kind = call[c].kind /\ call'[c].own = call[c].own
    BY <1>2, <1>18, <1>22, <1>23
  <2> QED BY <1>1, <1>6, <1>22, <2>1, <2>2, AnsweredOwned
<1>25. Shape(s, Conns)
  BY <1>7, <1>8, <1>18, Constants DEF Shape, Mid
<1>26. BulkShape(s, Conns)
  <2>1. ASSUME r.kind = "bulk", at = "undoing"
        PROVE  s.via \in Conns /\ (IF s.own = NoConn THEN s.mixed ELSE s.via = s.own)
    BY <1>7, <1>8, <1>18, <2>1 DEF BulkShape
  <2> QED BY <1>8, <1>18, <2>1 DEF BulkShape, Mid
<1>27. Shapes' /\ Calls' = Calls
  BY <1>22, <1>24, <1>25, <1>26, ShapesKeep
<1>28. Chained' /\ Ordered'
  BY <1>6, <1>8, <1>18, <1>22, ChainShrinks
<1>29. Locked'
  <2>1. \A i \in DOMAIN rows : rows[i].in # NoConn => rows[i].in \in Conns /\ txn[rows[i].in] # "none"
    BY Sets DEF IInv, Locked, RowType
  <2>2. \A i \in DOMAIN rows : rows[i].in # NoConn => txn'[rows[i].in] # "none"
    BY <2>1
  <2> QED BY <1>6, <1>24, <1>27, <2>2 DEF IInv, Locked
<1>30. ASSUME NEW d \in Calls, d # c
       PROVE  Account(d)'
  <2>1. RowsOf(d)' = RowsOf(d)
    BY <1>6 DEF RowsOf
  <2>2. ASSUME ~ call'[d].mixed, call[d].own # NoConn
        PROVE  /\ txn'[call[d].own] = txn[call[d].own]
               /\ \A i \in DOMAIN rows : rows[i].in = call[d].own => rows[i].call = d
    <3>1. ~ call[d].mixed /\ d \notin cs
      BY <1>22, <1>30, <2>2
    <3>2. call[d].at \in Mid /\ call[d].kind # "add"
      BY <2>2, CallIs DEF Shape
    <3>3. call[d].own # call[c].via
      BY <1>3, <1>30, <2>2, <3>1, OthersMarked
    <3>4. call[d].own \in Conns
      BY <2>2, CallIs
    <3> QED BY <3>1, <3>2, <3>3, <3>4, CallIs DEF Account
  <2> QED BY <1>6, <1>22, <1>30, <2>1, <2>2, AccountKeeps
<1>31. Account(c)'
  <2>1. RowsOf(c)' = RowsOf(c)
    BY <1>6 DEF RowsOf
  <2>2. CASE b
    BY <1>7, <1>8, <1>18, <1>22, <2>1, <2>2 DEF Account, Settled
  <2>3. CASE ~ b
    <3>1. ~ r.mixed /\ ~ spoils
      BY <1>3, <1>9, <2>3
    <3>2. CASE at = "rejected"
      <4>1. r.kind = "add"
        BY <1>1, <1>2, <1>8, <3>1, <3>2, AnsweredIs
      <4> QED BY <1>7, <1>18, <1>22, <2>1, <3>2, <4>1, FS_EmptySet DEF Account, Settled, Mid
    <3>3. CASE at # "rejected"
      <4>1. r.kind # "add" /\ r.own # NoConn /\ r.own \in Conns /\ txn'[r.own] = txn[r.own]
        <5>1. r.own # NoConn
          BY <1>8, <3>3
        <5>2. r.own \in Conns
          BY <1>2, <5>1, CallIs
        <5> QED BY <1>7, <3>1, <5>1, <5>2
      <4>2. /\ txn[r.own] = "open"
            /\ \A i \in DOMAIN rows : rows[i].call = c <=> rows[i].in = r.own
            /\ Cardinality(RowsOf(c)) = r.done
        BY <1>2, <1>7, <3>1, <4>1, CallIs DEF Account
      <4> QED BY <1>6, <1>8, <1>18, <1>22, <2>1, <3>3, <4>1, <4>2 DEF Account, Settled
    <3> QED BY <3>2, <3>3
  <2> QED BY <2>2, <2>3
<1>32. queueId' \in {"asked", "known", "failed"}
  BY <1>6 DEF IInv
<1> QED BY <1>24, <1>27, <1>28, <1>29, <1>30, <1>31, <1>32 DEF IInv

LEMMA AnswersWithError ==
  ASSUME IInv, NEW c \in Calls, Declined(c) \/ Raised(c) \/ InAborted(c) \/ WithoutQueueId(c)
  PROVE  IInv'
<1>1. txn \in [Conns -> {"none", "open", "aborted"}] /\ fails \in 0 .. MaxFails
  BY DEF IInv, Owned
<1>2. CASE Declined(c)
  <2>1. PICK spoils : spoils = FALSE
    OBVIOUS
  <2>2. fails' \in 0 .. MaxFails /\ txn' = txn /\ call[c].at = "sent"
    BY <1>1, <1>2, Constants DEF Declined
  <2>3. Error(c, spoils) /\ spoils \in BOOLEAN
    BY <1>2, <2>1 DEF Declined
  <2> QED BY <1>1, <2>2, <2>3, ErrorKeeps
<1>3. CASE Raised(c)
  <2>1. PICK k, spoils : k = call[c].via /\ spoils = (txn[k] = "open")
    OBVIOUS
  <2>2. /\ fails' \in 0 .. MaxFails /\ call[c].at = "sent" /\ Error(c, spoils) /\ spoils \in BOOLEAN
        /\ txn' = [txn EXCEPT ![k] = IF @ = "open" THEN "aborted" ELSE @]
    BY <1>1, <1>3, <2>1, Constants DEF Raised
  <2>3. k \in Conns
    BY <2>1, <2>2, AnsweredIs DEF InChain
  <2>4. txn' \in [Conns -> {"none", "open", "aborted"}]
    BY <1>1, <2>2, <2>3
  <2>5. \A j \in Conns : \/ txn'[j] = txn[j]
                         \/ j = call[c].via /\ txn[j] = "open" /\ txn'[j] = "aborted" /\ spoils
    BY <1>1, <2>1, <2>2, <2>3
  <2> QED BY <2>2, <2>4, <2>5, ErrorKeeps
<1>4. CASE InAborted(c)
  <2>1. PICK spoils : spoils = TRUE
    OBVIOUS
  <2>2. fails' \in 0 .. MaxFails /\ txn' = txn /\ call[c].at = "sent"
    BY <1>1, <1>4 DEF InAborted
  <2>3. Error(c, spoils) /\ spoils \in BOOLEAN
    BY <1>4, <2>1 DEF InAborted
  <2> QED BY <1>1, <2>2, <2>3, ErrorKeeps
<1>5. CASE WithoutQueueId(c)
  <2>1. PICK spoils : spoils = FALSE
    OBVIOUS
  <2>2. fails' \in 0 .. MaxFails /\ txn' = txn /\ HasTurn(c)
    BY <1>1, <1>5 DEF WithoutQueueId
  <2>3. Error(c, spoils) /\ spoils \in BOOLEAN
    BY <1>5, <2>1 DEF WithoutQueueId
  <2> QED BY <1>1, <2>2, <2>3, ErrorKeeps
<1> QED BY <1>2, <1>3, <1>4, <1>5

LEMMA InsertedKeeps ==
  ASSUME IInv, NEW c \in Calls, Inserted(c)
  PROVE  IInv'
<1>1. PICK r, k : r = call[c] /\ k = call[c].via
  OBVIOUS
<1>2. call[c].at = "sent" /\ call[c].at \in InChain
  BY DEF Inserted, InChain
<1>3. PICK cs : cs = Mixes(c)
  OBVIOUS
<1>4. PICK m : m = Marked(cs)
  OBVIOUS
<1>5. PICK at : at = IF r.kind = "add" THEN "resolved" ELSE "running"
  OBVIOUS
<1>6. PICK in : in = IF txn[k] = "open" THEN k ELSE NoConn
  OBVIOUS
<1>7. /\ txn[k] # "aborted" /\ LockFree(k)
      /\ rows' = Append(rows, [call |-> c, turn |-> call[c].turn, in |-> in])
      /\ call' = [m EXCEPT ![c] =
           Going([m[c] EXCEPT !.left = m[c].left - 1, !.done = m[c].done + 1, !.turn = 0], at)]
      /\ owner' = Returned(c) /\ chain' = Tail(chain)
      /\ UNCHANGED <<queueId, txn, pinned, fails>>
  BY <1>1, <1>3, <1>4, <1>5, <1>6 DEF Inserted
<1>8. /\ r \in CallType(Conns) /\ Shape(r, Conns) /\ BulkShape(r, Conns) /\ k \in Conns
      /\ r.left \in 1 .. MaxJobs /\ r.done \in 0 .. MaxJobs /\ r.left + r.done <= MaxJobs /\ r.at \in Mid
      /\ r.kind = "add" => r.own = NoConn /\ r.done = 0 /\ RowsOf(c) = {}
      /\ r.kind \in {"bulk", "tx"} \/ r.kind = "add"
  BY <1>1, <1>2, CallIs, AnsweredIs
<1>9. PICK b : b = (r.mixed \/ c \in cs)
  OBVIOUS
<1>10. PICK s1 : s1 = m[c]
  OBVIOUS
<1>11. /\ s1 \in CallType(Conns) /\ s1.mixed = b /\ s1.kind = r.kind /\ s1.at = r.at
       /\ s1.via = r.via /\ s1.own = r.own /\ s1.left = r.left /\ s1.done = r.done /\ s1.turn = r.turn
  <2>1. s1 = [r EXCEPT !.mixed = b]
    BY <1>1, <1>4, <1>9, <1>10 DEF Marked
  <2>2. b \in BOOLEAN
    BY <1>9
  <2> QED BY <1>8, <2>1, <2>2, MixedIs
<1>12. r.left - 1 \in 0 .. MaxJobs /\ r.done + 1 \in 0 .. MaxJobs
  BY <1>8, Constants
<1>13. PICK s2 : s2 = [s1 EXCEPT !.left = r.left - 1]
  OBVIOUS
<1>14. /\ s2 \in CallType(Conns) /\ s2.mixed = b /\ s2.kind = r.kind /\ s2.at = r.at
       /\ s2.via = r.via /\ s2.own = r.own /\ s2.left = r.left - 1 /\ s2.done = r.done
  BY <1>11, <1>12, <1>13, LeftIs
<1>15. PICK s3 : s3 = [s2 EXCEPT !.done = r.done + 1]
  OBVIOUS
<1>16. /\ s3 \in CallType(Conns) /\ s3.mixed = b /\ s3.kind = r.kind /\ s3.at = r.at
       /\ s3.via = r.via /\ s3.own = r.own /\ s3.left = r.left - 1 /\ s3.done = r.done + 1
  BY <1>12, <1>14, <1>15, DoneIs
<1>17. PICK s4 : s4 = [s3 EXCEPT !.turn = 0]
  OBVIOUS
<1>18. /\ s4 \in CallType(Conns) /\ s4.mixed = b /\ s4.kind = r.kind /\ s4.at = r.at
       /\ s4.via = r.via /\ s4.own = r.own /\ s4.left = r.left - 1 /\ s4.done = r.done + 1 /\ s4.turn = 0
  <2>1. 0 \in Nat
    OBVIOUS
  <2> QED BY <1>16, <1>17, <2>1, TurnIs
<1>19. PICK s : s = Going(s4, at)
  OBVIOUS
<1>20. at \in Ats
  BY <1>5 DEF Ats
<1>21. /\ s \in CallType(Conns) /\ s.at = at /\ s.kind = r.kind /\ s.done = r.done + 1 /\ s.mixed = b
       /\ s.turn = 0
       /\ r.kind = "add" => s.via = NoConn /\ s.own = NoConn /\ s.left = 0
       /\ r.kind # "add" => s.via = r.via /\ s.own = r.own /\ s.left = r.left - 1
  BY <1>5, <1>18, <1>19, <1>20, GoingIs
<1>22. s4 = [m[c] EXCEPT !.left = m[c].left - 1, !.done = m[c].done + 1, !.turn = 0]
  BY <1>10, <1>11, <1>13, <1>15, <1>17
<1>23. call' = [Marked(cs) EXCEPT ![c] = s]
  BY <1>4, <1>7, <1>19, <1>22
<1>24. DOMAIN owner' = DOMAIN owner
  BY <1>2, <1>7, ReturnedIs
<1>25. /\ Others(c) /\ call'[c] = s
       /\ \A d \in Calls : d # c => call'[d].mixed = (call[d].mixed \/ d \in cs)
  BY <1>21, <1>23, <1>24, MarkedIs
<1>26. s.own = r.own
  BY <1>8, <1>21
<1>27. Owned' /\ Conns' = Conns
  <2>1. txn' \in [Conns -> {"none", "open", "aborted"}]
    BY <1>7 DEF IInv, Owned
  <2>2. call'[c].kind = call[c].kind /\ call'[c].own = call[c].own
    BY <1>1, <1>21, <1>25, <1>26
  <2> QED BY <1>2, <1>7, <1>25, <2>1, <2>2, AnsweredOwned
<1>28. Shape(s, Conns)
  BY <1>5, <1>8, <1>21, Constants DEF Shape, Mid
<1>29. BulkShape(s, Conns)
  <2>1. ASSUME r.kind = "bulk"
        PROVE  /\ s.via \in Conns /\ s.via = s.own
               /\ s.left + s.done = MaxJobs /\ s.at = "running"
    <3>1. r.via \in Conns /\ r.via = r.own
      BY <1>8, <2>1 DEF BulkShape
    <3>2. r.left + r.done = MaxJobs
      BY <1>1, <1>2, <1>8, <2>1 DEF BulkShape
    <3>3. s.left + s.done = MaxJobs
      BY <1>8, <1>21, <2>1, <3>2, Constants
    <3> QED BY <1>5, <1>21, <2>1, <3>1, <3>3
  <2> QED BY <1>21, <2>1 DEF BulkShape
<1>30. Shapes' /\ Calls' = Calls
  BY <1>25, <1>27, <1>28, <1>29, ShapesKeep
<1>31. PICK line : line = [call |-> c, turn |-> call[c].turn, in |-> in]
  OBVIOUS
<1>32. /\ line \in RowType(Calls, Conns) /\ line.call = c /\ line.turn = call[c].turn /\ line.in = in
       /\ rows' = Append(rows, line)
  <2>1. in \in Conns \union {NoConn}
    BY <1>6, <1>8
  <2>2. call[c].turn \in Nat
    BY <1>1, <1>8 DEF CallType
  <2> QED BY <1>7, <1>31, <2>1, <2>2 DEF RowType
<1>33. /\ rows' \in Seq(RowType(Calls, Conns))
       /\ Len(rows) \in Nat /\ DOMAIN rows = 1 .. Len(rows) /\ DOMAIN rows' = 1 .. Len(rows) + 1
       /\ \A i \in DOMAIN rows : rows'[i] = rows[i]
       /\ rows'[Len(rows) + 1] = line
  BY <1>32, RowAdded
<1>34. PICK n : n = Len(rows) + 1
  OBVIOUS
<1>35. n \notin DOMAIN rows /\ DOMAIN rows' = DOMAIN rows \union {n} /\ rows'[n] = line
  BY <1>33, <1>34
<1>36. Chained' /\ Ordered'
  <2>1. call'[c].at \notin InChain
    BY <1>5, <1>21, <1>25 DEF InChain
  <2> QED BY <1>2, <1>7, <1>25, <1>32, <2>1, ChainShrinks
<1>37. Locked'
  <2>1. \A i \in DOMAIN rows : rows[i].in \in {NoConn, k}
    BY <1>7 DEF LockFree
  <2>2. ASSUME NEW i \in DOMAIN rows, rows[i].in # NoConn
        PROVE  in = rows[i].in /\ txn[rows[i].in] # "none"
    <3>1. rows[i].in = k /\ txn[k] # "none"
      BY <2>1, <2>2 DEF IInv, Locked
    <3>2. txn[k] = "open"
      BY <1>7, <1>8, <3>1 DEF IInv, Owned
    <3> QED BY <1>6, <3>1, <3>2
  <2>3. ASSUME NEW i \in DOMAIN rows', NEW j \in DOMAIN rows', i < j, rows'[i].in # NoConn
        PROVE  rows'[j].in = rows'[i].in
    <3>1. i \in DOMAIN rows
      BY <1>33, <2>3
    <3>2. CASE j \in DOMAIN rows
      BY <1>33, <2>3, <3>1, <3>2 DEF IInv, Locked
    <3>3. CASE j = n
      BY <1>32, <1>33, <1>35, <2>2, <2>3, <3>1, <3>3
    <3> QED BY <1>35, <3>2, <3>3
  <2>4. ASSUME NEW i \in DOMAIN rows', rows'[i].in # NoConn
        PROVE  txn'[rows'[i].in] # "none"
    <3>1. CASE i \in DOMAIN rows
      BY <1>7, <1>33, <2>2, <2>4, <3>1
    <3>2. CASE i = n
      BY <1>6, <1>7, <1>32, <1>35, <2>4, <3>2
    <3> QED BY <1>35, <3>1, <3>2
  <2> QED BY <1>27, <1>30, <1>33, <2>3, <2>4 DEF Locked
<1>38. ASSUME NEW d \in Calls, d # c
       PROVE  Account(d)'
  <2>1. RowsOf(d)' = RowsOf(d)
    <3>1. ASSUME NEW i \in DOMAIN rows', rows'[i].call = d
          PROVE  i \in DOMAIN rows /\ rows[i].call = d
      BY <1>32, <1>33, <1>35, <1>38, <3>1
    <3>2. ASSUME NEW i \in DOMAIN rows, rows[i].call = d
          PROVE  i \in DOMAIN rows' /\ rows'[i].call = d
      BY <1>33, <1>35, <3>2
    <3> QED BY <3>1, <3>2 DEF RowsOf
  <2>2. \A i \in RowsOf(d) : rows'[i].in = rows[i].in
    BY <1>33 DEF RowsOf
  <2>3. ASSUME ~ call'[d].mixed, call[d].own # NoConn, NEW i \in DOMAIN rows', rows'[i].in = call[d].own
        PROVE  rows'[i].call = d
    <3>1. ~ call[d].mixed /\ d \notin cs
      BY <1>25, <1>38, <2>3
    <3>2. call[d].at \in Mid /\ call[d].kind # "add"
      BY <2>3, CallIs DEF Shape
    <3>3. call[d].own # k
      BY <1>1, <1>3, <1>38, <2>3, <3>1, OthersMarked
    <3>4. i \in DOMAIN rows
      BY <1>6, <1>32, <1>35, <2>3, <3>3
    <3> QED BY <1>33, <2>3, <3>1, <3>2, <3>4, CallIs DEF Account
  <2> QED BY <1>7, <1>25, <1>38, <2>1, <2>2, <2>3, AccountKeeps
<1>39. RowsOf(c)' = RowsOf(c) \union {n} /\ n \notin RowsOf(c) /\ IsFiniteSet(RowsOf(c))
  <2>1. \A i \in DOMAIN rows' : rows'[i].call = c <=> i = n \/ (i \in DOMAIN rows /\ rows[i].call = c)
    BY <1>32, <1>33, <1>35
  <2>2. RowsOf(c) \subseteq 1 .. Len(rows)
    BY <1>33 DEF RowsOf
  <2>3. IsFiniteSet(1 .. Len(rows))
    <3>1. PICK m1 : m1 = Len(rows)
      OBVIOUS
    <3>2. 1 \in Int /\ m1 \in Int
      BY <1>33, <3>1
    <3>3. IsFiniteSet(1 .. m1)
      BY <3>2, FS_Interval
    <3> QED BY <3>1, <3>3
  <2> QED BY <1>35, <2>1, <2>2, <2>3, FS_Subset DEF RowsOf
<1>40. Cardinality(RowsOf(c)') = Cardinality(RowsOf(c)) + 1
  <2>1. PICK S : S = RowsOf(c)
    OBVIOUS
  <2> QED BY <1>39, <2>1, FS_AddElement
<1>41. Account(c)'
  <2>1. CASE b
    BY <1>5, <1>21, <1>25, <2>1 DEF Account, Settled
  <2>2. CASE ~ b
    <3>1. ~ r.mixed /\ ~ Foreign(c)
      BY <1>3, <1>9, <2>2, MixesIs
    <3>2. CASE r.kind = "add"
      <4>1. RowsOf(c) = {} /\ r.done = 0 /\ r.own = NoConn
        BY <1>8, <3>2
      <4>2. in = NoConn
        <5>1. ASSUME txn[k] = "open"
              PROVE  FALSE
          <6>1. owner[k] = c
            BY <1>1, <1>8, <3>1, <5>1 DEF Foreign
          <6>2. call[owner[k]].own = k
            BY <1>8, <5>1 DEF IInv, Owned
          <6> QED BY <1>1, <1>8, <4>1, <6>1, <6>2, Sets
        <5> QED BY <1>6, <5>1
      <4>3. \A i \in RowsOf(c)' : rows'[i].in = NoConn
        BY <1>32, <1>35, <1>39, <4>1, <4>2
      <4>4. Cardinality(RowsOf(c)') = 1
        BY <1>40, <4>1, FS_EmptySet
      <4> QED BY <1>5, <1>21, <1>25, <3>2, <4>1, <4>3, <4>4 DEF Account, Settled, Mid
    <3>3. CASE r.kind # "add"
      <4>1. r.own \in Conns /\ txn[r.own] = "open" /\ r.own = k
        BY <1>1, <1>2, <3>1, <3>3, AnsweredIs
      <4>2. /\ \A i \in DOMAIN rows : rows[i].call = c <=> rows[i].in = r.own
            /\ Cardinality(RowsOf(c)) = r.done
        BY <1>1, <1>8, <3>1, <3>3, CallIs DEF Account
      <4>3. in = r.own
        BY <1>6, <4>1
      <4>4. \A i \in DOMAIN rows' : rows'[i].call = c <=> rows'[i].in = r.own
        BY <1>32, <1>33, <1>35, <4>2, <4>3
      <4>5. Cardinality(RowsOf(c)') = r.done + 1
        BY <1>40, <4>2
      <4> QED BY <1>5, <1>7, <1>21, <1>25, <1>26, <3>3, <4>1, <4>4, <4>5 DEF Account, Settled
    <3> QED BY <3>2, <3>3
  <2> QED BY <2>1, <2>2
<1>42. queueId' \in {"asked", "known", "failed"} /\ fails' \in 0 .. MaxFails
  BY <1>7 DEF IInv
<1> QED BY <1>27, <1>30, <1>36, <1>37, <1>38, <1>41, <1>42 DEF IInv

-----------------------------------------------------------------------------
(* A transaction ends.                                                     *)

\* Every set of natural numbers has a least.
LEMMA Least ==
  ASSUME NEW S \in SUBSET Nat, S # {}
  PROVE  \E m \in S : \A n \in S : m <= n
<1> DEFINE R == OpToRel(<, Nat)
<1>1. PICK m \in S : \A n \in S : ~ (<<n, m>> \in R)
  <2>1. IsWellFoundedOn(R, Nat)
    BY NatLessThanWellFounded
  <2> HIDE DEF R
  <2> QED BY <2>1, WFMin
<1>2. ASSUME NEW n \in S
      PROVE  m <= n
  <2>1. ~ (<<n, m>> \in {ss \in Nat \X Nat : ss[1] < ss[2]})
    BY <1>1 DEF OpToRel
  <2>2. <<n, m>> \in Nat \X Nat
    OBVIOUS
  <2> QED BY <2>1, <2>2
<1> QED BY <1>2

\* The rows of a transaction are the last, so that the others are a table without it.
LEMMA DroppedIs ==
  ASSUME IInv, NEW k \in Conns
  PROVE  /\ Dropped(k) \in Seq(RowType(Calls, Conns))
         /\ DOMAIN Dropped(k) = {i \in DOMAIN rows : rows[i].in # k}
         /\ \A i \in DOMAIN Dropped(k) : Dropped(k)[i] = rows[i]
<1> DEFINE D == {i \in DOMAIN rows : rows[i].in # k}
           T == {i \in DOMAIN rows : rows[i].in = k}
<1>1. /\ Len(rows) \in Nat /\ DOMAIN rows = 1 .. Len(rows) /\ k # NoConn
      /\ \A i \in DOMAIN rows : rows[i] \in RowType(Calls, Conns)
  BY Sets
<1>2. Dropped(k) = [i \in D |-> rows[i]]
  BY DEF Dropped, Restrict
<1>3. \E m \in Nat : D = 1 .. m
  <2>1. CASE T = {}
    BY <1>1, <2>1
  <2>2. CASE T # {}
    <3>1. T \in SUBSET Nat
      BY <1>1
    <3>2. PICK f \in T : \A i \in T : f <= i
      <4> HIDE DEF T
      <4> QED BY <2>2, <3>1, Least
    <3>3. \A i \in DOMAIN rows : f < i => rows[i].in = k
      BY <1>1, <3>2 DEF IInv, Locked
    <3>4. \A i \in DOMAIN rows : rows[i].in # k <=> i < f
      BY <1>1, <3>2, <3>3
    <3>5. D = 1 .. f - 1 /\ f - 1 \in Nat
      BY <1>1, <3>2, <3>4
    <3> QED BY <3>5
  <2> QED BY <2>1, <2>2
<1>4. PICK m \in Nat : D = 1 .. m
  BY <1>3
<1>5. Dropped(k) \in [1 .. m -> RowType(Calls, Conns)]
  BY <1>1, <1>2, <1>4
<1>6. Dropped(k) \in Seq(RowType(Calls, Conns))
  BY <1>5, SeqDef
<1>7. DOMAIN Dropped(k) = D /\ \A i \in D : Dropped(k)[i] = rows[i]
  BY <1>2
<1> QED BY <1>6, <1>7

LEMMA KeptIs ==
  ASSUME IInv, NEW k \in Conns
  PROVE  /\ Kept(k) \in Seq(RowType(Calls, Conns))
         /\ DOMAIN Kept(k) = DOMAIN rows
         /\ \A i \in DOMAIN rows :
              /\ Kept(k)[i].call = rows[i].call /\ Kept(k)[i].turn = rows[i].turn
              /\ Kept(k)[i].in = IF rows[i].in = k THEN NoConn ELSE rows[i].in
              /\ rows[i].in # k => Kept(k)[i] = rows[i]
<1>1. /\ Len(rows) \in Nat /\ DOMAIN rows = 1 .. Len(rows)
      /\ \A i \in DOMAIN rows : rows[i] \in RowType(Calls, Conns)
  BY Sets
<1>2. DOMAIN Kept(k) = DOMAIN rows
  BY DEF Kept
<1>3. ASSUME NEW i \in DOMAIN rows
      PROVE  /\ Kept(k)[i] \in RowType(Calls, Conns)
             /\ Kept(k)[i].call = rows[i].call /\ Kept(k)[i].turn = rows[i].turn
             /\ Kept(k)[i].in = IF rows[i].in = k THEN NoConn ELSE rows[i].in
             /\ rows[i].in # k => Kept(k)[i] = rows[i]
  <2>1. Kept(k)[i] = IF rows[i].in = k THEN [rows[i] EXCEPT !.in = NoConn] ELSE rows[i]
    BY DEF Kept
  <2>2. PICK r : r = rows[i]
    OBVIOUS
  <2>3. r \in RowType(Calls, Conns)
    BY <1>1, <2>2
  <2>4. PICK q : q = [r EXCEPT !.in = NoConn]
    OBVIOUS
  <2>5. q \in RowType(Calls, Conns) /\ q.call = r.call /\ q.turn = r.turn /\ q.in = NoConn
    BY <2>3, <2>4 DEF RowType
  <2> QED BY <2>1, <2>2, <2>3, <2>4, <2>5
<1>4. Kept(k) = [i \in 1 .. Len(rows) |-> Kept(k)[i]]
  BY <1>1 DEF Kept
<1>5. Kept(k) \in [1 .. Len(rows) -> RowType(Calls, Conns)]
  BY <1>1, <1>3, <1>4
<1>6. Kept(k) \in Seq(RowType(Calls, Conns))
  BY <1>1, <1>5, SeqDef
<1> QED BY <1>2, <1>3, <1>6

\* Call c ends its transaction: its rows are in the table or gone, and nobody else's have changed.
LEMMA EndsKeeps ==
  ASSUME IInv, NEW c \in Calls, call[c].at \in {"running", "undoing"}, NEW k, k = call[c].own, k # NoConn,
         NEW at \in {"resolved", "rejected"}, NEW table, Ends(c, table, at),
         \/ at = "resolved" /\ table = Kept(k)
         \/ (at = "rejected" \/ call[c].mixed) /\ table = Dropped(k),
         at = "resolved" => (call[c].left = 0 /\ call[c].at = "running") \/ call[c].kind = "tx"
  PROVE  IInv'
<1>1. PICK r : r = call[c]
  OBVIOUS
<1>2. /\ r \in CallType(Conns) /\ Shape(r, Conns) /\ BulkShape(r, Conns) /\ Account(c)
      /\ k \in Conns /\ owner[k] = c /\ txn[k] # "none" /\ c # 0 /\ r.at \in Mid /\ r.kind # "add"
  BY <1>1, CallIs DEF Shape, Mid
<1>3. /\ rows' = table
      /\ call' = [call EXCEPT ![c] = Going(@, at)]
      /\ txn' = [txn EXCEPT ![k] = "none"]
      /\ owner' = [owner EXCEPT ![k] = 0]
      /\ pinned' = IF r.kind = "tx" THEN NoConn ELSE pinned
      /\ UNCHANGED <<queueId, chain, fails>>
      /\ Quiet(k)
  BY <1>1 DEF Ends, Unpinned
<1>4. PICK s : s = Going(r, at)
  OBVIOUS
<1>5. at \in Ats
  BY DEF Ats
<1>6. /\ s \in CallType(Conns) /\ s.at = at /\ s.kind = r.kind /\ s.done = r.done /\ s.mixed = r.mixed
      /\ s.via = NoConn /\ s.own = NoConn /\ s.left = 0 /\ s.turn = 0
  BY <1>2, <1>4, <1>5, GoingIs
<1>7. call' = [call EXCEPT ![c] = s]
  BY <1>1, <1>3, <1>4, CallIs
<1>8. Conns' = Conns
  BY <1>3 DEF Conns
<1>9. Others(c) /\ call'[c] = s /\ Calls' = Calls /\ Len(call') = Len(call)
  <2>1. Others(c) /\ call'[c] = s
    BY <1>6, <1>7, <1>8, OneCall
  <2> QED BY <2>1 DEF Others, Calls
<1>10. \A d \in Calls : d # c => Like(call[d], call'[d])
  BY <1>9 DEF Others
<1>11. /\ rows' \in Seq(RowType(Calls, Conns)) /\ DOMAIN rows' \subseteq DOMAIN rows
       /\ \A i \in DOMAIN rows' :
            /\ rows'[i].call = rows[i].call /\ rows'[i].turn = rows[i].turn
            /\ rows'[i].in = IF rows[i].in = k THEN NoConn ELSE rows[i].in
       /\ \A i \in DOMAIN rows : rows[i].in # k => i \in DOMAIN rows'
  <2>1. CASE table = Kept(k)
    BY <1>2, <1>3, <2>1, KeptIs
  <2>2. CASE table = Dropped(k)
    <3>1. /\ rows' \in Seq(RowType(Calls, Conns))
          /\ DOMAIN rows' = {i \in DOMAIN rows : rows[i].in # k}
          /\ \A i \in DOMAIN rows' : rows'[i] = rows[i]
      BY <1>2, <1>3, <2>2, DroppedIs
    <3> QED BY <3>1
  <2> QED BY <2>1, <2>2
<1>12. Shape(s, Conns) /\ BulkShape(s, Conns)
  <2>1. s.left + s.done <= MaxJobs
    BY <1>2, <1>6, Constants DEF Shape, CallType
  <2>2. Shape(s, Conns)
    BY <1>2, <1>6, <2>1 DEF Shape, Mid
  <2>3. s.kind = "bulk" /\ s.at = "resolved" => s.done = MaxJobs
    BY <1>1, <1>2, <1>6, Constants DEF BulkShape, CallType
  <2> QED BY <1>6, <2>2, <2>3 DEF BulkShape, Mid
<1>13. Shapes'
  BY <1>8, <1>9, <1>12, ShapesKeep
<1>14. Chained' /\ Ordered'
  <2>1. call'[c].at \notin InChain /\ call[c].at \notin InChain
    BY <1>6, <1>9 DEF InChain
  <2>2. call'[c].at # "sent"
    BY <2>1 DEF InChain
  <2> QED BY <1>3, <1>9, <1>11, <2>1, <2>2, ChainStays
<1>15. /\ owner' \in Seq(0 .. Len(call)) /\ Len(owner') = Len(owner) /\ owner'[k] = 0
       /\ \A j \in Conns : j # k => owner'[j] = owner[j]
  <2>1. owner \in Seq(0 .. Len(call)) /\ 0 \in 0 .. Len(call) /\ Conns = 1 .. Len(owner)
    BY Sets DEF IInv, Owned
  <2> QED BY <1>2, <1>3, <2>1, ExceptSeq
<1>16. /\ txn' \in [Conns -> {"none", "open", "aborted"}] /\ txn'[k] = "none"
       /\ \A j \in Conns : j # k => txn'[j] = txn[j]
  <2>1. txn \in [Conns -> {"none", "open", "aborted"}]
    BY DEF IInv, Owned
  <2> QED BY <1>2, <1>3, <2>1
<1>17. \A j \in Conns : owner[j] # 0 => owner[j] \in Calls
  BY Sets
<1>18. Owned'
  <2>1. ASSUME NEW d \in Calls, call'[d].own # NoConn
        PROVE  owner'[call'[d].own] = d /\ txn'[call'[d].own] # "none"
    <3>1. d # c
      BY <1>6, <1>9, <2>1
    <3>2. call'[d].own = call[d].own
      BY <1>10, <3>1 DEF Like
    <3>3. call[d].own \in Conns /\ owner[call[d].own] = d /\ txn[call[d].own] # "none"
      BY <2>1, <3>2, CallIs
    <3> QED BY <1>2, <1>15, <1>16, <3>1, <3>2, <3>3
  <2>2. ASSUME NEW j \in Conns, owner'[j] # 0
        PROVE  call'[owner'[j]].own = j \/ (call'[owner'[j]].at = "sent" /\ call'[owner'[j]].via = j)
    <3>1. j # k /\ owner'[j] = owner[j] /\ owner[j] # 0 /\ owner[j] \in Calls
      BY <1>15, <1>17, <2>2
    <3>2. call[owner[j]].own = j \/ (call[owner[j]].at = "sent" /\ call[owner[j]].via = j)
      BY <3>1 DEF IInv, Owned
    <3>3. owner[j] # c
      BY <3>1, <3>2
    <3> QED BY <1>10, <3>1, <3>2, <3>3 DEF Like
  <2>3. ASSUME NEW j \in Conns, txn'[j] # "none"
        PROVE  owner'[j] # 0 /\ call'[owner'[j]].own = j
    <3>1. j # k /\ txn[j] # "none"
      BY <1>16, <2>3
    <3>2. owner[j] # 0 /\ owner[j] \in Calls /\ call[owner[j]].own = j
      BY <1>17, <3>1 DEF IInv, Owned
    <3>3. owner[j] # c
      BY <3>1, <3>2
    <3> QED BY <1>10, <1>15, <3>1, <3>2, <3>3 DEF Like
  <2>4. pinned' \in Conns \union {NoConn}
    BY <1>3 DEF IInv, Owned
  <2>5. ASSUME pinned' # NoConn
        PROVE  txn'[pinned'] # "none" /\ call'[owner'[pinned']].kind = "tx"
    <3>1. pinned' = pinned /\ r.kind # "tx"
      BY <1>3, <2>5
    <3>2. pinned \in Conns /\ txn[pinned] # "none" /\ call[owner[pinned]].kind = "tx"
      BY <2>5, <3>1 DEF IInv, Owned
    <3>3. owner[pinned] \in Calls
      BY <1>17, <3>2 DEF IInv, Owned
    <3>4. owner[pinned] # c /\ pinned # k
      BY <1>1, <1>2, <3>1, <3>2
    <3> QED BY <1>10, <1>15, <1>16, <3>1, <3>2, <3>3, <3>4 DEF Like
  <2>6. Len(owner') <= MaxConns
    BY <1>15 DEF IInv, Owned
  <2> QED BY <1>8, <1>9, <1>15, <1>16, <2>1, <2>2, <2>3, <2>4, <2>5, <2>6 DEF Owned
<1>19. Locked'
  <2>1. ASSUME NEW i \in DOMAIN rows', rows'[i].in # NoConn
        PROVE  rows[i].in = rows'[i].in /\ rows[i].in # k /\ rows[i].in \in Conns /\ txn[rows[i].in] # "none"
    <3>1. rows[i].in = rows'[i].in /\ rows[i].in # k /\ i \in DOMAIN rows
      BY <1>11, <2>1
    <3> QED BY <2>1, <3>1, Sets DEF IInv, Locked, RowType
  <2>2. ASSUME NEW i \in DOMAIN rows', NEW j \in DOMAIN rows', i < j, rows'[i].in # NoConn
        PROVE  rows'[j].in = rows'[i].in
    <3>1. rows[j].in = rows[i].in
      BY <1>11, <2>1, <2>2 DEF IInv, Locked
    <3> QED BY <1>11, <2>1, <2>2, <3>1
  <2>3. \A i \in DOMAIN rows' : rows'[i].in # NoConn => txn'[rows'[i].in] # "none"
    BY <1>16, <2>1
  <2> QED BY <1>8, <1>9, <1>11, <2>2, <2>3 DEF Locked
<1>20. ASSUME NEW d \in Calls, d # c
       PROVE  Account(d)'
  <2>1. RowsOf(d)' \subseteq RowsOf(d)
    BY <1>11 DEF RowsOf
  <2>2. ASSUME ~ call'[d].mixed
        PROVE  /\ RowsOf(d)' = RowsOf(d)
               /\ \A i \in RowsOf(d) : rows'[i].in = rows[i].in
               /\ call[d].own # NoConn =>
                    /\ txn'[call[d].own] = txn[call[d].own]
                    /\ \A i \in DOMAIN rows' : rows'[i].in = call[d].own => rows'[i].call = d
    <3>1. ~ call[d].mixed
      BY <1>10, <1>20, <2>2 DEF Like
    <3>2. call[d].own # k
      BY <1>2, <1>20, CallIs
    <3>3. call[d].own # NoConn => call[d].own \in Conns /\ call[d].at \in Mid /\ call[d].kind # "add"
      BY CallIs DEF Shape
    <3>4. ASSUME NEW i \in RowsOf(d)
          PROVE  rows[i].in # k
      <4>1. Account(d) /\ call[d].at \in Ats /\ call[d].kind \in Kinds
        BY CallIs DEF CallType
      <4>2. i \in DOMAIN rows /\ rows[i].call = d /\ RowsOf(d) # {}
        BY DEF RowsOf
      <4>3. CASE Settled(d)
        BY <1>2, <3>1, <4>1, <4>3, Sets DEF Account
      <4>4. CASE ~ Settled(d)
        <5>1. call[d].kind # "add" /\ call[d].at \in Mid
          BY <4>1, <4>2, <4>4 DEF Account, Settled, Mid, Ats
        <5> QED BY <3>1, <3>2, <4>1, <4>2, <5>1 DEF Account
      <4> QED BY <4>3, <4>4
    <3>5. \A i \in RowsOf(d) : i \in DOMAIN rows' /\ rows'[i].in = rows[i].in /\ rows'[i].call = d
      BY <1>11, <3>4 DEF RowsOf
    <3>6. RowsOf(d)' = RowsOf(d)
      BY <2>1, <3>5 DEF RowsOf
    <3>7. ASSUME call[d].own # NoConn, NEW i \in DOMAIN rows', rows'[i].in = call[d].own
          PROVE  rows'[i].call = d
      <4>1. i \in DOMAIN rows /\ rows[i].in = call[d].own /\ rows'[i].call = rows[i].call
        BY <1>11, <3>7
      <4> QED BY <3>1, <3>3, <3>7, <4>1, CallIs DEF Account
    <3> QED BY <1>16, <3>2, <3>3, <3>5, <3>6, <3>7
  <2> QED BY <1>9, <1>20, <2>1, <2>2, AccountKeeps
<1>21. Account(c)'
  <2>1. CASE r.mixed
    BY <1>2, <1>6, <1>9, <2>1 DEF Account, Settled, Mid
  <2>2. CASE ~ r.mixed
    <3>1. /\ \A i \in DOMAIN rows : rows[i].call = c <=> rows[i].in = k
          /\ Cardinality(RowsOf(c)) = r.done
      BY <1>1, <1>2, <2>2 DEF Account
    <3>2. \A i \in RowsOf(c)' : rows'[i].in = NoConn
      BY <1>11, <3>1 DEF RowsOf
    <3>3. CASE at = "resolved" /\ table = Kept(k)
      <4>1. DOMAIN rows' = DOMAIN rows
        BY <1>2, <1>3, <3>3, KeptIs
      <4>2. RowsOf(c)' = RowsOf(c)
        BY <1>11, <4>1 DEF RowsOf
      <4> QED BY <1>6, <1>9, <3>1, <3>2, <3>3, <4>2 DEF Account, Settled, Mid
    <3>4. CASE at = "rejected" /\ table = Dropped(k)
      <4>1. \A i \in DOMAIN rows' : rows[i].in # k
        BY <1>2, <1>3, <3>4, DroppedIs
      <4>2. RowsOf(c)' = {}
        BY <1>11, <3>1, <4>1 DEF RowsOf
      <4> QED BY <1>6, <1>9, <3>4, <4>2, FS_EmptySet DEF Account, Settled, Mid
    <3> QED BY <1>1, <2>2, <3>3, <3>4
  <2> QED BY <2>1, <2>2
<1>22. queueId' \in {"asked", "known", "failed"} /\ fails' \in 0 .. MaxFails
  BY <1>3 DEF IInv
<1> QED BY <1>9, <1>13, <1>14, <1>18, <1>19, <1>20, <1>21, <1>22 DEF IInv

LEMMA CommitKeeps ==
  ASSUME IInv, NEW c \in Calls, Commit(c)
  PROVE  IInv'
<1>1. PICK k, table : k = call[c].own /\ table = IF txn[k] = "aborted" THEN Dropped(k) ELSE Kept(k)
  OBVIOUS
<1>3. call[c].at = "running" /\ call[c].kind # "add"
  <2>1. call[c].at = "running"
    BY DEF Commit
  <2> QED BY <2>1, CallIs DEF Shape
<1>2. /\ call[c].left = 0 \/ call[c].kind = "tx"
      /\ k # NoConn
      /\ Ends(c, table, "resolved")
  <2>1. Shape(call[c], Conns)
    BY CallIs
  <2>2. k # NoConn
    BY <1>1, <1>3, <2>1 DEF Shape, Mid
  <2> QED BY <1>1, <2>2 DEF Commit
<1>4. PICK at : at = "resolved"
  OBVIOUS
<1>5. at \in {"resolved", "rejected"} /\ Ends(c, table, at)
  BY <1>2, <1>4
<1>6. call[c].mixed \/ txn[k] # "aborted"
  BY <1>1, <1>3, CallIs DEF Account, Mid
<1>7. \/ at = "resolved" /\ table = Kept(k)
      \/ (at = "rejected" \/ call[c].mixed) /\ table = Dropped(k)
  BY <1>1, <1>4, <1>6
<1> QED BY <1>1, <1>2, <1>3, <1>5, <1>7, EndsKeeps

LEMMA RollbackKeeps ==
  ASSUME IInv, NEW c \in Calls, Rollback(c)
  PROVE  IInv'
<1>1. PICK k, table : k = call[c].own /\ table = Dropped(k)
  OBVIOUS
<1>2. PICK at : at = "rejected"
  OBVIOUS
<1>3. call[c].at = "undoing" /\ Ends(c, table, at) /\ at \in {"resolved", "rejected"}
  BY <1>1, <1>2 DEF Rollback, Undone
<1>4. k # NoConn
  BY <1>1, <1>3, CallIs DEF Shape
<1>5. (at = "rejected" \/ call[c].mixed) /\ table = Dropped(k) /\ at # "resolved"
  BY <1>1, <1>2
<1> QED BY <1>1, <1>3, <1>4, <1>5, EndsKeeps

-----------------------------------------------------------------------------
(* The invariant is inductive, and says what the runs check.               *)

LEMMA InitKeeps ==
  ASSUME Init
  PROVE  IInv
<1>1. Calls = {} /\ Conns = {} /\ Len(call) = 0 /\ Len(owner) = 0 /\ DOMAIN chain = {} /\ DOMAIN rows = {}
  BY DEF Init, Calls, Conns
<1>2. /\ call \in Seq(CallType(Conns)) /\ chain \in Seq(Calls) /\ owner \in Seq(0 .. Len(call))
      /\ rows \in Seq(RowType(Calls, Conns))
  BY EmptySeq DEF Init
<1>3. txn \in [Conns -> {"none", "open", "aborted"}]
  BY <1>1 DEF Init
<1>4. Shapes
  BY <1>1, <1>2, Constants DEF Shapes
<1>5. Chained /\ Ordered
  BY <1>1, <1>2 DEF Chained, Ordered, InCallOrder
<1>6. Owned
  BY <1>1, <1>2, <1>3, Constants DEF Owned, Init
<1>7. Locked
  BY <1>1, <1>2 DEF Locked
<1>8. queueId \in {"asked", "known", "failed"} /\ fails \in 0 .. MaxFails
  BY Constants DEF Init
<1> QED BY <1>1, <1>4, <1>5, <1>6, <1>7, <1>8 DEF IInv

LEMMA AddKeeps ==
  ASSUME IInv, NEW c \in Calls, Add(c)
  PROVE  IInv'
<1>1. PICK client : client = Client
  OBVIOUS
<1>2. client \in Conns \union {Pool} /\ Join(c, client) /\ call[c].at = "called" /\ call[c].kind = "add"
  BY <1>1, ClientIs DEF Add
<1> QED BY <1>2, JoinKeeps

LEMMA NextJobKeeps ==
  ASSUME IInv, NEW c \in Calls, NextJob(c)
  PROVE  IInv'
<1>1. call[c].at = "running" /\ call[c].left > 0
  BY DEF NextJob
<1>2. CASE call[c].kind # "tx" /\ Join(c, call[c].via)
  <2>1. PICK client : client = call[c].via
    OBVIOUS
  <2>2. call[c].kind = "bulk"
    BY <1>1, <1>2, CallIs DEF Shape, CallType, Kinds
  <2>3. client \in Conns \union {Pool}
    BY <1>1, <2>1, <2>2, CallIs DEF BulkShape, Mid
  <2>4. Join(c, client)
    BY <1>2, <2>1
  <2> QED BY <1>1, <2>1, <2>3, <2>4, JoinKeeps
<1>3. CASE call[c].kind = "tx" /\ Join(c, Client)
  <2>1. PICK client : client = Client
    OBVIOUS
  <2>2. client \in Conns \union {Pool} /\ Join(c, client)
    BY <1>3, <2>1, ClientIs
  <2> QED BY <1>1, <1>3, <2>2, JoinKeeps
<1> QED BY <1>2, <1>3 DEF NextJob

LEMMA StepKeeps ==
  ASSUME IInv, [Next]_vars
  PROVE  IInv'
<1>1. CASE UNCHANGED vars
  <2>1. UNCHANGED <<queueId, call, chain, owner, txn, pinned, rows, fails>>
    BY <1>1 DEF vars
  <2>2. Calls' = Calls /\ Conns' = Conns
    BY <2>1 DEF Calls, Conns
  <2>3. Shapes' /\ Chained' /\ Ordered' /\ Owned' /\ Locked'
    BY <2>1, <2>2 DEF IInv, Shapes, Chained, Ordered, InCallOrder, Owned, Locked
  <2>4. \A c \in Calls : Account(c)'
    BY <2>1 DEF IInv, Account, Settled, RowsOf
  <2> QED BY <2>1, <2>2, <2>3, <2>4 DEF IInv
<1>2. CASE GetQueueId
  BY <1>2, GetQueueIdKeeps
<1>3. CASE Begins
  BY <1>3, CallKeeps DEF Begins
<1>4. ASSUME NEW c \in Calls, Progress(c)
      PROVE  IInv'
  <2>1. \/ Add(c) \/ CreateBulk(c) \/ InTransaction(c) \/ Connect(c) \/ NextJob(c) \/ Send(c)
        \/ Inserted(c) \/ InAborted(c) \/ WithoutQueueId(c) \/ Commit(c) \/ Rollback(c)
    BY <1>4 DEF Progress, Answer
  <2> QED BY <2>1, AddKeeps, CreateBulkKeeps, InTransactionKeeps, ConnectKeeps, NextJobKeeps, SendKeeps,
             InsertedKeeps, AnswersWithError, CommitKeeps, RollbackKeeps
<1>5. ASSUME NEW c \in Calls, Fails(c)
      PROVE  IInv'
  <2>1. Refuse(c) \/ Declined(c) \/ Raised(c) \/ Throw(c)
    BY <1>5 DEF Fails
  <2> QED BY <2>1, RefuseKeeps, AnswersWithError, ThrowKeeps
<1> QED BY <1>1, <1>2, <1>3, <1>4, <1>5 DEF Next

\* EmqEnqueue: calls and their transactions, connections and rows stay as the invariant says.
THEOREM Inductive == Spec => []IInv
<1>1. Init => IInv
  BY InitKeeps
<1>2. IInv /\ [Next]_vars => IInv'
  BY StepKeeps
<1> QED BY <1>1, <1>2, PTL DEF Spec

\* The ids of the jobs are given in the order in which their inserts joined the object's chain,
\* whatever fails or is rolled back between them (add-jobs.ts, enqueueAddJob).
THEOREM IdsInCallOrder == Spec => []InCallOrder
<1>1. IInv => InCallOrder
  BY DEF IInv, Ordered
<1> QED BY <1>1, Inductive, PTL

LEMMA CommittedRows ==
  ASSUME IInv, NEW c \in Calls
  PROVE  Committed(c) = {i \in RowsOf(c) : rows[i].in = NoConn}
BY DEF Committed, RowsOf

LEMMA OutcomesFollow ==
  ASSUME IInv
  PROVE  OutcomesHold
<1>1. ASSUME NEW c \in Calls, Settled(c), ~ call[c].mixed
      PROVE  Cardinality(Committed(c)) = IF call[c].at = "resolved" THEN call[c].done ELSE 0
  <2>1. \A i \in RowsOf(c) : rows[i].in = NoConn
    BY <1>1, CallIs DEF Account
  <2>2. Committed(c) = RowsOf(c)
    BY <2>1, CommittedRows
  <2> QED BY <1>1, <2>2, CallIs DEF Account
<1>2. ASSUME NEW c \in Calls, call[c].kind = "bulk", ~ call[c].mixed
      PROVE  Cardinality(Committed(c)) \in {0, MaxJobs}
  <2>1. CASE Settled(c)
    <3>1. call[c].at = "resolved" => call[c].done = MaxJobs
      BY <1>2, CallIs DEF BulkShape
    <3> QED BY <1>1, <1>2, <2>1, <3>1
  <2>2. CASE call[c].at \in {"called", "connecting"}
    <3>1. Committed(c) = {}
      BY <2>2, CommittedRows, CallIs DEF Account
    <3> QED BY <3>1, FS_EmptySet
  <2>3. CASE call[c].at \in Mid
    <3>1. call[c].own # NoConn
      BY <1>2, <2>3, OwnTransaction
    <3>2. \A i \in DOMAIN rows : rows[i].call = c => rows[i].in = call[c].own
      BY <1>2, <2>3, CallIs DEF Account
    <3>3. Committed(c) = {}
      BY <3>1, <3>2 DEF Committed
    <3> QED BY <3>3, FS_EmptySet
  <2>4. call[c].at \in Ats
    BY CallIs DEF CallType
  <2> QED BY <2>1, <2>2, <2>3, <2>4 DEF Ats, Settled, Mid
<1> QED BY <1>1, <1>2 DEF OutcomesHold, NoPartialBulk, OutcomeHolds

\* What a call told its caller is what the table has, unless it shared a transaction; and no bulk
\* is ever seen in part (queue.ts, addBulk and inTransaction).
THEOREM OutcomesAreTrue == Spec => []OutcomesHold
BY OutcomesFollow, Inductive, PTL

LEMMA ConnsFollow ==
  ASSUME IInv
  PROVE  ConnsOK
<1>1. \A c \in Calls : call[c].at \in {"chained", "sent"} <=> \E i \in DOMAIN chain : chain[i] = c
  BY DEF IInv, Chained
<1>2. ToSet(chain) = {c \in Calls : call[c].at \in {"chained", "sent"}}
  BY <1>1, Sets DEF ToSet
<1>3. IsInjective(chain)
  BY OncePerCall DEF IsInjective
<1>4. call \in Seq([kind : Kinds, at : Ats, via : Conns \cup {NoConn, Pool},
                    own : Conns \cup {NoConn}, left : 0..MaxJobs, done : 0..MaxJobs,
                    turn : Nat, mixed : BOOLEAN])
  BY DEF IInv, Shapes, CallType
<1>5. rows \in Seq([call : Calls, turn : Nat, in : Conns \cup {NoConn}])
  BY DEF IInv, Locked, RowType
<1>6. TypeOK
  BY <1>2, <1>3, <1>4, <1>5 DEF TypeOK, IInv, Shapes, Owned
<1>7. ASSUME NEW k \in Conns, owner[k] # 0
      PROVE  ~ Settled(owner[k])
  <2>1. owner[k] \in Calls /\ k # NoConn
    BY <1>7, Sets
  <2>2. call[owner[k]].own = k \/ call[owner[k]].at = "sent"
    BY <1>7 DEF IInv, Owned
  <2>3. call[owner[k]].own # NoConn => call[owner[k]].at \in Mid
    BY <2>1, CallIs DEF Shape
  <2> QED BY <2>1, <2>2, <2>3 DEF Settled, Mid
<1>8. \A k \in Conns : txn[k] # "none" => owner[k] # 0 /\ call[owner[k]].own = k
  BY DEF IInv, Owned
<1>9. pinned # NoConn => owner[pinned] # 0 /\ call[owner[pinned]].kind = "tx"
  BY DEF IInv, Owned
<1> QED BY <1>6, <1>7, <1>8, <1>9 DEF ConnsOK, ConnsAreOwned

\* No connection is lost to the pool, and none goes back to it in a transaction: one that is checked
\* out, pinned or in a transaction is that of a call in progress.
THEOREM ConnectionsAreOwned == Spec => []ConnsOK
BY ConnsFollow, Inductive, PTL

-----------------------------------------------------------------------------
(* Schedulers (EmqScheduler): the inductive invariant.                     *)

JobRec == [state : {"delayed", "wait", "active", "finished"}, by : SUBSET Worker, due : Nat,
           turns : Nat, prev : Nat, every : Everys, offset : Nat, count : Nat]

UpsertRec == [at : {"find", "replace", "id", "slot", "write"}, every : Everys, prev : Nat, next : Nat,
              due : Nat, offset : Nat, count : Nat, found : Nat, gone : SUBSET Slot]

UpsertType == {NoCall} \union UpsertRec \union [at : {"remove"}, found : Nat, gone : SUBSET Slot]

Before    == {"read", "update", "look", "write"}
Advancing == {"update", "look", "write", "create"}

WorkerType ==
  {Nothing} \union [at : {"run"}, slot : Slot] \union [at : {"read"}, slot : Slot, opts : JobRec]
  \union [at : Advancing, slot : Slot, opts : JobRec, free : BOOLEAN, made : Opts]

Types ==
  /\ now \in 1 .. MaxTime /\ upserts \in Nat /\ happened \subseteq Happens
  /\ row = NoRow \/ row \in [next : Slot, every : Everys, offset : Nat]
  /\ job \in [Slot -> JobType] /\ \A s \in Slot : job[s].by # {} => job[s].state = "active"
  /\ worker \in [Worker -> WorkerType] /\ upsert \in [Caller -> UpsertType]
  /\ missed \subseteq {"renamed", "taken", "refused", "duplicated", "limit", "lost", "failed",
               "overtaken"}
  /\ astray \subseteq Slot

\* The iteration is pending, or is with a worker that is on its way to make the next one.
Ahead(s) ==
  /\ job[s].state \in Pending \union {"active"} /\ job[s].turns = 0 /\ job[s].prev = s
  /\ \A w \in job[s].by : worker[w].slot = s =>
       worker[w].at \in Before /\ worker[w].opts.prev = s

\* A worker has moved the row to s and is about to add its job.
Coming(s) == ~ Exists(s) /\ \E w \in Worker : worker[w].at = "create" /\ worker[w].made.prev = s

Made == row # NoRow /\ missed = {} => Ahead(row.next) \/ Coming(row.next)

\* A job that is about to be added has a time, which 490 has found free.
InReach ==
  \A w \in Worker : /\ worker[w].at \in {"look", "write", "create"} => worker[w].made.prev \in Slot
                    /\ worker[w].at = "write" => worker[w].free

\* A pending iteration that a caller has looked for in vain came later.
Looked ==
  \A c \in Caller, s \in Slot :
    /\ upsert[c].at \in {"id", "slot", "write"} /\ upsert[c].found = s
    /\ s \notin upsert[c].gone /\ job[s].state \in Pending
    => s \in astray

SchedulerInv == Types /\ InReach /\ Looked /\ OneAhead /\ Made

-----------------------------------------------------------------------------
(* Values.                                                                 *)

LEMMA Numbers ==
  /\ Slot \subseteq Nat /\ 0 \notin Slot /\ Everys \subseteq Nat /\ Period \in Nat \ {0}
  /\ MaxTime \in Nat \ {0} /\ Limit \in Nat
BY EverysAssumption, ClockAssumption DEF Slot

LEMMA Multiple ==
  ASSUME NEW t \in Nat, NEW p \in Nat \ {0}
  PROVE  (t \div p) * p \in Nat /\ t % p \in Nat
<1>1. t \div p \in Nat /\ t % p \in Nat
  OBVIOUS
<1>2. ASSUME NEW q \in Nat PROVE q * p \in Nat
  OBVIOUS
<1> QED BY <1>1, <1>2

LEMMA CronIs ==
  ASSUME NEW t \in Nat
  PROVE  Cron(t) \in Nat
<1>1. Period \in Nat \ {0} /\ t \div Period \in Nat
  BY Numbers
<1>2. ASSUME NEW q \in Nat, NEW p \in Nat PROVE (q + 1) * p \in Nat
  OBVIOUS
<1> QED BY <1>1, <1>2 DEF Cron

\* What an upsert works out.
LEMMA UsersNextIs ==
  ASSUME Types, NEW every \in Everys
  PROVE  UsersNext(every) \in Nat
<1>1. now \in Nat
  BY Numbers DEF Types
<1>2. row = NoRow \/ (row.next \in Slot /\ Slot \subseteq Nat)
  BY Numbers DEF Types
<1>3. Cron(now) \in Nat
  BY <1>1, CronIs
<1> QED BY <1>1, <1>2, <1>3 DEF UsersNext, Known

LEMMA WorkersNextIs ==
  ASSUME Types, NEW every \in Everys, NEW offset \in Nat, NEW t \in Nat
  PROVE  WorkersNext(every, offset, t) \in Nat
<1>1. CASE every = 0
  BY <1>1, CronIs DEF WorkersNext
<1>2. CASE every # 0 /\ ~ Known(every)
  BY <1>2 DEF WorkersNext
<1>3. CASE every # 0 /\ Known(every)
  <2>1. row.next \in Nat /\ every \in Nat \ {0}
    BY <1>3, Numbers DEF Known, Types
  <2>2. (t \div every) * every \in Nat
    BY <2>1, Multiple
  <2>3. ASSUME NEW m \in Nat PROVE m + every + offset \in Nat
    BY <2>1
  <2>4. (t \div every) * every + every + offset \in Nat
    BY <2>2, <2>3
  <2>5. row.next + every \in Nat
    BY <2>1
  <2>6. WorkersNext(every, offset, t) \in {(t \div every) * every + every + offset, row.next + every}
    BY <1>3 DEF WorkersNext
  <2> QED BY <2>4, <2>5, <2>6
<1> QED BY <1>1, <1>2, <1>3

LEMMA OffsetIs ==
  ASSUME NEW every \in Everys, NEW known \in Nat, NEW next \in Nat
  PROVE  Offset(every, known, next) \in Nat
<1>1. CASE every # 0
  <2>1. next % every \in Nat
    BY <1>1, Multiple, Numbers
  <2> QED BY <2>1 DEF Offset
<1> QED BY <1>1 DEF Offset

LEMMA StoredIs ==
  ASSUME Types
  PROVE  StoredOffset \in Nat
BY DEF Types, StoredOffset, NoRow

LEMMA LargerIs ==
  ASSUME NEW a \in Nat, NEW b \in Nat
  PROVE  Larger(a, b) \in Nat
BY DEF Larger

\* A job of an iteration.
LEMMA IterationIs ==
  ASSUME NEW u, u.prev \in Nat, u.every \in Everys, u.offset \in Nat, u.count \in Nat, NEW due \in Nat
  PROVE  LET r == Iteration(u, due)
         IN  /\ r \in JobRec /\ r \in JobType /\ r.state = "delayed" /\ r.by = {}
             /\ r.turns = 0 /\ r.prev = u.prev
BY DEF Iteration, JobRec, JobType

\* A job there is, and one there is none.
LEMMA JobIs ==
  ASSUME Types, NEW s \in Slot
  PROVE  /\ job[s] \in JobType /\ (Exists(s) <=> job[s] # NoJob) /\ (Exists(s) <=> job[s] \in JobRec)
         /\ NoJob \in JobType /\ NoJob.state = "none" /\ NoJob.by = {}
BY DEF Types, Exists, JobType, JobRec, NoJob

\* What a worker does.
LEMMA WorkerIs ==
  ASSUME Types, NEW w \in Worker
  PROVE  /\ worker[w] \in WorkerType /\ Nothing \in WorkerType /\ Nothing.slot = 0 /\ Nothing.at = "none"
         /\ worker[w].at \in {"none", "run", "read"} \union Advancing
         /\ worker[w].at = "none" => worker[w] = Nothing
         /\ worker[w] # Nothing => worker[w].slot \in Slot
         /\ worker[w].at = "read" => worker[w] \in [at : {"read"}, slot : Slot, opts : JobRec]
         /\ worker[w].at \in Advancing =>
              worker[w] \in [at : Advancing, slot : Slot, opts : JobRec, free : BOOLEAN, made : Opts]
         /\ worker[w].at \in ({"read"} \union Advancing) => worker[w].opts \in JobRec
         /\ worker[w].at \in Advancing => worker[w].made \in Opts
<1>1. worker[w] \in WorkerType
  BY DEF Types
<1>2. PICK r : r = worker[w]
  OBVIOUS
<1>3. \/ r = Nothing
      \/ r \in [at : {"run"}, slot : Slot]
      \/ r \in [at : {"read"}, slot : Slot, opts : JobRec]
      \/ r \in [at : Advancing, slot : Slot, opts : JobRec, free : BOOLEAN, made : Opts]
  BY <1>1, <1>2 DEF WorkerType
<1>4. Nothing \in WorkerType /\ Nothing.slot = 0 /\ Nothing.at = "none"
  BY DEF WorkerType, Nothing
<1>9. "none" \notin Advancing /\ "run" \notin Advancing /\ "read" \notin Advancing
  BY DEF Advancing
<1>5. CASE r = Nothing
  BY <1>1, <1>2, <1>4, <1>5, <1>9
<1>6. CASE r \in [at : {"run"}, slot : Slot]
  <2>1. r.at = "run" /\ r.slot \in Slot
    BY <1>6
  <2> QED BY <1>1, <1>2, <1>4, <1>9, <2>1
<1>7. CASE r \in [at : {"read"}, slot : Slot, opts : JobRec]
  <2>1. r.at = "read" /\ r.slot \in Slot /\ r.opts \in JobRec
    BY <1>7
  <2> QED BY <1>1, <1>2, <1>4, <1>9, <1>7, <2>1
<1>8. CASE r \in [at : Advancing, slot : Slot, opts : JobRec, free : BOOLEAN, made : Opts]
  <2>1. r.at \in Advancing /\ r.slot \in Slot /\ r.opts \in JobRec /\ r.made \in Opts
    BY <1>8
  <2> QED BY <1>1, <1>2, <1>4, <1>9, <1>8, <2>1
<1> QED BY <1>3, <1>5, <1>6, <1>7, <1>8

LEMMA RunningIs ==
  ASSUME NEW s \in Slot
  PROVE  Running(s) \in WorkerType /\ Running(s).at = "run" /\ Running(s).slot = s
BY DEF Running, WorkerType

\* A job that is written over.
LEMMA JobPut ==
  ASSUME Types, NEW s \in Slot, NEW r \in JobType, r.by # {} => r.state = "active",
         job' = [job EXCEPT ![s] = r]
  PROVE  /\ job' \in [Slot -> JobType] /\ \A t \in Slot : job'[t].by # {} => job'[t].state = "active"
         /\ job'[s] = r /\ \A t \in Slot : t # s => job'[t] = job[t]
<1>1. job \in [Slot -> JobType] /\ \A t \in Slot : job[t].by # {} => job[t].state = "active"
  BY DEF Types
<1>2. job' \in [Slot -> JobType] /\ job'[s] = r /\ \A t \in Slot : t # s => job'[t] = job[t]
  BY <1>1
<1>3. ASSUME NEW t \in Slot PROVE job'[t].by # {} => job'[t].state = "active"
  <2>1. CASE t = s
    BY <2>1, <1>2
  <2>2. CASE t # s
    <3>1. job'[t] = job[t]
      BY <2>2, <1>2
    <3> QED BY <3>1, <1>1
  <2> QED BY <2>1, <2>2
<1> QED BY <1>2, <1>3

LEMMA WorkerPut ==
  ASSUME Types, NEW w \in Worker, NEW r \in WorkerType, worker' = [worker EXCEPT ![w] = r]
  PROVE  /\ worker' \in [Worker -> WorkerType] /\ worker'[w] = r
         /\ \A v \in Worker : v # w => worker'[v] = worker[v]
BY DEF Types

LEMMA ReachKept ==
  ASSUME Types, InReach, NEW w \in Worker, NEW r \in WorkerType, worker' = [worker EXCEPT ![w] = r],
         r.at \in {"look", "write", "create"} => r.made.prev \in Slot, r.at = "write" => r.free
  PROVE  InReach'
<1>1. worker'[w] = r /\ \A v \in Worker : v # w => worker'[v] = worker[v]
  BY WorkerPut
<1> QED BY <1>1 DEF InReach

\* Jobs that are deleted.
LEMMA WithoutIs ==
  ASSUME Types, NEW S
  PROVE  /\ Without(S) \in [Slot -> JobType]
         /\ \A t \in Slot : Without(S)[t].by # {} => Without(S)[t].state = "active"
         /\ \A t \in Slot : Without(S)[t] = IF t \in S THEN NoJob ELSE job[t]
<1>1. \A t \in Slot : Without(S)[t] = IF t \in S THEN NoJob ELSE job[t]
  BY DEF Without
<1>2. Without(S) \in [Slot -> JobType]
  BY JobIs DEF Without
<1>3. ASSUME NEW t \in Slot PROVE Without(S)[t].by # {} => Without(S)[t].state = "active"
  <2>1. CASE t \in S
    <3>1. Without(S)[t] = NoJob /\ NoJob.by = {}
      BY <2>1, <1>1, JobIs
    <3> QED BY <3>1
  <2>2. CASE t \notin S
    <3>1. Without(S)[t] = job[t]
      BY <2>2, <1>1
    <3> QED BY <3>1 DEF Types
  <2> QED BY <2>1, <2>2
<1> QED BY <1>1, <1>2, <1>3

\* A job whose state and worker change.
LEMMA StateIs ==
  ASSUME NEW r \in JobRec, NEW st \in {"delayed", "wait", "active", "finished"}, NEW b \in SUBSET Worker
  PROVE  LET q == [r EXCEPT !.state = st, !.by = b]
         IN  q \in JobRec /\ q \in JobType /\ q.state = st /\ q.by = b /\ q.turns = r.turns /\ q.prev = r.prev
BY DEF JobRec, JobType

\* Or its turns.
LEMMA TurnsIs ==
  ASSUME NEW r \in JobRec, NEW n \in Nat
  PROVE  LET q == [r EXCEPT !.turns = n]
         IN  /\ q \in JobRec /\ q \in JobType /\ q.turns = n
             /\ q.state = r.state /\ q.by = r.by /\ q.prev = r.prev
BY DEF JobRec, JobType

-----------------------------------------------------------------------------
(* What a step leaves of the row's iteration.                              *)

LEMMA AheadKept ==
  ASSUME Types, NEW s \in Slot, Ahead(s), job'[s] = job[s],
         \A w \in Worker : w \in job[s].by /\ worker'[w].slot = s =>
           \/ worker'[w] = worker[w]
           \/ worker'[w].at \in Before /\ worker'[w].opts.prev = s
  PROVE  Ahead(s)'
<1>1. job[s].by \subseteq Worker
  <2>1. job[s] \in JobRec
    BY JobIs DEF Ahead, Exists, Pending
  <2> QED BY <2>1 DEF JobRec
<1>2. \A w \in job[s].by : worker[w].slot = s => worker[w].at \in Before /\ worker[w].opts.prev = s
  BY DEF Ahead
<1>3. ASSUME NEW w \in job[s].by, worker'[w].slot = s
      PROVE  worker'[w].at \in Before /\ worker'[w].opts.prev = s
  <2>1. CASE worker'[w] = worker[w]
    <3>1. worker[w].slot = s
      BY <2>1, <1>3
    <3> QED BY <3>1, <2>1, <1>2
  <2> QED BY <2>1, <1>1, <1>3
<1> QED BY <1>3 DEF Ahead

LEMMA ComingKept ==
  ASSUME NEW s \in Slot, Coming(s), job'[s] = job[s],
         \A w \in Worker : worker[w].at = "create" => worker'[w] = worker[w]
  PROVE  Coming(s)'
<1>1. PICK w \in Worker : worker[w].at = "create" /\ worker[w].made.prev = s
  BY DEF Coming
<1>2. worker'[w].at = "create" /\ worker'[w].made.prev = s
  BY <1>1
<1>3. ~ Exists(s)'
  BY DEF Coming, Exists
<1> QED BY <1>2, <1>3 DEF Coming

\* The row's time is one of an iteration.
LEMMA RowIs ==
  ASSUME Types, row # NoRow
  PROVE  row.next \in Slot /\ row \in [next : Slot, every : Everys, offset : Nat]
BY DEF Types

\* A job that may be ahead exists.
LEMMA AheadExists ==
  ASSUME Types, NEW s \in Slot, Ahead(s)
  PROVE  Exists(s) /\ job[s] \in JobRec /\ ~ Coming(s)
<1>1. Exists(s)
  BY DEF Ahead, Exists, Pending
<1> QED BY <1>1, JobIs DEF Coming

-----------------------------------------------------------------------------
(* Upserts and removals.                                                   *)

LEMMA UpsertIs ==
  ASSUME Types, NEW c \in Caller
  PROVE  /\ upsert[c] \in UpsertType /\ NoCall \in UpsertType /\ NoCall.at = "none"
         /\ upsert[c].gone \subseteq Slot
         /\ upsert[c].at \in {"find", "replace", "id", "slot", "write"} => upsert[c] \in UpsertRec
<1>1. upsert[c] \in UpsertType
  BY DEF Types
<1>2. PICK r : r = upsert[c]
  OBVIOUS
<1>3. NoCall \in UpsertType /\ NoCall.at = "none" /\ NoCall.gone = {}
  BY DEF UpsertType, NoCall
<1>4. CASE r = NoCall
  BY <1>1, <1>2, <1>3, <1>4
<1>5. CASE r \in UpsertRec
  <2>1. r.gone \subseteq Slot
    BY <1>5 DEF UpsertRec
  <2> QED BY <1>1, <1>2, <1>3, <1>5, <2>1
<1>6. CASE r \in [at : {"remove"}, found : Nat, gone : SUBSET Slot]
  <2>1. r.at = "remove" /\ r.gone \subseteq Slot
    BY <1>6
  <2> QED BY <1>1, <1>2, <1>3, <2>1
<1> QED BY <1>1, <1>2, <1>4, <1>5, <1>6 DEF UpsertType

LEMMA UpsertPut ==
  ASSUME Types, NEW c \in Caller, NEW r \in UpsertType, upsert' = [upsert EXCEPT ![c] = r]
  PROVE  /\ upsert' \in [Caller -> UpsertType] /\ upsert'[c] = r
         /\ \A d \in Caller : d # c => upsert'[d] = upsert[d]
BY DEF Types

\* A step of one caller that writes nothing.
LEMMA UpsertStep ==
  ASSUME SchedulerInv, NEW c \in Caller, NEW r \in UpsertType, upsert' = [upsert EXCEPT ![c] = r],
         UNCHANGED <<now, row, job, worker, missed, astray>>, upserts' \in Nat, happened' \subseteq Happens,
         \A s \in Slot :
           /\ r.at \in {"id", "slot", "write"} /\ r.found = s
           /\ s \notin r.gone /\ job[s].state \in Pending
           => s \in astray
  PROVE  SchedulerInv'
<1> USE DEF SchedulerInv
<1>1. /\ upsert' \in [Caller -> UpsertType] /\ upsert'[c] = r
      /\ \A d \in Caller : d # c => upsert'[d] = upsert[d]
  BY UpsertPut
<1>2. Types'
  BY <1>1 DEF Types
<1>3. InReach' /\ OneAhead' /\ Made'
  BY DEF InReach, OneAhead, Made, Ahead, Coming, Exists
<1>4. Looked'
  <2>1. ASSUME NEW d \in Caller, NEW s \in Slot, upsert'[d].at \in {"id", "slot", "write"},
               upsert'[d].found = s, s \notin upsert'[d].gone, job[s].state \in Pending
        PROVE  s \in astray
    <3>1. CASE d = c
      BY <3>1, <2>1, <1>1
    <3>2. CASE d # c
      BY <3>2, <2>1, <1>1 DEF Looked
    <3> QED BY <3>1, <3>2
  <2> QED BY <2>1 DEF Looked
<1> QED BY <1>2, <1>3, <1>4

LEMMA UpsertKeeps ==
  ASSUME SchedulerInv, NEW c \in Caller, NEW every \in Everys, Upsert(c, every)
  PROVE  SchedulerInv'
<1>1. Types
  BY DEF SchedulerInv
<1>2. PICK prev : prev = UsersNext(every)
  OBVIOUS
<1>3. PICK next : next = Larger(prev, now)
  OBVIOUS
<1>4. PICK offset : offset = Offset(every, StoredOffset, prev)
  OBVIOUS
<1>5. PICK u : u = [at |-> "find", every |-> every, prev |-> prev, next |-> next, due |-> next,
                    offset |-> offset, count |-> 1, found |-> 0, gone |-> {}]
  OBVIOUS
<1>6. /\ upserts' = upserts + 1 /\ upsert' = [upsert EXCEPT ![c] = u]
      /\ UNCHANGED <<now, row, job, worker, happened, missed, astray>>
  BY <1>2, <1>3, <1>4, <1>5 DEF Upsert
<1>7. now \in Nat /\ upserts' \in Nat /\ happened' \subseteq Happens
  BY <1>1, <1>6, Numbers DEF Types
<1>8. prev \in Nat
  BY <1>1, <1>2, UsersNextIs
<1>9. next \in Nat
  BY <1>3, <1>7, <1>8, LargerIs
<1>10. offset \in Nat
  BY <1>1, <1>4, <1>8, StoredIs, OffsetIs
<1>11. u \in UpsertRec /\ u.at = "find"
  BY <1>5, <1>8, <1>9, <1>10 DEF UpsertRec
<1>12. u \in UpsertType
  BY <1>11 DEF UpsertType
<1> QED BY <1>6, <1>7, <1>11, <1>12, UpsertStep

LEMMA FindKeeps ==
  ASSUME SchedulerInv, NEW c \in Caller, Find(c)
  PROVE  SchedulerInv'
<1>1. Types
  BY DEF SchedulerInv
<1>2. PICK r : r = [upsert[c] EXCEPT !.at = "replace", !.found = row.next]
  OBVIOUS
<1>3. /\ upsert[c].at = "find" /\ upsert' = [upsert EXCEPT ![c] = r]
      /\ UNCHANGED <<now, row, job, worker, upserts, happened, missed, astray>>
  BY <1>1, <1>2 DEF Find, Types
<1>4. upsert[c] \in UpsertRec
  BY <1>1, <1>3, UpsertIs
<1>5. row.next \in Nat
  <2>1. CASE row = NoRow
    BY <2>1 DEF NoRow
  <2>2. CASE row # NoRow
    BY <2>2, <1>1, RowIs, Numbers
  <2> QED BY <2>1, <2>2
<1>6. r \in UpsertRec /\ r.at = "replace"
  BY <1>2, <1>4, <1>5 DEF UpsertRec
<1>7. r \in UpsertType /\ upserts' \in Nat /\ happened' \subseteq Happens
  BY <1>1, <1>3, <1>6 DEF UpsertType, Types
<1> QED BY <1>3, <1>6, <1>7, UpsertStep

LEMMA ReplaceKeeps ==
  ASSUME SchedulerInv, NEW c \in Caller, Replace(c)
  PROVE  SchedulerInv'
<1>1. Types
  BY DEF SchedulerInv
<1>2. PICK r : r = [upsert[c] EXCEPT !.at = "id", !.gone = Replaced(c)]
  OBVIOUS
<1>3. /\ upsert[c].at = "replace" /\ upsert' = [upsert EXCEPT ![c] = r]
      /\ UNCHANGED <<now, row, job, worker, upserts, happened, missed, astray>>
  BY <1>1, <1>2 DEF Replace, Types
<1>4. upsert[c] \in UpsertRec
  BY <1>1, <1>3, UpsertIs
<1>5. Replaced(c) \subseteq Slot
  BY DEF Replaced
<1>6. r \in UpsertRec /\ r.found = upsert[c].found /\ r.gone = Replaced(c)
  BY <1>2, <1>4, <1>5 DEF UpsertRec
<1>7. r \in UpsertType /\ upserts' \in Nat /\ happened' \subseteq Happens
  BY <1>1, <1>3, <1>6 DEF UpsertType, Types
<1>8. \A s \in Slot : ~ (r.found = s /\ s \notin r.gone /\ job[s].state \in Pending)
  BY <1>6 DEF Replaced
<1> QED BY <1>3, <1>7, <1>8, UpsertStep

\* The tests leave what was looked for and what was deleted.
LEMMA TestKeeps ==
  ASSUME SchedulerInv, NEW c \in Caller, TestId(c) \/ TestSlot(c)
  PROVE  SchedulerInv'
<1>1. Types /\ Looked
  BY DEF SchedulerInv
<1>2. PICK u : u = upsert[c]
  OBVIOUS
<1>3. u.at \in {"id", "slot"} /\ u \in UpsertRec
  <2>1. u.at \in {"id", "slot"}
    BY <1>2 DEF TestId, TestSlot
  <2> QED BY <2>1, <1>1, <1>2, UpsertIs
<1>4. PICK at \in {"slot", "write"}, next \in Nat : upsert' = [upsert EXCEPT ![c].at = at, ![c].next = next]
  <2>1. CASE TestId(c)
    <3>1. PICK at : at = IF Taken(c, u.next) /\ u.every # 0 THEN "slot" ELSE "write"
      OBVIOUS
    <3>2. upsert' = [upsert EXCEPT ![c].at = at] /\ at \in {"slot", "write"}
      BY <2>1, <3>1, <1>2 DEF TestId
    <3>3. u.next \in Nat /\ [u EXCEPT !.at = at] = [u EXCEPT !.at = at, !.next = u.next]
      BY <1>3 DEF UpsertRec
    <3>4. upsert' = [upsert EXCEPT ![c].at = at, ![c].next = u.next]
      BY <3>2, <3>3, <1>1, <1>2 DEF Types
    <3> QED BY <3>2, <3>3, <3>4
  <2>2. CASE TestSlot(c)
    <3>1. upsert' = [upsert EXCEPT ![c].at = "write", ![c].next = u.next + u.every]
      BY <2>2, <1>2 DEF TestSlot
    <3>2. u.next + u.every \in Nat
      <4>1. u.next \in Nat /\ u.every \in Everys
        BY <1>3 DEF UpsertRec
      <4>2. PICK a, b : a = u.next /\ b = u.every
        OBVIOUS
      <4>3. a \in Nat /\ b \in Nat
        BY <4>1, <4>2, EverysAssumption
      <4> QED BY <4>2, <4>3
    <3> QED BY <3>1, <3>2
  <2> QED BY <2>1, <2>2
<1>5. PICK r : r = [u EXCEPT !.at = at, !.next = next]
  OBVIOUS
<1>6. upsert' = [upsert EXCEPT ![c] = r]
  BY <1>1, <1>2, <1>4, <1>5 DEF Types
<1>7. r \in UpsertRec /\ r.found = u.found /\ r.gone = u.gone
  BY <1>3, <1>4, <1>5 DEF UpsertRec
<1>8. UNCHANGED <<now, row, job, worker, upserts, happened, missed, astray>>
  BY DEF TestId, TestSlot
<1>9. r \in UpsertType /\ upserts' \in Nat /\ happened' \subseteq Happens
  BY <1>1, <1>7, <1>8 DEF UpsertType, Types
<1>10. \A s \in Slot : u.found = s /\ s \notin u.gone /\ job[s].state \in Pending => s \in astray
  BY <1>1, <1>2, <1>3 DEF Looked
<1> QED BY <1>6, <1>7, <1>8, <1>9, <1>10, UpsertStep

LEMMA CallFailsKeeps ==
  ASSUME SchedulerInv, NEW c \in Caller, CallFails(c)
  PROVE  SchedulerInv'
<1>1. Types
  BY DEF SchedulerInv
<1>2. /\ upsert' = [upsert EXCEPT ![c] = NoCall]
      /\ UNCHANGED <<now, row, job, worker, upserts, happened, missed, astray>>
  BY DEF CallFails
<1>3. NoCall \in UpsertType /\ NoCall.at = "none"
  BY <1>1, UpsertIs
<1>4. upserts' \in Nat /\ happened' \subseteq Happens
  BY <1>1, <1>2 DEF Types
<1> QED BY <1>2, <1>3, <1>4, UpsertStep

LEMMA RemoveBegins ==
  ASSUME SchedulerInv, NEW c \in Caller, BeginRemove(c)
  PROVE  SchedulerInv'
<1>1. Types
  BY DEF SchedulerInv
<1>2. PICK r : r = [at |-> "remove", found |-> row.next, gone |-> {}]
  OBVIOUS
<1>3. /\ row # NoRow /\ upsert' = [upsert EXCEPT ![c] = r]
      /\ happened' = happened \union {"remove"} /\ "remove" \in Happens
      /\ UNCHANGED <<now, row, job, worker, upserts, missed, astray>>
  BY <1>2 DEF BeginRemove, Once
<1>4. row.next \in Nat
  BY <1>1, <1>3, RowIs, Numbers
<1>5. r \in UpsertType /\ r.at = "remove"
  BY <1>2, <1>4 DEF UpsertType
<1>6. upserts' \in Nat /\ happened' \subseteq Happens
  BY <1>1, <1>3 DEF Types
<1> QED BY <1>3, <1>5, <1>6, UpsertStep

\* Jobs that are deleted, or none, are not pending.
LEMMA LookedLess ==
  ASSUME Types, Looked, astray \subseteq astray',
         \A d \in Caller : upsert'[d] = upsert[d] \/ upsert'[d] = NoCall,
         \A s \in Slot : job'[s].state \in Pending => job[s].state \in Pending
  PROVE  Looked'
<1>1. ASSUME NEW d \in Caller, NEW s \in Slot, upsert'[d].at \in {"id", "slot", "write"},
             upsert'[d].found = s, s \notin upsert'[d].gone, job'[s].state \in Pending
      PROVE  s \in astray'
  <2>1. upsert'[d] = upsert[d]
    BY <1>1, UpsertIs
  <2> QED BY <1>1, <2>1 DEF Looked
<1> QED BY <1>1 DEF Looked

LEMMA RefusedKeeps ==
  ASSUME SchedulerInv, NEW c \in Caller, AddRefused(c)
  PROVE  SchedulerInv'
<1> USE DEF SchedulerInv
<1>1. PICK S : S = upsert[c].gone
  OBVIOUS
<1>2. /\ job' = Without(S) /\ upsert' = [upsert EXCEPT ![c] = NoCall]
      /\ missed' = missed \union {what \in {"refused"} : row.next \in S}
      /\ UNCHANGED <<now, row, worker, upserts, happened, astray>>
  BY <1>1 DEF AddRefused
<1>3. /\ job' \in [Slot -> JobType] /\ \A t \in Slot : job'[t].by # {} => job'[t].state = "active"
      /\ \A t \in Slot : job'[t] = IF t \in S THEN NoJob ELSE job[t]
  BY <1>2, WithoutIs
<1>4. /\ upsert' \in [Caller -> UpsertType] /\ upsert'[c] = NoCall
      /\ \A d \in Caller : d # c => upsert'[d] = upsert[d]
  BY <1>2, UpsertIs, UpsertPut
<1>5. Types'
  BY <1>2, <1>3, <1>4 DEF Types
<1>6. \A s \in Slot : job'[s].state \in Pending => job'[s] = job[s]
  BY <1>3 DEF Pending, NoJob
<1>7. OneAhead'
  BY <1>2, <1>6 DEF OneAhead
<1>8. Looked'
  BY <1>2, <1>4, <1>6, LookedLess
<1>9. ASSUME row # NoRow, missed' = {}
      PROVE  Ahead(row.next)' \/ Coming(row.next)'
  <2>1. PICK t \in Slot : t = row.next
    BY <1>9, RowIs
  <2>2. t \notin S /\ missed = {}
    BY <2>1, <1>2, <1>9
  <2>3. job'[t] = job[t]
    BY <2>2, <1>3
  <2>4. CASE Ahead(t)
    <3>1. Ahead(t)'
      BY <2>3, <2>4, <1>2, AheadKept
    <3> QED BY <2>1, <3>1, <1>2
  <2>5. CASE Coming(t)
    <3>1. Coming(t)'
      BY <2>3, <2>5, <1>2, ComingKept
    <3> QED BY <2>1, <3>1, <1>2
  <2> QED BY <2>1, <2>2, <2>4, <2>5, <1>9 DEF Made
<1>10. Made'
  BY <1>2, <1>9 DEF Made
<1>11. InReach'
  BY <1>2 DEF InReach
<1> QED BY <1>5, <1>7, <1>8, <1>10, <1>11

LEMMA RemoveKeeps ==
  ASSUME SchedulerInv, NEW c \in Caller, RemoveJobScheduler(c)
  PROVE  SchedulerInv'
<1> USE DEF SchedulerInv
<1>1. PICK S : S = {s \in Slot : s = upsert[c].found /\ job[s].state = "delayed"}
  OBVIOUS
<1>2. /\ row' = NoRow /\ job' = Without(S) /\ missed' = {}
      /\ astray' = astray \union {s \in Slot \ S : s = row.next}
      /\ upsert' = [upsert EXCEPT ![c] = NoCall]
      /\ UNCHANGED <<now, worker, upserts, happened>>
  BY <1>1 DEF RemoveJobScheduler
<1>3. /\ job' \in [Slot -> JobType] /\ \A t \in Slot : job'[t].by # {} => job'[t].state = "active"
      /\ \A t \in Slot : job'[t] = IF t \in S THEN NoJob ELSE job[t]
  BY <1>2, WithoutIs
<1>4. /\ upsert' \in [Caller -> UpsertType] /\ upsert'[c] = NoCall
      /\ \A d \in Caller : d # c => upsert'[d] = upsert[d]
  BY <1>2, UpsertIs, UpsertPut
<1>5. Types'
  BY <1>2, <1>3, <1>4 DEF Types
<1>6. \A s \in Slot : job'[s].state \in Pending => job'[s] = job[s] /\ s \notin S
  BY <1>3 DEF Pending, NoJob
<1>7. OneAhead'
  <2>1. ASSUME NEW s \in Slot, job'[s].state \in Pending, job'[s].turns = 0, s \notin astray'
        PROVE  FALSE
    <3>1. job'[s] = job[s] /\ s \notin S /\ s \notin astray
      BY <2>1, <1>2, <1>6
    <3>2. row.next = s
      BY <3>1, <2>1 DEF OneAhead
    <3> QED BY <3>1, <3>2, <2>1, <1>2
  <2> QED BY <2>1 DEF OneAhead
<1>8. Looked'
  BY <1>2, <1>4, <1>6, LookedLess
<1>9. Made' /\ InReach'
  BY <1>2 DEF Made, InReach
<1> QED BY <1>5, <1>7, <1>8, <1>9

LEMMA AddJobKeeps ==
  ASSUME SchedulerInv, NEW c \in Caller, AddJobScheduler(c)
  PROVE  SchedulerInv'
<1> USE DEF SchedulerInv
<1>1. PICK u, left, n, taken : /\ u = upsert[c] /\ left = Without(u.gone) /\ n = u.next
                               /\ taken = Taken(c, n)
  OBVIOUS
<1>2. PICK new : new = Iteration(u, u.due)
  OBVIOUS
<1>3. PICK moved : moved = {s \in Slot \ {u.found, n} : s = row.next}
  OBVIOUS
<1>4. /\ u.at = "write" /\ n \in Slot
      /\ row' = [next |-> n, every |-> u.every, offset |-> u.offset]
      /\ job' = IF taken THEN [left EXCEPT ![n].turns = 0] ELSE [left EXCEPT ![n] = new]
      /\ missed' = {what \in {"renamed"} : u.prev # n} \union {what \in {"taken"} : taken}
      /\ astray' = moved \union (IF Passed(Caller \ {c}, n) THEN astray \union {n}
                                ELSE IF taken THEN astray ELSE astray \ {n})
      /\ upsert' = [upsert EXCEPT ![c] = NoCall]
      /\ UNCHANGED <<now, worker, upserts, happened>>
  BY <1>1, <1>2, <1>3 DEF AddJobScheduler
<1>5. u \in UpsertRec
  BY <1>1, <1>4, UpsertIs
<1>6. /\ u.every \in Everys /\ u.prev \in Nat /\ u.due \in Nat /\ u.offset \in Nat /\ u.count \in Nat
  BY <1>5 DEF UpsertRec
<1>7. /\ left \in [Slot -> JobType]
      /\ \A t \in Slot : left[t].by # {} => left[t].state = "active"
      /\ \A t \in Slot : left[t] = IF t \in u.gone THEN NoJob ELSE job[t]
  BY <1>1, WithoutIs
<1>8. row' \in [next : Slot, every : Everys, offset : Nat] /\ row'.next = n
  BY <1>4, <1>6
<1>9. new \in JobType /\ new.state = "delayed" /\ new.by = {} /\ new.turns = 0 /\ new.prev = u.prev
  BY <1>2, <1>6, IterationIs
<1>10. taken => left[n] = job[n] /\ job[n] \in JobRec
  BY <1>1, <1>4, <1>7, JobIs DEF Taken
<1>11. PICK old : old = [job[n] EXCEPT !.turns = 0]
  OBVIOUS
<1>12. taken => old \in JobType /\ old.state = job[n].state /\ old.by = job[n].by
  BY <1>10, <1>11, TurnsIs
<1>13. PICK r : r = IF taken THEN old ELSE new
  OBVIOUS
<1>14. r \in JobType /\ (r.by # {} => r.state = "active") /\ job' = [left EXCEPT ![n] = r]
  <2>1. CASE taken
    <3>1. job' = [left EXCEPT ![n] = old]
      BY <2>1, <1>4, <1>7, <1>10, <1>11
    <3>2. old.by # {} => old.state = "active"
      BY <2>1, <1>4, <1>12 DEF Types
    <3> QED BY <2>1, <3>1, <3>2, <1>12, <1>13
  <2>2. CASE ~ taken
    BY <2>2, <1>4, <1>9, <1>13
  <2> QED BY <2>1, <2>2
<1>15. job' \in [Slot -> JobType] /\ job'[n] = r /\ \A t \in Slot : t # n => job'[t] = left[t]
  BY <1>4, <1>7, <1>14
<1>16. \A t \in Slot : job'[t].by # {} => job'[t].state = "active"
  BY <1>7, <1>14, <1>15
<1>17. /\ upsert' \in [Caller -> UpsertType] /\ upsert'[c] = NoCall
       /\ \A d \in Caller : d # c => upsert'[d] = upsert[d]
  BY <1>4, UpsertIs, UpsertPut
<1>18. missed' \subseteq {"renamed", "taken"} /\ astray' \subseteq Slot /\ astray \ {n} \subseteq astray'
  BY <1>3, <1>4 DEF Types
<1>19. Types'
  BY <1>4, <1>8, <1>15, <1>16, <1>17, <1>18 DEF Types
<1>20. ASSUME NEW s \in Slot, job'[s].state \in Pending, s # n
       PROVE  job'[s] = job[s] /\ s \notin u.gone
  BY <1>7, <1>15, <1>20 DEF Pending, NoJob
<1>21. ASSUME NEW s \in Slot, job'[s].state \in Pending, job'[s].turns = 0, s \notin astray', s # n
       PROVE  FALSE
  <2>1. job'[s] = job[s] /\ s \notin u.gone /\ s \notin astray
    BY <1>18, <1>20, <1>21
  <2>2. row.next = s
    BY <2>1, <1>21 DEF OneAhead
  <2>3. s \notin moved
    BY <1>4, <1>21
  <2>4. u.found = s
    BY <2>2, <2>3, <1>3, <1>21
  <2> QED BY <2>1, <2>4, <1>1, <1>4, <1>21 DEF Looked
<1>22. OneAhead'
  BY <1>8, <1>21 DEF OneAhead
<1>23. Looked'
  <2>1. ASSUME NEW d \in Caller, NEW s \in Slot, upsert'[d].at \in {"id", "slot", "write"},
               upsert'[d].found = s, s \notin upsert'[d].gone, job'[s].state \in Pending
        PROVE  s \in astray'
    <3>1. d # c /\ upsert'[d] = upsert[d]
      BY <2>1, <1>17, UpsertIs
    <3>2. CASE s = n
      <4>1. Passed(Caller \ {c}, n)
        BY <2>1, <3>1, <3>2 DEF Passed
      <4> QED BY <4>1, <3>2, <1>4
    <3>3. CASE s # n
      <4>1. job[s].state \in Pending
        BY <2>1, <3>3, <1>20
      <4>2. s \in astray
        BY <4>1, <2>1, <3>1 DEF Looked
      <4> QED BY <4>2, <3>3, <1>18
    <3> QED BY <3>2, <3>3
  <2> QED BY <2>1 DEF Looked
<1>24. ASSUME missed' = {}
       PROVE  Ahead(n)'
  <2>1. ~ taken /\ u.prev = n
    BY <1>4, <1>24
  <2>2. job'[n].state = "delayed" /\ job'[n].turns = 0 /\ job'[n].prev = n /\ job'[n].by = {}
    BY <2>1, <1>9, <1>13, <1>15
  <2> QED BY <2>2 DEF Ahead, Pending
<1>25. Made'
  BY <1>8, <1>24 DEF Made
<1>26. InReach'
  BY <1>4 DEF InReach
<1> QED BY <1>19, <1>22, <1>23, <1>25, <1>26

\* What becomes pending when a caller has passed it is astray.
LEMMA LookedKept ==
  ASSUME Looked, upsert' = upsert,
         \A s \in Slot : job'[s].state \in Pending /\ s \notin astray' =>
           \/ job[s].state \in Pending /\ s \notin astray
           \/ ~ Passed(Caller, s)
  PROVE  Looked'
<1>1. ASSUME NEW d \in Caller, NEW s \in Slot, upsert[d].at \in {"id", "slot", "write"},
             upsert[d].found = s, s \notin upsert[d].gone, job'[s].state \in Pending, s \notin astray'
      PROVE  FALSE
  <2>1. Passed(Caller, s)
    BY <1>1 DEF Passed
  <2>2. job[s].state \in Pending /\ s \notin astray
    BY <2>1, <1>1
  <2> QED BY <2>2, <1>1 DEF Looked
<1> QED BY <1>1 DEF Looked

-----------------------------------------------------------------------------
(* Workers.                                                                *)

LEMMA ClaimKeeps ==
  ASSUME SchedulerInv, NEW w \in Worker, NEW s \in Slot, Claim(w, s)
  PROVE  SchedulerInv'
<1> USE DEF SchedulerInv
<1> DEFINE q == [at |-> "read", slot |-> s, opts |-> job[s]]
           r == [job[s] EXCEPT !.state = "active", !.by = {w}, !.due = 0]
<1>1. /\ worker[w] = Nothing /\ Due(s)
      /\ job' = [job EXCEPT ![s].state = "active", ![s].by = {w}, ![s].due = 0]
      /\ worker' = [worker EXCEPT ![w] = q]
      /\ UNCHANGED <<now, row, upsert, upserts, happened, missed, astray>>
  BY DEF Claim
<1>2. job[s].state \in {"delayed", "wait"} /\ Exists(s) /\ job[s] \in JobRec
  <2>1. job[s].state \in {"delayed", "wait"}
    BY <1>1 DEF Due
  <2>2. Exists(s)
    BY <2>1 DEF Exists
  <2> QED BY <2>1, <2>2, JobIs
<1>3. /\ r \in JobType /\ r.state = "active" /\ r.by = {w} /\ r.turns = job[s].turns /\ r.prev = job[s].prev
  BY <1>2 DEF JobRec, JobType
<1>4. job' = [job EXCEPT ![s] = r]
  BY <1>1 DEF Types
<1>5. q \in WorkerType /\ q.at = "read" /\ q.slot = s /\ q.opts = job[s]
  BY <1>2 DEF WorkerType
<1> HIDE DEF q, r
<1>6. /\ job' \in [Slot -> JobType] /\ \A t \in Slot : job'[t].by # {} => job'[t].state = "active"
      /\ job'[s] = r /\ \A t \in Slot : t # s => job'[t] = job[t]
  BY <1>3, <1>4, JobPut
<1>7. /\ worker' \in [Worker -> WorkerType] /\ worker'[w] = q
      /\ \A v \in Worker : v # w => worker'[v] = worker[v]
  BY <1>1, <1>5, WorkerPut
<1>8. Types'
  BY <1>1, <1>6, <1>7 DEF Types
<1>9. OneAhead'
  <2>1. ASSUME NEW t \in Slot, job'[t].state \in Pending
        PROVE  job'[t] = job[t]
    BY <2>1, <1>3, <1>6 DEF Pending
  <2> QED BY <2>1, <1>1 DEF OneAhead
<1>13. Looked'
  <2>1. ASSUME NEW t \in Slot, job'[t].state \in Pending
        PROVE  job'[t] = job[t]
    BY <2>1, <1>3, <1>6 DEF Pending
  <2> QED BY <2>1, <1>1, LookedKept
<1>10. ASSUME row # NoRow, missed = {}
       PROVE  Ahead(row.next)' \/ Coming(row.next)'
  <2>1. row.next \in Slot
    BY <1>10, RowIs
  <2>2. CASE Ahead(row.next) /\ row.next = s
    <3>1. job'[s].turns = 0 /\ job'[s].prev = s /\ job'[s].state = "active" /\ job'[s].by = {w}
      BY <2>2, <1>3, <1>6 DEF Ahead
    <3>2. worker'[w].at = "read" /\ worker'[w].opts.prev = s
      BY <2>2, <1>5, <1>7 DEF Ahead
    <3>3. Ahead(s)'
      BY <3>1, <3>2 DEF Ahead, Before
    <3> QED BY <3>3, <2>2, <1>1
  <2>3. CASE Ahead(row.next) /\ row.next # s
    <3>1. \A v \in Worker : worker'[v].slot = row.next => worker'[v] = worker[v]
      BY <2>3, <1>5, <1>7
    <3>2. job'[row.next] = job[row.next]
      BY <2>1, <2>3, <1>6
    <3>3. PICK t \in Slot : t = row.next
      BY <2>1
    <3>4. Ahead(t)'
      BY <3>1, <3>2, <3>3, <2>3, AheadKept
    <3> QED BY <3>3, <3>4, <1>1
  <2>4. CASE Coming(row.next)
    <3>1. row.next # s
      BY <2>4, <1>2 DEF Coming
    <3>2. \A v \in Worker : worker[v].at = "create" => worker'[v] = worker[v]
      BY <1>1, <1>7, WorkerIs
    <3>3. PICK t \in Slot : t = row.next
      BY <2>1
    <3>4. Coming(t)'
      BY <3>1, <3>2, <3>3, <2>4, <1>6, ComingKept
    <3> QED BY <3>3, <3>4, <1>1
  <2> QED BY <2>2, <2>3, <2>4, <1>10 DEF Made
<1>11. Made'
  BY <1>1, <1>10 DEF Made
<1>12. InReach'
  BY <1>1, <1>5, ReachKept
<1> QED BY <1>8, <1>9, <1>11, <1>12, <1>13

\* A step of one worker that leaves the row and the jobs.
LEMMA WorkerStep ==
  ASSUME Types, Made, NEW w \in Worker, NEW r \in WorkerType, worker' = [worker EXCEPT ![w] = r],
         row' = row, job' = job, missed \subseteq missed',
         missed' = {} /\ row # NoRow /\ Ahead(row.next) /\ w \in job[row.next].by /\ r.slot = row.next =>
           r.at \in Before /\ r.opts.prev = row.next,
         worker[w].at = "create" => missed' # {}
  PROVE  Made'
<1>1. worker'[w] = r /\ \A v \in Worker : v # w => worker'[v] = worker[v]
  BY WorkerPut
<1>2. ASSUME row # NoRow, missed' = {}
      PROVE  Ahead(row.next)' \/ Coming(row.next)'
  <2>1. PICK s \in Slot : s = row.next
    BY <1>2, RowIs
  <2>2. missed = {}
    BY <1>2
  <2>3. CASE Ahead(s)
    <3>1. \A v \in Worker : v \in job[s].by /\ worker'[v].slot = s =>
            \/ worker'[v] = worker[v]
            \/ worker'[v].at \in Before /\ worker'[v].opts.prev = s
      BY <1>1, <1>2, <2>1, <2>3
    <3>2. Ahead(s)'
      BY <2>3, <3>1, AheadKept
    <3> QED BY <2>1, <3>2
  <2>4. CASE Coming(s)
    <3>1. \A v \in Worker : worker[v].at = "create" => worker'[v] = worker[v]
      BY <1>1, <1>2
    <3>2. Coming(s)'
      BY <2>4, <3>1, ComingKept
    <3> QED BY <2>1, <3>2
  <2> QED BY <1>2, <2>1, <2>2, <2>3, <2>4 DEF Made
<1> QED BY <1>2 DEF Made

LEMMA ReadKeeps ==
  ASSUME SchedulerInv, NEW w \in Worker, Read(w)
  PROVE  SchedulerInv'
<1> USE DEF SchedulerInv
<1> DEFINE o     == worker[w].opts
           t     == Larger(o.prev, now)
           next  == WorkersNext(o.every, o.offset, t)
           known == IF o.offset # 0 THEN o.offset ELSE StoredOffset
           made  == [prev |-> next, every |-> o.every, count |-> o.count + 1,
                     offset |-> Offset(o.every, known, next)]
           q     == [at |-> "update", slot |-> worker[w].slot, opts |-> o, free |-> FALSE, made |-> made]
           r     == IF Over(o) THEN Running(worker[w].slot) ELSE q
<1>1. /\ worker[w].at = "read" /\ worker' = [worker EXCEPT ![w] = r]
      /\ missed' = missed \union {what \in {"limit"} : Over(o) /\ row.next = o.prev}
      /\ UNCHANGED <<now, row, job, upsert, upserts, happened, astray>>
  BY DEF Read, Types
<1>2. o \in JobRec /\ worker[w].slot \in Slot
  BY <1>1, WorkerIs DEF Nothing
<1>3. /\ o.prev \in Nat /\ o.every \in Everys /\ o.offset \in Nat /\ o.count \in Nat
  BY <1>2 DEF JobRec
<1>4. now \in Nat
  BY Numbers DEF Types
<1>5. t \in Nat
  BY <1>3, <1>4, LargerIs
<1>6. next \in Nat
  BY <1>3, <1>5, WorkersNextIs
<1>7. known \in Nat
  BY <1>3, StoredIs
<1>8. Offset(o.every, known, next) \in Nat
  BY <1>3, <1>6, <1>7, OffsetIs
<1>9. made \in Opts
  BY <1>3, <1>6, <1>8 DEF Opts
<1> HIDE DEF made
<1>10. q \in WorkerType /\ q.at = "update" /\ q.slot = worker[w].slot /\ q.opts = o
  BY <1>2, <1>9 DEF WorkerType, Advancing
<1>11. Running(worker[w].slot) \in WorkerType
  BY <1>2, RunningIs
<1>12. r \in WorkerType /\ (~ Over(o) => r = q)
  BY <1>10, <1>11
<1> HIDE DEF o, t, next, known, q, r
<1>13. Types'
  BY <1>1, <1>12, WorkerPut DEF Types
<1>14. OneAhead' /\ Looked'
  BY <1>1 DEF OneAhead, Looked
<1>15. missed' = {} /\ row # NoRow /\ Ahead(row.next) /\ w \in job[row.next].by /\ r.slot = row.next =>
         r.at \in Before /\ r.opts.prev = row.next
  <2>1. r.slot = worker[w].slot
    BY <1>2, <1>10, RunningIs DEF r
  <2>2. ASSUME missed' = {}, row # NoRow, Ahead(row.next), w \in job[row.next].by, r.slot = row.next
        PROVE  r.at \in Before /\ r.opts.prev = row.next
    <3>1. o.prev = row.next
      BY <2>1, <2>2 DEF Ahead, o
    <3>2. ~ Over(o)
      BY <3>1, <2>2, <1>1
    <3> QED BY <3>1, <3>2, <1>10, <1>12 DEF Before
  <2> QED BY <2>2
<1>16. Made'
  BY <1>1, <1>12, <1>15, WorkerStep
<1>17. InReach'
  <2>1. r.at \notin {"look", "write", "create"}
    BY <1>2, <1>10, RunningIs DEF r
  <2> QED BY <2>1, <1>1, <1>12, ReachKept
<1> QED BY <1>13, <1>14, <1>16, <1>17

\* The row may go on.
LEMMA UpdateKeeps ==
  ASSUME SchedulerInv, NEW w \in Worker, UpdateJobScheduler(w)
  PROVE  SchedulerInv'
<1> USE DEF SchedulerInv
<1>1. PICK q, s : s = worker[w].slot /\ q = [worker[w] EXCEPT !.at = "look"]
  OBVIOUS
<1>2. PICK r : r = IF Advances(w) THEN q ELSE Running(s)
  OBVIOUS
<1>3. /\ worker[w].at = "update" /\ worker[w].made.prev \in Slot /\ worker' = [worker EXCEPT ![w] = r]
      /\ UNCHANGED <<now, row, job, upsert, upserts, happened, missed, astray>>
  BY <1>1, <1>2 DEF UpdateJobScheduler, Types
<1>4. worker[w] \in [at : Advancing, slot : Slot, opts : JobRec, free : BOOLEAN, made : Opts] /\ s \in Slot
  BY <1>1, <1>3, WorkerIs DEF Advancing
<1>5. /\ q \in WorkerType /\ q.at = "look" /\ q.slot = s /\ q.opts = worker[w].opts
      /\ q.made = worker[w].made
  <2>1. q \in [at : Advancing, slot : Slot, opts : JobRec, free : BOOLEAN, made : Opts]
    BY <1>1, <1>4 DEF Advancing
  <2>2. q.at = "look" /\ q.slot = s /\ q.opts = worker[w].opts /\ q.made = worker[w].made
    BY <1>1, <1>4
  <2> QED BY <2>1, <2>2 DEF WorkerType
<1>6. Running(s) \in WorkerType /\ Running(s).at = "run" /\ Running(s).slot = s
  BY <1>4, RunningIs
<1>7. r \in WorkerType /\ r.slot = s /\ r.at \in {"look", "run"} /\ (r.at = "look" => r = q)
  BY <1>2, <1>5, <1>6
<1>8. Types'
  BY <1>3, <1>7, WorkerPut DEF Types
<1>9. OneAhead' /\ Looked'
  BY <1>3 DEF OneAhead, Looked
<1>10. ASSUME row # NoRow, Ahead(row.next), w \in job[row.next].by, r.slot = row.next
       PROVE  r.at \in Before /\ r.opts.prev = row.next
  <2>1. worker[w].opts.prev = row.next
    BY <1>1, <1>7, <1>10 DEF Ahead
  <2>2. r = q
    BY <2>1, <1>2, <1>10 DEF Advances
  <2> QED BY <2>1, <2>2, <1>5 DEF Before
<1>11. Made'
  BY <1>3, <1>7, <1>10, WorkerStep
<1>12. InReach'
  <2>1. r.at = "look" => r.made.prev \in Slot
    BY <1>3, <1>5, <1>7
  <2> QED BY <2>1, <1>3, <1>7, ReachKept
<1> QED BY <1>8, <1>9, <1>11, <1>12

LEMMA LookKeeps ==
  ASSUME SchedulerInv, NEW w \in Worker, Look(w)
  PROVE  SchedulerInv'
<1> USE DEF SchedulerInv
<1>1. PICK q, s : s = worker[w].slot
                  /\ q = [worker[w] EXCEPT !.at = "write", !.free = ~Exists(worker[w].made.prev)]
  OBVIOUS
<1>2. PICK r : r = IF IsFree(w) THEN q ELSE Running(s)
  OBVIOUS
<1>3. /\ worker[w].at = "look" /\ worker' = [worker EXCEPT ![w] = r]
      /\ missed' = missed \union {what \in {"duplicated"} : ~IsFree(w) /\ Advances(w)}
      /\ UNCHANGED <<now, row, job, upsert, upserts, happened, astray>>
  BY <1>1, <1>2 DEF Look, Types
<1>4. /\ worker[w] \in [at : Advancing, slot : Slot, opts : JobRec, free : BOOLEAN, made : Opts]
      /\ s \in Slot /\ worker[w].made.prev \in Slot
  BY <1>1, <1>3, WorkerIs DEF Advancing, InReach
<1>5. PICK f \in BOOLEAN : f = ~Exists(worker[w].made.prev)
  OBVIOUS
<1>6. /\ q \in WorkerType /\ q.at = "write" /\ q.slot = s /\ q.opts = worker[w].opts
      /\ q.made = worker[w].made /\ q.free = f
  <2>1. q = [worker[w] EXCEPT !.at = "write", !.free = f]
    BY <1>1, <1>5
  <2>2. q \in [at : Advancing, slot : Slot, opts : JobRec, free : BOOLEAN, made : Opts]
    BY <2>1, <1>4 DEF Advancing
  <2>3. q.at = "write" /\ q.slot = s /\ q.opts = worker[w].opts /\ q.made = worker[w].made /\ q.free = f
    BY <2>1, <1>1, <1>4
  <2> QED BY <2>2, <2>3 DEF WorkerType
<1>7. Running(s) \in WorkerType /\ Running(s).at = "run" /\ Running(s).slot = s
  BY <1>4, RunningIs
<1>8. r \in WorkerType /\ r.slot = s /\ r.at \in {"write", "run"} /\ (r.at = "write" => r = q /\ q.free)
  BY <1>2, <1>5, <1>6, <1>7 DEF IsFree
<1>9. Types'
  BY <1>3, <1>8, WorkerPut DEF Types
<1>10. OneAhead' /\ Looked'
  BY <1>3 DEF OneAhead, Looked
<1>11. ASSUME missed' = {}, row # NoRow, Ahead(row.next), w \in job[row.next].by, r.slot = row.next
       PROVE  r.at \in Before /\ r.opts.prev = row.next
  <2>1. worker[w].opts.prev = row.next
    BY <1>1, <1>8, <1>11 DEF Ahead
  <2>2. r = q
    BY <2>1, <1>2, <1>3, <1>11 DEF Advances
  <2> QED BY <2>1, <2>2, <1>6 DEF Before
<1>12. Made'
  BY <1>3, <1>8, <1>11, WorkerStep
<1>13. InReach'
  <2>1. (r.at = "write" => r.made.prev \in Slot) /\ (r.at = "write" => r.free)
    BY <1>4, <1>6, <1>8
  <2> QED BY <2>1, <1>3, <1>8, ReachKept
<1> QED BY <1>9, <1>10, <1>12, <1>13

\* The row goes on.
LEMMA RowGoesOn ==
  ASSUME SchedulerInv, NEW w \in Worker, Write(w), row # NoRow
  PROVE  SchedulerInv'
<1> USE DEF SchedulerInv
<1>1. PICK next, s, old : next = worker[w].made.prev /\ s = worker[w].slot /\ old = row.next
  OBVIOUS
<1>2. /\ worker[w].at = "write"
      /\ row' = [row EXCEPT !.next = next]
      /\ job' = IF Exists(s) THEN [job EXCEPT ![s].turns = @ + 1] ELSE job
      /\ worker' = [worker EXCEPT ![w].at = "create"]
      /\ astray' = astray \union {t \in Slot \ {s, next} : t = old}
      /\ missed' = missed \union {what \in {"overtaken"} : worker[w].free /\ Exists(next)}
      /\ UNCHANGED <<now, upsert, upserts, happened>>
  BY <1>1 DEF Write
<1>3. old \in Slot /\ next \in Slot /\ row' \in [next : Slot, every : Everys, offset : Nat] /\ row'.next = next
  BY <1>1, <1>2, RowIs DEF InReach
<1>4. /\ worker[w] \in [at : Advancing, slot : Slot, opts : JobRec, free : BOOLEAN, made : Opts]
      /\ s \in Slot /\ worker[w].free
  BY <1>1, <1>2, WorkerIs DEF Advancing, InReach
<1>5. PICK q : q = [worker[w] EXCEPT !.at = "create"]
  OBVIOUS
<1>6. q \in WorkerType /\ q.at = "create" /\ q.made.prev = next /\ worker' = [worker EXCEPT ![w] = q]
  <2>1. q \in [at : Advancing, slot : Slot, opts : JobRec, free : BOOLEAN, made : Opts]
    BY <1>4, <1>5 DEF Advancing
  <2>2. q.at = "create" /\ q.made = worker[w].made
    BY <1>4, <1>5
  <2> QED BY <2>1, <2>2, <1>1, <1>2, <1>5 DEF WorkerType, Types
<1>7. worker' \in [Worker -> WorkerType] /\ worker'[w] = q
  BY <1>6, WorkerPut
<1>8. /\ job' \in [Slot -> JobType] /\ \A t \in Slot : job'[t].by # {} => job'[t].state = "active"
      /\ \A t \in Slot : t # s => job'[t] = job[t]
      /\ Exists(s) => job'[s].turns # 0 /\ job'[s].state = job[s].state
      /\ ~ Exists(s) => job' = job
  <2>1. CASE Exists(s)
    <3>1. PICK r : r = [job[s] EXCEPT !.turns = job[s].turns + 1]
      OBVIOUS
    <3>2. job[s] \in JobRec
      BY <1>4, <2>1, JobIs
    <3>3. job[s].turns + 1 \in Nat /\ job[s].turns + 1 # 0
      BY <3>2 DEF JobRec
    <3>4. /\ r \in JobType /\ r.turns = job[s].turns + 1 /\ r.by = job[s].by /\ r.state = job[s].state
      BY <3>1, <3>2, <3>3, TurnsIs
    <3>5. job' = [job EXCEPT ![s] = r]
      BY <1>2, <2>1, <3>1 DEF Types
    <3>6. r.by # {} => r.state = "active"
      BY <3>4, <1>4 DEF Types
    <3>7. /\ job' \in [Slot -> JobType] /\ \A t \in Slot : job'[t].by # {} => job'[t].state = "active"
          /\ job'[s] = r /\ \A t \in Slot : t # s => job'[t] = job[t]
      BY <1>4, <3>4, <3>5, <3>6, JobPut
    <3> QED BY <2>1, <3>3, <3>4, <3>7
  <2>2. CASE ~ Exists(s)
    BY <1>2, <2>2 DEF Types
  <2> QED BY <2>1, <2>2
<1>9. Types'
  BY <1>2, <1>3, <1>7, <1>8 DEF Types
<1>10. OneAhead'
  <2>1. ASSUME NEW t \in Slot, job'[t].state \in Pending, job'[t].turns = 0, t \notin astray', t # next
        PROVE  FALSE
    <3>1. CASE t = s
      <4>1. ~ Exists(s)
        BY <2>1, <3>1, <1>8
      <4>2. job'[s].state = "none"
        BY <4>1, <1>4, <1>8 DEF Exists
      <4> QED BY <4>2, <2>1, <3>1 DEF Pending
    <3>2. CASE t # s
      <4>1. job'[t] = job[t] /\ t \notin astray
        BY <3>2, <2>1, <1>2, <1>8
      <4>2. t = old
        BY <4>1, <2>1, <1>1 DEF OneAhead
      <4> QED BY <4>2, <3>2, <2>1, <1>2
    <3> QED BY <3>1, <3>2
  <2> QED BY <2>1, <1>3 DEF OneAhead
<1>11. Looked'
  <2>1. \A t \in Slot : job'[t].state = job[t].state
    BY <1>8
  <2> QED BY <2>1, <1>2, LookedKept
<1>12. ~ Exists(next) => Coming(next)'
  <2>1. ASSUME ~ Exists(next)
        PROVE  ~ Exists(next)'
    <3>1. next # s => job'[next] = job[next]
      BY <1>3, <1>8
    <3>2. job'[next] = job[next]
      BY <2>1, <3>1, <1>8
    <3> QED BY <2>1, <3>2 DEF Exists
  <2> QED BY <2>1, <1>6, <1>7 DEF Coming
<1>13. missed' = {} => ~ Exists(next)
  BY <1>2, <1>4
<1>14. Made'
  BY <1>3, <1>12, <1>13 DEF Made
<1>15. InReach'
  BY <1>2, <1>3, <1>6, ReachKept
<1> QED BY <1>9, <1>10, <1>11, <1>14, <1>15

LEMMA WriteKeeps ==
  ASSUME SchedulerInv, NEW w \in Worker, Write(w)
  PROVE  SchedulerInv'
<1>1. CASE row # NoRow
  BY <1>1, RowGoesOn
<1>2. CASE row = NoRow
  <2> USE DEF SchedulerInv
  <2>1. PICK r, s : s = worker[w].slot /\ r = Running(s)
    OBVIOUS
  <2>2. /\ worker[w].at = "write" /\ worker' = [worker EXCEPT ![w] = r]
        /\ UNCHANGED <<row, job, astray, missed, now, upsert, upserts, happened>>
    BY <1>2, <2>1 DEF Write
  <2>3. s \in Slot
    BY <2>1, <2>2, WorkerIs DEF Nothing
  <2>4. r \in WorkerType /\ r.at = "run"
    BY <2>1, <2>3, RunningIs
  <2>5. Types'
    BY <2>2, <2>4, WorkerPut DEF Types
  <2>6. OneAhead' /\ Looked' /\ Made'
    BY <1>2, <2>2 DEF OneAhead, Looked, Made
  <2>7. InReach'
    BY <2>2, <2>4, ReachKept
  <2> QED BY <2>5, <2>6, <2>7
<1> QED BY <1>1, <1>2

\* The next iteration is added, unless there is one.
LEMMA CreateKeeps ==
  ASSUME SchedulerInv, NEW w \in Worker, Create(w)
  PROVE  SchedulerInv'
<1> USE DEF SchedulerInv
<1>1. PICK made, next, r : made = worker[w].made /\ next = made.prev /\ r = Running(worker[w].slot)
  OBVIOUS
<1>2. /\ worker[w].at = "create" /\ worker' = [worker EXCEPT ![w] = r]
      /\ job' = IF Exists(next) THEN job ELSE [job EXCEPT ![next] = Iteration(made, next)]
      /\ astray' = IF Exists(next) THEN astray ELSE IF Strays(next) THEN astray \union {next} ELSE astray \ {next}
      /\ UNCHANGED <<now, row, upsert, upserts, happened, missed>>
  BY <1>1 DEF Create, Types
<1>3. next \in Slot /\ made \in Opts /\ worker[w].slot \in Slot
  BY <1>1, <1>2, WorkerIs DEF Nothing, InReach
<1>4. r \in WorkerType /\ r.slot = worker[w].slot
  BY <1>1, <1>3, RunningIs
<1>5. PICK new : new = Iteration(made, next)
  OBVIOUS
<1>6. new \in JobType /\ new.state = "delayed" /\ new.by = {} /\ new.turns = 0 /\ new.prev = next
  <2>1. made.prev \in Nat /\ made.every \in Everys /\ made.offset \in Nat /\ made.count \in Nat /\ next \in Nat
    BY <1>3, Numbers DEF Opts
  <2> QED BY <2>1, <1>1, <1>5, IterationIs
<1>7. /\ job' \in [Slot -> JobType] /\ \A t \in Slot : job'[t].by # {} => job'[t].state = "active"
      /\ \A t \in Slot : t # next \/ Exists(next) => job'[t] = job[t]
      /\ ~ Exists(next) => job'[next] = new
  <2>1. CASE Exists(next)
    BY <1>2, <2>1 DEF Types
  <2>2. CASE ~ Exists(next)
    <3>1. job' = [job EXCEPT ![next] = new]
      BY <1>2, <1>5, <2>2
    <3> QED BY <3>1, <1>3, <1>6, <2>2, JobPut
  <2> QED BY <2>1, <2>2
<1>8. /\ worker' \in [Worker -> WorkerType] /\ worker'[w] = r
      /\ \A v \in Worker : v # w => worker'[v] = worker[v]
  BY <1>2, <1>4, WorkerPut
<1>9. Types'
  BY <1>2, <1>3, <1>7, <1>8 DEF Types
<1>10. OneAhead'
  <2>1. ASSUME NEW t \in Slot, job'[t].state \in Pending, job'[t].turns = 0, t \notin astray'
        PROVE  row'.next = t
    <3>1. CASE t = next /\ ~ Exists(next)
      <4>1. ~ Strays(next)
        BY <3>1, <2>1, <1>2, <1>3 DEF Types
      <4> QED BY <3>1, <4>1, <1>2 DEF Strays
    <3>2. CASE t # next \/ Exists(next)
      <4>1. job'[t] = job[t]
        BY <3>2, <1>7
      <4>2. t \notin astray
        BY <3>2, <2>1, <1>2
      <4> QED BY <4>1, <4>2, <2>1, <1>2 DEF OneAhead
    <3> QED BY <3>1, <3>2
  <2> QED BY <2>1 DEF OneAhead
<1>11. ASSUME row # NoRow, missed = {}
       PROVE  Ahead(row.next)' \/ Coming(row.next)'
  <2>1. PICK t \in Slot : t = row.next
    BY <1>11, RowIs
  <2>2. CASE Ahead(t)
    <3>1. Exists(t)
      BY <2>2, AheadExists
    <3>2. job'[t] = job[t]
      BY <3>1, <1>7
    <3>3. \A v \in Worker : v \in job[t].by /\ worker'[v].slot = t => worker'[v] = worker[v]
      <4>1. w \in job[t].by => worker[w].slot # t
        BY <2>2, <1>2 DEF Ahead, Before
      <4> QED BY <4>1, <1>4, <1>8
    <3>4. Ahead(t)'
      BY <2>2, <3>2, <3>3, AheadKept
    <3> QED BY <2>1, <3>4, <1>2
  <2>3. CASE Coming(t)
    <3>1. PICK v \in Worker : worker[v].at = "create" /\ worker[v].made.prev = t
      BY <2>3 DEF Coming
    <3>2. CASE next = t
      <4>1. job'[t] = new
        BY <3>2, <2>3, <1>7 DEF Coming
      <4>2. Ahead(t)'
        BY <4>1, <3>2, <1>6 DEF Ahead, Pending
      <4> QED BY <2>1, <4>2, <1>2
    <3>3. CASE next # t
      <4>1. v # w
        BY <3>1, <3>3, <1>1
      <4>2. worker'[v] = worker[v] /\ job'[t] = job[t]
        BY <4>1, <3>3, <1>7, <1>8
      <4>3. ~ Exists(t)'
        BY <4>2, <2>3 DEF Coming, Exists
      <4>4. Coming(t)'
        BY <4>2, <4>3, <3>1 DEF Coming
      <4> QED BY <2>1, <4>4, <1>2
    <3> QED BY <3>2, <3>3
  <2> QED BY <2>1, <2>2, <2>3, <1>11 DEF Made
<1>12. Made'
  BY <1>2, <1>11 DEF Made
<1>13. InReach'
  <2>1. r.at = "run"
    BY <1>1, <1>3, RunningIs
  <2> QED BY <2>1, <1>2, <1>4, ReachKept
<1>14. Looked'
  <2>1. ASSUME NEW t \in Slot, job'[t].state \in Pending, t \notin astray'
        PROVE  (job[t].state \in Pending /\ t \notin astray) \/ ~ Passed(Caller, t)
    <3>1. CASE t = next /\ ~ Exists(next)
      <4>1. ~ Strays(next)
        BY <3>1, <2>1, <1>2
      <4> QED BY <3>1, <4>1 DEF Strays
    <3>2. CASE t # next \/ Exists(next)
      <4>1. job'[t] = job[t] /\ t \notin astray
        BY <3>2, <2>1, <1>2, <1>7
      <4> QED BY <4>1, <2>1
    <3> QED BY <3>1, <3>2
  <2> QED BY <2>1, <1>2, LookedKept
<1> QED BY <1>9, <1>10, <1>12, <1>13, <1>14

\* An iteration is acknowledged.
LEMMA FinishKeeps ==
  ASSUME SchedulerInv, NEW w \in Worker, Finish(w)
  PROVE  SchedulerInv'
<1> USE DEF SchedulerInv
<1>1. PICK s : s = worker[w].slot
  OBVIOUS
<1>2. /\ worker[w].at = "run" /\ worker' = [worker EXCEPT ![w] = Nothing]
      /\ UNCHANGED <<now, row, upsert, upserts, happened, missed, astray>>
  BY DEF Finish
<1>3. s \in Slot
  BY <1>1, <1>2, WorkerIs DEF Nothing
<1>4. InReach'
  <2>1. Nothing \in WorkerType /\ Nothing.at = "none"
    BY WorkerIs
  <2> QED BY <2>1, <1>2, ReachKept
<1>5. worker' \in [Worker -> WorkerType] /\ worker'[w] = Nothing /\ \A v \in Worker : v # w => worker'[v] = worker[v]
  BY <1>2, WorkerPut, WorkerIs
<1>6. CASE job[s].by = {w}
  <2>1. job[s].state = "active"
    BY <1>3, <1>6 DEF Types
  <2>2. job[s] \in JobRec
    BY <2>1, <1>3, JobIs DEF Exists
  <2>3. PICK after \in {NoJob, [job[s] EXCEPT !.state = "finished", !.by = {}]} :
          job' = [job EXCEPT ![s] = after]
    BY <1>1, <1>6 DEF Finish
  <2>4. after \in JobType /\ after.by = {} /\ after.state \in {"none", "finished"}
    <3>1. CASE after = NoJob
      BY <3>1, <1>3, JobIs
    <3>2. CASE after = [job[s] EXCEPT !.state = "finished", !.by = {}]
      BY <3>2, <2>2, StateIs
    <3> QED BY <2>3, <3>1, <3>2
  <2>5. /\ job' \in [Slot -> JobType] /\ \A t \in Slot : job'[t].by # {} => job'[t].state = "active"
        /\ job'[s] = after /\ \A t \in Slot : t # s => job'[t] = job[t]
    BY <1>3, <2>3, <2>4, JobPut
  <2>6. Types'
    BY <1>2, <1>5, <2>5 DEF Types
  <2>7. OneAhead' /\ Looked'
    <3>1. ASSUME NEW t \in Slot, job'[t].state \in Pending
          PROVE  job'[t] = job[t]
      BY <3>1, <2>4, <2>5 DEF Pending
    <3>2. Looked'
      BY <3>1, <1>2, LookedKept
    <3> QED BY <3>1, <3>2, <1>2 DEF OneAhead
  <2>8. ASSUME row # NoRow, missed = {}
        PROVE  Ahead(row.next)' \/ Coming(row.next)'
    <3>1. PICK t \in Slot : t = row.next
      BY <2>8, RowIs
    <3>2. CASE Ahead(t)
      <4>1. t # s
        BY <3>2, <1>1, <1>2, <1>6 DEF Ahead, Before
      <4>2. \A v \in Worker : worker'[v].slot = t => worker'[v] = worker[v]
        BY <1>5, Numbers DEF Nothing
      <4>3. Ahead(t)'
        BY <3>2, <4>1, <4>2, <2>5, AheadKept
      <4> QED BY <3>1, <4>3, <1>2
    <3>3. CASE Coming(t)
      <4>1. t # s
        BY <3>3, <2>1, <1>3 DEF Coming, Exists
      <4>2. \A v \in Worker : worker[v].at = "create" => worker'[v] = worker[v]
        BY <1>2, <1>5
      <4>3. Coming(t)'
        BY <3>3, <4>1, <4>2, <2>5, ComingKept
      <4> QED BY <3>1, <4>3, <1>2
    <3> QED BY <3>1, <3>2, <3>3, <2>8 DEF Made
  <2>9. Made'
    BY <1>2, <2>8 DEF Made
  <2> QED BY <1>4, <2>6, <2>7, <2>9
<1>7. CASE job[s].by # {w}
  <2>1. job' = job
    BY <1>1, <1>7 DEF Finish
  <2>2. Types'
    BY <1>2, <1>5, <2>1 DEF Types
  <2>3. OneAhead' /\ Looked'
    BY <1>2, <2>1 DEF OneAhead, Looked
  <2>4. row # NoRow => Nothing.slot # row.next
    BY RowIs, Numbers DEF Nothing
  <2>5. Nothing \in WorkerType
    BY WorkerIs
  <2>6. Made'
    BY <1>2, <2>1, <2>4, <2>5, WorkerStep
  <2> QED BY <1>4, <2>2, <2>3, <2>6
<1> QED BY <1>6, <1>7

-----------------------------------------------------------------------------
(* What goes wrong.                                                        *)

LEMMA FailsKeeps ==
  ASSUME SchedulerInv, NEW w \in Worker, QueryFails(w)
  PROVE  SchedulerInv'
<1> USE DEF SchedulerInv
<1> DEFINE again == [at |-> "read", slot |-> worker[w].slot, opts |-> worker[w].opts]
           run   == Running(worker[w].slot)
<1>1. /\ worker[w].at \in ({"read"} \union Advancing)
      /\ happened' = happened \union {"error"} /\ "error" \in Happens
      /\ UNCHANGED <<now, row, job, upsert, upserts, astray>>
      /\ \/ worker' = [worker EXCEPT ![w] = again] /\ ChainEnds(w)
         \/ worker' = [worker EXCEPT ![w] = run] /\ missed' = missed \union {"lost"}
  BY DEF QueryFails, Once, Types, Advancing
<1>2. worker[w].slot \in Slot /\ worker[w].opts \in JobRec
  BY <1>1, WorkerIs DEF Nothing
<1>3. /\ again \in WorkerType /\ again.at = "read" /\ again.slot = worker[w].slot
      /\ again.opts = worker[w].opts
  BY <1>2 DEF WorkerType
<1>4. run \in WorkerType /\ run.at = "run"
  BY <1>2, RunningIs
<1> HIDE DEF again, run
<1>5. PICK r \in {again, run} : worker' = [worker EXCEPT ![w] = r] /\ r.at \in {"read", "run"} /\ r \in WorkerType
  BY <1>1, <1>3, <1>4
<1>6. /\ missed \subseteq missed' /\ missed' \subseteq missed \union {"lost"}
      /\ worker[w].at = "create" => missed' # {}
  BY <1>1 DEF ChainEnds
<1>7. Types'
  BY <1>1, <1>5, <1>6, WorkerPut DEF Types
<1>8. InReach' /\ OneAhead' /\ Looked'
  BY <1>1, <1>5, ReachKept DEF OneAhead, Looked
<1>9. CASE worker' = [worker EXCEPT ![w] = again]
  <2>1. Ahead(row.next) /\ w \in job[row.next].by /\ again.slot = row.next =>
          again.at \in Before /\ again.opts.prev = row.next
    BY <1>3 DEF Ahead, Before
  <2>2. Made'
    BY <1>1, <1>3, <1>6, <1>9, <2>1, WorkerStep
  <2> QED BY <1>7, <1>8, <2>2
<1>10. CASE missed' = missed \union {"lost"}
  BY <1>7, <1>8, <1>10 DEF Made
<1> QED BY <1>1, <1>9, <1>10

LEMMA CrashKeeps ==
  ASSUME SchedulerInv, NEW w \in Worker, Crash(w)
  PROVE  SchedulerInv'
<1> USE DEF SchedulerInv
<1>1. /\ worker' = [worker EXCEPT ![w] = Nothing] /\ happened' = happened \union {"crash"} /\ "crash" \in Happens
      /\ missed' = missed \union {what \in {"lost"} : worker[w].at = "create"}
      /\ UNCHANGED <<now, row, job, upsert, upserts, astray>>
  BY DEF Crash, Once, ChainEnds
<1>2. Nothing \in WorkerType /\ Nothing.at = "none" /\ (row # NoRow => Nothing.slot # row.next)
  BY WorkerIs, RowIs, Numbers DEF Nothing
<1>3. Types'
  BY <1>1, <1>2, WorkerPut DEF Types
<1>4. InReach' /\ OneAhead' /\ Looked'
  BY <1>1, <1>2, ReachKept DEF OneAhead, Looked
<1>5. Made'
  BY <1>1, <1>2, WorkerStep
<1> QED BY <1>3, <1>4, <1>5

\* The sweep or a client puts a job back.
LEMMA PutBack ==
  ASSUME SchedulerInv, NEW s \in Slot, Exists(s), NEW r,
         r \in JobType, r.state = "wait", r.by = {}, r.turns = job[s].turns, r.prev = job[s].prev,
         job' = [job EXCEPT ![s] = r], happened' \subseteq Happens,
         astray' = astray \union {t \in {s} : Strays(t)},
         UNCHANGED <<now, row, worker, upsert, upserts, missed>>
  PROVE  SchedulerInv'
<1> USE DEF SchedulerInv
<1>1. /\ job' \in [Slot -> JobType] /\ \A t \in Slot : job'[t].by # {} => job'[t].state = "active"
      /\ job'[s] = r /\ \A t \in Slot : t # s => job'[t] = job[t]
  BY JobPut
<1>2. Types'
  <2>1. astray' \subseteq Slot
    BY DEF Types
  <2> QED BY <1>1, <2>1 DEF Types
<1>3. InReach'
  BY DEF InReach
<1>4. OneAhead'
  <2>1. ASSUME NEW t \in Slot, job'[t].state \in Pending, job'[t].turns = 0, t \notin astray'
        PROVE  row'.next = t
    <3>1. CASE t = s
      BY <3>1, <2>1 DEF Strays
    <3>2. CASE t # s
      BY <3>2, <2>1, <1>1 DEF OneAhead
    <3> QED BY <3>1, <3>2
  <2> QED BY <2>1 DEF OneAhead
<1>5. ASSUME row # NoRow, missed = {}
      PROVE  Ahead(row.next)' \/ Coming(row.next)'
  <2>1. PICK t \in Slot : t = row.next
    BY <1>5, RowIs
  <2>2. CASE Ahead(t) /\ t = s
    <3>1. Ahead(s)'
      BY <2>2, <1>1 DEF Ahead, Pending
    <3> QED BY <2>1, <2>2, <3>1
  <2>3. CASE Ahead(t) /\ t # s
    <3>1. Ahead(t)'
      BY <2>3, <1>1, AheadKept
    <3> QED BY <2>1, <3>1
  <2>4. CASE Coming(t)
    <3>1. t # s
      BY <2>4 DEF Coming
    <3>2. Coming(t)'
      BY <2>4, <3>1, <1>1, ComingKept
    <3> QED BY <2>1, <3>2
  <2> QED BY <2>1, <2>2, <2>3, <2>4, <1>5 DEF Made
<1>6. Made'
  BY <1>5 DEF Made
<1>7. Looked'
  <2>1. ASSUME NEW t \in Slot, job'[t].state \in Pending, t \notin astray'
        PROVE  (job[t].state \in Pending /\ t \notin astray) \/ ~ Passed(Caller, t)
    <3>1. CASE t = s
      BY <3>1, <2>1 DEF Strays
    <3>2. CASE t # s
      BY <3>2, <2>1, <1>1
    <3> QED BY <3>1, <3>2
  <2> QED BY <2>1, LookedKept
<1> QED BY <1>2, <1>3, <1>4, <1>6, <1>7

LEMMA SweepKeeps ==
  ASSUME SchedulerInv, NEW s \in Slot, Sweep(s)
  PROVE  SchedulerInv'
<1>1. Types
  BY DEF SchedulerInv
<1>2. PICK r : r = [job[s] EXCEPT !.state = "wait", !.by = {}]
  OBVIOUS
<1>3. /\ job[s].state = "active" /\ job' = [job EXCEPT ![s].state = "wait", ![s].by = {}]
      /\ happened' \subseteq Happens
      /\ astray' = astray \union {t \in {s} : Strays(t)}
      /\ UNCHANGED <<now, row, worker, upsert, upserts, missed>>
  BY <1>1 DEF Sweep, Once, Types
<1>4. job' = [job EXCEPT ![s] = r]
  BY <1>1, <1>2, <1>3 DEF Types
<1>5. Exists(s) /\ job[s] \in JobRec
  BY <1>1, <1>3, JobIs DEF Exists
<1>6. r \in JobType /\ r.state = "wait" /\ r.by = {} /\ r.turns = job[s].turns /\ r.prev = job[s].prev
  BY <1>2, <1>5 DEF JobRec, JobType
<1> QED BY <1>3, <1>4, <1>5, <1>6, PutBack

LEMMA ReprocessKeeps ==
  ASSUME SchedulerInv, NEW s \in Slot, Reprocess(s)
  PROVE  SchedulerInv'
<1>1. Types
  BY DEF SchedulerInv
<1>2. PICK r : r = [job[s] EXCEPT !.state = "wait", !.by = {}]
  OBVIOUS
<1>3. /\ job[s].state = "finished" /\ job' = [job EXCEPT ![s].state = "wait"]
      /\ happened' \subseteq Happens
      /\ astray' = astray \union {t \in {s} : Strays(t)}
      /\ UNCHANGED <<now, row, worker, upsert, upserts, missed>>
  BY <1>1 DEF Reprocess, Once, Types
<1>4. Exists(s) /\ job[s] \in JobRec /\ job[s].by = {}
  BY <1>1, <1>3, JobIs DEF Exists, Types
<1>5. r = [job[s] EXCEPT !.state = "wait"]
  BY <1>2, <1>4 DEF JobRec
<1>6. job' = [job EXCEPT ![s] = r]
  BY <1>1, <1>3, <1>5 DEF Types
<1>7. r \in JobType /\ r.state = "wait" /\ r.by = {} /\ r.turns = job[s].turns /\ r.prev = job[s].prev
  BY <1>2, <1>4 DEF JobRec, JobType
<1> QED BY <1>3, <1>4, <1>6, <1>7, PutBack

LEMMA SweepFailsKeeps ==
  ASSUME SchedulerInv, NEW s \in Slot, SweepFails(s)
  PROVE  SchedulerInv'
<1> USE DEF SchedulerInv
<1>1. PICK r : r = [job[s] EXCEPT !.state = "finished", !.by = {}]
  OBVIOUS
<1>2. /\ job[s].state = "active" /\ job' = [job EXCEPT ![s].state = "finished", ![s].by = {}]
      /\ happened' \subseteq Happens
      /\ missed' = missed \union {what \in {"failed"} : row.next = s}
      /\ UNCHANGED <<now, row, worker, upsert, upserts, astray>>
  BY DEF SweepFails, Once, Types
<1>3. job' = [job EXCEPT ![s] = r]
  BY <1>1, <1>2 DEF Types
<1>4. Exists(s) /\ job[s] \in JobRec
  BY <1>2, JobIs DEF Exists
<1>5. r \in JobType /\ r.state = "finished" /\ r.by = {}
  BY <1>1, <1>4 DEF JobRec, JobType
<1>6. /\ job' \in [Slot -> JobType] /\ \A t \in Slot : job'[t].by # {} => job'[t].state = "active"
      /\ job'[s] = r /\ \A t \in Slot : t # s => job'[t] = job[t]
  BY <1>3, <1>5, JobPut
<1>7. Types'
  BY <1>2, <1>6 DEF Types
<1>8. InReach'
  BY <1>2 DEF InReach
<1>9. OneAhead'
  <2>1. ASSUME NEW t \in Slot, job'[t].state \in Pending
        PROVE  job'[t] = job[t]
    BY <2>1, <1>5, <1>6 DEF Pending
  <2> QED BY <2>1, <1>2 DEF OneAhead
<1>12. Looked'
  <2>1. ASSUME NEW t \in Slot, job'[t].state \in Pending
        PROVE  job'[t] = job[t]
    BY <2>1, <1>5, <1>6 DEF Pending
  <2> QED BY <2>1, <1>2, LookedKept
<1>10. ASSUME row # NoRow, missed' = {}
       PROVE  Ahead(row.next)' \/ Coming(row.next)'
  <2>1. PICK t \in Slot : t = row.next
    BY <1>10, RowIs
  <2>2. t # s /\ missed = {}
    BY <2>1, <1>2, <1>10
  <2>3. job'[t] = job[t]
    BY <2>2, <1>6
  <2>4. CASE Ahead(t)
    <3>1. Ahead(t)'
      BY <2>3, <2>4, <1>2, AheadKept
    <3> QED BY <2>1, <3>1, <1>2
  <2>5. CASE Coming(t)
    <3>1. Coming(t)'
      BY <2>3, <2>5, <1>2, ComingKept
    <3> QED BY <2>1, <3>1, <1>2
  <2> QED BY <2>1, <2>2, <2>4, <2>5, <1>10 DEF Made
<1>11. Made'
  BY <1>2, <1>10 DEF Made
<1> QED BY <1>7, <1>8, <1>9, <1>11, <1>12

LEMMA TickKeeps ==
  ASSUME SchedulerInv, Tick
  PROVE  SchedulerInv'
<1>1. now' \in 1 .. MaxTime
  BY Numbers DEF SchedulerInv, Types, Tick
<1>2. Types' /\ InReach'
  BY <1>1 DEF SchedulerInv, Types, InReach, Tick
<1>3. OneAhead' /\ Made' /\ Looked'
  BY DEF SchedulerInv, Tick, OneAhead, Made, Ahead, Coming, Exists, Looked
<1> QED BY <1>2, <1>3 DEF SchedulerInv

-----------------------------------------------------------------------------
(* The theorems.                                                           *)

LEMMA SchedulerStarts == SchedulerInit => SchedulerInv
<1> SUFFICES ASSUME SchedulerInit PROVE SchedulerInv
  OBVIOUS
<1>1. NoJob \in JobType /\ NoJob.by = {} /\ NoJob.state = "none"
  BY DEF NoJob, JobType
<1>2. Nothing \in WorkerType /\ Nothing.at = "none"
  BY DEF Nothing, WorkerType
<1>3. now \in 1 .. MaxTime /\ upserts \in Nat
  BY Numbers DEF SchedulerInit
<1>8. NoCall \in UpsertType /\ NoCall.at = "none"
  BY DEF NoCall, UpsertType
<1>9. upsert \in [Caller -> UpsertType] /\ Looked
  BY <1>8 DEF SchedulerInit, Looked
<1>4. Types
  BY <1>1, <1>2, <1>3, <1>9 DEF SchedulerInit, Types
<1>5. InReach
  BY <1>2 DEF SchedulerInit, InReach
<1>6. OneAhead
  BY <1>1 DEF SchedulerInit, OneAhead, Pending
<1>7. Made
  BY DEF SchedulerInit, Made
<1> QED BY <1>4, <1>5, <1>6, <1>7, <1>9 DEF SchedulerInv

LEMMA SchedulerKeeps ==
  ASSUME SchedulerInv, SchedulerNext
  PROVE  SchedulerInv'
<1>1. ASSUME NEW c \in Caller, NEW every \in Everys, Upsert(c, every) PROVE SchedulerInv'
  BY <1>1, UpsertKeeps
<1>2. ASSUME NEW c \in Caller, BeginRemove(c) \/ Proceeds(c) PROVE SchedulerInv'
  BY <1>2, RemoveBegins, FindKeeps, ReplaceKeeps, TestKeeps, AddJobKeeps, RefusedKeeps, RemoveKeeps, CallFailsKeeps
     DEF Proceeds
<1>3. ASSUME NEW w \in Worker, NEW s \in Slot, Claim(w, s) PROVE SchedulerInv'
  BY <1>3, ClaimKeeps
<1>4. ASSUME NEW w \in Worker, Advance(w) PROVE SchedulerInv'
  BY <1>4, ReadKeeps, UpdateKeeps, LookKeeps, WriteKeeps, CreateKeeps DEF Advance
<1>5. ASSUME NEW w \in Worker, Finish(w) \/ QueryFails(w) \/ Crash(w) PROVE SchedulerInv'
  BY <1>5, FinishKeeps, FailsKeeps, CrashKeeps
<1>6. ASSUME NEW s \in Slot, Sweep(s) \/ SweepFails(s) \/ Reprocess(s) PROVE SchedulerInv'
  BY <1>6, SweepKeeps, SweepFailsKeeps, ReprocessKeeps
<1>7. CASE Tick
  BY <1>7, TickKeeps
<1> QED BY <1>1, <1>2, <1>3, <1>4, <1>5, <1>6, <1>7 DEF SchedulerNext

LEMMA SchedulerRests ==
  ASSUME SchedulerInv, UNCHANGED schedulerVars
  PROVE  SchedulerInv'
<1>1. UNCHANGED <<now, row, job, worker, upsert, upserts, happened, missed, astray>>
  BY DEF schedulerVars
<1>2. Types' /\ InReach'
  BY <1>1 DEF SchedulerInv, Types, InReach
<1>3. OneAhead' /\ Made' /\ Looked'
  BY <1>1 DEF SchedulerInv, OneAhead, Made, Ahead, Coming, Exists, Looked
<1> QED BY <1>2, <1>3 DEF SchedulerInv

\* job-scheduler.ts, 020, 410, 490: the invariant above holds in every order of upserts, advances,
\* stalls and crashes.
THEOREM SchedulerInductive == SchedulerSpec => []SchedulerInv
<1>1. SchedulerInv /\ [SchedulerNext]_schedulerVars => SchedulerInv'
  BY SchedulerKeeps, SchedulerRests
<1> QED BY <1>1, SchedulerStarts, PTL DEF SchedulerSpec

LEMMA SlotsFollow ==
  ASSUME SchedulerInv
  PROVE  SlotsOK
<1>1. Types /\ OneAhead
  BY DEF SchedulerInv
<1>2. \A s \in Slot : job[s] \in JobType /\ (job[s].by # {} => job[s].state = "active")
  BY <1>1 DEF Types
<1>3. \A w \in Worker : /\ worker[w] # Nothing => worker[w].slot \in Slot
                        /\ worker[w].at \in {"update", "look", "write", "create"} => worker[w].made \in Opts
  BY <1>1, WorkerIs DEF Advancing
<1>4. \A c \in Caller : upsert[c].gone \subseteq Slot
  BY <1>1, UpsertIs
<1>5. SchedulerTypeOK
  BY <1>1, <1>2, <1>3, <1>4 DEF SchedulerTypeOK, Types
<1> QED BY <1>1, <1>5 DEF SlotsOK

\* A scheduler has one iteration ahead: of those that have not been begun only the one its row stands
\* at is pending, whatever runs between the statements of 020, 410 and 490.  Exempt are those astray: a
\* job added or put back when the row had left it or a caller had looked there in vain, one the row
\* was taken from by a caller, a removal or 490 that had found it elsewhere, and one to which 020 gave
\* the next id.
THEOREM OneIterationAhead == SchedulerSpec => []SlotsOK
BY SlotsFollow, SchedulerInductive, PTL

LEMMA NextFollows ==
  ASSUME SchedulerInv
  PROVE  NextIsMade
BY DEF SchedulerInv, Made, NextIsMade, Ahead, Coming

\* Its next iteration is pending, is with a worker that has yet to make the following one, or is about
\* to be added (docs/ARCHITECTURE.md 7), unless one of the mishaps in missed has ended the chain; one of
\* them is 490 moving the row to an id that was taken after it had looked.
THEOREM NextIsNotLost == SchedulerSpec => []NextIsMade
BY NextFollows, SchedulerInductive, PTL

=============================================================================
