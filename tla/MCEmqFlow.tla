----------------------------- MODULE MCEmqFlow -----------------------------
EXTENDS EmqFlow, TLC

CONSTANTS root, first, second, home, away

\* Two children in two queues, the second of them added late.
Wide(one, two) ==
  [parent |-> (root :> NoJob) @@ (first :> root) @@ (second :> root),
   queue  |-> (root :> home) @@ (first :> home) @@ (second :> away),
   place  |-> (root :> "delayed") @@ (first :> "wait") @@ (second :> "prioritized"),
   opt    |-> (root :> "none") @@ (first :> one) @@ (second :> two),
   late   |-> {second}]

\* A child that is a parent; the grandchild is in the queue of both, or in another.
Chain(q, one, two) ==
  [parent |-> (root :> NoJob) @@ (first :> root) @@ (second :> first),
   queue  |-> (root :> home) @@ (first :> home) @@ (second :> q),
   place  |-> (root :> "wait") @@ (first :> "wait") @@ (second :> "wait"),
   opt    |-> (root :> "none") @@ (first :> one) @@ (second :> two),
   late   |-> {}]

\* Both children are in the flow from the start, and nothing is asked for.
MCPair == {[Wide("none", "none") EXCEPT !.late = {}]}

MCFlows ==
  {Wide(one, two) : one \in Strategies, two \in {"none", "fpof"}}
  \union {[Wide(one, two) EXCEPT !.late = {}] : one \in {"none", "fpof"}, two \in {"cpof", "idof"}}
  \union {Chain(q, one, one) : q \in {home, away}, one \in {"none", "fpof", "cpof"}}
  \union {[Chain(home, "none", "fpof") EXCEPT !.late = {second}]}
=============================================================================
