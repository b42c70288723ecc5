----------------------------- MODULE MCEmqDedup -----------------------------
EXTENDS EmqDedup, TLC

CONSTANTS c1, c2

\* keepLastIfActive, on a standard job and, with a ttl that extends it, on a delayed one; a
\* key with a ttl that another add with the same option extends, under a name of the caller;
\* a debounce, which replaces a delayed job.
Keep     == [keep |-> TRUE, replace |-> FALSE, extend |-> FALSE, ttl |-> FALSE,
             place |-> "wait", own |-> FALSE]
KeepLong == [Keep EXCEPT !.extend = TRUE, !.ttl = TRUE, !.own = TRUE, !.place = "delayed"]
Throttle == [keep |-> FALSE, replace |-> FALSE, extend |-> TRUE, ttl |-> TRUE,
             place |-> "wait", own |-> TRUE]
Debounce == [keep |-> FALSE, replace |-> TRUE, extend |-> FALSE, ttl |-> TRUE,
             place |-> "delayed", own |-> TRUE]

MCOptions == {Keep, KeepLong, Throttle, Debounce}
Symmetry  == Permutations({c1, c2})
=============================================================================
