------------------------------ MODULE JobLease -----------------------------
(***************************************************************************)
(* What a queue promises of each of its jobs, whatever list the job is in: *)
(* it is handed to one worker at a time under a lease, only a lease that   *)
(* has expired is taken back without the worker, and every time the job is *)
(* handed out ends in one way that is counted at most once.                *)
(***************************************************************************)
EXTENDS Naturals

CONSTANTS Job, Token, NoToken, MaxStalled

VARIABLE lease

Lease == [phase   : {"absent", "queued", "held", "done"},
          holder  : Token \cup {NoToken},
          term    : {"none", "live", "expired"},
          grants  : Nat,        \* times the job was handed to a worker
          settles : Nat,        \* of these, how many a worker reported as attempts
          lapses  : Nat,        \* and how many the queue took back
          life    : {"first", "reopened", "reset"}]

NoLease == [phase |-> "absent", holder |-> NoToken, term |-> "none",
            grants |-> 0, settles |-> 0, lapses |-> 0, life |-> "first"]

-----------------------------------------------------------------------------
(* The steps of one lease: r is what it is, s what it becomes.             *)

Free(s) == s.holder = NoToken /\ s.term = "none"

Handed(s) == s.phase = "held" /\ s.holder \in Token /\ s.term = "live"

Counts(s, grants, settles, lapses) ==
  s.grants = grants /\ s.settles = settles /\ s.lapses = lapses

Submit(r, s) ==
  /\ r.phase = "absent"
  /\ s.phase = "queued"
  /\ Free(s)
  /\ Counts(s, 0, 0, 0)
  /\ s.life = "first"

Grant(r, s) ==
  /\ r.phase = "queued"
  /\ Handed(s)
  /\ Counts(s, r.grants + 1, r.settles, r.lapses)
  /\ s.life = r.life

\* The lease expires, or its holder renews it.
Tick(r, s) ==
  /\ r.phase = "held"
  /\ s.phase = "held"
  /\ s.holder = r.holder
  /\ s.term # "none"
  /\ Counts(s, r.grants, r.settles, r.lapses)
  /\ s.life = r.life

\* The worker ends its attempt: the job is done, or it is put back.
Settle(r, s) ==
  /\ r.phase = "held"
  /\ s.phase \in {"queued", "done"}
  /\ Free(s)
  /\ \E n \in {0, 1} : Counts(s, r.grants, r.settles + n, r.lapses)
  /\ s.life = r.life

\* It puts the job back and is handed the same job at once.
Resume(r, s) ==
  /\ r.phase = "held"
  /\ Handed(s)
  /\ \E n \in {0, 1} : Counts(s, r.grants + 1, r.settles + n, r.lapses)
  /\ s.life = r.life

\* The queue takes the job back, only when the lease has expired; once too
\* often and the job is done.
Revoke(r, s) ==
  /\ r.phase = "held"
  /\ r.term = "expired"
  /\ s.phase = IF r.lapses + 1 > MaxStalled THEN "done" ELSE "queued"
  /\ Free(s)
  /\ Counts(s, r.grants, r.settles, r.lapses + 1)
  /\ s.life = r.life

\* A client puts a job back that was done, and may have its counts zeroed.
Reopen(r, s) ==
  /\ r.phase = "done"
  /\ s.phase = "queued"
  /\ Free(s)
  /\ s.settles \in {r.settles, 0}
  /\ \/ s.grants = r.grants /\ s.life # "first"
     \/ s.grants = 0 /\ s.life = "reset"
  /\ r.life = "reset" => s.life = "reset"
  /\ s.lapses = r.lapses

Discard(r, s) == r.phase # "absent" /\ s = NoLease

Step(r, s) ==
  \/ Submit(r, s) \/ Grant(r, s) \/ Tick(r, s) \/ Settle(r, s) \/ Resume(r, s)
  \/ Revoke(r, s) \/ Reopen(r, s) \/ Discard(r, s)

-----------------------------------------------------------------------------
Init == lease = [j \in Job |-> NoLease]

\* A call may move several jobs, and hands out at most one.
Next ==
  /\ lease' \in [Job -> Lease]
  /\ \A j \in Job : lease'[j] = lease[j] \/ Step(lease[j], lease'[j])
  /\ \A j, k \in Job :
       lease'[j].grants > lease[j].grants /\ lease'[k].grants > lease[k].grants => j = k

Spec == Init /\ [][Next]_lease

-----------------------------------------------------------------------------
(* What follows for the jobs of any queue that keeps to these steps.       *)

\* Every lease is one; no step of it leaves the set.
TypeOK == lease \in [Job -> Lease]

\* A job has a holder, and a lease live or expired, exactly while it is held.
HeldByOne ==
  \A j \in Job : /\ lease[j].phase = "held" <=> lease[j].holder # NoToken
                 /\ lease[j].phase = "held" <=> lease[j].term # "none"

\* Every time a job is handed out is counted at most once, as an attempt or as
\* a stall, and not before it ends.
Accounted ==
  \A j \in Job : lease[j].life # "reset" =>
    lease[j].settles + lease[j].lapses
      + (IF lease[j].phase = "held" THEN 1 ELSE 0) <= lease[j].grants

\* A job that was never done is never left to run with its stalls used up.
WithinStalls ==
  \A j \in Job : lease[j].life = "first" /\ lease[j].phase \in {"queued", "held"}
                   => lease[j].lapses <= MaxStalled
=============================================================================
