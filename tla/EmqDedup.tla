------------------------------ MODULE EmqDedup ------------------------------
(***************************************************************************)
(* Deduplication: one deduplication id of one queue, its row in             *)
(* emq_deduplication and the jobs that were added under it (the add         *)
(* procedures 010, 050 and 070, and what 310 does with the row of a job     *)
(* that ends).                                                              *)
(*                                                                         *)
(* An add is two steps, what it reads and then what it writes with its      *)
(* commit; so is emq_move_to_finished_v1, which holds the queue's lock.     *)
(* An add whose caller does not name the job takes its id from the row of   *)
(* counters, and keeps that row locked until it ends.                       *)
(***************************************************************************)
EXTENDS Naturals, FiniteSets

CONSTANTS
  Client,      \* callers of Queue.add
  Options,     \* the options an add may have
  MaxAdds,     \* bound: no add is called when as many ids have been given
  Happens,     \* what may happen but adding and processing
  MaxHappens   \* bound: how much of it in one behaviour

\* What is asked for: DeduplicationOptions, the list the job goes to, and whether
\* the caller names the job.
OptionsType == [keep: BOOLEAN, replace: BOOLEAN, extend: BOOLEAN, ttl: BOOLEAN,
                place: {"wait", "prioritized", "delayed"}, own: BOOLEAN]

ASSUME OptionsAssumption == Options \subseteq OptionsType
ASSUME BoundAssumption   == {MaxAdds, MaxHappens} \subseteq Nat

VARIABLES
  count,     \* emq_queue_counters.job_num: the ids that were given
  job,       \* emq_jobs: state, whether deduplication_id is set, whose data it has
  row,       \* the row of emq_deduplication
  adds,      \* the add each client has called
  finishing, \* the emq_move_to_finished_v1 that is open, with what it has read
  happened,  \* history: what has happened
  stashed,   \* history: the add that was last told it is stashed, and behind which job;
             \* none when another add has been inserted since
  crossed,   \* history: jobs whose key was read by two transactions at once, or
             \* was left behind when they were removed or failed by the sweep
  freed      \* history: jobs whose key has expired, was removed, or was gone
             \* already when they were reprocessed

vars == <<count, job, row, adds, finishing, happened, stashed, crossed, freed>>

Id         == 1 .. 2 * MaxAdds
Unfinished == {"wait", "prioritized", "delayed", "active"}
Existing   == Unfinished \union {"finished"}
NoRow      == [job |-> 0]
NoCall     == [n |-> 0]
Nothing    == [job |-> 0]
NoStash    == [n |-> 0, job |-> 0]

Init ==
  /\ count = 0
  /\ job = [j \in Id |-> [state |-> "none", keyed |-> FALSE, data |-> 0]]
  /\ row = NoRow
  /\ adds = [c \in Client |-> NoCall]
  /\ finishing = Nothing
  /\ happened = {} /\ stashed = NoStash /\ crossed = {} /\ freed = {}

-----------------------------------------------------------------------------
(* The row and the jobs                                                     *)

Live(r) == r # NoRow /\ r.expires # "past"

\* A row for a job that is added: keepLastIfActive never expires.
RowFor(j, o) ==
  [job |-> j, expires |-> IF o.ttl /\ ~o.keep THEN "later" ELSE "never",
   keep |-> o.keep, pending |-> 0, opts |-> {}]

\* The jobs that emq_jobs_dedup_uniq lets no other stand beside.
Rivals(table) == {k \in Id : table[k].keyed /\ table[k].state \in Unfinished}

\* Inserted where its delay and priority put it.
Inserted(table, j, o, n) ==
  [table EXCEPT ![j] = [state |-> o.place, keyed |-> TRUE, data |-> n]]

\* An open transaction has written the job's row: another write to it waits.
Locked(j)   == finishing # Nothing /\ finishing.job = j
\* The row of counters is locked by an add that took an id from it.
Counting    == \E c \in Client : adds[c] # NoCall /\ ~adds[c].opts.own
\* Two transactions have read the key of one job.
Reading(j)  == {k \in {j} \ {0} : Locked(k) \/ \E c \in Client : adds[c] # NoCall /\ adds[c].holder = k}

Once(what) == /\ what \in Happens \ happened
              /\ Cardinality(happened) < MaxHappens
              /\ happened' = happened \union {what}

-----------------------------------------------------------------------------
(* emq_add_standard_job_v1, emq_add_prioritized_job_v1, emq_add_delayed_job_v1 *)

\* The job an add finds behind the key.  To replace it neither time nor job is
\* looked at.
Holder(o) ==
  IF o.replace THEN row.job
  ELSE IF Live(row) /\ job[row.job].state \in Existing THEN row.job ELSE 0

\* The id is taken and the key is read.
Call(c, o) ==
  /\ adds[c] = NoCall /\ count < MaxAdds
  /\ o.own \/ ~Counting
  /\ count' = count + 1
  /\ adds' = [adds EXCEPT ![c] =
       [n |-> count + 1, opts |-> o, holder |-> Holder(o),
        active |-> Holder(o) # 0 /\ job[Holder(o)].state = "active"]]
  /\ crossed' = crossed \union Reading(Holder(o))
  /\ UNCHANGED <<job, row, finishing, happened, stashed, freed>>

\* The caller gets an error, or is lost; nothing was written.
Fails(c) ==
  /\ adds' = [adds EXCEPT ![c] = NoCall]
  /\ UNCHANGED <<count, job, row, finishing, stashed, crossed, freed>>

\* What 070 does to the key of a job that exists: extend, and stash for an active
\* one.  010 and 050 do only one of them.
Extended(r, o) ==
  IF o.extend /\ o.ttl THEN [r EXCEPT !.expires = "later"] ELSE r

Stashed(r, n, o) ==
  [r EXCEPT !.keep = TRUE, !.pending = n, !.opts = {o}, !.expires = "never"]

\* Mutant of Touched: an add that extends the key does no more than that.
TouchedOnce(r, a) ==
  IF a.opts.extend /\ a.opts.ttl THEN Extended(r, a.opts)
  ELSE IF a.opts.keep /\ a.active THEN Stashed(r, a.n, a.opts) ELSE r

Touched(r, a) ==
  LET stashes == a.opts.keep /\ a.active
      first   == IF stashes /\ a.opts.place # "wait" THEN r ELSE Extended(r, a.opts)
  IN  IF stashes THEN Stashed(first, a.n, a.opts) ELSE first

\* Not replaced: the id of the job that holds the key is the answer.  An update
\* finds no row when the key has gone to another job meanwhile.
Deduplicated(c) ==
  LET a == adds[c]
  IN  /\ a # NoCall /\ ~a.opts.replace /\ a.holder # 0
      /\ row' = IF row.job = a.holder THEN Touched(row, a) ELSE row
      /\ stashed' = IF a.opts.keep /\ a.active THEN [n |-> a.n, job |-> a.holder] ELSE stashed
      /\ adds' = [adds EXCEPT ![c] = NoCall]
      /\ UNCHANGED <<count, job, finishing, happened, crossed, freed>>

\* The lists replace takes a job from, by where the new one goes.
Replaceable(o) == {o.place}

\* Replace finds nothing it may take: the id behind the key is the answer.
NotReplaced(c) ==
  LET a == adds[c]
  IN  /\ a # NoCall /\ a.opts.replace /\ a.holder # 0
      /\ job[a.holder].state \notin Replaceable(a.opts)
      /\ adds' = [adds EXCEPT ![c] = NoCall]
      /\ UNCHANGED <<count, job, row, finishing, happened, stashed, crossed, freed>>

\* What replace deletes, and the tables without it.
Replaced(a) == IF a.opts.replace THEN {j \in {a.holder} \ {0} : job[j].state \in Replaceable(a.opts)}
               ELSE {}
Without(a)  == [j \in Id |-> IF j \in Replaced(a) THEN [job[j] EXCEPT !.state = "gone"] ELSE job[j]]
RowLeft(a)  == IF row.job \in Replaced(a) THEN NoRow ELSE row

\* Mutant of Cleared: whoever holds the key, it is taken from him.
ClearedAll(table, r) == [j \in Id |-> [table[j] EXCEPT !.keyed = FALSE]]

\* deduplication_id is cleared where no live row stands for the job.
Cleared(table, r) ==
  [j \in Id |-> [table[j] EXCEPT !.keyed = @ /\ Live(r) /\ r.job = j]]

\* The add writes: it found no job behind the key, or one it may replace.  The row
\* of a job that is finishing is waited for.
Writes(c) ==
  /\ adds[c] # NoCall
  /\ adds[c].holder = 0 \/ Replaced(adds[c]) # {}
  /\ \A j \in Id : job[j].keyed => ~Locked(j)

\* The key is taken from whoever has no live row, the job inserted, and the row
\* written over what there is.
Added(c) ==
  LET a == adds[c]
      table == Cleared(Without(a), RowLeft(a))
  IN  /\ Writes(c)
      /\ Rivals(table) = {}
      /\ job' = Inserted(table, a.n, a.opts, a.n)
      /\ row' = RowFor(a.n, a.opts)
      /\ stashed' = NoStash
      /\ adds' = [adds EXCEPT ![c] = NoCall]
      /\ UNCHANGED <<count, finishing, happened, crossed, freed>>

\* A job with the key was inserted since: emq_jobs_dedup_uniq refuses a second.
Refused(c) ==
  /\ Writes(c)
  /\ Rivals(Cleared(Without(adds[c]), RowLeft(adds[c]))) # {}
  /\ Fails(c)
  /\ UNCHANGED happened

AddIsLost(c) == adds[c] # NoCall /\ Fails(c) /\ Once("lost")

-----------------------------------------------------------------------------
(* Processing                                                               *)

\* Mutant of Claim: delayed jobs are not promoted.
ClaimWaiting(j) ==
  /\ finishing = Nothing
  /\ job[j].state \in {"wait", "prioritized"}
  /\ job' = [job EXCEPT ![j].state = "active"]
  /\ UNCHANGED <<count, row, adds, finishing, happened, stashed, crossed, freed>>

\* emq_move_to_active_v1, under the queue's lock.
Claim(j) ==
  /\ finishing = Nothing
  /\ job[j].state \in {"wait", "prioritized", "delayed"}
  /\ job' = [job EXCEPT ![j].state = "active"]
  /\ UNCHANGED <<count, row, adds, finishing, happened, stashed, crossed, freed>>

\* What is stashed behind j.
Owed(j) == IF row.job = j /\ row.keep THEN [n |-> row.pending, opts |-> row.opts]
           ELSE [n |-> 0, opts |-> {}]

\* Mutant of Ended: the key of a job with keepLastIfActive stays.
EndedUnlessKept(r, j) == IF r.job = j /\ r.expires = "never" /\ ~r.keep THEN NoRow ELSE r

\* A row without a ttl goes with its job.
Ended(r, j) == IF r.job = j /\ r.expires = "never" THEN NoRow ELSE r

\* emq_move_to_finished_v1 takes the queue's lock and the job, and reads what is
\* stashed for it.
MoveToFinished(j) ==
  /\ finishing = Nothing /\ job[j].state = "active"
  /\ finishing' = [job |-> j, pending |-> Owed(j).n, opts |-> Owed(j).opts]
  /\ crossed' = crossed \union {k \in {j} : \E c \in Client : adds[c] # NoCall /\ adds[c].holder = k}
  /\ UNCHANGED <<count, job, row, adds, happened, stashed, freed>>

\* Its commit when nothing is stashed.
Finish ==
  LET j == finishing.job
  IN  /\ finishing # Nothing /\ finishing.pending = 0
      /\ \E state \in {"finished", "gone"} : job' = [job EXCEPT ![j].state = state]
      /\ row' = Ended(row, j)
      /\ finishing' = Nothing
      /\ UNCHANGED <<count, adds, happened, stashed, crossed, freed>>

\* Its commit when a job is stashed: the row goes, and the stash is added as a job
\* under the key, unless another job has the key by now.
Requeue ==
  LET j == finishing.job
      n == count + 1
      left == IF row.job = j THEN NoRow ELSE row
      held == Live(left) /\ job[left.job].state \in Existing
  IN  /\ finishing # Nothing /\ finishing.pending # 0 /\ ~Counting
      /\ count' = n
      /\ \E o \in finishing.opts, state \in {"finished", "gone"} :
           LET ended == [job EXCEPT ![j].state = state]
           IN  IF held
               THEN /\ job' = ended
                    /\ row' = Touched(left, [n |-> finishing.pending, opts |-> o,
                                             active |-> ended[left.job].state = "active"])
               ELSE /\ job' = Inserted(Cleared(ended, left), n, o, finishing.pending)
                    /\ row' = RowFor(n, o)
      /\ finishing' = Nothing
      /\ UNCHANGED <<adds, happened, stashed, crossed, freed>>

\* The requeue waits for the row of counters while the add that has it locked waits for
\* the row of the key, or to insert a job beside one that is ending: one is aborted.
Deadlock(c) ==
  /\ finishing # Nothing /\ finishing.pending # 0 /\ Counting
  /\ adds[c] # NoCall /\ ~adds[c].opts.own
  /\ adds[c].holder = finishing.job \/ (adds[c].holder = 0 /\ job[finishing.job].keyed)
  /\ \/ Fails(c) /\ UNCHANGED happened
     \/ /\ finishing' = Nothing
        /\ UNCHANGED <<count, job, row, adds, happened, stashed, crossed, freed>>

\* A failed attempt is put back: emq_retry_job_v1, emq_move_to_delayed_v1; or a
\* stalled one: emq_move_stalled_jobs_to_wait_v1.  The row is left alone.
PutsBack(j) ==
  /\ finishing = Nothing /\ job[j].state = "active"
  /\ Once("back")
  /\ \E to \in {"wait", "prioritized", "delayed"} : job' = [job EXCEPT ![j].state = to]
  /\ UNCHANGED <<count, row, adds, finishing, stashed, crossed, freed>>

\* The sweep fails a job that stalled too often.  So is the row.
SweepFails(j) ==
  /\ finishing = Nothing /\ job[j].state = "active"
  /\ Once("sweep")
  /\ job' = [job EXCEPT ![j].state = "finished"]
  /\ crossed' = crossed \union {j}
  /\ UNCHANGED <<count, row, adds, finishing, stashed, freed>>

-----------------------------------------------------------------------------
(* Time and the clients' commands                                           *)

Expire ==
  /\ row # NoRow /\ row.expires = "later"
  /\ row' = [row EXCEPT !.expires = "past"]
  /\ freed' = freed \union {row.job}
  /\ UNCHANGED <<count, job, adds, finishing, happened, stashed, crossed>>

\* emq_remove_deduplication_key_v1, Queue.removeDeduplicationKey.
RemoveDeduplicationKey ==
  /\ row # NoRow /\ Once("key")
  /\ row' = NoRow
  /\ freed' = freed \union {row.job}
  /\ crossed' = crossed \union {row.job}
  /\ UNCHANGED <<count, job, adds, finishing, stashed>>

\* emq_remove_job_v1: any job but one that is locked; its key stays.
RemoveJob(j) ==
  /\ job[j].state \in Existing \ {"active"} /\ ~Locked(j)
  /\ Once("remove")
  /\ job' = [job EXCEPT ![j].state = "gone"]
  /\ crossed' = crossed \union {j}
  /\ UNCHANGED <<count, row, adds, finishing, stashed, freed>>

\* emq_drain_v1: and the row of a job that is no more.
Drain ==
  /\ Once("drain")
  /\ \E lists \in {{"wait", "prioritized"}, {"wait", "prioritized", "delayed"}} :
       LET left == [j \in Id |-> IF job[j].state \in lists THEN [job[j] EXCEPT !.state = "gone"]
                                 ELSE job[j]]
       IN  /\ job' = left
           /\ row' = IF row # NoRow /\ left[row.job].state = "gone" THEN NoRow ELSE row
           /\ crossed' = crossed \union {j \in Id : left[j] # job[j]}
  /\ UNCHANGED <<count, adds, finishing, stashed, freed>>

\* emq_reprocess_job_v1: the index stands in the way when another job has the key.
ReprocessJob(j) ==
  /\ job[j].state = "finished" /\ (job[j].keyed => Rivals(job) = {})
  /\ Once("reprocess")
  /\ job' = [job EXCEPT ![j].state = "wait"]
  /\ freed' = IF row.job = j THEN freed ELSE freed \union {j}
  /\ UNCHANGED <<count, row, adds, finishing, stashed, crossed>>

-----------------------------------------------------------------------------
Commits(c) == Deduplicated(c) \/ NotReplaced(c) \/ Added(c) \/ Refused(c)

Work == \/ \E j \in Id : Claim(j) \/ MoveToFinished(j)
        \/ Finish \/ Requeue
        \/ \E c \in Client : Commits(c) \/ Deadlock(c)

Commands == \/ \E j \in Id : PutsBack(j) \/ SweepFails(j) \/ RemoveJob(j) \/ ReprocessJob(j)
            \/ \E c \in Client : AddIsLost(c)
            \/ RemoveDeduplicationKey \/ Drain

Next == \/ \E c \in Client, o \in Options : Call(c, o)
        \/ Work \/ Expire \/ Commands

Spec == Init /\ [][Next]_vars

\* Workers claim what waits and finish what they process; deadlocks are detected; an add
\* that waits for rows gets them, as those who wait are served first.
FairSpec ==
  /\ Spec
  /\ WF_vars(\E j \in Id : Claim(j) \/ MoveToFinished(j))
  /\ WF_vars(Finish \/ Requeue)
  /\ \A c \in Client : SF_vars(Commits(c)) /\ WF_vars(Deadlock(c))

-----------------------------------------------------------------------------
(* Properties                                                               *)

RowType  == {NoRow} \union [job : Id, expires : {"never", "later", "past"}, keep : BOOLEAN,
                            pending : Id \union {0}, opts : SUBSET Options]
CallType == {NoCall} \union [n : Id, opts : Options, holder : Id \union {0}, active : BOOLEAN]

\* The variables have the values the tables and the calls can have; in particular the
\* counter gives no more ids than adds and stashes ask for, and data is stashed with
\* its options.
TypeOK ==
  /\ count \in 0 .. 2 * MaxAdds
  /\ job \in [Id -> [state : Existing \union {"none", "gone"}, keyed : BOOLEAN,
                     data : Id \union {0}]]
  /\ row \in RowType /\ (row # NoRow => (row.pending = 0) = (row.opts = {}))
  /\ adds \in [Client -> CallType]
  /\ finishing \in {Nothing} \union [job : Id, pending : Id \union {0}, opts : SUBSET Options]
  /\ happened \subseteq Happens
  /\ stashed \in [n : Id \union {0}, job : Id \union {0}]
  /\ crossed \subseteq Id /\ freed \subseteq Id

\* Deduplication: of the jobs added under one id, by any callers at once, no two are
\* unfinished together unless one of them has lost the key: its ttl is over, the key
\* was removed, or the job was reprocessed (deduplication-options.ts: preventing
\* parallel execution of jobs with the same deduplication ID).
OneAtATime ==
  \A j, k \in {i \in Id : job[i].state \in Unfinished} : j # k => {j, k} \intersect freed # {}

\* A key without a ttl ends with its job (310): it does not go on to answer adds for
\* a job that is over, which would refuse them for ever.  It may when the job was
\* removed or failed by the sweep, which leave the key, or when an add and the
\* finish have read the key side by side.
KeyEnds ==
  row # NoRow /\ row.expires = "never" /\ row.job \notin crossed
    => job[row.job].state \in Unfinished

\* The key's row has its type, and outlives its job only where that is said.
KeyOK == TypeOK /\ KeyEnds

\* The add that was told last that it is stashed behind the active job is not lost: its
\* data is in the row, or in a job (070's stash, 310's requeue); unless the key has
\* expired or was taken, or the finish has read the row before the stash was written.
StashHeld ==
  \/ stashed = NoStash \/ stashed.job \in crossed \union freed
  \/ row # NoRow /\ row.pending = stashed.n
  \/ \E j \in Id : job[j].data = stashed.n

\* And it is processed, however often the job before it is retried, unless a later add
\* takes its place or something happens to its own job.
StashRuns ==
  (stashed # NoStash) ~>
    \/ stashed = NoStash \/ stashed.job \in crossed \union freed
    \/ \E j \in Id : /\ job[j].data = stashed.n
                     /\ j \in crossed \/ job[j].state \in {"active", "finished", "gone"}

=============================================================================
