------------------------------ MODULE EmqSandbox ------------------------------
(***************************************************************************)
(* Sandboxed processors: the function sandbox.ts makes of a processor file, *)
(* the ChildPool it takes child processes from, and the ChildProcessor that *)
(* runs in each of them.                                                   *)
(*                                                                         *)
(* Parent and child send each other messages over a channel that keeps     *)
(* their order.  A message of a run does not say which job it is about: the *)
(* field job of a message is there for the properties, and no step looks   *)
(* at it but for the requestId of a response.                              *)
(***************************************************************************)
EXTENDS Naturals, FiniteSets, SequencesExt

CONSTANTS
  MaxJobs,      \* bound: jobs, each processed once
  MaxChildren,  \* bound: children that are forked
  Happens,      \* what may happen but that
  MaxHappens    \* bound: how much of it in one behaviour

ASSUME SandboxAssumption == {MaxJobs, MaxChildren} \subseteq Nat \ {0} /\ MaxHappens \in Nat

VARIABLES
  free,      \* ChildPool.free of the file
  retained,  \* ChildPool.retained
  made,      \* how many children were forked
  proc,      \* the children: ChildProcessor.status, the run under way, whether it waits for a response
  gone,      \* children whose exit event the parent has had
  inbox,     \* messages to each child
  outbox,    \* messages from each child
  slot,      \* the calls of process: where, the child, and history: whose message settled it,
             \* whose side effects it took, whether the child came busy
  effects,   \* the chain of side effects of each call
  queries,   \* requests of runs the parent works on
  closing,   \* ChildPool.clean
  doomed,    \* children that were sent SIGTERM
  ran,       \* history: runs that made their one side effect, or their one request
  wanted,    \* jobs whose signal is aborted
  aborted,   \* history: runs whose AbortController aborted
  missed,    \* history: children clean did not know of
  happened   \* history: what has happened

pool  == <<free, retained, made>>
calls == <<slot, effects, queries>>
notes == <<ran, wanted, aborted>>
clean == <<closing, doomed, missed>>
vars  == <<free, retained, made, proc, gone, inbox, outbox, slot, effects, queries, closing,
           doomed, ran, wanted, aborted, missed, happened>>

\* Jobs and children are numbered in the order they are begun.
Job     == 1 .. MaxJobs
NoJob   == 0
Child   == 1 .. MaxChildren
NoChild == 0
Msg(cmd, job) == [cmd |-> cmd, job |-> job]

Init ==
  /\ free = <<>> /\ retained = {} /\ made = 0
  /\ proc = [c \in Child |-> [status |-> "none", job |-> NoJob, waits |-> FALSE]]
  /\ gone = {} /\ inbox = [c \in Child |-> <<>>] /\ outbox = [c \in Child |-> <<>>]
  /\ slot = [j \in Job |-> [at |-> "off", child |-> NoChild, by |-> NoJob, got |-> {}, busy |-> FALSE]]
  /\ effects = [j \in Job |-> <<>>] /\ queries = {}
  /\ closing = FALSE /\ doomed = {} /\ missed = {}
  /\ ran = {} /\ wanted = {} /\ aborted = {} /\ happened = {}

Once(what) == /\ what \in Happens \ happened
              /\ Cardinality(happened) < MaxHappens
              /\ happened' = happened \union {what}

Alive(c)   == proc[c].status \notin {"none", "dead"}
Settled(j) == slot[j].at \in {"resolved", "rejected"}

\* What a channel holds when msgs are sent to c.
Sent(c, msgs) == [inbox EXCEPT ![c] = IF Alive(c) THEN @ \o msgs ELSE @]

\* A run of c is not over, or the parent has not heard all of it.
Busy(c) == \/ proc[c].job # NoJob
           \/ \E i \in DOMAIN outbox[c] : outbox[c][i].job # NoJob
           \/ \E i \in DOMAIN inbox[c] : inbox[c][i].cmd = "start"

-----------------------------------------------------------------------------
(* The parent: sandbox.ts and ChildPool                                    *)

\* The child is retained, listened to and sent the job, and Cancel when the signal is aborted.
Begun(j, c) ==
  /\ retained' = retained \union {c}
  /\ slot' = [slot EXCEPT ![j].at = "run", ![j].child = c, ![j].busy = Busy(c)]
  /\ inbox' = Sent(c, <<Msg("start", j)>> \o IF j \in wanted THEN <<Msg("cancel", j)>> ELSE <<>>)

\* The last free child, or a new one, which is sent the file.
Retain(j) ==
  /\ slot[j].at = "off" /\ ~closing /\ \A k \in 1 .. j - 1 : slot[k].at # "off"
  /\ IF free # <<>>
     THEN /\ free' = Front(free)
          /\ Begun(j, Last(free))
          /\ UNCHANGED <<made, proc>>
     ELSE /\ made < MaxChildren
          /\ made' = made + 1
          /\ proc' = [proc EXCEPT ![made'].status = "new"]
          /\ inbox' = [inbox EXCEPT ![made'] = <<Msg("init", j)>>]
          /\ slot' = [slot EXCEPT ![j].at = "init", ![j].child = made']
          /\ UNCHANGED <<free, retained>>
  /\ UNCHANGED <<gone, outbox, effects, queries, clean, notes, happened>>

\* InitCompleted or InitFailed: a child that failed is released all the same.
InitAnswered(j) ==
  LET c == slot[j].child
  IN  /\ slot[j].at = "init" /\ c \notin gone /\ outbox[c] # <<>>
      /\ IF Head(outbox[c]).cmd = "initCompleted"
         THEN /\ Begun(j, c)
              /\ UNCHANGED free
         ELSE /\ free' = Append(free, c)
              /\ slot' = [slot EXCEPT ![j].at = "rejected", ![j].by = j]
              /\ UNCHANGED <<retained, inbox>>
      /\ outbox' = [outbox EXCEPT ![c] = Tail(@)]
      /\ UNCHANGED <<made, proc, gone, effects, queries, clean, notes, happened>>

\* Mutant of Settles: release whether the child has exited or not.
SettlesBlind(j, at, by, dead) ==
  IF slot[j].at # "run" THEN UNCHANGED <<slot, free, retained>>
  ELSE /\ slot' = [slot EXCEPT ![j].at = at, ![j].by = by]
       /\ free' = Append(RemoveFirst(free, dead), slot[j].child)
       /\ retained' = retained \ {dead, slot[j].child}

\* The promise of j settles, unless it has: nothing more is heard for j, and a child that has
\* not exited is released.  dead: the child whose exit event this is, if any.
Settles(j, at, by, dead) ==
  LET c    == slot[j].child
      rest == RemoveFirst(free, dead)
  IN  IF slot[j].at # "run" THEN UNCHANGED <<slot, free, retained>>
      ELSE /\ slot' = [slot EXCEPT ![j].at = at, ![j].by = by]
           /\ free' = IF c \in gone \union {dead} THEN rest ELSE Append(rest, c)
           /\ retained' = retained \ {dead, c}

Outcome(cmd) == IF cmd = "completed" THEN "resolved" ELSE "rejected"

\* Mutant of Heard: the chain is not waited for.
HeardAtOnce(j, m) ==
  IF m.cmd = "progress"
  THEN /\ effects' = [effects EXCEPT ![j] = Append(@, m)]
       /\ UNCHANGED <<slot, free, retained, queries>>
  ELSE IF m.cmd = "request"
  THEN /\ queries' = queries \union {[call |-> j, run |-> m.job, child |-> slot[j].child]}
       /\ UNCHANGED <<slot, free, retained, effects>>
  ELSE /\ Settles(j, Outcome(m.cmd), m.job, NoChild)
       /\ UNCHANGED <<effects, queries>>

\* What settles is put on the chain once: no promise settles twice.
Joined(chain, m) ==
  IF m.cmd # "progress" /\ \E i \in DOMAIN chain : chain[i].cmd # "progress"
  THEN chain ELSE Append(chain, m)

\* handleMessage: a request is worked on at once, the rest goes onto the chain.
Heard(j, m) ==
  IF m.cmd = "request"
  THEN /\ queries' = queries \union {[call |-> j, run |-> m.job, child |-> slot[j].child]}
       /\ UNCHANGED <<slot, free, retained, effects>>
  ELSE IF m.cmd = "progress" \/ effects[j] # <<>>
  THEN /\ effects' = [effects EXCEPT ![j] = Joined(@, m)]
       /\ UNCHANGED <<slot, free, retained, queries>>
  ELSE /\ Settles(j, Outcome(m.cmd), m.job, NoChild)
       /\ UNCHANGED <<effects, queries>>

\* Mutant of Hearing: dispatch stays on the child.
HearingStill(c) == {j \in Job : slot[j].child = c /\ (slot[j].at = "run" \/ Settled(j))}

\* The calls that listen to c.
Hearing(c) == {j \in Job : slot[j].child = c /\ slot[j].at = "run"}

\* A message of c after its init goes to the call that listens, or to nobody.
Receive(c) ==
  /\ c \notin gone /\ outbox[c] # <<>>
  /\ \A j \in Job : slot[j].child = c => slot[j].at # "init"
  /\ outbox' = [outbox EXCEPT ![c] = Tail(@)]
  /\ IF Hearing(c) = {}
     THEN UNCHANGED <<slot, free, retained, effects, queries>>
     ELSE \E j \in Hearing(c) : Heard(j, Head(outbox[c]))
  /\ UNCHANGED <<made, proc, gone, inbox, clean, notes, happened>>

\* The side effect under way is done, or it fails and rejects; what is next on the chain
\* and settles the promise does so with it.
Effect(j) ==
  LET left == Tail(effects[j])
      ends == left # <<>> /\ Head(left).cmd # "progress"
      took == [slot EXCEPT ![j].got = @ \union {Head(effects[j]).job}]
  IN  /\ effects[j] # <<>>
      /\ effects' = [effects EXCEPT ![j] = IF ends THEN Tail(left) ELSE left]
      /\ \/ /\ Once("refused")
            /\ Settles(j, "rejected", j, NoChild)
         \/ /\ UNCHANGED happened
            /\ IF ends /\ slot[j].at = "run"
               THEN /\ slot' = [took EXCEPT ![j].at = Outcome(Head(left).cmd), ![j].by = Head(left).job]
                    /\ free' = IF slot[j].child \in gone THEN free ELSE Append(free, slot[j].child)
                    /\ retained' = retained \ {slot[j].child}
               ELSE /\ slot' = took
                    /\ UNCHANGED <<free, retained>>
      /\ UNCHANGED <<made, proc, gone, inbox, outbox, queries, clean, notes>>

\* The answer to a request is sent, whatever has become of the call; or the query fails.
Respond(q) ==
  /\ q \in queries
  /\ queries' = queries \ {q}
  /\ \/ /\ inbox' = Sent(q.child, <<Msg("response", q.run)>>)
        /\ UNCHANGED <<slot, free, retained, happened>>
     \/ /\ Once("refused")
        /\ Settles(q.call, "rejected", q.call, NoChild)
        /\ UNCHANGED inbox
  /\ UNCHANGED <<made, proc, gone, outbox, effects, clean, notes>>

\* Mutant of Exits: exitHandler is not called.
ExitsUnheard(c) ==
  /\ proc[c].status = "dead" /\ c \notin gone
  /\ gone' = gone \union {c}
  /\ outbox' = [outbox EXCEPT ![c] = <<>>]
  /\ free' = RemoveFirst(free, c) /\ retained' = retained \ {c}
  /\ UNCHANGED <<made, proc, inbox, slot, effects, queries, clean, notes, happened>>

\* The exit event: the pool forgets the child, the call it has is rejected, and no listener
\* is left: what the child sent and was not read is lost, and so is an init under way.
Exits(c) ==
  /\ proc[c].status = "dead" /\ c \notin gone
  /\ gone' = gone \union {c}
  /\ outbox' = [outbox EXCEPT ![c] = <<>>]
  /\ IF Hearing(c) = {}
     THEN /\ free' = RemoveFirst(free, c) /\ retained' = retained \ {c}
          /\ UNCHANGED slot
     ELSE \E j \in Hearing(c) : Settles(j, "rejected", j, c)
  /\ UNCHANGED <<made, proc, inbox, effects, queries, clean, notes, happened>>

\* The signal of j is aborted: the child hears of it while the call is under way.
Cancel(j) ==
  /\ j \notin wanted /\ slot[j].at # "off"
  /\ Once("cancel")
  /\ wanted' = wanted \union {j}
  /\ inbox' = IF slot[j].at = "run" THEN Sent(slot[j].child, <<Msg("cancel", j)>>) ELSE inbox
  /\ UNCHANGED <<pool, proc, gone, outbox, calls, clean, ran, aborted>>

\* Mutant of Clean: the free children are not killed.
CleanRetained ==
  /\ ~closing /\ \A j \in Job : slot[j].at = "off" \/ Settled(j)
  /\ closing' = TRUE
  /\ doomed' = retained
  /\ missed' = {}
  /\ free' = <<>> /\ retained' = {}
  /\ UNCHANGED <<made, proc, gone, inbox, outbox, calls, notes, happened>>

\* clean, when the worker closes: its jobs are over, or the close was forced.
Clean ==
  /\ ~closing
  /\ closing' = TRUE
  /\ IF \A j \in Job : slot[j].at = "off" \/ Settled(j) THEN UNCHANGED happened ELSE Once("force")
  /\ doomed' = retained \union ToSet(free)
  /\ missed' = {c \in 1 .. made : c \notin doomed'}
  /\ free' = <<>> /\ retained' = {}
  /\ UNCHANGED <<made, proc, gone, inbox, outbox, calls, notes>>

-----------------------------------------------------------------------------
(* The child: ChildProcessor                                               *)

\* c reads the message it has next.
Read(c, cmd) == /\ Alive(c) /\ inbox[c] # <<>> /\ Head(inbox[c]).cmd = cmd
                /\ inbox' = [inbox EXCEPT ![c] = Tail(@)]
Says(c, cmd, job) == outbox' = [outbox EXCEPT ![c] = Append(@, Msg(cmd, job))]

\* The file is imported: it has a function, or the child is of no use.
InitChild(c) ==
  /\ Read(c, "init")
  /\ \/ /\ proc' = [proc EXCEPT ![c].status = "idle"]
        /\ Says(c, "initCompleted", NoJob)
        /\ UNCHANGED happened
     \/ /\ Once("broken")
        /\ proc' = [proc EXCEPT ![c].status = "errored"]
        /\ Says(c, "initFailed", NoJob)
  /\ UNCHANGED <<pool, gone, calls, clean, notes>>

\* Only an idle child starts the job; any other answers Error.
Start(c) ==
  /\ Read(c, "start")
  /\ IF proc[c].status = "idle"
     THEN /\ proc' = [proc EXCEPT ![c].status = "started", ![c].job = Head(inbox[c]).job]
          /\ UNCHANGED outbox
     ELSE /\ Says(c, "error", Head(inbox[c]).job)
          /\ UNCHANGED proc
  /\ UNCHANGED <<pool, gone, calls, clean, notes, happened>>

\* Cancel aborts the run there is.
Aborts(c) ==
  /\ Read(c, "cancel")
  /\ aborted' = aborted \union ({proc[c].job} \ {NoJob})
  /\ UNCHANGED <<proc, outbox, pool, gone, calls, clean, ran, wanted, happened>>

\* A response: waitResponse takes the one it waits for.
Answered(c) ==
  /\ Read(c, "response")
  /\ proc' = [proc EXCEPT ![c].waits = @ /\ Head(inbox[c]).job # proc[c].job]
  /\ UNCHANGED <<outbox, pool, gone, calls, clean, notes, happened>>

\* The processor updates the job, or asks something of it and waits.
Calls(c) ==
  /\ Alive(c) /\ proc[c].job \notin ran \union {NoJob}
  /\ ran' = ran \union {proc[c].job}
  /\ \E asks \in BOOLEAN :
       /\ proc' = [proc EXCEPT ![c].waits = asks]
       /\ Says(c, IF asks THEN "request" ELSE "progress", proc[c].job)
  /\ UNCHANGED <<pool, gone, inbox, calls, clean, wanted, aborted, happened>>

\* The run ends, also by the time-out of a request; a child that terminates exits.
Ends(c) ==
  /\ Alive(c) /\ proc[c].job # NoJob
  /\ \E cmd \in IF proc[c].waits THEN {"failed"} ELSE {"completed", "failed"} :
       Says(c, cmd, proc[c].job)
  /\ proc' = [proc EXCEPT ![c] = [status |-> IF proc[c].status = "terminating" THEN "dead" ELSE "idle",
                                  job |-> NoJob, waits |-> FALSE]]
  /\ inbox' = IF proc[c].status = "terminating" THEN [inbox EXCEPT ![c] = <<>>] ELSE inbox
  /\ UNCHANGED <<pool, gone, calls, clean, notes, happened>>

Dead(c) == /\ proc' = [proc EXCEPT ![c] = [status |-> "dead", job |-> NoJob, waits |-> FALSE]]
           /\ inbox' = [inbox EXCEPT ![c] = <<>>]

\* SIGTERM: the run under way is waited for; SIGKILL after the time-out of kill.
Terminate(c) ==
  /\ c \in doomed /\ Alive(c)
  /\ IF proc[c].job = NoJob \/ proc[c].status = "terminating"
     THEN Dead(c)
     ELSE /\ proc' = [proc EXCEPT ![c].status = "terminating"]
          /\ UNCHANGED inbox
  /\ UNCHANGED <<outbox, pool, gone, calls, clean, notes, happened>>

\* The process ends by itself, or by an exception nobody caught, which it reports.
Crash(c) ==
  /\ Alive(c) /\ Once("crash")
  /\ Dead(c)
  /\ UNCHANGED outbox \/ (proc[c].job # NoJob /\ Says(c, "failed", proc[c].job))
  /\ UNCHANGED <<pool, gone, calls, clean, notes>>

-----------------------------------------------------------------------------
Parent(c) == Receive(c) \/ Exits(c)
Runs(c)   == InitChild(c) \/ Start(c) \/ Aborts(c) \/ Answered(c)
Call(j)   == InitAnswered(j) \/ Effect(j)

Next ==
  \/ \E j \in Job : Retain(j) \/ Call(j) \/ Cancel(j)
  \/ \E c \in Child : Parent(c) \/ Runs(c) \/ Calls(c) \/ Ends(c) \/ Terminate(c) \/ Crash(c)
  \/ \E q \in queries : Respond(q)
  \/ Clean

Spec == Init /\ [][Next]_vars

\* Messages are delivered, queries answered, processors end and processes take their signals.
FairSpec ==
  /\ Spec
  /\ \A j \in Job : WF_vars(Call(j))
  /\ \A c \in Child : WF_vars(Parent(c)) /\ WF_vars(Runs(c)) /\ WF_vars(Ends(c)) /\ WF_vars(Terminate(c))

-----------------------------------------------------------------------------
(* Properties                                                              *)

\* The variables have the values the fields can have, a call under way has a child, and a child
\* runs at most one job.
TypeOK ==
  /\ free \in Seq(Child) /\ retained \subseteq 1 .. made /\ made \in 0 .. MaxChildren
  /\ proc \in [Child -> [status : {"none", "new", "idle", "started", "terminating", "errored", "dead"},
                         job : Job \union {NoJob}, waits : BOOLEAN]]
  /\ \A c \in Child : proc[c].job # NoJob => proc[c].status \in {"started", "terminating"}
  /\ gone \subseteq {c \in 1 .. made : proc[c].status = "dead"}
  /\ slot \in [Job -> [at : {"off", "init", "run", "resolved", "rejected"}, child : Child \union {NoChild},
                       by : Job \union {NoJob}, got : SUBSET Job, busy : BOOLEAN]]
  /\ \A j \in Job : slot[j].at # "off" => slot[j].child \in 1 .. made
  /\ queries \subseteq [call : Job, run : Job, child : Child]
  /\ doomed \subseteq 1 .. made /\ missed \subseteq 1 .. made /\ closing \in BOOLEAN
  /\ UNION {ran, wanted, aborted} \subseteq Job

\* child-pool.ts:40-89: a child is in one place: with one call, or free, once.
OnePlace ==
  /\ \A j, k \in Job : slot[j].at \in {"init", "run"} /\ slot[k].at \in {"init", "run"}
                         /\ slot[j].child = slot[k].child => j = k
  /\ \A j \in Job : slot[j].at \in {"init", "run"} => slot[j].child \notin ToSet(free)
  /\ ToSet(free) \intersect retained = {} /\ IsInjective(free)

\* sandbox.ts:219-227: the pool hands no child out, and keeps none, that it has seen exit.
NoneDead == gone \intersect (ToSet(free) \union retained) = {}

\* The pool's fields have their types; each of its children is alive and in one place.
PoolOK == TypeOK /\ OnePlace /\ NoneDead

\* sandbox.ts:57-64, 84-86: what settles a job, and what is written to it, comes from its own run,
\* unless the child was released by a rejection before its run had ended and so came busy.
AnswersAreOwn ==
  \A j \in Job : ~slot[j].busy => slot[j].by \in {j, NoJob} /\ slot[j].got \subseteq {j}

\* sandbox.ts:41-44: side effects "need to fully commit before `Completed` resolves".
EffectsFirst ==
  \A j \in Job : slot[j].at = "resolved" /\ slot[j].by = j /\ ~slot[j].busy =>
    effects[j] = <<>> /\ \A i \in DOMAIN outbox[slot[j].child] :
                           outbox[slot[j].child][i].job # j

\* sandbox.ts:210-218, child-processor.ts:108-110: a run is aborted only by its own signal, however
\* late a Cancel arrives, unless the next job came to it while it ran.
AbortsItsOwn == \A j \in aborted : j \in wanted \/ \E k \in wanted : slot[k].busy

\* A run has only its own messages: answers and side effects to the parent, cancellations from it.
RunsApart == AnswersAreOwn /\ AbortsItsOwn

\* A child that exits before it has answered Init leaves nobody to answer: child.ts:108-112 drops
\* the listener for 'close' that initChild waits with.
Hung(j) == slot[j].at = "init" /\ slot[j].child \in gone

\* sandbox.ts:26-35: a job handed to a child settles, whatever becomes of the child, once Init was
\* answered.
JobEnds == \A j \in Job : (slot[j].at \in {"init", "run"}) ~> Settled(j) \/ Hung(j)

\* child-pool.ts:99-105: no child outlives clean, but one whose init was under way in a forced close.
CleanKills ==
  \A c \in Child : (closing /\ c <= made) ~> proc[c].status = "dead" \/ c \in missed

=============================================================================
