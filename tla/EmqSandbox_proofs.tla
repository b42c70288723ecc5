-------------------------- MODULE EmqSandbox_proofs --------------------------
(***************************************************************************)
(* For any number of jobs and of children, and whatever happens: the pool   *)
(* has each of its children in one place and none that has exited, a run    *)
(* that came to an idle child has only its own messages, and it resolves    *)
(* after its side effects.                                                 *)
(*                                                                         *)
(* Messages do not name their run, so all of this is about the order in     *)
(* which a child's two channels hold them: nothing of a run follows its     *)
(* last message, a cancellation follows the start it is for, and what the   *)
(* parent has not heard of a child that was idle is about one job.         *)
(***************************************************************************)
EXTENDS EmqSandbox, SequenceTheorems, TLAPS

Final     == {"completed", "failed", "error"}
InitWords == {"initCompleted", "initFailed"}

\* The messages a child is sent, those it sends, and those that wait in a chain of side effects.
InMsg  == [cmd : {"init", "start", "cancel", "response"}, job : Job]
OutMsg == [cmd : InitWords, job : {NoJob}] \union [cmd : {"progress", "request"} \union Final, job : Job]
EffMsg == [cmd : {"progress"} \union Final, job : Job]

ProcType == [status : {"none", "new", "idle", "started", "terminating", "errored", "dead"},
             job : Job \union {NoJob}, waits : BOOLEAN]
SlotType == [at : {"off", "init", "run", "resolved", "rejected"}, child : Child \union {NoChild},
             by : Job \union {NoJob}, got : SUBSET Job, busy : BOOLEAN]

\* The jobs the messages of a channel are about: all, those it starts, cancels and ends; and its words.
JobsOf(s)    == {s[i].job : i \in DOMAIN s}
StartsOf(s)  == {s[i].job : i \in {k \in DOMAIN s : s[k].cmd = "start"}}
CancelsOf(s) == {s[i].job : i \in {k \in DOMAIN s : s[k].cmd = "cancel"}}
FinalsOf(s)  == {s[i].job : i \in {k \in DOMAIN s : s[k].cmd \in Final}}
WordsOf(s)   == {s[i].cmd : i \in DOMAIN s}

\* Nothing of a run follows its last message.
LastWord(s) == \A i, k \in DOMAIN s : i < k /\ s[i].cmd \in Final => s[k].job # s[i].job

\* A job starts once.
StartsOnce(s) ==
  \A i, k \in DOMAIN s : s[i].cmd = "start" /\ s[k].cmd = "start" /\ s[i].job = s[k].job => i = k

\* No other run starts before the cancellation of one, but of those in R.
CancelsLate(s, R) ==
  \A i, k \in DOMAIN s : i < k /\ s[i].cmd = "start" /\ s[k].cmd = "cancel" => s[k].job \in R \/ s[i].job = s[k].job

\* The two channels of a child and its run: R are the jobs that came to a busy child, W those whose
\* signal is aborted.
Line(in, out, run, R, W) ==
  /\ StartsOnce(in) /\ LastWord(out) /\ CancelsLate(in, R)
  /\ StartsOf(in) \intersect (JobsOf(out) \union {run}) = {}
  /\ run \notin FinalsOf(out)
  /\ \A k \in CancelsOf(in) : k \in W /\ (k \in R \/ run \in {NoJob, k})

\* A child that is sent Init has nothing else to read and to say.
FirstWords(in, out, run) ==
  /\ run = NoJob /\ Len(out) <= 1 /\ WordsOf(out) \subseteq InitWords
  /\ in = <<>> \/ (out = <<>> /\ Len(in) = 1 /\ WordsOf(in) = {"init"})

NoInit(in, out) == "init" \notin WordsOf(in) /\ WordsOf(out) \intersect InitWords = {}

-----------------------------------------------------------------------------
(* The invariant.                                                          *)

BusyRuns == {j \in Job : slot[j].busy}

\* What a child has to say or to run is about these jobs.
About(c) == JobsOf(outbox[c]) \union {proc[c].job} \union StartsOf(inbox[c])

\* A call waits for the answer to Init.
Waiting(c) == \E j \in Job : slot[j].at = "init" /\ slot[j].child = c

Channels == inbox \in [Child -> Seq(InMsg)] /\ outbox \in [Child -> Seq(OutMsg)] /\ effects \in [Job -> Seq(EffMsg)]

\* The children are made in order, and one that is not alive reads nothing.
Unmade == \A c \in Child : /\ c > made => proc[c].status = "none" /\ outbox[c] = <<>>
                           /\ c <= made => proc[c].status # "none"
                           /\ ~Alive(c) => inbox[c] = <<>>

NotBegun == \A j \in Job : slot[j].at \in {"off", "init"} =>
              ~slot[j].busy /\ slot[j].by = NoJob /\ slot[j].got = {} /\ effects[j] = <<>>

\* The pool: one call at a time has a child, and what is retained has a call under way.
Pooled ==
  /\ OnePlace /\ NoneDead /\ ToSet(free) \subseteq 1 .. made
  /\ \A c \in retained : \E j \in Job : slot[j].at = "run" /\ slot[j].child = c

\* A run asks something only once Init was answered.
Asked == \A q \in queries : q.child <= made /\ ~Waiting(q.child)

InitFirst ==
  \A c \in Child : IF Waiting(c) THEN FirstWords(inbox[c], outbox[c], proc[c].job) ELSE NoInit(inbox[c], outbox[c])

Lines == \A c \in Child : Line(inbox[c], outbox[c], proc[c].job, BusyRuns, wanted)

\* What a channel says of a job, it says to the child the job was given to.
Where ==
  \A c \in Child : \A j \in (About(c) \union CancelsOf(inbox[c])) \ {NoJob} :
    slot[j].child = c /\ slot[j].at \notin {"off", "init"}

\* A run that came to an idle child has its own messages only.
OwnRun(j) ==
  /\ slot[j].by \in {j, NoJob} /\ slot[j].got \subseteq {j} /\ JobsOf(effects[j]) \subseteq {j}
  /\ slot[j].at = "run" => About(slot[j].child) \subseteq {j, NoJob}

\* When its end is on the chain, or has resolved it, there is nothing more of it.
Chained(j) ==
  /\ LastWord(effects[j])
  /\ FinalsOf(effects[j]) # {} \/ (slot[j].at = "resolved" /\ slot[j].by = j) => j \notin About(slot[j].child)
  /\ slot[j].at = "resolved" /\ slot[j].by = j => effects[j] = <<>>

Runs1 == \A j \in Job : slot[j].busy \/ (OwnRun(j) /\ Chained(j))

IInv == /\ TypeOK /\ Channels /\ Unmade /\ NotBegun /\ Pooled /\ Asked
        /\ InitFirst /\ Lines /\ Where /\ Runs1 /\ AbortsItsOwn

-----------------------------------------------------------------------------
(* Channels.                                                               *)

LEMMA Emptied ==
  /\ JobsOf(<<>>) = {} /\ StartsOf(<<>>) = {} /\ CancelsOf(<<>>) = {} /\ FinalsOf(<<>>) = {} /\ WordsOf(<<>>) = {}
  /\ LastWord(<<>>) /\ StartsOnce(<<>>) /\ \A R : CancelsLate(<<>>, R)
BY DEF JobsOf, StartsOf, CancelsOf, FinalsOf, WordsOf, LastWord, StartsOnce, CancelsLate

\* A message at the end of a channel.
LEMMA Appended ==
  ASSUME NEW S, NEW s \in Seq(S), NEW m \in S
  PROVE  LET t == Append(s, m)
         IN  /\ t \in Seq(S) /\ t # <<>> /\ Len(t) = Len(s) + 1
             /\ JobsOf(t) = JobsOf(s) \union {m.job}
             /\ StartsOf(t) = StartsOf(s) \union (IF m.cmd = "start" THEN {m.job} ELSE {})
             /\ CancelsOf(t) = CancelsOf(s) \union (IF m.cmd = "cancel" THEN {m.job} ELSE {})
             /\ FinalsOf(t) = FinalsOf(s) \union (IF m.cmd \in Final THEN {m.job} ELSE {})
             /\ WordsOf(t) = WordsOf(s) \union {m.cmd}
<1> DEFINE t == Append(s, m)
<1>1. t \in Seq(S) /\ t # <<>> /\ Len(t) = Len(s) + 1 /\ t[Len(s) + 1] = m /\ \A i \in 1 .. Len(s) : t[i] = s[i]
  BY AppendProperties
<1>2. DOMAIN s = 1 .. Len(s) /\ DOMAIN t = 1 .. Len(s) + 1 /\ Len(s) \in Nat
  BY <1>1, LenProperties
<1> HIDE DEF t
<1>3. DOMAIN t = DOMAIN s \union {Len(s) + 1}
  BY <1>2
<1>4. JobsOf(t) = JobsOf(s) \union {m.job} /\ WordsOf(t) = WordsOf(s) \union {m.cmd}
  BY <1>1, <1>2, <1>3 DEF JobsOf, WordsOf
<1>5. StartsOf(t) = StartsOf(s) \union (IF m.cmd = "start" THEN {m.job} ELSE {})
  BY <1>1, <1>2, <1>3 DEF StartsOf
<1>6. CancelsOf(t) = CancelsOf(s) \union (IF m.cmd = "cancel" THEN {m.job} ELSE {})
  BY <1>1, <1>2, <1>3 DEF CancelsOf
<1>7. FinalsOf(t) = FinalsOf(s) \union (IF m.cmd \in Final THEN {m.job} ELSE {})
  BY <1>1, <1>2, <1>3 DEF FinalsOf
<1> QED BY <1>1, <1>4, <1>5, <1>6, <1>7 DEF t

LEMMA AppendedInOrder ==
  ASSUME NEW S, NEW s \in Seq(S), NEW m \in S
  PROVE  LET t == Append(s, m)
         IN  /\ LastWord(s) /\ m.job \notin FinalsOf(s) => LastWord(t)
             /\ StartsOnce(s) /\ (m.cmd = "start" => m.job \notin StartsOf(s)) => StartsOnce(t)
             /\ \A R : CancelsLate(s, R) /\ (m.cmd = "cancel" => m.job \in R \/ StartsOf(s) \subseteq {m.job})
                         => CancelsLate(t, R)
<1> DEFINE t == Append(s, m)
<1>1. t \in Seq(S) /\ Len(t) = Len(s) + 1 /\ t[Len(s) + 1] = m /\ \A i \in 1 .. Len(s) : t[i] = s[i]
  BY AppendProperties
<1>2. DOMAIN s = 1 .. Len(s) /\ DOMAIN t = 1 .. Len(s) + 1 /\ Len(s) \in Nat
  BY <1>1, LenProperties
<1> HIDE DEF t
<1>3. \A i \in DOMAIN t : (i \in DOMAIN s /\ t[i] = s[i]) \/ (i = Len(s) + 1 /\ t[i] = m)
  BY <1>1, <1>2
<1>4. \A i, k \in DOMAIN t : i < k => i \in DOMAIN s
  BY <1>2
<1>5. LastWord(s) /\ m.job \notin FinalsOf(s) => LastWord(t)
  BY <1>3, <1>4 DEF LastWord, FinalsOf
<1>6. StartsOnce(s) /\ (m.cmd = "start" => m.job \notin StartsOf(s)) => StartsOnce(t)
  BY <1>3 DEF StartsOnce, StartsOf
<1>7. ASSUME NEW R, CancelsLate(s, R), m.cmd = "cancel" => m.job \in R \/ StartsOf(s) \subseteq {m.job}
      PROVE  CancelsLate(t, R)
  BY <1>3, <1>4, <1>7 DEF CancelsLate, StartsOf
<1> QED BY <1>5, <1>6, <1>7 DEF t

\* The first message is read.
LEMMA TailHas ==
  ASSUME NEW S, NEW s \in Seq(S), s # <<>>
  PROVE  LET t == Tail(s)
         IN  /\ t \in Seq(S) /\ Head(s) \in S /\ Len(t) = Len(s) - 1 /\ Len(s) \in Nat
             /\ JobsOf(s) = JobsOf(t) \union {Head(s).job}
             /\ StartsOf(s) = StartsOf(t) \union (IF Head(s).cmd = "start" THEN {Head(s).job} ELSE {})
             /\ CancelsOf(s) = CancelsOf(t) \union (IF Head(s).cmd = "cancel" THEN {Head(s).job} ELSE {})
             /\ FinalsOf(s) = FinalsOf(t) \union (IF Head(s).cmd \in Final THEN {Head(s).job} ELSE {})
             /\ WordsOf(s) = WordsOf(t) \union {Head(s).cmd}
<1> DEFINE t == Tail(s)
<1>1. t \in Seq(S) /\ Head(s) \in S /\ Head(s) = s[1] /\ Len(t) = Len(s) - 1 /\ \A i \in 1 .. Len(t) : t[i] = s[i + 1]
  BY HeadTailProperties
<1>2. DOMAIN s = 1 .. Len(s) /\ DOMAIN t = 1 .. Len(s) - 1 /\ Len(s) \in Nat \ {0}
  BY <1>1, LenProperties, EmptySeq
<1> HIDE DEF t
<1>3. /\ 1 \in DOMAIN s /\ s[1] = Head(s)
      /\ \A k \in DOMAIN t : \E i \in DOMAIN s : s[i] = t[k]
      /\ \A i \in DOMAIN s : s[i] = Head(s) \/ \E k \in DOMAIN t : t[k] = s[i]
  <2>1. \A k \in DOMAIN t : k + 1 \in DOMAIN s /\ s[k + 1] = t[k]
    BY <1>1, <1>2
  <2>2. \A i \in DOMAIN s : i = 1 \/ (i - 1 \in DOMAIN t /\ t[i - 1] = s[(i - 1) + 1] /\ (i - 1) + 1 = i)
    BY <1>1, <1>2
  <2>3. \A k \in DOMAIN t : \E i \in DOMAIN s : s[i] = t[k]
    BY <2>1
  <2>4. ASSUME NEW i \in DOMAIN s, s[i] # Head(s)
        PROVE  \E k \in DOMAIN t : t[k] = s[i]
    <3>1. i - 1 \in DOMAIN t /\ t[i - 1] = s[i]
      BY <1>1, <2>2, <2>4
    <3> QED BY <3>1
  <2>5. 1 \in DOMAIN s /\ s[1] = Head(s)
    BY <1>1, <1>2
  <2> QED BY <2>3, <2>4, <2>5
<1>4. JobsOf(s) = JobsOf(t) \union {Head(s).job} /\ WordsOf(s) = WordsOf(t) \union {Head(s).cmd}
  BY <1>3 DEF JobsOf, WordsOf
<1>5. StartsOf(s) = StartsOf(t) \union (IF Head(s).cmd = "start" THEN {Head(s).job} ELSE {})
  BY <1>3 DEF StartsOf
<1>6. CancelsOf(s) = CancelsOf(t) \union (IF Head(s).cmd = "cancel" THEN {Head(s).job} ELSE {})
  BY <1>3 DEF CancelsOf
<1>7. FinalsOf(s) = FinalsOf(t) \union (IF Head(s).cmd \in Final THEN {Head(s).job} ELSE {})
  BY <1>3 DEF FinalsOf
<1> QED BY <1>1, <1>2, <1>4, <1>5, <1>6, <1>7 DEF t

LEMMA TailInOrder ==
  ASSUME NEW S, NEW s \in Seq(S), s # <<>>
  PROVE  LET t == Tail(s)
         IN  /\ LastWord(s) => LastWord(t) /\ (Head(s).cmd \in Final => Head(s).job \notin JobsOf(t))
             /\ StartsOnce(s) => StartsOnce(t) /\ (Head(s).cmd = "start" => Head(s).job \notin StartsOf(t))
             /\ \A R : CancelsLate(s, R) =>
                  CancelsLate(t, R) /\ (Head(s).cmd = "start" => \A k \in CancelsOf(t) : k \in R \/ k = Head(s).job)
<1> DEFINE t == Tail(s)
<1>1. t \in Seq(S) /\ Head(s) \in S /\ Head(s) = s[1] /\ Len(t) = Len(s) - 1 /\ \A i \in 1 .. Len(t) : t[i] = s[i + 1]
  BY HeadTailProperties
<1>2. DOMAIN s = 1 .. Len(s) /\ DOMAIN t = 1 .. Len(s) - 1 /\ Len(s) \in Nat \ {0}
  BY <1>1, LenProperties, EmptySeq
<1> HIDE DEF t
<1>3. /\ 1 \in DOMAIN s /\ \A i \in DOMAIN t : i + 1 \in DOMAIN s /\ t[i] = s[i + 1] /\ 1 < i + 1 /\ i + 1 # 1
      /\ \A i, k \in DOMAIN t : /\ i < k => i + 1 < k + 1
                                /\ i + 1 = k + 1 => i = k
  BY <1>1, <1>2
<1>4. LastWord(s) => LastWord(t) /\ (Head(s).cmd \in Final => Head(s).job \notin JobsOf(t))
  BY <1>1, <1>3 DEF LastWord, JobsOf
<1>5. StartsOnce(s) => StartsOnce(t) /\ (Head(s).cmd = "start" => Head(s).job \notin StartsOf(t))
  BY <1>1, <1>3 DEF StartsOnce, StartsOf
<1>6. ASSUME NEW R, CancelsLate(s, R)
      PROVE  CancelsLate(t, R) /\ (Head(s).cmd = "start" => \A k \in CancelsOf(t) : k \in R \/ k = Head(s).job)
  BY <1>1, <1>3, <1>6 DEF CancelsLate, CancelsOf
<1> QED BY <1>4, <1>5, <1>6 DEF t

\* The last free child is taken out, one is put back, and one is taken out wherever it is.
LEMMA FreeAppended ==
  ASSUME NEW S, NEW s \in Seq(S), NEW c \in S \ ToSet(s), IsInjective(s)
  PROVE  Append(s, c) \in Seq(S) /\ ToSet(Append(s, c)) = ToSet(s) \union {c} /\ IsInjective(Append(s, c))
<1> DEFINE t == Append(s, c)
<1>1. t \in Seq(S) /\ Len(t) = Len(s) + 1 /\ t[Len(s) + 1] = c /\ \A i \in 1 .. Len(s) : t[i] = s[i]
  BY AppendProperties
<1>2. DOMAIN s = 1 .. Len(s) /\ DOMAIN t = 1 .. Len(s) + 1 /\ Len(s) \in Nat
  BY <1>1, LenProperties
<1> HIDE DEF t
<1>3. \A i \in DOMAIN t : (i \in DOMAIN s /\ t[i] = s[i]) \/ (i = Len(s) + 1 /\ t[i] = c)
  BY <1>1, <1>2
<1>4. ToSet(t) = ToSet(s) \union {c}
  BY <1>1, <1>2, <1>3 DEF ToSet
<1>5. IsInjective(t)
  BY <1>3 DEF IsInjective, ToSet
<1> QED BY <1>1, <1>4, <1>5 DEF t

LEMMA FreeFront ==
  ASSUME NEW S, NEW s \in Seq(S), s # <<>>, IsInjective(s)
  PROVE  /\ Front(s) \in Seq(S) /\ IsInjective(Front(s))
         /\ Last(s) \in ToSet(s) /\ ToSet(Front(s)) = ToSet(s) \ {Last(s)}
<1> DEFINE t == Front(s)
<1>1. DOMAIN s = 1 .. Len(s) /\ Len(s) \in Nat \ {0} /\ \A i \in 1 .. Len(s) : s[i] \in S
  BY LenProperties, EmptySeq, ElementOfSeq
<1>2. t \in Seq(S) /\ Len(t) = Len(s) - 1 /\ \A i \in 1 .. Len(s) - 1 : t[i] = s[i]
  <2>1. \A i \in 1 .. Len(s) - 1 : s[i] \in S
    BY <1>1
  <2> QED BY <1>1, <2>1, SubSeqProperties DEF Front
<1>3. DOMAIN t = 1 .. Len(s) - 1
  BY <1>2, LenProperties
<1> HIDE DEF t
<1>4. Len(s) \in DOMAIN s /\ \A i \in DOMAIN s : i = Len(s) \/ (i \in DOMAIN t /\ t[i] = s[i])
  BY <1>1, <1>2, <1>3
<1>5. \A i \in DOMAIN t : i \in DOMAIN s /\ i # Len(s) /\ t[i] = s[i]
  BY <1>1, <1>2, <1>3
<1>6. ToSet(t) = ToSet(s) \ {Last(s)} /\ Last(s) \in ToSet(s)
  BY <1>4, <1>5 DEF ToSet, Last, IsInjective
<1>7. IsInjective(t)
  BY <1>5 DEF IsInjective
<1> QED BY <1>2, <1>6, <1>7 DEF t

LEMMA FreeWithout ==
  ASSUME NEW S, NEW s \in Seq(S), NEW c, IsInjective(s)
  PROVE  /\ RemoveFirst(s, c) \in Seq(S) /\ IsInjective(RemoveFirst(s, c))
         /\ ToSet(RemoveFirst(s, c)) = ToSet(s) \ {c}
<1>1. DOMAIN s = 1 .. Len(s) /\ Len(s) \in Nat /\ \A i \in 1 .. Len(s) : s[i] \in S
  BY LenProperties, ElementOfSeq
<1>2. CASE c \notin ToSet(s)
  <2>1. RemoveFirst(s, c) = s
    BY <1>1, <1>2 DEF RemoveFirst, ToSet
  <2> QED BY <1>2, <2>1
<1>3. CASE c \in ToSet(s)
  <2>1. PICK n \in 1 .. Len(s) : s[n] = c
    BY <1>1, <1>3 DEF ToSet
  <2>2. SelectInSeq(s, LAMBDA v : v = c) = n
    <3>1. {i \in 1 .. Len(s) : s[i] = c} = {n}
      BY <1>1, <2>1 DEF IsInjective
    <3> QED BY <3>1 DEF SelectInSeq, Min
  <2> DEFINE a == SubSeq(s, 1, n - 1)
             b == SubSeq(s, n + 1, Len(s))
             t == a \o b
  <2>3. RemoveFirst(s, c) = t
    BY <2>1, <2>2 DEF RemoveFirst, RemoveAt
  <2>4. /\ a \in Seq(S) /\ Len(a) = n - 1 /\ \A i \in 1 .. n - 1 : a[i] = s[i]
    <3>1. \A i \in 1 .. n - 1 : s[i] \in S
      BY <1>1
    <3> QED BY <3>1, SubSeqProperties
  <2>5. /\ b \in Seq(S) /\ Len(b) = Len(s) - n /\ \A i \in 1 .. Len(s) - n : b[i] = s[n + i]
    <3>1. \A i \in n + 1 .. Len(s) : s[i] \in S
      BY <1>1
    <3>2. \A i \in 1 .. Len(s) - (n + 1) + 1 : b[i] = s[n + 1 + i - 1]
      BY <1>1, <3>1, SubSeqProperties
    <3>3. b \in Seq(S) /\ Len(b) = IF n + 1 <= Len(s) THEN Len(s) - (n + 1) + 1 ELSE 0
      BY <1>1, <3>1, SubSeqProperties
    <3> HIDE DEF b
    <3>4. Len(b) = Len(s) - n
      <4>1. Len(s) \in Nat /\ n \in Nat /\ n <= Len(s)
        BY <1>1
      <4>2. CASE n + 1 <= Len(s)
        BY <3>3, <4>1, <4>2
      <4>3. CASE ~(n + 1 <= Len(s))
        BY <3>3, <4>1, <4>3
      <4> QED BY <4>2, <4>3
    <3>5. ASSUME NEW i \in 1 .. Len(s) - n
          PROVE  b[i] = s[n + i]
      <4>1. i \in 1 .. Len(s) - (n + 1) + 1 /\ n + 1 + i - 1 = n + i
        BY <1>1, <2>1
      <4> QED BY <3>2, <4>1
    <3> QED BY <3>3, <3>4, <3>5
  <2> HIDE DEF a, b
  <2>6. /\ t \in Seq(S) /\ Len(t) = Len(s) - 1
        /\ \A i \in 1 .. Len(s) - 1 : t[i] = IF i <= n - 1 THEN a[i] ELSE b[i - (n - 1)]
    <3>1. t \in Seq(S) /\ Len(t) = Len(a) + Len(b)
          /\ \A i \in 1 .. Len(a) + Len(b) : t[i] = IF i <= Len(a) THEN a[i] ELSE b[i - Len(a)]
      BY <2>4, <2>5, ConcatProperties
    <3> HIDE DEF t
    <3>2. Len(a) + Len(b) = Len(s) - 1
      BY <1>1, <2>1, <2>4, <2>5
    <3> QED BY <2>4, <3>1, <3>2
  <2>7. DOMAIN t = 1 .. Len(s) - 1
    BY <2>6, LenProperties
  <2> HIDE DEF t
  <2>8. \A i \in 1 .. Len(s) - 1 : t[i] = IF i < n THEN s[i] ELSE s[i + 1]
    BY <1>1, <2>4, <2>5, <2>6
  <2>9. \A i \in DOMAIN t : \E k \in DOMAIN s \ {n} : t[i] = s[k] /\ (k = i \/ k = i + 1) /\ (k = i <=> i < n)
    BY <1>1, <2>7, <2>8
  <2>10. \A k \in DOMAIN s \ {n} : \E i \in DOMAIN t : t[i] = s[k]
    <3> SUFFICES ASSUME NEW k \in 1 .. Len(s), k # n PROVE \E i \in 1 .. Len(s) - 1 : t[i] = s[k]
      BY <1>1, <2>7
    <3>1. CASE k < n
      BY <1>1, <2>8, <3>1
    <3>2. CASE k > n
      <4>1. k - 1 \in 1 .. Len(s) - 1 /\ ~(k - 1 < n) /\ (k - 1) + 1 = k
        BY <1>1, <3>2
      <4> QED BY <2>8, <4>1
    <3> QED BY <3>1, <3>2
  <2>11. ToSet(t) = ToSet(s) \ {c}
    BY <1>1, <2>1, <2>9, <2>10 DEF ToSet, IsInjective
  <2>12. IsInjective(t)
    <3> SUFFICES ASSUME NEW i \in DOMAIN t, NEW k \in DOMAIN t, t[i] = t[k] PROVE i = k
      BY DEF IsInjective
    <3>1. i \in 1 .. Len(s) - 1 /\ k \in 1 .. Len(s) - 1
      BY <2>7
    <3>2. (IF i < n THEN i ELSE i + 1) = (IF k < n THEN k ELSE k + 1)
      BY <1>1, <2>8, <3>1 DEF IsInjective
    <3> QED BY <1>1, <3>1, <3>2
  <2> QED BY <2>3, <2>6, <2>11, <2>12
<1> QED BY <1>2, <1>3

-----------------------------------------------------------------------------
(* Steps after which there is no more in the channels than before.          *)

LEMMA Zero == NoJob \notin Job /\ NoChild \notin Child /\ Job \subseteq Nat /\ Child \subseteq Nat
BY SandboxAssumption DEF NoJob, NoChild, Job, Child

\* What the invariant says of the types.
LEMMA Types ==
  ASSUME IInv
  PROVE  /\ free \in Seq(Child) /\ retained \subseteq 1 .. made /\ made \in 0 .. MaxChildren /\ made \in Nat
         /\ proc \in [Child -> ProcType]
         /\ \A c \in Child : proc[c].job # NoJob => proc[c].status \in {"started", "terminating"}
         /\ gone \subseteq {c \in 1 .. made : proc[c].status = "dead"}
         /\ slot \in [Job -> SlotType]
         /\ \A j \in Job : slot[j].at # "off" => slot[j].child \in 1 .. made
         /\ 1 .. made \subseteq Child /\ gone \subseteq Child
         /\ queries \subseteq [call : Job, run : Job, child : Child]
         /\ inbox \in [Child -> Seq(InMsg)] /\ outbox \in [Child -> Seq(OutMsg)] /\ effects \in [Job -> Seq(EffMsg)]
<1>1. MaxChildren \in Nat
  BY SandboxAssumption
<1>2. TypeOK /\ Channels
  BY DEF IInv
<1>3. made \in Nat /\ 1 .. made \subseteq Child
  BY <1>1, <1>2 DEF TypeOK, Child
<1> QED BY <1>2, <1>3 DEF TypeOK, Channels, ProcType, SlotType

\* The calls stay as they are, or settle.
SlotsStay ==
  \A j \in Job : /\ slot'[j].child = slot[j].child /\ slot'[j].busy = slot[j].busy
                 /\ \/ slot'[j].at = slot[j].at
                    \/ slot[j].at \in {"init", "run"} /\ slot'[j].at \in {"resolved", "rejected"}

\* What a step leaves of a run that came to an idle child.
OwnAfter(j) ==
  slot'[j].by \in {j, NoJob} /\ slot'[j].got \subseteq {j} /\ JobsOf(effects'[j]) \subseteq {j} /\ Chained(j)'

LEMMA Shrinks ==
  ASSUME IInv, SlotsStay,
         \A c \in Child : /\ About(c)' \subseteq About(c) \union {NoJob}
                          /\ CancelsOf(inbox'[c]) \subseteq CancelsOf(inbox[c]),
         \A j \in Job : slot[j].busy \/ OwnAfter(j)
  PROVE  Where' /\ Runs1'
<1>1. Where'
  <2> SUFFICES ASSUME NEW c \in Child, NEW j, j \in (About(c)' \union CancelsOf(inbox'[c])) \ {NoJob}
               PROVE  slot'[j].child = c /\ slot'[j].at \notin {"off", "init"}
    BY DEF Where
  <2>1. j \in (About(c) \union CancelsOf(inbox[c])) \ {NoJob}
    OBVIOUS
  <2>2. slot[j].child = c /\ slot[j].at \notin {"off", "init"}
    BY <2>1 DEF IInv, Where
  <2>3. j \in Job
    <3>1. ASSUME NEW S, NEW s \in Seq(S), \A m \in S : m.job \in Job \union {NoJob}
          PROVE  (JobsOf(s) \union StartsOf(s) \union CancelsOf(s)) \subseteq Job \union {NoJob}
      <4>1. \A i \in DOMAIN s : s[i].job \in Job \union {NoJob}
        BY <3>1, LenProperties, ElementOfSeq
      <4> QED BY <4>1 DEF JobsOf, StartsOf, CancelsOf
    <3>2. (\A m \in InMsg : m.job \in Job \union {NoJob}) /\ (\A m \in OutMsg : m.job \in Job \union {NoJob})
      BY DEF InMsg, OutMsg
    <3>3. inbox[c] \in Seq(InMsg) /\ outbox[c] \in Seq(OutMsg) /\ proc[c].job \in Job \union {NoJob}
      BY Types DEF ProcType
    <3>4. JobsOf(outbox[c]) \subseteq Job \union {NoJob} /\ StartsOf(inbox[c]) \union CancelsOf(inbox[c]) \subseteq Job \union {NoJob}
      BY <3>1, <3>2, <3>3
    <3> QED BY <2>1, <3>3, <3>4 DEF About
  <2> QED BY <2>2, <2>3 DEF SlotsStay
<1>2. Runs1'
  <2> SUFFICES ASSUME NEW j \in Job, ~slot[j].busy PROVE OwnRun(j)' /\ Chained(j)'
    BY DEF Runs1, SlotsStay
  <2>1. slot'[j].at = "run" => slot[j].at = "run" /\ slot'[j].child = slot[j].child /\ slot[j].child \in Child
    BY Types DEF SlotsStay
  <2>2. ASSUME slot'[j].at = "run"
        PROVE  About(slot[j].child)' \subseteq {j, NoJob}
    <3>1. About(slot[j].child) \subseteq {j, NoJob}
      BY <2>1, <2>2 DEF IInv, Runs1, OwnRun
    <3>2. ASSUME NEW c, c = slot[j].child
          PROVE  About(c)' \subseteq {j, NoJob}
      BY <2>1, <2>2, <3>1, <3>2
    <3>3. PICK c : c = slot[j].child
      OBVIOUS
    <3>4. c = slot'[j].child
      BY <2>1, <2>2, <3>3
    <3> QED BY <3>2, <3>3, <3>4 DEF About
  <2>3. OwnAfter(j)
    OBVIOUS
  <2> QED BY <2>1, <2>2, <2>3 DEF OwnRun, OwnAfter
<1> QED BY <1>1, <1>2

-----------------------------------------------------------------------------
(* The two channels of a child.                                            *)

LEMMA JobsIn ==
  /\ \A in \in Seq(InMsg) : /\ JobsOf(in) \subseteq Job /\ StartsOf(in) \subseteq JobsOf(in)
                            /\ CancelsOf(in) \subseteq JobsOf(in)
  /\ \A out \in Seq(OutMsg) : FinalsOf(out) \subseteq JobsOf(out) \intersect Job /\ JobsOf(out) \subseteq Job \union {NoJob}
<1>1. ASSUME NEW in \in Seq(InMsg)
      PROVE  JobsOf(in) \subseteq Job /\ StartsOf(in) \subseteq JobsOf(in) /\ CancelsOf(in) \subseteq JobsOf(in)
  <2>1. \A i \in DOMAIN in : in[i].job \in Job
    <3>1. \A i \in DOMAIN in : in[i] \in InMsg
      BY LenProperties, ElementOfSeq
    <3> QED BY <3>1 DEF InMsg
  <2> QED BY <2>1 DEF JobsOf, StartsOf, CancelsOf
<1>2. ASSUME NEW out \in Seq(OutMsg)
      PROVE  FinalsOf(out) \subseteq JobsOf(out) \intersect Job /\ JobsOf(out) \subseteq Job \union {NoJob}
  <2>1. \A i \in DOMAIN out : out[i].job \in Job \union {NoJob} /\ (out[i].cmd \in Final => out[i].job \in Job)
    <3>1. \A i \in DOMAIN out : out[i] \in OutMsg
      BY LenProperties, ElementOfSeq
    <3>2. \A m \in OutMsg : m.job \in Job \union {NoJob} /\ (m.cmd \in Final => m.job \in Job)
      BY DEF OutMsg, InitWords, Final
    <3> QED BY <3>1, <3>2
  <2> QED BY <2>1 DEF JobsOf, FinalsOf
<1> QED BY <1>1, <1>2

\* The child reads, starts a job, says something, stops, and is not sent anything any more.
LEMMA LineReads ==
  ASSUME NEW in \in Seq(InMsg), NEW out, NEW run, NEW R, NEW W, in # <<>>, Line(in, out, run, R, W)
  PROVE  Line(Tail(in), out, run, R, W)
<1>1. StartsOf(Tail(in)) \subseteq StartsOf(in) /\ CancelsOf(Tail(in)) \subseteq CancelsOf(in)
  BY TailHas
<1>2. StartsOnce(Tail(in)) /\ CancelsLate(Tail(in), R)
  BY TailInOrder DEF Line
<1> QED BY <1>1, <1>2 DEF Line

LEMMA LineStarts ==
  ASSUME NEW in \in Seq(InMsg), NEW out \in Seq(OutMsg), NEW run, NEW R, NEW W, in # <<>>,
         Line(in, out, run, R, W), Head(in).cmd = "start"
  PROVE  Line(Tail(in), out, Head(in).job, R, W)
<1>1. /\ StartsOf(in) = StartsOf(Tail(in)) \union {Head(in).job}
      /\ CancelsOf(Tail(in)) \subseteq CancelsOf(in)
  BY TailHas
<1>2. /\ StartsOnce(Tail(in)) /\ CancelsLate(Tail(in), R) /\ Head(in).job \notin StartsOf(Tail(in))
      /\ \A k \in CancelsOf(Tail(in)) : k \in R \/ k = Head(in).job
  BY TailInOrder DEF Line
<1>3. Head(in).job \notin FinalsOf(out)
  BY <1>1, JobsIn DEF Line
<1> QED BY <1>1, <1>2, <1>3 DEF Line

LEMMA LineSays ==
  ASSUME NEW in, NEW out \in Seq(OutMsg), NEW run, NEW R, NEW W, Line(in, out, run, R, W),
         NEW m \in OutMsg, m.job \notin FinalsOf(out) \union StartsOf(in), m.cmd \in Final => m.job # run
  PROVE  Line(in, Append(out, m), run, R, W)
<1>1. /\ JobsOf(Append(out, m)) = JobsOf(out) \union {m.job}
      /\ FinalsOf(Append(out, m)) = FinalsOf(out) \union (IF m.cmd \in Final THEN {m.job} ELSE {})
  BY Appended
<1>2. LastWord(Append(out, m))
  BY AppendedInOrder DEF Line
<1> QED BY <1>1, <1>2 DEF Line

LEMMA LineStops ==
  ASSUME NEW in \in Seq(InMsg), NEW out \in Seq(OutMsg), NEW run, NEW R, NEW W, Line(in, out, run, R, W)
  PROVE  Line(in, out, NoJob, R, W) /\ Line(<<>>, out, NoJob, R, W)
<1>1. NoJob \notin StartsOf(in) /\ NoJob \notin FinalsOf(out)
  BY JobsIn, Zero
<1> QED BY <1>1, Emptied DEF Line

\* The parent hears what is first, and sends something.
LEMMA LineHeard ==
  ASSUME NEW in, NEW out \in Seq(OutMsg), NEW run, NEW R, NEW W, out # <<>>, Line(in, out, run, R, W)
  PROVE  /\ Line(in, Tail(out), run, R, W)
         /\ Head(out).cmd \in Final => Head(out).job \notin JobsOf(Tail(out)) \union {run} \union StartsOf(in)
<1>1. JobsOf(out) = JobsOf(Tail(out)) \union {Head(out).job}
      /\ FinalsOf(out) = FinalsOf(Tail(out)) \union (IF Head(out).cmd \in Final THEN {Head(out).job} ELSE {})
  BY TailHas
<1>2. LastWord(Tail(out)) /\ (Head(out).cmd \in Final => Head(out).job \notin JobsOf(Tail(out)))
  BY TailInOrder DEF Line
<1> QED BY <1>1, <1>2 DEF Line

LEMMA LineSent ==
  ASSUME NEW in \in Seq(InMsg), NEW out, NEW run, NEW R, NEW W, Line(in, out, run, R, W), NEW m \in InMsg,
         m.cmd = "start" => m.job \notin StartsOf(in) \union JobsOf(out) \union {run},
         m.cmd = "cancel" => m.job \in W /\ (m.job \in R \/ (StartsOf(in) \subseteq {m.job} /\ run \in {NoJob, m.job}))
  PROVE  Line(Append(in, m), out, run, R, W)
<1>1. /\ StartsOf(Append(in, m)) = StartsOf(in) \union (IF m.cmd = "start" THEN {m.job} ELSE {})
      /\ CancelsOf(Append(in, m)) = CancelsOf(in) \union (IF m.cmd = "cancel" THEN {m.job} ELSE {})
  BY Appended
<1>2. StartsOnce(Append(in, m)) /\ CancelsLate(Append(in, m), R)
  BY AppendedInOrder DEF Line
<1> QED BY <1>1, <1>2 DEF Line

LEMMA LineGrows ==
  ASSUME NEW in, NEW out, NEW run, NEW R, NEW W, Line(in, out, run, R, W), NEW R1, NEW W1, R \subseteq R1, W \subseteq W1
  PROVE  Line(in, out, run, R1, W1)
<1>1. CancelsLate(in, R1)
  BY DEF Line, CancelsLate
<1> QED BY <1>1 DEF Line

-----------------------------------------------------------------------------
(* The steps of a child.                                                   *)

\* A child that is alive reads, runs and says something; nothing but it changes.
LEMMA ChildSteps ==
  ASSUME IInv, NEW c \in Child, Alive(c),
         proc' \in [Child -> ProcType], inbox' \in [Child -> Seq(InMsg)], outbox' \in [Child -> Seq(OutMsg)],
         \A d \in Child \ {c} : proc'[d] = proc[d] /\ inbox'[d] = inbox[d] /\ outbox'[d] = outbox[d],
         proc'[c].job # NoJob => proc'[c].status \in {"started", "terminating"},
         proc'[c].status # "none", proc'[c].status = "dead" => inbox'[c] = <<>>,
         (JobsOf(outbox'[c]) \union {proc'[c].job} \union StartsOf(inbox'[c])) \subseteq About(c) \union {NoJob},
         CancelsOf(inbox'[c]) \subseteq CancelsOf(inbox[c]),
         Line(inbox'[c], outbox'[c], proc'[c].job, BusyRuns, wanted),
         IF Waiting(c) THEN FirstWords(inbox'[c], outbox'[c], proc'[c].job) ELSE NoInit(inbox'[c], outbox'[c]),
         ran' \subseteq Job, aborted' \subseteq Job, AbortsItsOwn',
         UNCHANGED <<pool, gone, calls, clean, wanted>>
  PROVE  IInv'
<1> USE DEF pool, calls, clean
<1>1. c \in 1 .. made /\ c \notin gone /\ proc[c].status \notin {"none", "dead"}
  <2>1. proc[c].status \notin {"none", "dead"}
    BY DEF Alive
  <2>2. c \in Nat /\ made \in Nat /\ c >= 1
    BY Types DEF Child
  <2>3. ~(c > made)
    BY <2>1 DEF IInv, Unmade
  <2> QED BY <2>1, <2>2, <2>3, Types
<1>2. TypeOK'
  <2>1. TypeOK
    BY DEF IInv
  <2>2. \A d \in Child : proc'[d].job # NoJob => proc'[d].status \in {"started", "terminating"}
    BY Types
  <2>3. gone' \subseteq {d \in 1 .. made' : proc'[d].status = "dead"}
    <3>1. \A d \in gone : d \in Child \ {c} /\ d \in 1 .. made /\ proc[d].status = "dead"
      BY <1>1, Types
    <3> QED BY <3>1
  <2>4. UNION {ran', wanted', aborted'} \subseteq Job
    BY <2>1 DEF TypeOK
  <2>5. proc' \in [Child -> [status : {"none", "new", "idle", "started", "terminating", "errored", "dead"},
                             job : Job \union {NoJob}, waits : BOOLEAN]]
    BY DEF ProcType
  <2> QED BY <2>1, <2>2, <2>3, <2>4, <2>5 DEF TypeOK
<1>3. Channels'
  BY DEF IInv, Channels
<1>4. Unmade'
  <2> SUFFICES ASSUME NEW d \in Child
               PROVE  /\ d > made => proc'[d].status = "none" /\ outbox'[d] = <<>>
                      /\ d <= made => proc'[d].status # "none"
                      /\ proc'[d].status \in {"none", "dead"} => inbox'[d] = <<>>
    BY DEF Unmade, Alive
  <2>1. CASE d = c
    <3>1. c \in Nat /\ made \in Nat /\ c <= made
      BY <1>1, Types
    <3>2. ~(c > made)
      BY <3>1
    <3> QED BY <2>1, <3>2
  <2>2. CASE d # c
    BY <2>2 DEF IInv, Unmade, Alive
  <2> QED BY <2>1, <2>2
<1>5. NotBegun' /\ Pooled' /\ Asked' /\ AbortsItsOwn'
  <2>1. \A d \in Child : Waiting(d)' = Waiting(d)
    BY DEF Waiting
  <2>2. NotBegun'
    BY DEF IInv, NotBegun
  <2>3. Pooled' /\ Asked'
    <3>1. \A q \in queries : q.child \in Child
      BY Types
    <3> QED BY <2>1, <3>1 DEF IInv, Pooled, Asked, OnePlace, NoneDead
  <2> QED BY <2>2, <2>3
<1>6. InitFirst'
  <2>1. \A d \in Child : Waiting(d)' = Waiting(d)
    BY DEF Waiting
  <2>2. \A d \in Child : IF Waiting(d) THEN FirstWords(inbox'[d], outbox'[d], proc'[d].job) ELSE NoInit(inbox'[d], outbox'[d])
    BY DEF IInv, InitFirst
  <2> QED BY <2>1, <2>2 DEF InitFirst
<1>7. Lines'
  <2>1. BusyRuns' = BusyRuns
    BY DEF BusyRuns
  <2>2. \A d \in Child : Line(inbox'[d], outbox'[d], proc'[d].job, BusyRuns, wanted)
    BY DEF IInv, Lines
  <2> QED BY <2>1, <2>2 DEF Lines
<1>8. \A d \in Child : About(d)' \subseteq About(d) \union {NoJob} /\ CancelsOf(inbox'[d]) \subseteq CancelsOf(inbox[d])
  <2>1. ASSUME NEW d \in Child, d # c
        PROVE  About(d)' \subseteq About(d) \union {NoJob} /\ CancelsOf(inbox'[d]) \subseteq CancelsOf(inbox[d])
    BY <2>1 DEF About
  <2>2. About(c)' \subseteq About(c) \union {NoJob} /\ CancelsOf(inbox'[c]) \subseteq CancelsOf(inbox[c])
    BY DEF About
  <2> QED BY <2>1, <2>2
<1>9. ASSUME NEW j \in Job, ~slot[j].busy
      PROVE  OwnAfter(j)
  <2>1. OwnRun(j) /\ Chained(j)
    BY <1>9 DEF IInv, Runs1
  <2>2. FinalsOf(effects[j]) # {} \/ (slot[j].at = "resolved" /\ slot[j].by = j) => slot[j].child \in Child
    <3>1. FinalsOf(effects[j]) # {} \/ (slot[j].at = "resolved" /\ slot[j].by = j) => slot[j].at # "off"
      BY Emptied DEF IInv, NotBegun
    <3> QED BY <3>1, Types
  <2>3. ASSUME NEW d, d = slot[j].child, FinalsOf(effects[j]) # {} \/ (slot[j].at = "resolved" /\ slot[j].by = j)
        PROVE  j \notin About(d)'
    <3>1. j \notin About(d) \union {NoJob}
      BY <2>1, <2>3, Zero DEF Chained
    <3> QED BY <1>8, <2>2, <2>3, <3>1
  <2>4. PICK d : d = slot[j].child
    OBVIOUS
  <2>5. FinalsOf(effects[j]) # {} \/ (slot[j].at = "resolved" /\ slot[j].by = j) => j \notin About(d)'
    BY <2>3, <2>4
  <2> QED BY <2>1, <2>4, <2>5 DEF OwnAfter, OwnRun, Chained, About
<1>10. Where' /\ Runs1'
  <2>1. SlotsStay
    BY DEF SlotsStay
  <2> QED BY <1>8, <1>9, <2>1, Shrinks
<1> QED BY <1>2, <1>3, <1>4, <1>5, <1>6, <1>7, <1>10 DEF IInv

\* What a child reads, and how that leaves what it is to read.
LEMMA ReadFacts ==
  ASSUME IInv, NEW c \in Child, NEW cmd, Read(c, cmd)
  PROVE  /\ Alive(c) /\ inbox[c] \in Seq(InMsg) /\ inbox[c] # <<>> /\ Head(inbox[c]) \in InMsg /\ Head(inbox[c]).cmd = cmd
         /\ inbox' \in [Child -> Seq(InMsg)] /\ inbox'[c] = Tail(inbox[c]) /\ \A d \in Child \ {c} : inbox'[d] = inbox[d]
         /\ StartsOf(inbox'[c]) \subseteq StartsOf(inbox[c]) /\ CancelsOf(inbox'[c]) \subseteq CancelsOf(inbox[c])
         /\ cmd \in WordsOf(inbox[c]) /\ WordsOf(inbox'[c]) \subseteq WordsOf(inbox[c])
         /\ outbox[c] \in Seq(OutMsg) /\ proc[c] \in ProcType
         /\ Line(inbox[c], outbox[c], proc[c].job, BusyRuns, wanted)
         /\ cmd = "start" => Head(inbox[c]).job \in StartsOf(inbox[c])
         /\ cmd = "cancel" => Head(inbox[c]).job \in CancelsOf(inbox[c])
<1>1. /\ Alive(c) /\ inbox[c] \in Seq(InMsg) /\ inbox[c] # <<>> /\ Head(inbox[c]).cmd = cmd
      /\ inbox' = [inbox EXCEPT ![c] = Tail(@)] /\ inbox \in [Child -> Seq(InMsg)]
      /\ outbox[c] \in Seq(OutMsg) /\ proc[c] \in ProcType
  BY Types DEF Read
<1>2. /\ Tail(inbox[c]) \in Seq(InMsg) /\ Head(inbox[c]) \in InMsg
      /\ StartsOf(inbox[c]) = StartsOf(Tail(inbox[c])) \union (IF Head(inbox[c]).cmd = "start" THEN {Head(inbox[c]).job} ELSE {})
      /\ CancelsOf(inbox[c]) = CancelsOf(Tail(inbox[c])) \union (IF Head(inbox[c]).cmd = "cancel" THEN {Head(inbox[c]).job} ELSE {})
      /\ WordsOf(inbox[c]) = WordsOf(Tail(inbox[c])) \union {Head(inbox[c]).cmd}
  BY <1>1, TailHas
<1>3. inbox' \in [Child -> Seq(InMsg)] /\ inbox'[c] = Tail(inbox[c]) /\ \A d \in Child \ {c} : inbox'[d] = inbox[d]
  BY <1>1, <1>2
<1>4. Line(inbox[c], outbox[c], proc[c].job, BusyRuns, wanted)
  BY DEF IInv, Lines
<1> QED BY <1>1, <1>2, <1>3, <1>4

\* A child that was sent Init, and one that was not, in their words.
LEMMA WordsNow ==
  ASSUME IInv, NEW c \in Child
  PROVE  /\ Waiting(c) => FirstWords(inbox[c], outbox[c], proc[c].job)
         /\ ~Waiting(c) => NoInit(inbox[c], outbox[c])
         /\ WordsOf(inbox[c]) \subseteq {"init"} \/ ~Waiting(c)
<1>1. /\ Waiting(c) => FirstWords(inbox[c], outbox[c], proc[c].job)
      /\ ~Waiting(c) => NoInit(inbox[c], outbox[c])
  BY DEF IInv, InitFirst
<1> QED BY <1>1, Emptied DEF FirstWords

LEMMA SaysFacts ==
  ASSUME NEW c \in Child, NEW cmd, NEW job, Msg(cmd, job) \in OutMsg, outbox \in [Child -> Seq(OutMsg)], Says(c, cmd, job)
  PROVE  /\ outbox' \in [Child -> Seq(OutMsg)] /\ outbox'[c] = Append(outbox[c], Msg(cmd, job))
         /\ \A d \in Child \ {c} : outbox'[d] = outbox[d]
         /\ JobsOf(outbox'[c]) = JobsOf(outbox[c]) \union {job} /\ WordsOf(outbox'[c]) = WordsOf(outbox[c]) \union {cmd}
         /\ Len(outbox'[c]) = Len(outbox[c]) + 1
<1> DEFINE m == Msg(cmd, job)
<1>1. m.cmd = cmd /\ m.job = job
  BY DEF Msg
<1> HIDE DEF m
<1>2. /\ Append(outbox[c], m) \in Seq(OutMsg) /\ JobsOf(Append(outbox[c], m)) = JobsOf(outbox[c]) \union {m.job}
      /\ WordsOf(Append(outbox[c], m)) = WordsOf(outbox[c]) \union {m.cmd} /\ Len(Append(outbox[c], m)) = Len(outbox[c]) + 1
  <2>1. outbox[c] \in Seq(OutMsg) /\ m \in OutMsg
    BY DEF m
  <2> QED BY <2>1, Appended
<1>3. outbox' = [outbox EXCEPT ![c] = Append(outbox[c], m)]
  BY DEF Says, m
<1>4. /\ outbox' \in [Child -> Seq(OutMsg)] /\ outbox'[c] = Append(outbox[c], m)
      /\ \A d \in Child \ {c} : outbox'[d] = outbox[d]
  BY <1>2, <1>3
<1> QED BY <1>1, <1>2, <1>4 DEF m

\* A change of the child's own record.
LEMMA ProcSet ==
  ASSUME NEW c \in Child, proc \in [Child -> ProcType], NEW p \in ProcType, proc' = [proc EXCEPT ![c] = p]
  PROVE  proc' \in [Child -> ProcType] /\ proc'[c] = p /\ \A d \in Child \ {c} : proc'[d] = proc[d]
OBVIOUS

LEMMA InitChildStep ==
  ASSUME IInv, NEW c \in Child, InitChild(c)
  PROVE  IInv'
<1>1. Read(c, "init") /\ UNCHANGED <<pool, gone, calls, clean, notes>>
  BY DEF InitChild
<1>2. Waiting(c) /\ inbox[c] # <<>> /\ outbox[c] = <<>> /\ Len(inbox[c]) = 1 /\ proc[c].job = NoJob
  BY <1>1, ReadFacts, WordsNow DEF NoInit, FirstWords
<1>3. PICK st \in {"idle", "errored"}, w \in InitWords :
         proc' = [proc EXCEPT ![c].status = st] /\ Says(c, w, NoJob)
  BY DEF InitChild, InitWords
<1>4. Msg(w, NoJob) \in OutMsg /\ proc \in [Child -> ProcType] /\ outbox \in [Child -> Seq(OutMsg)]
  BY Types DEF OutMsg, Msg
<1>5. proc' \in [Child -> ProcType] /\ proc'[c].status = st /\ proc'[c].job = NoJob /\ \A d \in Child \ {c} : proc'[d] = proc[d]
  BY <1>2, <1>3, <1>4 DEF ProcType
<1>6. /\ outbox' \in [Child -> Seq(OutMsg)] /\ outbox'[c] = Append(outbox[c], Msg(w, NoJob))
      /\ \A d \in Child \ {c} : outbox'[d] = outbox[d]
      /\ JobsOf(outbox'[c]) = {NoJob} /\ WordsOf(outbox'[c]) = {w} /\ Len(outbox'[c]) = 1
  <2>1. Len(outbox[c]) = 0 /\ JobsOf(outbox[c]) = {} /\ WordsOf(outbox[c]) = {}
    BY <1>2, EmptySeq, Emptied
  <2>2. /\ outbox' \in [Child -> Seq(OutMsg)] /\ outbox'[c] = Append(outbox[c], Msg(w, NoJob))
        /\ \A d \in Child \ {c} : outbox'[d] = outbox[d]
        /\ JobsOf(outbox'[c]) = JobsOf(outbox[c]) \union {NoJob} /\ WordsOf(outbox'[c]) = WordsOf(outbox[c]) \union {w}
        /\ Len(outbox'[c]) = Len(outbox[c]) + 1
    BY <1>3, <1>4, SaysFacts
  <2> QED BY <2>1, <2>2
<1>7. inbox'[c] = <<>>
  <2>1. Tail(inbox[c]) \in Seq(InMsg) /\ Len(Tail(inbox[c])) = 0
    BY <1>1, <1>2, ReadFacts, TailHas
  <2> QED BY <1>1, <2>1, ReadFacts, EmptySeq
<1>8. Line(inbox'[c], outbox'[c], proc'[c].job, BusyRuns, wanted)
  <2>1. Line(<<>>, outbox[c], NoJob, BusyRuns, wanted)
    BY <1>1, ReadFacts, LineStops
  <2>2. Line(<<>>, Append(outbox[c], Msg(w, NoJob)), NoJob, BusyRuns, wanted)
    <3>1. Msg(w, NoJob).cmd \notin Final /\ Msg(w, NoJob).job = NoJob
      BY DEF Msg, Final, InitWords
    <3>2. FinalsOf(outbox[c]) = {} /\ StartsOf(<<>>) = {}
      BY <1>2, Emptied
    <3>3. outbox[c] \in Seq(OutMsg)
      BY <1>4
    <3> QED BY <1>4, <2>1, <3>1, <3>2, <3>3, LineSays
  <2>3. proc'[c].job = NoJob /\ inbox'[c] = <<>> /\ outbox'[c] = Append(outbox[c], Msg(w, NoJob))
    BY <1>5, <1>6, <1>7
  <2> QED BY <2>2, <2>3
<1>9. FirstWords(inbox'[c], outbox'[c], proc'[c].job)
  BY <1>5, <1>6, <1>7 DEF FirstWords
<1>10. AbortsItsOwn' /\ ran' \subseteq Job /\ aborted' \subseteq Job
  BY <1>1 DEF IInv, AbortsItsOwn, TypeOK, notes, calls
<1>11. JobsOf(outbox'[c]) \union {proc'[c].job} \union StartsOf(inbox'[c]) \subseteq About(c) \union {NoJob}
       /\ CancelsOf(inbox'[c]) \subseteq CancelsOf(inbox[c])
  BY <1>5, <1>6, <1>7, Emptied
<1>12. Alive(c) /\ inbox' \in [Child -> Seq(InMsg)] /\ \A d \in Child \ {c} : inbox'[d] = inbox[d]
  BY <1>1, ReadFacts
<1> QED BY <1>1, <1>2, <1>5, <1>6, <1>8, <1>9, <1>10, <1>11, <1>12, ChildSteps DEF notes

LEMMA StartStep ==
  ASSUME IInv, NEW c \in Child, Start(c)
  PROVE  IInv'
<1> DEFINE j == Head(inbox[c]).job
<1>1. Read(c, "start") /\ UNCHANGED <<pool, gone, calls, clean, notes>>
  BY DEF Start
<1>2. /\ ~Waiting(c) /\ j \in Job /\ j \in StartsOf(inbox[c]) /\ NoInit(inbox[c], outbox[c])
      /\ NoInit(inbox'[c], outbox[c])
  <2>1. "start" \in WordsOf(inbox[c]) /\ Head(inbox[c]) \in InMsg /\ j \in StartsOf(inbox[c])
    BY <1>1, ReadFacts
  <2>2. ~Waiting(c)
    BY <2>1, WordsNow
  <2> QED BY <1>1, <2>1, <2>2, WordsNow, ReadFacts DEF InMsg, NoInit
<1>3. AbortsItsOwn' /\ ran' \subseteq Job /\ aborted' \subseteq Job
  BY <1>1 DEF IInv, AbortsItsOwn, TypeOK, notes, calls
<1>4. /\ Alive(c) /\ inbox' \in [Child -> Seq(InMsg)] /\ \A d \in Child \ {c} : inbox'[d] = inbox[d]
      /\ CancelsOf(inbox'[c]) \subseteq CancelsOf(inbox[c]) /\ StartsOf(inbox'[c]) \subseteq StartsOf(inbox[c])
      /\ proc \in [Child -> ProcType] /\ outbox \in [Child -> Seq(OutMsg)] /\ proc[c] \in ProcType
  BY <1>1, ReadFacts, Types
<1>5. CASE proc[c].status = "idle"
  <2>1. proc' = [proc EXCEPT ![c].status = "started", ![c].job = j] /\ UNCHANGED outbox
    BY <1>5 DEF Start
  <2>2. /\ proc' \in [Child -> ProcType] /\ proc'[c].status = "started" /\ proc'[c].job = j
        /\ \A d \in Child \ {c} : proc'[d] = proc[d]
    BY <1>2, <1>4, <2>1 DEF ProcType
  <2>3. Line(inbox'[c], outbox'[c], proc'[c].job, BusyRuns, wanted)
    <3>1. /\ inbox[c] \in Seq(InMsg) /\ inbox[c] # <<>> /\ Head(inbox[c]).cmd = "start" /\ inbox'[c] = Tail(inbox[c])
          /\ outbox[c] \in Seq(OutMsg) /\ Line(inbox[c], outbox[c], proc[c].job, BusyRuns, wanted)
      BY <1>1, ReadFacts
    <3>2. Line(Tail(inbox[c]), outbox[c], j, BusyRuns, wanted)
      BY <3>1, LineStarts
    <3> QED BY <2>1, <2>2, <3>1, <3>2
  <2>4. JobsOf(outbox'[c]) \union {proc'[c].job} \union StartsOf(inbox'[c]) \subseteq About(c) \union {NoJob}
    BY <1>2, <1>4, <2>1, <2>2 DEF About
  <2> HIDE DEF j
  <2> QED BY <1>1, <1>2, <1>3, <1>4, <2>1, <2>2, <2>3, <2>4, ChildSteps DEF notes
<1>6. CASE proc[c].status # "idle"
  <2>1. Says(c, "error", j) /\ UNCHANGED proc
    BY <1>6 DEF Start
  <2>2. Msg("error", j) \in OutMsg /\ Msg("error", j).cmd = "error" /\ Msg("error", j).job = j
    BY <1>2 DEF OutMsg, Msg, Final
  <2>3. /\ outbox' \in [Child -> Seq(OutMsg)] /\ outbox'[c] = Append(outbox[c], Msg("error", j))
        /\ \A d \in Child \ {c} : outbox'[d] = outbox[d]
        /\ JobsOf(outbox'[c]) = JobsOf(outbox[c]) \union {j} /\ WordsOf(outbox'[c]) = WordsOf(outbox[c]) \union {"error"}
    BY <1>4, <2>1, <2>2, SaysFacts
  <2>4. /\ Line(inbox'[c], outbox[c], proc[c].job, BusyRuns, wanted)
        /\ j \notin FinalsOf(outbox[c]) \union StartsOf(inbox'[c]) \union {proc[c].job}
    <3>1. Line(inbox[c], outbox[c], proc[c].job, BusyRuns, wanted)
      BY <1>1, ReadFacts
    <3>2. j \notin StartsOf(Tail(inbox[c]))
      BY <1>1, <3>1, ReadFacts, TailInOrder DEF Line
    <3>3. FinalsOf(outbox[c]) \subseteq JobsOf(outbox[c])
      BY <1>4, JobsIn
    <3>4. j \notin FinalsOf(outbox[c]) \union {proc[c].job}
      BY <1>2, <3>1, <3>3 DEF Line
    <3>5. Line(Tail(inbox[c]), outbox[c], proc[c].job, BusyRuns, wanted)
      BY <1>1, <3>1, ReadFacts, LineReads
    <3> QED BY <1>1, <3>2, <3>4, <3>5, ReadFacts
  <2>5. Line(inbox'[c], outbox'[c], proc'[c].job, BusyRuns, wanted)
    <3>1. outbox[c] \in Seq(OutMsg)
      BY <1>4
    <3>2. Line(inbox'[c], Append(outbox[c], Msg("error", j)), proc[c].job, BusyRuns, wanted)
      BY <2>2, <2>4, <3>1, LineSays
    <3> QED BY <2>1, <2>3, <3>2
  <2>6. JobsOf(outbox'[c]) \union {proc'[c].job} \union StartsOf(inbox'[c]) \subseteq About(c) \union {NoJob}
    BY <1>2, <1>4, <2>1, <2>3 DEF About
  <2>7. NoInit(inbox'[c], outbox'[c])
    BY <1>2, <2>3 DEF NoInit, InitWords
  <2>8. /\ proc'[c].job # NoJob => proc'[c].status \in {"started", "terminating"}
        /\ proc'[c].status \notin {"none", "dead"}
    BY <1>4, <2>1, Types DEF Alive
  <2> HIDE DEF j
  <2> QED BY <1>1, <1>2, <1>3, <1>4, <2>1, <2>3, <2>5, <2>6, <2>7, <2>8, ChildSteps DEF notes
<1> QED BY <1>5, <1>6

LEMMA AbortsStep ==
  ASSUME IInv, NEW c \in Child, Aborts(c)
  PROVE  IInv'
<1> DEFINE j == Head(inbox[c]).job
<1>1. /\ Read(c, "cancel") /\ aborted' = aborted \union ({proc[c].job} \ {NoJob})
      /\ UNCHANGED <<proc, outbox, pool, gone, calls, clean, ran, wanted>>
  BY DEF Aborts
<1>2. /\ Alive(c) /\ inbox' \in [Child -> Seq(InMsg)] /\ \A d \in Child \ {c} : inbox'[d] = inbox[d]
      /\ CancelsOf(inbox'[c]) \subseteq CancelsOf(inbox[c]) /\ StartsOf(inbox'[c]) \subseteq StartsOf(inbox[c])
      /\ proc \in [Child -> ProcType] /\ outbox \in [Child -> Seq(OutMsg)] /\ proc[c] \in ProcType
      /\ proc[c].job # NoJob => proc[c].status \in {"started", "terminating"}
  BY <1>1, ReadFacts, Types
<1>3. ~Waiting(c) /\ NoInit(inbox'[c], outbox[c])
  <2>1. "cancel" \in WordsOf(inbox[c]) /\ WordsOf(inbox'[c]) \subseteq WordsOf(inbox[c])
    BY <1>1, ReadFacts
  <2>2. ~Waiting(c)
    BY <2>1, WordsNow
  <2> QED BY <2>1, <2>2, WordsNow DEF NoInit
<1>4. Line(inbox'[c], outbox[c], proc[c].job, BusyRuns, wanted)
  <2>1. /\ inbox[c] \in Seq(InMsg) /\ inbox[c] # <<>> /\ inbox'[c] = Tail(inbox[c])
        /\ Line(inbox[c], outbox[c], proc[c].job, BusyRuns, wanted)
    BY <1>1, ReadFacts
  <2> QED BY <2>1, LineReads
<1>5. AbortsItsOwn' /\ ran' \subseteq Job /\ aborted' \subseteq Job
  <2>1. j \in CancelsOf(inbox[c]) /\ Line(inbox[c], outbox[c], proc[c].job, BusyRuns, wanted)
    BY <1>1, ReadFacts
  <2>2. j \in wanted /\ (j \in BusyRuns \/ proc[c].job \in {NoJob, j})
    BY <2>1 DEF Line
  <2>3. \A k \in {proc[c].job} \ {NoJob} : k \in wanted \/ \E i \in wanted : slot[i].busy
    BY <2>2 DEF BusyRuns
  <2>4. {proc[c].job} \ {NoJob} \subseteq Job
    BY <1>2 DEF ProcType
  <2> QED BY <1>1, <2>3, <2>4 DEF IInv, AbortsItsOwn, TypeOK, calls
<1>6. JobsOf(outbox'[c]) \union {proc'[c].job} \union StartsOf(inbox'[c]) \subseteq About(c) \union {NoJob}
  BY <1>1, <1>2 DEF About
<1>7. UNCHANGED <<proc, outbox, pool, gone, calls, clean, wanted>> /\ proc[c].status \notin {"none", "dead"}
  BY <1>1, <1>2 DEF Alive
<1> QED BY <1>2, <1>3, <1>4, <1>5, <1>6, <1>7, ChildSteps

LEMMA AnsweredStep ==
  ASSUME IInv, NEW c \in Child, Answered(c)
  PROVE  IInv'
<1>1. /\ Read(c, "response") /\ proc' = [proc EXCEPT ![c].waits = @ /\ Head(inbox[c]).job # proc[c].job]
      /\ UNCHANGED <<outbox, pool, gone, calls, clean, notes>>
  BY DEF Answered
<1>2. /\ Alive(c) /\ inbox' \in [Child -> Seq(InMsg)] /\ \A d \in Child \ {c} : inbox'[d] = inbox[d]
      /\ CancelsOf(inbox'[c]) \subseteq CancelsOf(inbox[c]) /\ StartsOf(inbox'[c]) \subseteq StartsOf(inbox[c])
      /\ proc \in [Child -> ProcType] /\ outbox \in [Child -> Seq(OutMsg)] /\ proc[c] \in ProcType
      /\ proc[c].job # NoJob => proc[c].status \in {"started", "terminating"}
  BY <1>1, ReadFacts, Types
<1>3. /\ proc' \in [Child -> ProcType] /\ proc'[c].status = proc[c].status /\ proc'[c].job = proc[c].job
      /\ \A d \in Child \ {c} : proc'[d] = proc[d]
  <2>1. PICK b \in BOOLEAN : proc' = [proc EXCEPT ![c].waits = b]
    <3>1. (proc[c].waits /\ Head(inbox[c]).job # proc[c].job) \in BOOLEAN
      OBVIOUS
    <3>2. ASSUME NEW b, b = (proc[c].waits /\ Head(inbox[c]).job # proc[c].job)
          PROVE  proc' = [proc EXCEPT ![c].waits = b]
      BY <1>1, <3>2
    <3> QED BY <3>1, <3>2
  <2> QED BY <1>2, <2>1 DEF ProcType
<1>4. ~Waiting(c) /\ NoInit(inbox'[c], outbox[c])
  <2>1. "response" \in WordsOf(inbox[c]) /\ WordsOf(inbox'[c]) \subseteq WordsOf(inbox[c])
    BY <1>1, ReadFacts
  <2>2. ~Waiting(c)
    BY <2>1, WordsNow
  <2> QED BY <2>1, <2>2, WordsNow DEF NoInit
<1>5. Line(inbox'[c], outbox[c], proc[c].job, BusyRuns, wanted)
  <2>1. /\ inbox[c] \in Seq(InMsg) /\ inbox[c] # <<>> /\ inbox'[c] = Tail(inbox[c])
        /\ Line(inbox[c], outbox[c], proc[c].job, BusyRuns, wanted)
    BY <1>1, ReadFacts
  <2> QED BY <2>1, LineReads
<1>6. AbortsItsOwn' /\ ran' \subseteq Job /\ aborted' \subseteq Job
  BY <1>1 DEF IInv, AbortsItsOwn, TypeOK, notes, calls
<1>7. JobsOf(outbox'[c]) \union {proc'[c].job} \union StartsOf(inbox'[c]) \subseteq About(c) \union {NoJob}
  BY <1>1, <1>2, <1>3 DEF About
<1>8. proc[c].status \notin {"none", "dead"} /\ UNCHANGED <<outbox, pool, gone, calls, clean, wanted>>
  BY <1>1, <1>2 DEF Alive, notes
<1> QED BY <1>2, <1>3, <1>4, <1>5, <1>6, <1>7, <1>8, ChildSteps

\* A child that runs a job does not wait for Init to be answered.
LEMMA RunsNow ==
  ASSUME IInv, NEW c \in Child, proc[c].job # NoJob
  PROVE  /\ ~Waiting(c) /\ NoInit(inbox[c], outbox[c]) /\ proc[c] \in ProcType /\ proc[c].job \in Job
         /\ inbox \in [Child -> Seq(InMsg)] /\ outbox \in [Child -> Seq(OutMsg)] /\ proc \in [Child -> ProcType]
         /\ inbox[c] \in Seq(InMsg) /\ outbox[c] \in Seq(OutMsg)
         /\ Line(inbox[c], outbox[c], proc[c].job, BusyRuns, wanted)
         /\ proc[c].job \notin FinalsOf(outbox[c]) \union StartsOf(inbox[c])
         /\ proc[c].status \in {"started", "terminating"}
<1>1. ~Waiting(c) /\ NoInit(inbox[c], outbox[c])
  BY WordsNow DEF FirstWords
<1>2. Line(inbox[c], outbox[c], proc[c].job, BusyRuns, wanted)
  BY DEF IInv, Lines
<1>3. proc[c].job \notin FinalsOf(outbox[c]) \union StartsOf(inbox[c])
  BY <1>2 DEF Line
<1> QED BY <1>1, <1>2, <1>3, Types DEF ProcType

LEMMA CallsStep ==
  ASSUME IInv, NEW c \in Child, Calls(c)
  PROVE  IInv'
<1>1. /\ Alive(c) /\ proc[c].job # NoJob /\ ran' = ran \union {proc[c].job}
      /\ UNCHANGED <<pool, gone, inbox, calls, clean, wanted, aborted>>
  BY DEF Calls
<1>2. PICK asks \in BOOLEAN, w \in {"request", "progress"} :
        proc' = [proc EXCEPT ![c].waits = asks] /\ Says(c, w, proc[c].job)
  BY DEF Calls
<1> DEFINE j == proc[c].job
           m == Msg(w, j)
<1>3. /\ ~Waiting(c) /\ NoInit(inbox[c], outbox[c]) /\ proc[c] \in ProcType /\ j \in Job
      /\ inbox \in [Child -> Seq(InMsg)] /\ outbox \in [Child -> Seq(OutMsg)] /\ proc \in [Child -> ProcType]
      /\ outbox[c] \in Seq(OutMsg) /\ Line(inbox[c], outbox[c], j, BusyRuns, wanted)
      /\ j \notin FinalsOf(outbox[c]) \union StartsOf(inbox[c]) /\ proc[c].status \in {"started", "terminating"}
  BY <1>1, RunsNow
<1>4. m \in OutMsg /\ m.cmd = w /\ m.job = j /\ w \notin InitWords \union Final
  BY <1>3 DEF OutMsg, Msg, Final, InitWords
<1>5. /\ outbox' \in [Child -> Seq(OutMsg)] /\ outbox'[c] = Append(outbox[c], m)
      /\ \A d \in Child \ {c} : outbox'[d] = outbox[d]
      /\ JobsOf(outbox'[c]) = JobsOf(outbox[c]) \union {j} /\ WordsOf(outbox'[c]) = WordsOf(outbox[c]) \union {w}
  BY <1>2, <1>3, <1>4, SaysFacts
<1>6. /\ proc' \in [Child -> ProcType] /\ proc'[c].status = proc[c].status /\ proc'[c].job = j
      /\ \A d \in Child \ {c} : proc'[d] = proc[d]
  BY <1>2, <1>3 DEF ProcType
<1>7. Line(inbox'[c], outbox'[c], proc'[c].job, BusyRuns, wanted)
  <2>1. Line(inbox[c], Append(outbox[c], m), j, BusyRuns, wanted)
    <3> HIDE DEF m, j
    <3> QED BY <1>3, <1>4, LineSays
  <2> QED BY <1>1, <1>5, <1>6, <2>1
<1>8. NoInit(inbox'[c], outbox'[c])
  BY <1>1, <1>3, <1>4, <1>5 DEF NoInit
<1>9. AbortsItsOwn' /\ ran' \subseteq Job /\ aborted' \subseteq Job
  BY <1>1, <1>3 DEF IInv, AbortsItsOwn, TypeOK, calls
<1>10. JobsOf(outbox'[c]) \union {proc'[c].job} \union StartsOf(inbox'[c]) \subseteq About(c) \union {NoJob}
       /\ CancelsOf(inbox'[c]) \subseteq CancelsOf(inbox[c])
  BY <1>1, <1>5, <1>6 DEF About
<1>11. /\ \A d \in Child \ {c} : inbox'[d] = inbox[d]
       /\ inbox' \in [Child -> Seq(InMsg)] /\ UNCHANGED <<pool, gone, calls, clean, wanted>>
       /\ proc'[c].status \in {"started", "terminating"}
  BY <1>1, <1>3, <1>6
<1> HIDE DEF j, m
<1> QED BY <1>1, <1>3, <1>5, <1>6, <1>7, <1>8, <1>9, <1>10, <1>11, ChildSteps

LEMMA EndsStep ==
  ASSUME IInv, NEW c \in Child, Ends(c)
  PROVE  IInv'
<1>1. Alive(c) /\ proc[c].job # NoJob /\ UNCHANGED <<pool, gone, calls, clean, notes>>
  BY DEF Ends
<1>2. PICK w \in {"completed", "failed"} : Says(c, w, proc[c].job)
  BY DEF Ends
<1>3. PICK st \in {"dead", "idle"} :
        /\ proc' = [proc EXCEPT ![c] = [status |-> st, job |-> NoJob, waits |-> FALSE]]
        /\ inbox' = IF st = "dead" THEN [inbox EXCEPT ![c] = <<>>] ELSE inbox
  BY DEF Ends
<1> DEFINE j == proc[c].job
           m == Msg(w, j)
<1>4. /\ ~Waiting(c) /\ NoInit(inbox[c], outbox[c]) /\ j \in Job
      /\ inbox \in [Child -> Seq(InMsg)] /\ outbox \in [Child -> Seq(OutMsg)] /\ proc \in [Child -> ProcType]
      /\ inbox[c] \in Seq(InMsg) /\ outbox[c] \in Seq(OutMsg) /\ Line(inbox[c], outbox[c], j, BusyRuns, wanted)
      /\ j \notin FinalsOf(outbox[c]) \union StartsOf(inbox[c])
  BY <1>1, RunsNow
<1>5. m \in OutMsg /\ m.cmd = w /\ m.job = j /\ w \notin InitWords
  BY <1>4 DEF OutMsg, Msg, Final, InitWords
<1>6. /\ outbox' \in [Child -> Seq(OutMsg)] /\ outbox'[c] = Append(outbox[c], m)
      /\ \A d \in Child \ {c} : outbox'[d] = outbox[d]
      /\ JobsOf(outbox'[c]) = JobsOf(outbox[c]) \union {j} /\ WordsOf(outbox'[c]) = WordsOf(outbox[c]) \union {w}
  BY <1>2, <1>4, <1>5, SaysFacts
<1>7. /\ proc' \in [Child -> ProcType] /\ proc'[c].status = st /\ proc'[c].job = NoJob
      /\ \A d \in Child \ {c} : proc'[d] = proc[d]
  BY <1>3, <1>4 DEF ProcType
<1>8. /\ inbox' \in [Child -> Seq(InMsg)] /\ \A d \in Child \ {c} : inbox'[d] = inbox[d]
      /\ inbox'[c] = inbox[c] \/ inbox'[c] = <<>>
      /\ st = "dead" => inbox'[c] = <<>>
  BY <1>3, <1>4
<1>9. /\ StartsOf(inbox'[c]) \subseteq StartsOf(inbox[c]) /\ CancelsOf(inbox'[c]) \subseteq CancelsOf(inbox[c])
      /\ WordsOf(inbox'[c]) \subseteq WordsOf(inbox[c])
  BY <1>8, Emptied
<1>10. Line(inbox'[c], outbox'[c], proc'[c].job, BusyRuns, wanted)
  <2>1. Line(inbox'[c], outbox[c], NoJob, BusyRuns, wanted)
    BY <1>4, <1>8, LineStops
  <2>2. m.job # NoJob /\ m.job \notin FinalsOf(outbox[c]) \union StartsOf(inbox'[c])
    BY <1>4, <1>5, <1>9, Zero
  <2>3. Line(inbox'[c], Append(outbox[c], m), NoJob, BusyRuns, wanted)
    <3> HIDE DEF m, j
    <3> QED BY <1>4, <1>5, <2>1, <2>2, LineSays
  <2> QED BY <1>6, <1>7, <2>3
<1>11. NoInit(inbox'[c], outbox'[c])
  BY <1>4, <1>5, <1>6, <1>9 DEF NoInit
<1>12. AbortsItsOwn' /\ ran' \subseteq Job /\ aborted' \subseteq Job
  BY <1>1 DEF IInv, AbortsItsOwn, TypeOK, calls, notes
<1>13. JobsOf(outbox'[c]) \union {proc'[c].job} \union StartsOf(inbox'[c]) \subseteq About(c) \union {NoJob}
  BY <1>6, <1>7, <1>9 DEF About
<1>14. UNCHANGED <<pool, gone, calls, clean, wanted>>
  BY <1>1 DEF notes
<1> HIDE DEF j, m
<1> QED BY <1>1, <1>4, <1>6, <1>7, <1>8, <1>9, <1>10, <1>11, <1>12, <1>13, <1>14, ChildSteps

\* A child dies, and may report what it ran.
LEMMA DeadStep ==
  ASSUME IInv, NEW c \in Child, Alive(c), Dead(c), UNCHANGED <<pool, gone, calls, clean, notes>>,
         UNCHANGED outbox \/ (proc[c].job # NoJob /\ Says(c, "failed", proc[c].job))
  PROVE  IInv'
<1>1. /\ inbox[c] \in Seq(InMsg) /\ outbox[c] \in Seq(OutMsg) /\ Line(inbox[c], outbox[c], proc[c].job, BusyRuns, wanted)
      /\ inbox \in [Child -> Seq(InMsg)] /\ outbox \in [Child -> Seq(OutMsg)] /\ proc \in [Child -> ProcType]
      /\ proc[c].job \in Job \union {NoJob}
  BY Types DEF IInv, Lines, ProcType
<1>2. /\ proc' \in [Child -> ProcType] /\ proc'[c].status = "dead" /\ proc'[c].job = NoJob
      /\ \A d \in Child \ {c} : proc'[d] = proc[d]
  BY <1>1 DEF Dead, ProcType
<1>3. inbox' \in [Child -> Seq(InMsg)] /\ inbox'[c] = <<>> /\ \A d \in Child \ {c} : inbox'[d] = inbox[d]
  BY <1>1 DEF Dead
<1>4. Line(<<>>, outbox[c], NoJob, BusyRuns, wanted)
  BY <1>1, LineStops
<1>5. /\ outbox' \in [Child -> Seq(OutMsg)] /\ \A d \in Child \ {c} : outbox'[d] = outbox[d]
      /\ JobsOf(outbox'[c]) \subseteq JobsOf(outbox[c]) \union {proc[c].job}
      /\ Line(<<>>, outbox'[c], NoJob, BusyRuns, wanted)
      /\ IF Waiting(c) THEN FirstWords(<<>>, outbox'[c], NoJob) ELSE NoInit(<<>>, outbox'[c])
  <2>1. CASE UNCHANGED outbox
    <3>1. WordsOf(<<>>) = {}
      BY Emptied
    <3> QED BY <1>1, <1>4, <2>1, <3>1, WordsNow DEF FirstWords, NoInit
  <2>2. CASE proc[c].job # NoJob /\ Says(c, "failed", proc[c].job)
    <3> DEFINE m == Msg("failed", proc[c].job)
    <3>1. /\ ~Waiting(c) /\ NoInit(inbox[c], outbox[c]) /\ proc[c].job \in Job
          /\ proc[c].job \notin FinalsOf(outbox[c]) \union StartsOf(inbox[c])
      BY <2>2, RunsNow
    <3>2. m \in OutMsg /\ m.cmd = "failed" /\ m.job = proc[c].job
      BY <3>1 DEF OutMsg, Msg, Final
    <3>3. /\ outbox' \in [Child -> Seq(OutMsg)] /\ outbox'[c] = Append(outbox[c], m)
          /\ \A d \in Child \ {c} : outbox'[d] = outbox[d]
          /\ JobsOf(outbox'[c]) = JobsOf(outbox[c]) \union {proc[c].job} /\ WordsOf(outbox'[c]) = WordsOf(outbox[c]) \union {"failed"}
      BY <1>1, <2>2, <3>2, SaysFacts
    <3> HIDE DEF m
    <3>4. Line(<<>>, Append(outbox[c], m), NoJob, BusyRuns, wanted)
      <4>1. StartsOf(<<>>) = {} /\ m.job # NoJob
        BY <3>1, <3>2, Emptied, Zero
      <4> QED BY <1>1, <1>4, <3>1, <3>2, <4>1, LineSays
    <3>5. NoInit(<<>>, outbox'[c])
      <4>1. WordsOf(<<>>) = {}
        BY Emptied
      <4> QED BY <3>1, <3>3, <4>1 DEF NoInit, InitWords
    <3> QED BY <3>1, <3>3, <3>4, <3>5
  <2> QED BY <2>1, <2>2
<1>6. AbortsItsOwn' /\ ran' \subseteq Job /\ aborted' \subseteq Job
  BY DEF IInv, AbortsItsOwn, TypeOK, calls, notes
<1>7. /\ JobsOf(outbox'[c]) \union {proc'[c].job} \union StartsOf(inbox'[c]) \subseteq About(c) \union {NoJob}
      /\ CancelsOf(inbox'[c]) \subseteq CancelsOf(inbox[c])
  <2>1. StartsOf(inbox'[c]) = {} /\ CancelsOf(inbox'[c]) = {}
    BY <1>3, Emptied
  <2> QED BY <1>2, <1>5, <2>1 DEF About
<1>8. Line(inbox'[c], outbox'[c], proc'[c].job, BusyRuns, wanted)
  BY <1>2, <1>3, <1>5
<1>9. IF Waiting(c) THEN FirstWords(inbox'[c], outbox'[c], proc'[c].job) ELSE NoInit(inbox'[c], outbox'[c])
  BY <1>2, <1>3, <1>5
<1> QED BY <1>2, <1>3, <1>5, <1>6, <1>7, <1>8, <1>9, ChildSteps DEF notes

LEMMA TerminateStep ==
  ASSUME IInv, NEW c \in Child, Terminate(c)
  PROVE  IInv'
<1>1. Alive(c) /\ UNCHANGED <<outbox, pool, gone, calls, clean, notes>>
  BY DEF Terminate
<1>2. CASE proc[c].job = NoJob \/ proc[c].status = "terminating"
  <2>1. Dead(c)
    BY <1>2 DEF Terminate
  <2> QED BY <1>1, <2>1, DeadStep
<1>3. CASE ~(proc[c].job = NoJob \/ proc[c].status = "terminating")
  <2>1. proc[c].job # NoJob /\ proc' = [proc EXCEPT ![c].status = "terminating"] /\ UNCHANGED inbox
    BY <1>3 DEF Terminate
  <2>2. /\ ~Waiting(c) /\ NoInit(inbox[c], outbox[c]) /\ proc[c] \in ProcType
        /\ inbox \in [Child -> Seq(InMsg)] /\ outbox \in [Child -> Seq(OutMsg)] /\ proc \in [Child -> ProcType]
        /\ Line(inbox[c], outbox[c], proc[c].job, BusyRuns, wanted)
    BY <2>1, RunsNow
  <2>3. /\ proc' \in [Child -> ProcType] /\ proc'[c].status = "terminating" /\ proc'[c].job = proc[c].job
        /\ \A d \in Child \ {c} : proc'[d] = proc[d]
    BY <2>1, <2>2 DEF ProcType
  <2>4. AbortsItsOwn' /\ ran' \subseteq Job /\ aborted' \subseteq Job
    BY <1>1 DEF IInv, AbortsItsOwn, TypeOK, calls, notes
  <2>5. JobsOf(outbox'[c]) \union {proc'[c].job} \union StartsOf(inbox'[c]) \subseteq About(c) \union {NoJob}
    BY <1>1, <2>1, <2>3 DEF About
  <2>6. UNCHANGED <<inbox, outbox, pool, gone, calls, clean, wanted>>
    BY <1>1, <2>1 DEF notes
  <2> QED BY <1>1, <2>2, <2>3, <2>4, <2>5, <2>6, ChildSteps
<1> QED BY <1>2, <1>3

LEMMA CrashStep ==
  ASSUME IInv, NEW c \in Child, Crash(c)
  PROVE  IInv'
BY DeadStep DEF Crash

-----------------------------------------------------------------------------
(* The steps of the parent.                                                *)

\* The parent hears what a child says or loses it, and it answers a request.
LEMMA LineListens ==
  ASSUME NEW in \in Seq(InMsg), NEW out \in Seq(OutMsg), NEW run, NEW R, NEW W, Line(in, out, run, R, W), NEW out1,
         out1 \in {out, <<>>} \/ (out # <<>> /\ out1 = Tail(out))
  PROVE  Line(in, out1, run, R, W) /\ JobsOf(out1) \subseteq JobsOf(out) /\ WordsOf(out1) \subseteq WordsOf(out)
<1>1. CASE out1 = out
  BY <1>1
<1>2. CASE out1 = <<>>
  <2>1. Line(in, <<>>, run, R, W)
    BY Emptied DEF Line
  <2> QED BY <1>2, <2>1, Emptied
<1>3. CASE out # <<>> /\ out1 = Tail(out)
  <2>1. Line(in, Tail(out), run, R, W)
    BY <1>3, LineHeard
  <2>2. JobsOf(out) = JobsOf(Tail(out)) \union {Head(out).job} /\ WordsOf(out) = WordsOf(Tail(out)) \union {Head(out).cmd}
    BY <1>3, TailHas
  <2> QED BY <1>3, <2>1, <2>2
<1> QED BY <1>1, <1>2, <1>3

LEMMA LineResponds ==
  ASSUME NEW in \in Seq(InMsg), NEW out, NEW run, NEW R, NEW W, Line(in, out, run, R, W), NEW in1,
         in1 = in \/ \E m \in InMsg : m.cmd = "response" /\ in1 = Append(in, m)
  PROVE  /\ Line(in1, out, run, R, W) /\ StartsOf(in1) = StartsOf(in) /\ CancelsOf(in1) = CancelsOf(in)
         /\ WordsOf(in1) \subseteq WordsOf(in) \union {"response"}
<1>1. CASE in1 = in
  BY <1>1
<1>2. CASE \E m \in InMsg : m.cmd = "response" /\ in1 = Append(in, m)
  <2>1. PICK m \in InMsg : m.cmd = "response" /\ in1 = Append(in, m)
    BY <1>2
  <2>2. Line(Append(in, m), out, run, R, W)
    BY <2>1, LineSent
  <2>3. /\ StartsOf(Append(in, m)) = StartsOf(in) \union (IF m.cmd = "start" THEN {m.job} ELSE {})
        /\ CancelsOf(Append(in, m)) = CancelsOf(in) \union (IF m.cmd = "cancel" THEN {m.job} ELSE {})
        /\ WordsOf(Append(in, m)) = WordsOf(in) \union {m.cmd}
    BY Appended
  <2>4. m.cmd # "start" /\ m.cmd # "cancel"
    BY <2>1
  <2> QED BY <2>1, <2>2, <2>3, <2>4
<1> QED BY <1>1, <1>2

Listens == \A c \in Child : outbox'[c] \in {outbox[c], <<>>} \/ (outbox[c] # <<>> /\ outbox'[c] = Tail(outbox[c]))

Responds ==
  \A c \in Child : \/ inbox'[c] = inbox[c]
                   \/ ~Waiting(c) /\ Alive(c) /\ \E m \in InMsg : m.cmd = "response" /\ inbox'[c] = Append(inbox[c], m)

\* What the parent does unless it sends a job, or a cancellation: it hears what a child says, or loses
\* it, answers a request, and settles a call.
LEMMA ParentSteps ==
  ASSUME IInv, SlotsStay, slot' \in [Job -> SlotType],
         inbox' \in [Child -> Seq(InMsg)], outbox' \in [Child -> Seq(OutMsg)], effects' \in [Job -> Seq(EffMsg)],
         free' \in Seq(Child), retained' \subseteq 1 .. made,
         gone' \subseteq {c \in 1 .. made : proc[c].status = "dead"},
         queries' \subseteq [call : Job, run : Job, child : Child],
         doomed' \subseteq 1 .. made, missed' \subseteq 1 .. made, closing' \in BOOLEAN,
         Pooled', \A q \in queries' : q.child <= made /\ ~Waiting(q.child),
         Listens, Responds,
         \A c \in Child : Waiting(c) => outbox'[c] = <<>> \/ (outbox'[c] = outbox[c] /\ Waiting(c)'),
         \A c \in Child : Waiting(c) /\ ~(Waiting(c)') => inbox'[c] = <<>>,
         \A j \in Job : slot'[j].at \in {"off", "init"} => slot'[j] = slot[j] /\ effects'[j] = effects[j],
         \A j \in Job : slot[j].busy \/ OwnAfter(j),
         UNCHANGED <<made, proc, notes>>
  PROVE  IInv'
<1>1. TypeOK'
  <2>1. TypeOK
    BY DEF IInv
  <2>2. \A j \in Job : slot'[j].at # "off" => slot'[j].child \in 1 .. made
    <3> SUFFICES ASSUME NEW j \in Job, slot'[j].at # "off" PROVE slot'[j].child \in 1 .. made
      OBVIOUS
    <3>1. slot[j].at # "off" /\ slot'[j].child = slot[j].child
      BY DEF SlotsStay
    <3> QED BY <3>1, Types
  <2>3. UNION {ran', wanted', aborted'} \subseteq Job
    BY <2>1 DEF TypeOK, notes
  <2>4. slot' \in [Job -> [at : {"off", "init", "run", "resolved", "rejected"}, child : Child \union {NoChild},
                           by : Job \union {NoJob}, got : SUBSET Job, busy : BOOLEAN]]
    BY DEF SlotType
  <2> QED BY <2>1, <2>2, <2>3, <2>4 DEF TypeOK
<1>2. Channels' /\ Pooled'
  BY DEF Channels
<1>3. \A c \in Child : ~Waiting(c) => ~(Waiting(c)')
  <2> SUFFICES ASSUME NEW c \in Child, NEW j \in Job, slot'[j].at = "init", slot'[j].child = c PROVE Waiting(c)
    BY DEF Waiting
  <2>1. slot[j].at = "init" /\ slot[j].child = c
    BY DEF SlotsStay
  <2> QED BY <2>1 DEF Waiting
<1>4. Unmade'
  <2>1. \A c \in Child : outbox[c] = <<>> => outbox'[c] = <<>>
    BY DEF Listens
  <2>2. \A c \in Child : ~Alive(c) => inbox'[c] = inbox[c]
    BY DEF Responds
  <2> QED BY <2>1, <2>2 DEF IInv, Unmade, Alive
<1>5. NotBegun'
  BY DEF IInv, NotBegun
<1>6. Asked'
  <2> SUFFICES ASSUME NEW q \in queries' PROVE q.child <= made' /\ ~(Waiting(q.child)')
    BY DEF Asked, Waiting
  <2>1. q.child \in Child /\ q.child <= made /\ ~Waiting(q.child)
    OBVIOUS
  <2> QED BY <1>3, <2>1
<1>7. \A c \in Child : /\ inbox[c] \in Seq(InMsg) /\ outbox[c] \in Seq(OutMsg)
                       /\ Line(inbox[c], outbox[c], proc[c].job, BusyRuns, wanted)
  BY Types DEF IInv, Lines
<1>8. \A c \in Child : /\ Line(inbox[c], outbox'[c], proc[c].job, BusyRuns, wanted)
                       /\ JobsOf(outbox'[c]) \subseteq JobsOf(outbox[c]) /\ WordsOf(outbox'[c]) \subseteq WordsOf(outbox[c])
  <2> SUFFICES ASSUME NEW c \in Child
               PROVE  /\ Line(inbox[c], outbox'[c], proc[c].job, BusyRuns, wanted)
                      /\ JobsOf(outbox'[c]) \subseteq JobsOf(outbox[c]) /\ WordsOf(outbox'[c]) \subseteq WordsOf(outbox[c])
    OBVIOUS
  <2>1. /\ inbox[c] \in Seq(InMsg) /\ outbox[c] \in Seq(OutMsg)
        /\ Line(inbox[c], outbox[c], proc[c].job, BusyRuns, wanted)
    BY <1>7
  <2>2. outbox'[c] \in {outbox[c], <<>>} \/ (outbox[c] # <<>> /\ outbox'[c] = Tail(outbox[c]))
    BY DEF Listens
  <2>3. ASSUME NEW in, in = inbox[c], NEW out, out = outbox[c], NEW out1, out1 = outbox'[c], NEW run, run = proc[c].job,
               NEW R, R = BusyRuns, NEW W, W = wanted
        PROVE  Line(in, out1, run, R, W) /\ JobsOf(out1) \subseteq JobsOf(out) /\ WordsOf(out1) \subseteq WordsOf(out)
    <3>1. in \in Seq(InMsg) /\ out \in Seq(OutMsg) /\ Line(in, out, run, R, W)
      BY <2>1, <2>3
    <3>2. out1 \in {out, <<>>} \/ (out # <<>> /\ out1 = Tail(out))
      BY <2>2, <2>3
    <3> QED BY <3>1, <3>2, LineListens
  <2> QED BY <2>3
<1>9. \A c \in Child : /\ Line(inbox'[c], outbox'[c], proc[c].job, BusyRuns, wanted)
                       /\ StartsOf(inbox'[c]) = StartsOf(inbox[c]) /\ CancelsOf(inbox'[c]) = CancelsOf(inbox[c])
                       /\ WordsOf(inbox'[c]) \subseteq WordsOf(inbox[c]) \union {"response"}
  <2> SUFFICES ASSUME NEW c \in Child
               PROVE  /\ Line(inbox'[c], outbox'[c], proc[c].job, BusyRuns, wanted)
                      /\ StartsOf(inbox'[c]) = StartsOf(inbox[c]) /\ CancelsOf(inbox'[c]) = CancelsOf(inbox[c])
                      /\ WordsOf(inbox'[c]) \subseteq WordsOf(inbox[c]) \union {"response"}
    OBVIOUS
  <2>1. inbox[c] \in Seq(InMsg) /\ Line(inbox[c], outbox'[c], proc[c].job, BusyRuns, wanted)
    BY <1>7, <1>8
  <2>2. inbox'[c] = inbox[c] \/ \E m \in InMsg : m.cmd = "response" /\ inbox'[c] = Append(inbox[c], m)
    BY DEF Responds
  <2>3. ASSUME NEW in, in = inbox[c], NEW in1, in1 = inbox'[c], NEW out, out = outbox'[c], NEW run, run = proc[c].job,
               NEW R, R = BusyRuns, NEW W, W = wanted
        PROVE  /\ Line(in1, out, run, R, W) /\ StartsOf(in1) = StartsOf(in) /\ CancelsOf(in1) = CancelsOf(in)
               /\ WordsOf(in1) \subseteq WordsOf(in) \union {"response"}
    <3>1. in \in Seq(InMsg) /\ Line(in, out, run, R, W)
      BY <2>1, <2>3
    <3>2. in1 = in \/ \E m \in InMsg : m.cmd = "response" /\ in1 = Append(in, m)
      BY <2>2, <2>3
    <3> QED BY <3>1, <3>2, LineResponds
  <2> QED BY <2>3
<1>10. InitFirst'
  <2> SUFFICES ASSUME NEW c \in Child
               PROVE  IF Waiting(c)' THEN FirstWords(inbox'[c], outbox'[c], proc[c].job) ELSE NoInit(inbox'[c], outbox'[c])
    BY DEF InitFirst
  <2>1. CASE ~Waiting(c)
    <3>1. NoInit(inbox'[c], outbox'[c])
      BY <1>8, <1>9, <2>1, WordsNow DEF NoInit
    <3> QED BY <1>3, <2>1, <3>1
  <2>2. CASE Waiting(c) /\ ~(Waiting(c)')
    <3>1. inbox'[c] = <<>> /\ outbox'[c] = <<>>
      BY <2>2
    <3>2. NoInit(<<>>, <<>>)
      BY Emptied DEF NoInit
    <3> QED BY <2>2, <3>1, <3>2
  <2>3. CASE Waiting(c) /\ Waiting(c)'
    <3>1. inbox'[c] = inbox[c] /\ (outbox'[c] = outbox[c] \/ outbox'[c] = <<>>)
      BY <2>3 DEF Responds
    <3>2. FirstWords(inbox[c], outbox[c], proc[c].job)
      BY <2>3, WordsNow
    <3>3. FirstWords(inbox[c], <<>>, proc[c].job)
      <4>1. Len(<<>>) <= 1
        BY EmptySeq
      <4> QED BY <3>2, <4>1, Emptied DEF FirstWords
    <3> QED BY <2>3, <3>1, <3>2, <3>3
  <2> QED BY <2>1, <2>2, <2>3
<1>11. Lines' /\ AbortsItsOwn'
  <2>1. BusyRuns' = BusyRuns
    BY DEF BusyRuns, SlotsStay
  <2>2. Lines'
    BY <1>9, <2>1 DEF Lines, notes
  <2>3. AbortsItsOwn'
    <3>1. aborted \subseteq Job /\ wanted \subseteq Job
      BY DEF IInv, TypeOK
    <3> QED BY <3>1 DEF IInv, AbortsItsOwn, notes, SlotsStay
  <2> QED BY <2>2, <2>3
<1>12. Where' /\ Runs1'
  <2>1. \A c \in Child : About(c)' \subseteq About(c) \union {NoJob} /\ CancelsOf(inbox'[c]) \subseteq CancelsOf(inbox[c])
    BY <1>8, <1>9 DEF About
  <2> QED BY <2>1, Shrinks
<1> QED BY <1>1, <1>2, <1>4, <1>5, <1>6, <1>10, <1>11, <1>12 DEF IInv

\* A call that was under way gives its child up.
GivesUp(j, rest, dead) ==
  /\ slot[j].at = "run" /\ slot'[j].at \in {"resolved", "rejected"}
  /\ \A k \in Job \ {j} : slot'[k].at = slot[k].at
  /\ \A k \in Job : slot'[k].child = slot[k].child
  /\ rest \in Seq(Child) /\ IsInjective(rest) /\ ToSet(rest) = ToSet(free) \ {dead}
  /\ free' = IF slot[j].child \in gone \union {dead} THEN rest ELSE Append(rest, slot[j].child)
  /\ retained' = retained \ {dead, slot[j].child}
  /\ gone' \subseteq gone \union {dead} /\ made' = made

LEMMA PoolSettled ==
  ASSUME IInv, NEW j \in Job, NEW rest, NEW dead, GivesUp(j, rest, dead)
  PROVE  free' \in Seq(Child) /\ retained' \subseteq 1 .. made /\ Pooled'
<1> USE DEF GivesUp
<1> DEFINE c == slot[j].child
<1>1. c \in 1 .. made /\ c \in Child /\ retained \subseteq 1 .. made
  BY Types
<1>2. OnePlace /\ NoneDead /\ ToSet(free) \subseteq 1 .. made
  BY DEF IInv, Pooled
<1>3. c \notin ToSet(free)
  BY <1>2 DEF OnePlace
<1>4. /\ free' \in Seq(Child) /\ IsInjective(free')
      /\ ToSet(free') = IF c \in gone \union {dead} THEN ToSet(free) \ {dead} ELSE (ToSet(free) \ {dead}) \union {c}
  <2>1. CASE c \in gone \union {dead}
    BY <2>1
  <2>2. CASE c \notin gone \union {dead}
    <3>1. c \in Child \ ToSet(rest)
      BY <1>1, <1>3
    <3> HIDE DEF c
    <3>2. Append(rest, c) \in Seq(Child) /\ ToSet(Append(rest, c)) = ToSet(rest) \union {c} /\ IsInjective(Append(rest, c))
      BY <3>1, FreeAppended
    <3> QED BY <2>2, <3>2 DEF c
  <2> QED BY <2>1, <2>2
<1>5. \A k \in Job : slot'[k].at \in {"init", "run"} =>
         slot[k].at = slot'[k].at /\ k # j /\ slot[k].child # c /\ slot[k].child \notin ToSet(free)
  BY <1>2 DEF OnePlace
<1>6. OnePlace'
  BY <1>2, <1>4, <1>5 DEF OnePlace
<1>7. NoneDead'
  BY <1>2, <1>4 DEF NoneDead
<1>8. \A d \in retained' : \E k \in Job : slot'[k].at = "run" /\ slot'[k].child = d
  <2> SUFFICES ASSUME NEW d \in retained, d # c PROVE \E k \in Job : slot'[k].at = "run" /\ slot'[k].child = d
    OBVIOUS
  <2>1. PICK k \in Job : slot[k].at = "run" /\ slot[k].child = d
    BY DEF IInv, Pooled
  <2> QED BY <2>1
<1>9. ToSet(free') \subseteq 1 .. made
  BY <1>1, <1>2, <1>4
<1> QED BY <1>1, <1>4, <1>6, <1>7, <1>8, <1>9 DEF Pooled

LEMMA SettleFacts ==
  ASSUME IInv, NEW j \in Job, NEW at \in {"resolved", "rejected"}, NEW by \in Job, NEW dead, Settles(j, at, by, dead),
         gone' \subseteq gone \union {dead}, slot[j].at = "run" \/ gone' = gone, UNCHANGED made
  PROVE  /\ slot' \in [Job -> SlotType] /\ SlotsStay
         /\ free' \in Seq(Child) /\ retained' \subseteq 1 .. made /\ Pooled'
         /\ \A k \in Job \ {j} : slot'[k] = slot[k]
         /\ slot'[j].got = slot[j].got
         /\ slot[j].at # "run" => slot' = slot
         /\ slot[j].at = "run" => slot'[j].at = at /\ slot'[j].by = by
         /\ \A c \in Child : Waiting(c)' <=> Waiting(c)
         /\ \A k \in Job : slot'[k].at \in {"off", "init"} => slot'[k] = slot[k]
<1>1. slot \in [Job -> SlotType] /\ free \in Seq(Child) /\ retained \subseteq 1 .. made
  BY Types
<1>2. CASE slot[j].at # "run"
  <2>1. UNCHANGED <<slot, free, retained>> /\ gone' = gone
    BY <1>2 DEF Settles
  <2>2. Pooled'
    BY <2>1 DEF IInv, Pooled, OnePlace, NoneDead
  <2> QED BY <1>1, <1>2, <2>1, <2>2 DEF SlotsStay, Waiting
<1>3. CASE slot[j].at = "run"
  <2> DEFINE rest == RemoveFirst(free, dead)
  <2>1. /\ slot' = [slot EXCEPT ![j].at = at, ![j].by = by] /\ retained' = retained \ {dead, slot[j].child}
        /\ free' = IF slot[j].child \in gone \union {dead} THEN rest ELSE Append(rest, slot[j].child)
    BY <1>3 DEF Settles
  <2>2. rest \in Seq(Child) /\ IsInjective(rest) /\ ToSet(rest) = ToSet(free) \ {dead}
    BY <1>1, FreeWithout DEF IInv, Pooled, OnePlace
  <2>3. slot[j] \in SlotType
    BY <1>1
  <2>4. /\ slot' \in [Job -> SlotType] /\ slot'[j].at = at /\ slot'[j].by = by /\ slot'[j].got = slot[j].got
        /\ slot'[j].child = slot[j].child /\ slot'[j].busy = slot[j].busy
        /\ \A k \in Job \ {j} : slot'[k] = slot[k]
    BY <1>1, <2>1, <2>3 DEF SlotType
  <2> HIDE DEF rest
  <2>5. free' \in Seq(Child) /\ retained' \subseteq 1 .. made /\ Pooled'
    <3>1. \A k \in Job : slot'[k].child = slot[k].child
      BY <2>4
    <3>2. slot'[j].at \in {"resolved", "rejected"}
      BY <2>4
    <3>3. \A k \in Job \ {j} : slot'[k].at = slot[k].at
      BY <2>4
    <3>4. gone' \subseteq gone \union {dead} /\ made' = made
      OBVIOUS
    <3>5. GivesUp(j, rest, dead)
      BY <1>3, <2>1, <2>2, <3>1, <3>2, <3>3, <3>4 DEF GivesUp
    <3> QED BY <3>5, PoolSettled
  <2>6. \A c \in Child : Waiting(c)' <=> Waiting(c)
    <3>1. \A k \in Job : slot'[k].at = "init" <=> slot[k].at = "init"
      BY <1>3, <2>4
    <3> QED BY <2>4, <3>1 DEF Waiting
  <2>7. SlotsStay
    BY <1>3, <2>4 DEF SlotsStay
  <2> QED BY <1>3, <2>4, <2>5, <2>6, <2>7
<1> QED BY <1>2, <1>3

\* What the pool and its calls look like when none of them changes.
LEMMA SlotsSame ==
  ASSUME IInv, UNCHANGED <<slot, made>>
  PROVE  /\ slot' \in [Job -> SlotType] /\ SlotsStay
         /\ \A c \in Child : Waiting(c)' <=> Waiting(c)
         /\ (free' = free /\ retained' = retained /\ gone' = gone) =>
              Pooled' /\ free' \in Seq(Child) /\ retained' \subseteq 1 .. made
BY Types DEF IInv, SlotsStay, Waiting, Pooled, OnePlace, NoneDead

\* What the invariant says of what does not change.
LEMMA RestSame ==
  ASSUME IInv
  PROVE  /\ UNCHANGED inbox => inbox' \in [Child -> Seq(InMsg)] /\ Responds
         /\ UNCHANGED outbox => outbox' \in [Child -> Seq(OutMsg)] /\ Listens
         /\ UNCHANGED effects => effects' \in [Job -> Seq(EffMsg)]
         /\ UNCHANGED <<gone, made, proc>> => gone' \subseteq {c \in 1 .. made : proc[c].status = "dead"}
         /\ UNCHANGED queries => queries' \subseteq [call : Job, run : Job, child : Child] /\
                                 \A q \in queries' : q.child <= made /\ ~Waiting(q.child)
         /\ UNCHANGED clean => doomed' \subseteq 1 .. made /\ missed' \subseteq 1 .. made /\ closing' \in BOOLEAN
<1>1. Asked /\ TypeOK
  BY DEF IInv
<1> QED BY <1>1, Types DEF Responds, Listens, Asked, TypeOK, clean

LEMMA AboutShrinks ==
  ASSUME IInv, Listens, Responds, UNCHANGED proc
  PROVE  \A c \in Child : About(c)' \subseteq About(c)
<1> SUFFICES ASSUME NEW c \in Child PROVE About(c)' \subseteq About(c)
  OBVIOUS
<1>1. inbox[c] \in Seq(InMsg) /\ outbox[c] \in Seq(OutMsg) /\ Line(inbox[c], outbox[c], proc[c].job, BusyRuns, wanted)
  BY Types DEF IInv, Lines
<1>2. ASSUME NEW in, in = inbox[c], NEW out, out = outbox[c], NEW in1, in1 = inbox'[c], NEW out1, out1 = outbox'[c],
             NEW run, run = proc[c].job, NEW R, R = BusyRuns, NEW W, W = wanted
      PROVE  JobsOf(out1) \subseteq JobsOf(out) /\ StartsOf(in1) = StartsOf(in)
  <2>1. in \in Seq(InMsg) /\ out \in Seq(OutMsg) /\ Line(in, out, run, R, W)
    BY <1>1, <1>2
  <2>2. out1 \in {out, <<>>} \/ (out # <<>> /\ out1 = Tail(out))
    BY <1>2 DEF Listens
  <2>3. in1 = in \/ \E m \in InMsg : m.cmd = "response" /\ in1 = Append(in, m)
    BY <1>2 DEF Responds
  <2>4. JobsOf(out1) \subseteq JobsOf(out)
    BY <2>1, <2>2, LineListens
  <2>5. StartsOf(in1) = StartsOf(in)
    BY <2>1, <2>3, LineResponds
  <2> QED BY <2>4, <2>5
<1>3. JobsOf(outbox'[c]) \subseteq JobsOf(outbox[c]) /\ StartsOf(inbox'[c]) = StartsOf(inbox[c])
  BY <1>2
<1> QED BY <1>3 DEF About

\* The end of a run was already on its chain, or had settled it: the rest is as it was.
OwnStays(j) ==
  /\ slot'[j].child = slot[j].child
  /\ slot'[j].by \in {j, NoJob} /\ slot'[j].got \subseteq {j} /\ JobsOf(effects'[j]) \subseteq {j}
  /\ LastWord(effects'[j]) /\ FinalsOf(effects'[j]) \subseteq FinalsOf(effects[j])
  /\ slot'[j].at = "resolved" /\ slot'[j].by = j =>
       effects'[j] = <<>> /\ (FinalsOf(effects[j]) # {} \/ (slot[j].at = "resolved" /\ slot[j].by = j))

LEMMA OwnKept ==
  ASSUME IInv, NEW j \in Job, ~slot[j].busy, OwnStays(j), \A c \in Child : About(c)' \subseteq About(c)
  PROVE  OwnAfter(j)
<1> DEFINE over == FinalsOf(effects[j]) # {} \/ (slot[j].at = "resolved" /\ slot[j].by = j)
<1>1. over => j \notin About(slot[j].child) /\ slot[j].child \in Child
  <2>1. over => slot[j].at # "off"
    BY Emptied DEF IInv, NotBegun
  <2> QED BY <2>1, Types DEF IInv, Runs1, Chained
<1>2. ASSUME over, NEW d, d = slot[j].child
      PROVE  j \notin About(d)'
  BY <1>1, <1>2
<1>3. PICK d : d = slot[j].child
  OBVIOUS
<1>4. over => j \notin About(d)'
  BY <1>2, <1>3
<1>5. (FinalsOf(effects'[j]) # {} \/ (slot'[j].at = "resolved" /\ slot'[j].by = j)) => over
  BY DEF OwnStays
<1> HIDE DEF over
<1> QED BY <1>3, <1>4, <1>5 DEF OwnAfter, OwnStays, Chained, About

\* A call that does not change, or is rejected.
LEMMA OwnSame ==
  ASSUME IInv, NEW j \in Job, ~slot[j].busy,
         slot'[j] = slot[j] \/ (/\ slot'[j].child = slot[j].child /\ slot'[j].at = "rejected" /\ slot'[j].by = j
                                /\ slot'[j].got = slot[j].got),
         effects'[j] = effects[j]
  PROVE  OwnStays(j)
<1>1. OwnRun(j) /\ Chained(j)
  BY DEF IInv, Runs1
<1> QED BY <1>1 DEF OwnRun, Chained, OwnStays

LEMMA RespondStep ==
  ASSUME IInv, NEW q \in queries, Respond(q)
  PROVE  IInv'
<1>1. /\ queries' = queries \ {q} /\ UNCHANGED <<made, proc, gone, outbox, effects, clean, notes>>
  BY DEF Respond
<1>2. /\ q \in [call : Job, run : Job, child : Child] /\ q.child \in Child /\ ~Waiting(q.child) /\ q.call \in Job /\ q.run \in Job
      /\ inbox \in [Child -> Seq(InMsg)] /\ queries \subseteq [call : Job, run : Job, child : Child]
      /\ \A p \in queries : p.child <= made /\ ~Waiting(p.child)
  BY Types DEF IInv, Asked
<1>3. /\ inbox' \in [Child -> Seq(InMsg)] /\ Responds
      /\ \A c \in Child : inbox'[c] = inbox[c] \/ ~Waiting(c)
  <2>1. CASE UNCHANGED inbox
    BY <2>1, RestSame
  <2>2. CASE inbox' = Sent(q.child, <<Msg("response", q.run)>>)
    <3> DEFINE c == q.child
               m == Msg("response", q.run)
    <3>1. m \in InMsg /\ m.cmd = "response" /\ c \in Child /\ inbox[c] \in Seq(InMsg) /\ ~Waiting(c)
      BY <1>2 DEF Msg, InMsg
    <3>2. inbox' = [inbox EXCEPT ![c] = IF Alive(c) THEN @ \o <<m>> ELSE @]
      BY <2>2 DEF Sent
    <3> HIDE DEF c, m
    <3>3. inbox[c] \o <<m>> = Append(inbox[c], m) /\ Append(inbox[c], m) \in Seq(InMsg)
      BY <3>1, AppendIsConcat, AppendProperties
    <3>4. /\ inbox' \in [Child -> Seq(InMsg)]
          /\ inbox'[c] = IF Alive(c) THEN Append(inbox[c], m) ELSE inbox[c]
          /\ \A d \in Child \ {c} : inbox'[d] = inbox[d]
      BY <1>2, <3>1, <3>2, <3>3
    <3>5. Responds
      BY <3>1, <3>4 DEF Responds
    <3> QED BY <3>1, <3>4, <3>5
  <2> QED BY <2>1, <2>2 DEF Respond
<1>4. /\ slot' \in [Job -> SlotType] /\ SlotsStay
      /\ free' \in Seq(Child) /\ retained' \subseteq 1 .. made /\ Pooled'
      /\ \A c \in Child : Waiting(c)' <=> Waiting(c)
      /\ \A k \in Job : slot'[k].at \in {"off", "init"} => slot'[k] = slot[k]
      /\ \A k \in Job : slot'[k] = slot[k] \/ (/\ slot'[k].child = slot[k].child /\ slot'[k].at = "rejected" /\ slot'[k].by = k
                                               /\ slot'[k].got = slot[k].got)
  <2>1. CASE UNCHANGED <<slot, free, retained>>
    BY <1>1, <2>1, SlotsSame
  <2>2. CASE Settles(q.call, "rejected", q.call, NoChild)
    <3> DEFINE j == q.call
    <3>1. j \in Job /\ Settles(j, "rejected", j, NoChild) /\ gone' = gone /\ made' = made
      BY <1>1, <1>2, <2>2
    <3> HIDE DEF j
    <3>2. /\ slot' \in [Job -> SlotType] /\ SlotsStay
          /\ free' \in Seq(Child) /\ retained' \subseteq 1 .. made /\ Pooled'
          /\ \A k \in Job \ {j} : slot'[k] = slot[k]
          /\ slot'[j].got = slot[j].got
          /\ slot[j].at # "run" => slot' = slot
          /\ slot[j].at = "run" => slot'[j].at = "rejected" /\ slot'[j].by = j
          /\ \A c \in Child : Waiting(c)' <=> Waiting(c)
          /\ \A k \in Job : slot'[k].at \in {"off", "init"} => slot'[k] = slot[k]
      BY <3>1, SettleFacts
    <3>3. \A k \in Job : slot'[k].child = slot[k].child
      BY <3>2 DEF SlotsStay
    <3> QED BY <3>1, <3>2, <3>3
  <2> QED BY <2>1, <2>2 DEF Respond
<1>5. outbox' \in [Child -> Seq(OutMsg)] /\ Listens /\ effects' \in [Job -> Seq(EffMsg)]
      /\ gone' \subseteq {c \in 1 .. made : proc[c].status = "dead"}
      /\ doomed' \subseteq 1 .. made /\ missed' \subseteq 1 .. made /\ closing' \in BOOLEAN
  BY <1>1, RestSame
<1>6. \A j \in Job : slot[j].busy \/ OwnAfter(j)
  <2>1. \A c \in Child : About(c)' \subseteq About(c)
    BY <1>1, <1>3, <1>5, AboutShrinks
  <2> SUFFICES ASSUME NEW j \in Job, ~slot[j].busy PROVE OwnAfter(j)
    OBVIOUS
  <2>2. OwnStays(j)
    BY <1>1, <1>4, OwnSame
  <2> QED BY <2>1, <2>2, OwnKept
<1>7. /\ queries' \subseteq [call : Job, run : Job, child : Child]
      /\ \A p \in queries' : p.child <= made /\ ~Waiting(p.child)
  BY <1>1, <1>2
<1>8. /\ \A c \in Child : Waiting(c) => outbox'[c] = <<>> \/ (outbox'[c] = outbox[c] /\ Waiting(c)')
      /\ \A c \in Child : Waiting(c) /\ ~(Waiting(c)') => inbox'[c] = <<>>
      /\ \A j \in Job : slot'[j].at \in {"off", "init"} => slot'[j] = slot[j] /\ effects'[j] = effects[j]
  BY <1>1, <1>4
<1> QED BY <1>1, <1>3, <1>4, <1>5, <1>6, <1>7, <1>8, ParentSteps

LEMMA ExitsStep ==
  ASSUME IInv, NEW c \in Child, Exits(c)
  PROVE  IInv'
<1>1. /\ proc[c].status = "dead" /\ gone' = gone \union {c} /\ outbox' = [outbox EXCEPT ![c] = <<>>]
      /\ UNCHANGED <<made, proc, inbox, effects, queries, clean, notes>>
  BY DEF Exits
<1>2. /\ outbox \in [Child -> Seq(OutMsg)] /\ free \in Seq(Child) /\ retained \subseteq 1 .. made
      /\ gone \subseteq {d \in 1 .. made : proc[d].status = "dead"} /\ c \in 1 .. made
  <2>1. ~(c > made) /\ c \in Nat /\ made \in Nat /\ c >= 1
    BY <1>1, Types DEF IInv, Unmade, Child
  <2> QED BY <2>1, Types
<1>3. /\ outbox' \in [Child -> Seq(OutMsg)] /\ Listens /\ outbox'[c] = <<>>
      /\ \A d \in Child \ {c} : outbox'[d] = outbox[d]
  <2>1. <<>> \in Seq(OutMsg)
    BY EmptySeq
  <2> QED BY <1>1, <1>2, <2>1 DEF Listens
<1>4. /\ inbox' \in [Child -> Seq(InMsg)] /\ Responds /\ effects' \in [Job -> Seq(EffMsg)]
      /\ queries' \subseteq [call : Job, run : Job, child : Child] /\ \A q \in queries' : q.child <= made /\ ~Waiting(q.child)
      /\ doomed' \subseteq 1 .. made /\ missed' \subseteq 1 .. made /\ closing' \in BOOLEAN
      /\ gone' \subseteq {d \in 1 .. made : proc[d].status = "dead"}
  BY <1>1, <1>2, RestSame
<1>5. /\ slot' \in [Job -> SlotType] /\ SlotsStay
      /\ free' \in Seq(Child) /\ retained' \subseteq 1 .. made /\ Pooled'
      /\ \A d \in Child : Waiting(d)' <=> Waiting(d)
      /\ \A k \in Job : slot'[k].at \in {"off", "init"} => slot'[k] = slot[k]
      /\ \A k \in Job : slot'[k] = slot[k] \/ (/\ slot'[k].child = slot[k].child /\ slot'[k].at = "rejected" /\ slot'[k].by = k
                                               /\ slot'[k].got = slot[k].got)
  <2>1. CASE Hearing(c) = {}
    <3>1. free' = RemoveFirst(free, c) /\ retained' = retained \ {c} /\ UNCHANGED slot
      BY <2>1 DEF Exits
    <3>2. slot' \in [Job -> SlotType] /\ SlotsStay /\ \A d \in Child : Waiting(d)' <=> Waiting(d)
      BY <1>1, <3>1, SlotsSame
    <3>3. OnePlace /\ NoneDead /\ ToSet(free) \subseteq 1 .. made /\ \A d \in retained : \E j \in Job : slot[j].at = "run" /\ slot[j].child = d
      BY DEF IInv, Pooled
    <3>4. free' \in Seq(Child) /\ IsInjective(free') /\ ToSet(free') = ToSet(free) \ {c}
      BY <1>2, <3>1, <3>3, FreeWithout DEF OnePlace
    <3>5. Pooled'
      BY <1>1, <3>1, <3>3, <3>4 DEF Pooled, OnePlace, NoneDead
    <3> QED BY <1>2, <3>1, <3>2, <3>4, <3>5
  <2>2. CASE Hearing(c) # {}
    <3>1. PICK j \in Hearing(c) : Settles(j, "rejected", j, c)
      BY <2>2 DEF Exits
    <3>2. j \in Job /\ slot[j].at = "run" /\ gone' \subseteq gone \union {c} /\ made' = made
      BY <1>1, <3>1 DEF Hearing
    <3>3. /\ slot' \in [Job -> SlotType] /\ SlotsStay
          /\ free' \in Seq(Child) /\ retained' \subseteq 1 .. made /\ Pooled'
          /\ \A k \in Job \ {j} : slot'[k] = slot[k]
          /\ slot'[j].got = slot[j].got
          /\ slot'[j].at = "rejected" /\ slot'[j].by = j
          /\ \A d \in Child : Waiting(d)' <=> Waiting(d)
          /\ \A k \in Job : slot'[k].at \in {"off", "init"} => slot'[k] = slot[k]
      BY <3>1, <3>2, SettleFacts
    <3>4. \A k \in Job : slot'[k].child = slot[k].child
      BY <3>3 DEF SlotsStay
    <3> QED BY <3>2, <3>3, <3>4
  <2> QED BY <2>1, <2>2
<1>6. \A j \in Job : slot[j].busy \/ OwnAfter(j)
  <2>1. \A d \in Child : About(d)' \subseteq About(d)
    BY <1>1, <1>3, <1>4, AboutShrinks
  <2> SUFFICES ASSUME NEW j \in Job, ~slot[j].busy PROVE OwnAfter(j)
    OBVIOUS
  <2>2. OwnStays(j)
    BY <1>1, <1>5, OwnSame
  <2> QED BY <2>1, <2>2, OwnKept
<1>7. /\ \A d \in Child : Waiting(d) => outbox'[d] = <<>> \/ (outbox'[d] = outbox[d] /\ Waiting(d)')
      /\ \A d \in Child : Waiting(d) /\ ~(Waiting(d)') => inbox'[d] = <<>>
      /\ \A j \in Job : slot'[j].at \in {"off", "init"} => slot'[j] = slot[j] /\ effects'[j] = effects[j]
  BY <1>1, <1>3, <1>5
<1> QED BY <1>1, <1>3, <1>4, <1>5, <1>6, <1>7, ParentSteps

LEMMA CleanStep ==
  ASSUME IInv, Clean
  PROVE  IInv'
<1>1. /\ closing' = TRUE /\ doomed' = retained \union ToSet(free) /\ free' = <<>> /\ retained' = {}
      /\ missed' = {c \in 1 .. made : c \notin doomed'}
      /\ UNCHANGED <<made, proc, gone, inbox, outbox, calls, notes>>
  BY DEF Clean
<1>2. UNCHANGED <<slot, effects, queries>>
  BY <1>1 DEF calls
<1>3. ToSet(free) \subseteq 1 .. made /\ retained \subseteq 1 .. made /\ <<>> \in Seq(Child)
  BY Types, EmptySeq DEF IInv, Pooled
<1>4. /\ slot' \in [Job -> SlotType] /\ SlotsStay /\ \A c \in Child : Waiting(c)' <=> Waiting(c)
  BY <1>1, <1>2, SlotsSame
<1>5. Pooled'
  <2>1. ToSet(<<>>) = {} /\ IsInjective(<<>>)
    BY DEF ToSet, IsInjective
  <2> QED BY <1>1, <1>2, <2>1 DEF IInv, Pooled, OnePlace, NoneDead
<1>6. /\ inbox' \in [Child -> Seq(InMsg)] /\ Responds /\ effects' \in [Job -> Seq(EffMsg)]
      /\ outbox' \in [Child -> Seq(OutMsg)] /\ Listens
      /\ queries' \subseteq [call : Job, run : Job, child : Child] /\ \A q \in queries' : q.child <= made /\ ~Waiting(q.child)
      /\ gone' \subseteq {d \in 1 .. made : proc[d].status = "dead"}
  BY <1>1, <1>2, RestSame
<1>7. \A j \in Job : slot[j].busy \/ OwnAfter(j)
  <2>1. \A d \in Child : About(d)' \subseteq About(d)
    BY <1>1, <1>6, AboutShrinks
  <2> SUFFICES ASSUME NEW j \in Job, ~slot[j].busy PROVE OwnAfter(j)
    OBVIOUS
  <2>2. OwnStays(j)
    BY <1>2, OwnSame
  <2> QED BY <2>1, <2>2, OwnKept
<1>8. doomed' \subseteq 1 .. made /\ missed' \subseteq 1 .. made /\ closing' \in BOOLEAN
      /\ free' \in Seq(Child) /\ retained' \subseteq 1 .. made
  BY <1>1, <1>3
<1>9. /\ \A d \in Child : Waiting(d) => outbox'[d] = <<>> \/ (outbox'[d] = outbox[d] /\ Waiting(d)')
      /\ \A d \in Child : Waiting(d) /\ ~(Waiting(d)') => inbox'[d] = <<>>
      /\ \A j \in Job : slot'[j].at \in {"off", "init"} => slot'[j] = slot[j] /\ effects'[j] = effects[j]
  BY <1>1, <1>2, <1>4
<1> QED BY <1>1, <1>4, <1>5, <1>6, <1>7, <1>8, <1>9, ParentSteps

\* A child that has answered Init has nothing else to read and to say, and nobody else waits for it.
LEMMA InitNow ==
  ASSUME IInv, NEW j \in Job, slot[j].at = "init", outbox[slot[j].child] # <<>>
  PROVE  LET c == slot[j].child
         IN  /\ c \in Child /\ c \in 1 .. made /\ Waiting(c) /\ inbox[c] = <<>> /\ proc[c].job = NoJob
             /\ Tail(outbox[c]) = <<>> /\ WordsOf(outbox[c]) \subseteq InitWords /\ outbox[c] \in Seq(OutMsg)
             /\ \A k \in Job \ {j} : slot[k].at \in {"init", "run"} => slot[k].child # c
             /\ c \notin ToSet(free) /\ c \notin retained
<1> DEFINE c == slot[j].child
<1>1. c \in 1 .. made /\ c \in Child /\ outbox[c] \in Seq(OutMsg)
  BY Types
<1>2. Waiting(c)
  BY DEF Waiting
<1>3. FirstWords(inbox[c], outbox[c], proc[c].job)
  BY <1>1, <1>2, WordsNow
<1>4. inbox[c] = <<>> /\ proc[c].job = NoJob /\ Len(outbox[c]) <= 1 /\ WordsOf(outbox[c]) \subseteq InitWords
  BY <1>3 DEF FirstWords
<1>5. Tail(outbox[c]) = <<>>
  <2>1. Tail(outbox[c]) \in Seq(OutMsg) /\ Len(Tail(outbox[c])) = Len(outbox[c]) - 1 /\ Len(outbox[c]) \in Nat
    BY <1>1, TailHas
  <2>2. \A n \in Nat : n <= 1 => n - 1 \notin Nat \ {0}
    OBVIOUS
  <2>3. Len(Tail(outbox[c])) \notin Nat \ {0}
    BY <1>4, <2>1, <2>2
  <2> QED BY <2>1, <2>3, EmptySeq
<1>6. OnePlace /\ \A d \in retained : \E k \in Job : slot[k].at = "run" /\ slot[k].child = d
  BY DEF IInv, Pooled
<1>7. \A k \in Job \ {j} : slot[k].at \in {"init", "run"} => slot[k].child # c
  BY <1>6 DEF OnePlace
<1>8. c \notin ToSet(free)
  BY <1>6 DEF OnePlace
<1>9. c \notin retained
  BY <1>6, <1>7
<1> QED BY <1>1, <1>2, <1>4, <1>5, <1>7, <1>8, <1>9

LEMMA InitFailedStep ==
  ASSUME IInv, NEW j \in Job, InitAnswered(j), Head(outbox[slot[j].child]).cmd # "initCompleted"
  PROVE  IInv'
<1> DEFINE c == slot[j].child
<1>1. /\ slot[j].at = "init" /\ c \notin gone /\ outbox[c] # <<>>
      /\ free' = Append(free, c) /\ slot' = [slot EXCEPT ![j].at = "rejected", ![j].by = j]
      /\ outbox' = [outbox EXCEPT ![c] = Tail(@)]
      /\ UNCHANGED <<retained, inbox, made, proc, gone, effects, queries, clean, notes>>
  BY DEF InitAnswered
<1>2. /\ c \in Child /\ c \in 1 .. made /\ Waiting(c) /\ inbox[c] = <<>>
      /\ Tail(outbox[c]) = <<>> /\ c \notin ToSet(free) /\ c \notin retained
      /\ \A k \in Job \ {j} : slot[k].at \in {"init", "run"} => slot[k].child # c
  BY <1>1, InitNow
<1>3. slot \in [Job -> SlotType] /\ outbox \in [Child -> Seq(OutMsg)] /\ free \in Seq(Child) /\ retained \subseteq 1 .. made
  BY Types
<1>4. /\ outbox' \in [Child -> Seq(OutMsg)] /\ outbox'[c] = <<>> /\ Listens
      /\ \A d \in Child \ {c} : outbox'[d] = outbox[d]
  <2>1. <<>> \in Seq(OutMsg) /\ outbox' = [outbox EXCEPT ![c] = <<>>]
    BY <1>1, <1>2, <1>3, EmptySeq
  <2> HIDE DEF c
  <2> QED BY <1>2, <1>3, <2>1 DEF Listens
<1>5. /\ inbox' \in [Child -> Seq(InMsg)] /\ Responds /\ effects' \in [Job -> Seq(EffMsg)]
      /\ queries' \subseteq [call : Job, run : Job, child : Child] /\ \A q \in queries' : q.child <= made /\ ~Waiting(q.child)
      /\ gone' \subseteq {d \in 1 .. made : proc[d].status = "dead"}
      /\ doomed' \subseteq 1 .. made /\ missed' \subseteq 1 .. made /\ closing' \in BOOLEAN
  BY <1>1, RestSame
<1>6. /\ slot' \in [Job -> SlotType] /\ slot'[j].at = "rejected" /\ slot'[j].by = j /\ slot'[j].got = slot[j].got
      /\ slot'[j].child = c /\ slot'[j].busy = slot[j].busy
      /\ \A k \in Job \ {j} : slot'[k] = slot[k]
  BY <1>1, <1>3 DEF SlotType
<1>7. SlotsStay
  BY <1>1, <1>6 DEF SlotsStay
<1>8. \A d \in Child : (Waiting(d)' => Waiting(d)) /\ (d # c /\ Waiting(d) => Waiting(d)')
  <2> SUFFICES ASSUME NEW d \in Child PROVE (Waiting(d)' => Waiting(d)) /\ (d # c /\ Waiting(d) => Waiting(d)')
    OBVIOUS
  <2>1. \A k \in Job : slot'[k].at = "init" <=> (slot[k].at = "init" /\ k # j)
    BY <1>6
  <2>2. \A k \in Job : slot'[k].child = slot[k].child
    BY <1>6
  <2> HIDE DEF c
  <2>3. Waiting(d)' <=> \E k \in Job : slot[k].at = "init" /\ k # j /\ slot[k].child = d
    BY <2>1, <2>2 DEF Waiting
  <2> QED BY <2>3 DEF Waiting, c
<1>9. free' \in Seq(Child) /\ Pooled'
  <2>1. /\ OnePlace /\ NoneDead /\ ToSet(free) \subseteq 1 .. made
        /\ \A d \in retained : \E k \in Job : slot[k].at = "run" /\ slot[k].child = d
    BY DEF IInv, Pooled
  <2> HIDE DEF c
  <2>2. free' \in Seq(Child) /\ IsInjective(free') /\ ToSet(free') = ToSet(free) \union {c}
    BY <1>1, <1>2, <1>3, <2>1, FreeAppended DEF OnePlace
  <2>3. \A k \in Job : slot'[k].at \in {"init", "run"} =>
           slot[k].at = slot'[k].at /\ slot[k].child # c /\ slot'[k].child = slot[k].child /\ k # j
    BY <1>2, <1>6
  <2>4. OnePlace'
    <3>1. \A i, k \in Job : slot'[i].at \in {"init", "run"} /\ slot'[k].at \in {"init", "run"}
                              /\ slot'[i].child = slot'[k].child => i = k
      BY <2>1, <2>3 DEF OnePlace
    <3>2. \A k \in Job : slot'[k].at \in {"init", "run"} => slot'[k].child \notin ToSet(free')
      BY <2>1, <2>2, <2>3 DEF OnePlace
    <3>3. ToSet(free') \intersect retained' = {} /\ IsInjective(free')
      BY <1>1, <1>2, <2>1, <2>2 DEF OnePlace
    <3> QED BY <3>1, <3>2, <3>3 DEF OnePlace
  <2>5. NoneDead'
    BY <1>1, <1>2, <2>1, <2>2 DEF NoneDead
  <2>6. \A d \in retained' : \E k \in Job : slot'[k].at = "run" /\ slot'[k].child = d
    <3> SUFFICES ASSUME NEW d \in retained PROVE \E k \in Job : slot'[k].at = "run" /\ slot'[k].child = d
      BY <1>1
    <3>1. PICK k \in Job : slot[k].at = "run" /\ slot[k].child = d
      BY <2>1
    <3>2. k # j
      BY <1>1, <3>1
    <3> QED BY <1>6, <3>1, <3>2
  <2> QED BY <1>1, <1>2, <2>1, <2>2, <2>4, <2>5, <2>6 DEF Pooled
<1>10. \A k \in Job : slot[k].busy \/ OwnAfter(k)
  <2>1. \A d \in Child : About(d)' \subseteq About(d)
    BY <1>1, <1>4, <1>5, AboutShrinks
  <2> SUFFICES ASSUME NEW k \in Job, ~slot[k].busy PROVE OwnAfter(k)
    OBVIOUS
  <2>2. OwnStays(k)
    <3>1. CASE k = j
      BY <1>1, <1>6, <3>1, OwnSame
    <3>2. CASE k # j
      BY <1>1, <1>6, <3>2, OwnSame
    <3> QED BY <3>1, <3>2
  <2> QED BY <2>1, <2>2, OwnKept
<1>11. /\ \A d \in Child : Waiting(d) => outbox'[d] = <<>> \/ (outbox'[d] = outbox[d] /\ Waiting(d)')
       /\ \A d \in Child : Waiting(d) /\ ~(Waiting(d)') => inbox'[d] = <<>>
       /\ \A k \in Job : slot'[k].at \in {"off", "init"} => slot'[k] = slot[k] /\ effects'[k] = effects[k]
       /\ UNCHANGED <<made, proc, notes>> /\ retained' \subseteq 1 .. made
  BY <1>1, <1>2, <1>3, <1>4, <1>6, <1>8
<1> HIDE DEF c
<1> QED BY <1>4, <1>5, <1>6, <1>7, <1>9, <1>10, <1>11, ParentSteps

\* The jobs and the ends of a chain, which holds what the parent heard of a run.
LEMMA ChainHas ==
  ASSUME NEW s \in Seq(EffMsg)
  PROVE  /\ JobsOf(s) \subseteq Job /\ FinalsOf(s) \subseteq JobsOf(s)
         /\ (\E i \in DOMAIN s : s[i].cmd # "progress") => FinalsOf(s) # {}
<1>1. \A i \in DOMAIN s : s[i] \in EffMsg
  BY LenProperties, ElementOfSeq
<1>2. \A m \in EffMsg : m.job \in Job /\ (m.cmd # "progress" => m.cmd \in Final)
  BY DEF EffMsg
<1>3. \A i \in DOMAIN s : s[i].job \in Job /\ (s[i].cmd # "progress" => s[i].cmd \in Final)
  BY <1>1, <1>2
<1> QED BY <1>3 DEF JobsOf, FinalsOf

\* The side effect that was under way is taken off, and with it the end that follows it.
LEMMA ChainTail ==
  ASSUME NEW s \in Seq(EffMsg), s # <<>>
  PROVE  /\ Tail(s) \in Seq(EffMsg) /\ Head(s) \in EffMsg /\ Head(s).job \in Job /\ Head(s).job \in JobsOf(s)
         /\ JobsOf(Tail(s)) \subseteq JobsOf(s) /\ FinalsOf(Tail(s)) \subseteq FinalsOf(s)
         /\ LastWord(s) => LastWord(Tail(s))
         /\ Head(s).cmd # "progress" =>
              /\ Head(s).cmd \in Final /\ FinalsOf(s) # {}
              /\ LastWord(s) /\ JobsOf(s) \subseteq {Head(s).job} => Tail(s) = <<>>
<1>1. /\ Tail(s) \in Seq(EffMsg) /\ Head(s) \in EffMsg
      /\ JobsOf(s) = JobsOf(Tail(s)) \union {Head(s).job}
      /\ FinalsOf(s) = FinalsOf(Tail(s)) \union (IF Head(s).cmd \in Final THEN {Head(s).job} ELSE {})
  BY TailHas
<1>2. LastWord(s) => LastWord(Tail(s)) /\ (Head(s).cmd \in Final => Head(s).job \notin JobsOf(Tail(s)))
  BY TailInOrder
<1>3. Head(s).job \in Job /\ (Head(s).cmd # "progress" => Head(s).cmd \in Final)
  BY <1>1 DEF EffMsg
<1>4. JobsOf(Tail(s)) = {} => Tail(s) = <<>>
  <2> DEFINE t == Tail(s)
  <2>1. t # <<>> => 1 \in DOMAIN t
    BY <1>1, LenProperties, EmptySeq
  <2> HIDE DEF t
  <2> QED BY <2>1 DEF JobsOf, t
<1> QED BY <1>1, <1>2, <1>3, <1>4

LEMMA EffectStep ==
  ASSUME IInv, NEW j \in Job, Effect(j)
  PROVE  IInv'
<1> DEFINE s    == effects[j]
           left == Tail(s)
           ends == left # <<>> /\ Head(left).cmd # "progress"
           c    == slot[j].child
           took == [slot EXCEPT ![j].got = @ \union {Head(s).job}]
<1>1. /\ s # <<>> /\ effects' = [effects EXCEPT ![j] = IF ends THEN Tail(left) ELSE left]
      /\ UNCHANGED <<made, proc, gone, inbox, outbox, queries, clean, notes>>
  BY DEF Effect
<1>2. \/ Settles(j, "rejected", j, NoChild)
      \/ /\ ends /\ slot[j].at = "run"
         /\ slot' = [took EXCEPT ![j].at = Outcome(Head(left).cmd), ![j].by = Head(left).job]
         /\ free' = IF c \in gone THEN free ELSE Append(free, c)
         /\ retained' = retained \ {c}
      \/ ~(ends /\ slot[j].at = "run") /\ slot' = took /\ UNCHANGED <<free, retained>>
  BY DEF Effect
<1>3. /\ s \in Seq(EffMsg) /\ effects \in [Job -> Seq(EffMsg)] /\ slot \in [Job -> SlotType] /\ slot[j] \in SlotType
      /\ free \in Seq(Child) /\ retained \subseteq 1 .. made
  BY Types
<1>4. /\ left \in Seq(EffMsg) /\ Head(s).job \in Job /\ Head(s).job \in JobsOf(s)
      /\ JobsOf(left) \subseteq JobsOf(s) /\ FinalsOf(left) \subseteq FinalsOf(s) /\ (LastWord(s) => LastWord(left))
  BY <1>1, <1>3, ChainTail
<1>5. left # <<>> =>
        /\ Tail(left) \in Seq(EffMsg) /\ Head(left).job \in Job /\ Head(left).job \in JobsOf(left)
        /\ JobsOf(Tail(left)) \subseteq JobsOf(left) /\ FinalsOf(Tail(left)) \subseteq FinalsOf(left)
        /\ LastWord(left) => LastWord(Tail(left))
        /\ Head(left).cmd # "progress" =>
             FinalsOf(left) # {} /\ (LastWord(left) /\ JobsOf(left) \subseteq {Head(left).job} => Tail(left) = <<>>)
  <2> HIDE DEF left
  <2> QED BY <1>4, ChainTail
<1>6. /\ effects' \in [Job -> Seq(EffMsg)] /\ effects'[j] = (IF ends THEN Tail(left) ELSE left)
      /\ \A k \in Job \ {j} : effects'[k] = effects[k]
  <2> DEFINE rest == IF ends THEN Tail(left) ELSE left
  <2>1. rest \in Seq(EffMsg)
    BY <1>4, <1>5
  <2>2. effects' = [effects EXCEPT ![j] = rest]
    BY <1>1
  <2> HIDE DEF rest
  <2>3. effects' \in [Job -> Seq(EffMsg)] /\ effects'[j] = rest /\ \A k \in Job \ {j} : effects'[k] = effects[k]
    BY <1>3, <2>1, <2>2
  <2> QED BY <2>3 DEF rest
<1>7. /\ JobsOf(effects'[j]) \subseteq JobsOf(s) /\ FinalsOf(effects'[j]) \subseteq FinalsOf(s)
      /\ LastWord(s) => LastWord(effects'[j])
  <2> HIDE DEF left, s
  <2> QED BY <1>4, <1>5, <1>6
<1>8. /\ inbox' \in [Child -> Seq(InMsg)] /\ Responds /\ outbox' \in [Child -> Seq(OutMsg)] /\ Listens
      /\ queries' \subseteq [call : Job, run : Job, child : Child] /\ \A q \in queries' : q.child <= made /\ ~Waiting(q.child)
      /\ gone' \subseteq {d \in 1 .. made : proc[d].status = "dead"}
      /\ doomed' \subseteq 1 .. made /\ missed' \subseteq 1 .. made /\ closing' \in BOOLEAN
  BY <1>1, RestSame
\* the three ways the call goes on
<1>9. /\ slot' \in [Job -> SlotType] /\ SlotsStay
      /\ free' \in Seq(Child) /\ retained' \subseteq 1 .. made /\ Pooled'
      /\ \A k \in Job \ {j} : slot'[k] = slot[k]
      /\ \A d \in Child : Waiting(d)' <=> Waiting(d)
      /\ slot'[j].at \in {"off", "init"} => slot[j].at \in {"off", "init"}
      /\ \/ slot'[j].by = slot[j].by /\ slot'[j].at = slot[j].at
         \/ slot'[j].by = j /\ slot'[j].at = "rejected"
         \/ ends /\ slot[j].at = "run" /\ slot'[j].by = Head(left).job
      /\ slot'[j].got \subseteq slot[j].got \union {Head(s).job}
  <2>1. CASE Settles(j, "rejected", j, NoChild)
    <3>1. gone' = gone /\ made' = made
      BY <1>1
    <3> HIDE DEF s, left, ends, c, took
    <3>2. /\ slot' \in [Job -> SlotType] /\ SlotsStay
          /\ free' \in Seq(Child) /\ retained' \subseteq 1 .. made /\ Pooled'
          /\ \A k \in Job \ {j} : slot'[k] = slot[k]
          /\ slot'[j].got = slot[j].got
          /\ slot[j].at # "run" => slot' = slot
          /\ slot[j].at = "run" => slot'[j].at = "rejected" /\ slot'[j].by = j
          /\ \A d \in Child : Waiting(d)' <=> Waiting(d)
          /\ \A k \in Job : slot'[k].at \in {"off", "init"} => slot'[k] = slot[k]
      BY <2>1, <3>1, SettleFacts
    <3> QED BY <3>2
  <2>2. CASE /\ ends /\ slot[j].at = "run"
             /\ slot' = [took EXCEPT ![j].at = Outcome(Head(left).cmd), ![j].by = Head(left).job]
             /\ free' = IF c \in gone THEN free ELSE Append(free, c)
             /\ retained' = retained \ {c}
    <3>1. Outcome(Head(left).cmd) \in {"resolved", "rejected"} /\ Head(left).job \in Job
      BY <1>5, <2>2 DEF Outcome
    <3>2. took \in [Job -> SlotType] /\ took[j] = [slot[j] EXCEPT !.got = @ \union {Head(s).job}]
          /\ \A k \in Job \ {j} : took[k] = slot[k]
      BY <1>3, <1>4 DEF SlotType
    <3>3. /\ slot' \in [Job -> SlotType] /\ slot'[j].at = Outcome(Head(left).cmd) /\ slot'[j].by = Head(left).job
          /\ slot'[j].got = slot[j].got \union {Head(s).job}
          /\ slot'[j].child = c /\ slot'[j].busy = slot[j].busy
          /\ \A k \in Job \ {j} : slot'[k] = slot[k]
      <4>1. ASSUME NEW at \in {"resolved", "rejected"}, at = Outcome(Head(left).cmd), NEW by \in Job, by = Head(left).job,
                   NEW h \in Job, h = Head(s).job
            PROVE  /\ slot' \in [Job -> SlotType] /\ slot'[j].at = at /\ slot'[j].by = by
                   /\ slot'[j].got = slot[j].got \union {h}
                   /\ slot'[j].child = slot[j].child /\ slot'[j].busy = slot[j].busy
                   /\ \A k \in Job \ {j} : slot'[k] = slot[k]
        <5>1. slot' = [[slot EXCEPT ![j].got = @ \union {h}] EXCEPT ![j].at = at, ![j].by = by]
          BY <2>2, <4>1
        <5> HIDE DEF s, left, ends, c, took
        <5> QED BY <1>3, <5>1 DEF SlotType
      <4> QED BY <1>4, <3>1, <4>1
    <3> HIDE DEF s, left, ends, took
    <3>4. ToSet(free) \subseteq 1 .. made /\ IsInjective(free) /\ NoChild \notin ToSet(free) /\ NoChild \notin retained
      <4>1. NoChild \notin 1 .. made
        BY DEF NoChild
      <4> QED BY <1>3, <4>1 DEF IInv, Pooled, OnePlace
    <3>5. GivesUp(j, free, NoChild)
      <4>1. c # NoChild
        BY <2>2, Types, Zero
      <4>2. \A k \in Job \ {j} : slot'[k].at = slot[k].at
        BY <3>3
      <4>3. \A k \in Job : slot'[k].child = slot[k].child
        BY <3>3
      <4> QED BY <1>1, <1>3, <2>2, <3>1, <3>3, <3>4, <4>1, <4>2, <4>3 DEF GivesUp
    <3>6. free' \in Seq(Child) /\ retained' \subseteq 1 .. made /\ Pooled'
      BY <3>5, PoolSettled
    <3>7. \A k \in Job : slot'[k].child = slot[k].child /\ (slot'[k].at = "init" <=> slot[k].at = "init")
      BY <2>2, <3>1, <3>3
    <3>8. \A d \in Child : Waiting(d)' <=> Waiting(d)
      BY <3>7 DEF Waiting
    <3>9. SlotsStay
      BY <2>2, <3>1, <3>3 DEF SlotsStay
    <3> QED BY <2>2, <3>1, <3>3, <3>6, <3>8, <3>9
  <2>3. CASE ~(ends /\ slot[j].at = "run") /\ slot' = took /\ UNCHANGED <<free, retained>>
    <3>1. /\ slot' \in [Job -> SlotType] /\ slot'[j].at = slot[j].at /\ slot'[j].by = slot[j].by
          /\ slot'[j].got = slot[j].got \union {Head(s).job}
          /\ slot'[j].child = slot[j].child /\ slot'[j].busy = slot[j].busy
          /\ \A k \in Job \ {j} : slot'[k] = slot[k]
      <4>1. ASSUME NEW h \in Job, h = Head(s).job
            PROVE  /\ slot' \in [Job -> SlotType] /\ slot'[j].at = slot[j].at /\ slot'[j].by = slot[j].by
                   /\ slot'[j].got = slot[j].got \union {h}
                   /\ slot'[j].child = slot[j].child /\ slot'[j].busy = slot[j].busy
                   /\ \A k \in Job \ {j} : slot'[k] = slot[k]
        <5>1. slot' = [slot EXCEPT ![j].got = @ \union {h}]
          BY <2>3, <4>1
        <5> HIDE DEF s, left, ends, c, took
        <5> QED BY <1>3, <5>1 DEF SlotType
      <4> QED BY <1>4, <4>1
    <3> HIDE DEF s, left, ends, c, took
    <3>2. \A k \in Job : slot'[k].child = slot[k].child /\ slot'[k].at = slot[k].at /\ slot'[k].busy = slot[k].busy
      BY <3>1
    <3>3. (\A d \in Child : Waiting(d)' <=> Waiting(d)) /\ SlotsStay
      BY <3>2 DEF Waiting, SlotsStay
    <3>4. Pooled'
      BY <1>1, <2>3, <3>2 DEF IInv, Pooled, OnePlace, NoneDead
    <3> QED BY <1>3, <2>3, <3>1, <3>3, <3>4
  <2> QED BY <1>2, <2>1, <2>2, <2>3
<1>10. \A k \in Job : slot[k].busy \/ OwnAfter(k)
  <2>1. \A d \in Child : About(d)' \subseteq About(d)
    BY <1>1, <1>8, AboutShrinks
  <2> SUFFICES ASSUME NEW k \in Job, ~slot[k].busy PROVE OwnAfter(k)
    OBVIOUS
  <2>2. OwnStays(k)
    <3>1. CASE k # j
      BY <1>6, <1>9, <3>1, OwnSame
    <3>2. CASE k = j
      <4>1. OwnRun(j) /\ Chained(j)
        BY <3>2 DEF IInv, Runs1
      <4>2. /\ JobsOf(s) \subseteq {j} /\ LastWord(s) /\ slot[j].by \in {j, NoJob} /\ slot[j].got \subseteq {j}
            /\ ~(slot[j].at = "resolved" /\ slot[j].by = j) /\ Head(s).job = j
        BY <1>1, <1>4, <4>1 DEF OwnRun, Chained
      <4>3. slot'[j].child = slot[j].child
        BY <1>9 DEF SlotsStay
      <4>4. left # <<>> => Head(left).job = j
        BY <1>4, <1>5, <4>2
      <4>5. slot'[j].by \in {j, NoJob} /\ slot'[j].got \subseteq {j}
        BY <1>9, <4>2, <4>4
      <4>6. slot'[j].at = "resolved" /\ slot'[j].by = j => effects'[j] = <<>> /\ FinalsOf(s) # {}
        <5> SUFFICES ASSUME slot'[j].at = "resolved", slot'[j].by = j PROVE effects'[j] = <<>> /\ FinalsOf(s) # {}
          OBVIOUS
        <5>1. ends
          BY <1>9, <4>2
        <5>2. JobsOf(left) \subseteq {Head(left).job}
          BY <1>4, <4>2, <4>4, <5>1
        <5> QED BY <1>4, <1>5, <1>6, <4>2, <5>1, <5>2
      <4> QED BY <1>7, <3>2, <4>2, <4>3, <4>5, <4>6 DEF OwnStays
    <3> QED BY <3>1, <3>2
  <2> QED BY <2>1, <2>2, OwnKept
<1>11. /\ \A d \in Child : Waiting(d) => outbox'[d] = <<>> \/ (outbox'[d] = outbox[d] /\ Waiting(d)')
       /\ \A d \in Child : Waiting(d) /\ ~(Waiting(d)') => inbox'[d] = <<>>
       /\ \A k \in Job : slot'[k].at \in {"off", "init"} => slot'[k] = slot[k] /\ effects'[k] = effects[k]
  <2>1. slot[j].at \notin {"off", "init"}
    BY <1>1 DEF IInv, NotBegun
  <2>2. slot'[j].at \notin {"off", "init"}
    BY <1>9, <2>1
  <2> QED BY <1>1, <1>6, <1>9, <2>2
<1> HIDE DEF s, left, ends, c, took
<1> QED BY <1>1, <1>6, <1>8, <1>9, <1>10, <1>11, ParentSteps

\* A chain that is waited for is joined at its end, or already has its end.
LEMMA ChainJoined ==
  ASSUME NEW s \in Seq(EffMsg), NEW m \in EffMsg
  PROVE  /\ Joined(s, m) \in Seq(EffMsg)
         /\ \/ Joined(s, m) = s
            \/ /\ JobsOf(Joined(s, m)) = JobsOf(s) \union {m.job}
               /\ FinalsOf(Joined(s, m)) = FinalsOf(s) \union (IF m.cmd \in Final THEN {m.job} ELSE {})
               /\ LastWord(s) /\ m.job \notin FinalsOf(s) => LastWord(Joined(s, m))
<1>1. CASE Joined(s, m) = s
  BY <1>1
<1>2. CASE Joined(s, m) = Append(s, m)
  <2>1. /\ Append(s, m) \in Seq(EffMsg) /\ JobsOf(Append(s, m)) = JobsOf(s) \union {m.job}
        /\ FinalsOf(Append(s, m)) = FinalsOf(s) \union (IF m.cmd \in Final THEN {m.job} ELSE {})
    BY Appended
  <2>2. LastWord(s) /\ m.job \notin FinalsOf(s) => LastWord(Append(s, m))
    BY AppendedInOrder
  <2> QED BY <1>2, <2>1, <2>2
<1> QED BY <1>1, <1>2 DEF Joined

\* A message of a run that the parent hears: which run it is of, and what is left of that.
LEMMA HeardNow ==
  ASSUME IInv, NEW c \in Child, outbox[c] # <<>>, ~Waiting(c)
  PROVE  LET m == Head(outbox[c])
         IN  /\ m.job \in Job /\ m.job \in About(c) /\ (m.cmd = "request" \/ m \in EffMsg)
             /\ Tail(outbox[c]) \in Seq(OutMsg)
             /\ m.cmd \in Final => m.job \notin JobsOf(Tail(outbox[c])) \union {proc[c].job} \union StartsOf(inbox[c])
             /\ m.cmd \notin {"progress", "request"} => m.cmd \in Final
<1> DEFINE m == Head(outbox[c])
<1>1. outbox[c] \in Seq(OutMsg) /\ Line(inbox[c], outbox[c], proc[c].job, BusyRuns, wanted)
  BY Types DEF IInv, Lines
<1>2. /\ m \in OutMsg /\ Tail(outbox[c]) \in Seq(OutMsg)
      /\ JobsOf(outbox[c]) = JobsOf(Tail(outbox[c])) \union {m.job}
      /\ WordsOf(outbox[c]) = WordsOf(Tail(outbox[c])) \union {m.cmd}
  BY <1>1, TailHas
<1>3. m.cmd \notin InitWords
  BY <1>2, WordsNow DEF NoInit
<1>4. m.job \in Job /\ (m.cmd = "request" \/ m \in EffMsg) /\ (m.cmd \notin {"progress", "request"} => m.cmd \in Final)
  BY <1>2, <1>3 DEF OutMsg, EffMsg, InitWords, Final
<1>5. m.cmd \in Final => m.job \notin JobsOf(Tail(outbox[c])) \union {proc[c].job} \union StartsOf(inbox[c])
  BY <1>1, LineHeard
<1> QED BY <1>2, <1>4, <1>5 DEF About

\* What a step leaves of the calls when Init is not answered.
CallsAfter ==
  /\ slot' \in [Job -> SlotType] /\ SlotsStay
  /\ free' \in Seq(Child) /\ retained' \subseteq 1 .. made /\ Pooled'
  /\ \A d \in Child : Waiting(d)' <=> Waiting(d)
  /\ \A k \in Job : slot'[k].at \in {"off", "init"} => slot'[k] = slot[k] /\ effects'[k] = effects[k]
  /\ effects' \in [Job -> Seq(EffMsg)]
  /\ queries' \subseteq [call : Job, run : Job, child : Child] /\ \A q \in queries' : q.child <= made /\ ~Waiting(q.child)
  /\ \A k \in Job : slot[k].busy \/ OwnAfter(k)

LEMMA ReceiveStep ==
  ASSUME IInv, NEW c \in Child, Receive(c)
  PROVE  IInv'
<1> DEFINE m == Head(outbox[c])
<1>1. /\ outbox[c] # <<>> /\ outbox' = [outbox EXCEPT ![c] = Tail(@)] /\ ~Waiting(c)
      /\ UNCHANGED <<made, proc, gone, inbox, clean, notes>>
  BY DEF Receive, Waiting
<1>2. /\ m.job \in Job /\ m.job \in About(c) /\ (m.cmd = "request" \/ m \in EffMsg)
      /\ Tail(outbox[c]) \in Seq(OutMsg)
      /\ m.cmd \in Final => m.job \notin JobsOf(Tail(outbox[c])) \union {proc[c].job} \union StartsOf(inbox[c])
      /\ m.cmd \notin {"progress", "request"} => m.cmd \in Final
  BY <1>1, HeardNow
<1>3. /\ outbox \in [Child -> Seq(OutMsg)] /\ effects \in [Job -> Seq(EffMsg)] /\ slot \in [Job -> SlotType]
      /\ queries \subseteq [call : Job, run : Job, child : Child]
  BY Types
<1>4. /\ outbox' \in [Child -> Seq(OutMsg)] /\ outbox'[c] = Tail(outbox[c]) /\ Listens
      /\ \A d \in Child \ {c} : outbox'[d] = outbox[d]
  <2>1. outbox' = [outbox EXCEPT ![c] = Tail(outbox[c])]
    BY <1>1
  <2> QED BY <1>1, <1>2, <1>3, <2>1 DEF Listens
<1>5. /\ inbox' \in [Child -> Seq(InMsg)] /\ Responds
      /\ gone' \subseteq {d \in 1 .. made : proc[d].status = "dead"}
      /\ doomed' \subseteq 1 .. made /\ missed' \subseteq 1 .. made /\ closing' \in BOOLEAN
  BY <1>1, RestSame
<1>6. \A d \in Child : About(d)' \subseteq About(d)
  BY <1>1, <1>4, <1>5, AboutShrinks
<1>7. m.cmd \in Final => m.job \notin About(c)'
  BY <1>1, <1>2, <1>4 DEF About
<1>8. c <= made /\ gone' = gone /\ made' = made
  <2>1. ~(c > made) /\ c \in Nat /\ made \in Nat
    BY <1>1, Types DEF IInv, Unmade, Child
  <2> QED BY <1>1, <2>1
<1> HIDE DEF m
\* the call that listens, if any
<1>9. CallsAfter
  <2>1. ASSUME NEW j \in Job, slot'[j] = slot[j], effects'[j] = effects[j], ~slot[j].busy
        PROVE  OwnAfter(j)
    BY <1>6, <2>1, OwnSame, OwnKept
  <2>2. CASE UNCHANGED <<slot, free, retained, effects, queries>>
    <3>1. \A k \in Job : slot[k].busy \/ OwnAfter(k)
      BY <2>1, <2>2
    <3>2. /\ slot' \in [Job -> SlotType] /\ SlotsStay /\ \A d \in Child : Waiting(d)' <=> Waiting(d)
          /\ Pooled' /\ free' \in Seq(Child) /\ retained' \subseteq 1 .. made
      BY <1>8, <2>2, SlotsSame
    <3>3. /\ effects' \in [Job -> Seq(EffMsg)]
          /\ queries' \subseteq [call : Job, run : Job, child : Child] /\ \A q \in queries' : q.child <= made /\ ~Waiting(q.child)
      BY <2>2, RestSame
    <3> QED BY <2>2, <3>1, <3>2, <3>3 DEF CallsAfter
  <2>3. ASSUME NEW j \in Hearing(c), Heard(j, m)
        PROVE  CallsAfter
    <3>1. j \in Job /\ slot[j].at = "run" /\ slot[j].child = c
      BY DEF Hearing
    <3>2. ~slot[j].busy => /\ m.job = j /\ FinalsOf(effects[j]) = {} /\ LastWord(effects[j])
                           /\ slot[j].by \in {j, NoJob} /\ slot[j].got \subseteq {j} /\ JobsOf(effects[j]) \subseteq {j}
      <4> SUFFICES ASSUME ~slot[j].busy
                   PROVE  /\ m.job = j /\ FinalsOf(effects[j]) = {} /\ LastWord(effects[j])
                          /\ slot[j].by \in {j, NoJob} /\ slot[j].got \subseteq {j} /\ JobsOf(effects[j]) \subseteq {j}
        OBVIOUS
      <4>1. OwnRun(j) /\ Chained(j)
        BY <3>1 DEF IInv, Runs1
      <4>2. m.job = j
        BY <1>2, <3>1, <4>1, Zero DEF OwnRun
      <4> QED BY <1>2, <3>1, <4>1, <4>2 DEF OwnRun, Chained
    <3>3. CASE m.cmd = "request"
      <4>1. /\ queries' = queries \union {[call |-> j, run |-> m.job, child |-> c]}
            /\ UNCHANGED <<slot, free, retained, effects>>
        BY <2>3, <3>1, <3>3 DEF Heard
      <4>2. \A k \in Job : slot[k].busy \/ OwnAfter(k)
        BY <2>1, <4>1
      <4>3. /\ slot' \in [Job -> SlotType] /\ SlotsStay /\ \A d \in Child : Waiting(d)' <=> Waiting(d)
            /\ Pooled' /\ free' \in Seq(Child) /\ retained' \subseteq 1 .. made
        BY <1>8, <4>1, SlotsSame
      <4>4. \A q \in queries : q.child <= made /\ ~Waiting(q.child)
        BY DEF IInv, Asked
      <4>5. queries' \subseteq [call : Job, run : Job, child : Child] /\ \A q \in queries' : q.child <= made /\ ~Waiting(q.child)
        BY <1>1, <1>2, <1>3, <1>8, <3>1, <4>1, <4>4
      <4> QED BY <1>3, <4>1, <4>2, <4>3, <4>5 DEF CallsAfter
    <3>4. CASE m.cmd # "request" /\ (m.cmd = "progress" \/ effects[j] # <<>>)
      <4>1. effects' = [effects EXCEPT ![j] = Joined(effects[j], m)] /\ UNCHANGED <<slot, free, retained, queries>>
        BY <2>3, <3>4 DEF Heard
      <4>2. m \in EffMsg /\ effects[j] \in Seq(EffMsg)
        BY <1>2, <1>3, <3>1, <3>4
      <4>3. /\ Joined(effects[j], m) \in Seq(EffMsg)
            /\ \/ Joined(effects[j], m) = effects[j]
               \/ /\ JobsOf(Joined(effects[j], m)) = JobsOf(effects[j]) \union {m.job}
                  /\ FinalsOf(Joined(effects[j], m)) = FinalsOf(effects[j]) \union (IF m.cmd \in Final THEN {m.job} ELSE {})
                  /\ LastWord(effects[j]) /\ m.job \notin FinalsOf(effects[j]) => LastWord(Joined(effects[j], m))
        BY <4>2, ChainJoined
      <4>4. /\ effects' \in [Job -> Seq(EffMsg)] /\ effects'[j] = Joined(effects[j], m)
            /\ \A k \in Job \ {j} : effects'[k] = effects[k]
        BY <1>3, <3>1, <4>1, <4>3
      <4>5. \A k \in Job : slot[k].busy \/ OwnAfter(k)
        <5> SUFFICES ASSUME NEW k \in Job, ~slot[k].busy PROVE OwnAfter(k)
          OBVIOUS
        <5>1. CASE effects'[k] = effects[k]
          BY <2>1, <4>1, <5>1
        <5>2. CASE effects'[k] # effects[k]
          <6>1. k = j /\ m.job = j /\ slot[j].by \in {j, NoJob} /\ slot[j].got \subseteq {j}
            BY <3>2, <4>4, <5>2
          <6>2. /\ JobsOf(effects'[j]) \subseteq {j} /\ LastWord(effects'[j])
                /\ FinalsOf(effects'[j]) # {} => j \notin About(c)'
            BY <1>7, <3>2, <4>3, <4>4, <5>2, <6>1
          <6>3. slot' = slot /\ c = slot'[j].child /\ slot'[j].at = "run"
            BY <3>1, <4>1
          <6> QED BY <6>1, <6>2, <6>3 DEF OwnAfter, Chained, About
        <5> QED BY <5>1, <5>2
      <4>6. /\ slot' \in [Job -> SlotType] /\ SlotsStay /\ \A d \in Child : Waiting(d)' <=> Waiting(d)
            /\ Pooled' /\ free' \in Seq(Child) /\ retained' \subseteq 1 .. made
        BY <1>8, <4>1, SlotsSame
      <4>7. queries' \subseteq [call : Job, run : Job, child : Child] /\ \A q \in queries' : q.child <= made /\ ~Waiting(q.child)
        BY <4>1, RestSame
      <4>8. \A k \in Job : slot'[k].at \in {"off", "init"} => slot'[k] = slot[k] /\ effects'[k] = effects[k]
        <5>1. slot' = slot
          BY <4>1
        <5> QED BY <3>1, <4>4, <5>1
      <4> QED BY <4>4, <4>5, <4>6, <4>7, <4>8 DEF CallsAfter
    <3>5. CASE m.cmd # "request" /\ ~(m.cmd = "progress" \/ effects[j] # <<>>)
      <4>1. Settles(j, Outcome(m.cmd), m.job, NoChild) /\ UNCHANGED <<effects, queries>>
        BY <2>3, <3>5 DEF Heard
      <4>2. Outcome(m.cmd) \in {"resolved", "rejected"}
        BY DEF Outcome
      <4>3. /\ slot' \in [Job -> SlotType] /\ SlotsStay
            /\ free' \in Seq(Child) /\ retained' \subseteq 1 .. made /\ Pooled'
            /\ \A k \in Job \ {j} : slot'[k] = slot[k]
            /\ slot'[j].got = slot[j].got
            /\ slot'[j].by = m.job
            /\ \A d \in Child : Waiting(d)' <=> Waiting(d)
            /\ \A k \in Job : slot'[k].at \in {"off", "init"} => slot'[k] = slot[k]
        <5>1. gone' \subseteq gone \union {NoChild} /\ made' = made
          BY <1>8
        <5> QED BY <1>2, <3>1, <4>1, <4>2, <5>1, SettleFacts
      <4>4. \A k \in Job : slot[k].busy \/ OwnAfter(k)
        <5> SUFFICES ASSUME NEW k \in Job, ~slot[k].busy PROVE OwnAfter(k)
          OBVIOUS
        <5>1. CASE k # j
          BY <2>1, <4>1, <4>3, <5>1
        <5>2. CASE k = j
          <6>1. m.job = j /\ slot[j].got \subseteq {j} /\ JobsOf(effects[j]) \subseteq {j} /\ LastWord(effects[j])
            BY <3>2, <5>2
          <6>2. effects'[j] = <<>> /\ effects' = effects
            BY <3>5, <4>1
          <6>3. j \notin About(c)' /\ slot'[j].child = c
            <7>1. m.cmd \in Final
              BY <1>2, <3>5
            <7> QED BY <1>7, <3>1, <4>3, <6>1, <7>1 DEF SlotsStay
          <6> QED BY <4>3, <5>2, <6>1, <6>2, <6>3 DEF OwnAfter, Chained, About
        <5> QED BY <5>1, <5>2
      <4>5. /\ effects' \in [Job -> Seq(EffMsg)]
            /\ queries' \subseteq [call : Job, run : Job, child : Child] /\ \A q \in queries' : q.child <= made /\ ~Waiting(q.child)
        BY <4>1, RestSame
      <4> QED BY <4>1, <4>3, <4>4, <4>5 DEF CallsAfter
    <3> QED BY <3>3, <3>4, <3>5
  <2>4. (Hearing(c) = {} /\ UNCHANGED <<slot, free, retained, effects, queries>>) \/ \E j \in Hearing(c) : Heard(j, m)
    BY DEF Receive, m
  <2> QED BY <2>2, <2>3, <2>4
<1>10. /\ \A d \in Child : Waiting(d) => outbox'[d] = <<>> \/ (outbox'[d] = outbox[d] /\ Waiting(d)')
       /\ \A d \in Child : Waiting(d) /\ ~(Waiting(d)') => inbox'[d] = <<>>
  BY <1>1, <1>4, <1>9 DEF CallsAfter
<1>11. UNCHANGED <<made, proc, notes>>
  BY <1>1
<1> QED BY <1>4, <1>5, <1>9, <1>10, <1>11, ParentSteps DEF CallsAfter

\* A child is sent a job, and its cancellation.
WithJob(in, j, W) == in \o (<<Msg("start", j)>> \o IF j \in W THEN <<Msg("cancel", j)>> ELSE <<>>)

LEMMA LineBegins ==
  ASSUME NEW in \in Seq(InMsg), NEW out, NEW run, NEW R, NEW W, Line(in, out, run, R, W), NEW j \in Job,
         j \notin StartsOf(in) \union JobsOf(out) \union {run}, j \in R \/ (StartsOf(in) = {} /\ run = NoJob)
  PROVE  LET in1 == WithJob(in, j, W)
         IN  /\ in1 \in Seq(InMsg) /\ Line(in1, out, run, R, W)
             /\ StartsOf(in1) = StartsOf(in) \union {j} /\ CancelsOf(in1) \subseteq CancelsOf(in) \union {j}
             /\ WordsOf(in1) \subseteq WordsOf(in) \union {"start", "cancel"}
<1> DEFINE m == Msg("start", j)
           n == Msg("cancel", j)
           a == Append(in, m)
           b == Append(a, n)
<1>1. /\ m \in InMsg /\ m.cmd = "start" /\ m.job = j
      /\ n \in InMsg /\ n.cmd = "cancel" /\ n.job = j
  BY DEF Msg, InMsg
<1>2. in \o (<<m>> \o IF j \in W THEN <<n>> ELSE <<>>) = IF j \in W THEN b ELSE a
  <2> HIDE DEF m, n
  <2>1. <<m>> \in Seq(InMsg) /\ <<n>> \in Seq(InMsg)
    BY <1>1
  <2>2. a \in Seq(InMsg) /\ a = in \o <<m>>
    BY <1>1, AppendProperties, AppendIsConcat
  <2>3. b = a \o <<n>>
    <3> HIDE DEF a
    <3> QED BY <1>1, <2>2, AppendIsConcat
  <2>4. in \o (<<m>> \o <<n>>) = b
    BY <2>1, <2>2, <2>3, ConcatAssociative
  <2>5. <<m>> \o <<>> = <<m>>
    BY <2>1, ConcatEmptySeq
  <2> HIDE DEF a, b
  <2> QED BY <2>2, <2>4, <2>5
<1> HIDE DEF m, n
<1>3. /\ a \in Seq(InMsg) /\ StartsOf(a) = StartsOf(in) \union {j} /\ CancelsOf(a) = CancelsOf(in)
      /\ WordsOf(a) = WordsOf(in) \union {"start"}
  <2>1. /\ a \in Seq(InMsg) /\ StartsOf(a) = StartsOf(in) \union (IF m.cmd = "start" THEN {m.job} ELSE {})
        /\ CancelsOf(a) = CancelsOf(in) \union (IF m.cmd = "cancel" THEN {m.job} ELSE {})
        /\ WordsOf(a) = WordsOf(in) \union {m.cmd}
    <3>1. m \in InMsg
      BY <1>1
    <3> QED BY <3>1, Appended
  <2> HIDE DEF a
  <2> QED BY <1>1, <2>1
<1>4. Line(a, out, run, R, W)
  BY <1>1, LineSent
<1> HIDE DEF a
<1>5. /\ b \in Seq(InMsg) /\ StartsOf(b) = StartsOf(a) /\ CancelsOf(b) = CancelsOf(a) \union {j}
      /\ WordsOf(b) = WordsOf(a) \union {"cancel"}
  <2>1. /\ b \in Seq(InMsg) /\ StartsOf(b) = StartsOf(a) \union (IF n.cmd = "start" THEN {n.job} ELSE {})
        /\ CancelsOf(b) = CancelsOf(a) \union (IF n.cmd = "cancel" THEN {n.job} ELSE {})
        /\ WordsOf(b) = WordsOf(a) \union {n.cmd}
    BY <1>1, <1>3, Appended
  <2> HIDE DEF b
  <2> QED BY <1>1, <2>1
<1>6. j \in W => Line(b, out, run, R, W)
  BY <1>1, <1>3, <1>4, LineSent
<1> HIDE DEF b
<1>7. ASSUME NEW in1, in1 = IF j \in W THEN b ELSE a
      PROVE  /\ in1 \in Seq(InMsg) /\ Line(in1, out, run, R, W)
             /\ StartsOf(in1) = StartsOf(in) \union {j} /\ CancelsOf(in1) \subseteq CancelsOf(in) \union {j}
             /\ WordsOf(in1) \subseteq WordsOf(in) \union {"start", "cancel"}
  BY <1>3, <1>4, <1>5, <1>6, <1>7
<1> QED BY <1>2, <1>7 DEF m, n, WithJob

\* A child the parent has for j is sent it: it has nothing to say of another job, unless it came busy.
Begins(j, c) ==
  /\ slot[j].at \in {"off", "init"} /\ Begun(j, c) /\ c \in 1 .. made /\ c \notin gone
  /\ \A k \in Job \ {j} : slot[k].at \in {"init", "run"} => slot[k].child # c
  /\ slot[j].at = "init" => slot[j].child = c
  /\ free' \in Seq(Child) /\ IsInjective(free') /\ ToSet(free') \subseteq ToSet(free) \ {c}
  /\ outbox' \in [Child -> Seq(OutMsg)] /\ JobsOf(outbox'[c]) \subseteq JobsOf(outbox[c])
  /\ \A d \in Child \ {c} : outbox'[d] = outbox[d]
  /\ Line(inbox[c], outbox'[c], proc[c].job, BusyRuns, wanted) /\ NoInit(inbox[c], outbox'[c])
  /\ UNCHANGED <<made, proc, gone, effects, queries, clean, notes>>

LEMMA NotBusy ==
  ASSUME IInv, NEW c \in Child, ~Busy(c)
  PROVE  JobsOf(outbox[c]) \subseteq {NoJob} /\ proc[c].job = NoJob /\ StartsOf(inbox[c]) = {}
BY DEF Busy, JobsOf, StartsOf

LEMMA BeginsSlot ==
  ASSUME IInv, NEW j \in Job, NEW c \in Child, Begins(j, c)
  PROVE  /\ slot' \in [Job -> SlotType] /\ slot'[j].at = "run" /\ slot'[j].child = c /\ slot'[j].busy = Busy(c)
         /\ slot'[j].by = NoJob /\ slot'[j].got = {} /\ effects[j] = <<>> /\ ~slot[j].busy
         /\ \A k \in Job \ {j} : slot'[k] = slot[k]
<1>1. slot \in [Job -> SlotType] /\ slot[j] \in SlotType /\ slot[j].by = NoJob /\ slot[j].got = {} /\ effects[j] = <<>> /\ ~slot[j].busy
  BY Types DEF Begins, IInv, NotBegun
<1>2. Busy(c) \in BOOLEAN
  BY DEF Busy
<1>3. slot' = [slot EXCEPT ![j].at = "run", ![j].child = c, ![j].busy = Busy(c)]
  BY DEF Begins, Begun
<1>4. ASSUME NEW b \in BOOLEAN, b = Busy(c)
      PROVE  /\ slot' \in [Job -> SlotType] /\ slot'[j].at = "run" /\ slot'[j].child = c /\ slot'[j].busy = b
             /\ slot'[j].by = NoJob /\ slot'[j].got = {}
             /\ \A k \in Job \ {j} : slot'[k] = slot[k]
  <2>1. slot' = [slot EXCEPT ![j].at = "run", ![j].child = c, ![j].busy = b]
    BY <1>3, <1>4
  <2> QED BY <1>1, <2>1 DEF SlotType
<1> QED BY <1>1, <1>2, <1>4

LEMMA BeginsInbox ==
  ASSUME IInv, NEW j \in Job, NEW c \in Child, Begins(j, c)
  PROVE  /\ inbox' \in [Child -> Seq(InMsg)] /\ \A d \in Child \ {c} : inbox'[d] = inbox[d]
         /\ ~Alive(c) => inbox'[c] = inbox[c]
         /\ BusyRuns \subseteq BusyRuns' /\ Line(inbox'[c], outbox'[c], proc[c].job, BusyRuns', wanted)
         /\ StartsOf(inbox'[c]) \subseteq StartsOf(inbox[c]) \union {j}
         /\ CancelsOf(inbox'[c]) \subseteq CancelsOf(inbox[c]) \union {j}
         /\ NoInit(inbox'[c], outbox'[c])
<1> DEFINE in  == inbox[c]
           in1 == WithJob(in, j, wanted)
           R   == BusyRuns'
<1>1. inbox \in [Child -> Seq(InMsg)] /\ in \in Seq(InMsg)
  BY Types
<1>2. BusyRuns \subseteq R /\ (j \in R <=> Busy(c))
  BY BeginsSlot DEF BusyRuns
<1>3. Line(in, outbox'[c], proc[c].job, R, wanted)
  <2>1. Line(in, outbox'[c], proc[c].job, BusyRuns, wanted)
    BY DEF Begins
  <2> HIDE DEF in, R
  <2> QED BY <1>2, <2>1, LineGrows
<1>4. j \notin StartsOf(in) \union JobsOf(outbox'[c]) \union {proc[c].job}
  <2>1. j \notin About(c)
    <3>1. slot[j].at \in {"off", "init"} /\ j # NoJob
      BY Zero DEF Begins
    <3> QED BY <3>1 DEF IInv, Where
  <2> QED BY <2>1 DEF About, Begins
<1>5. j \in R \/ (StartsOf(in) = {} /\ proc[c].job = NoJob)
  BY <1>2, NotBusy
<1>6. /\ in1 \in Seq(InMsg) /\ Line(in1, outbox'[c], proc[c].job, R, wanted)
      /\ StartsOf(in1) = StartsOf(in) \union {j} /\ CancelsOf(in1) \subseteq CancelsOf(in) \union {j}
      /\ WordsOf(in1) \subseteq WordsOf(in) \union {"start", "cancel"}
  <2> HIDE DEF in, R
  <2> QED BY <1>1, <1>3, <1>4, <1>5, LineBegins
<1>7. inbox' = [inbox EXCEPT ![c] = IF Alive(c) THEN in1 ELSE in]
  BY DEF Begins, Begun, Sent, WithJob
<1> HIDE DEF in1
<1>8. /\ inbox' \in [Child -> Seq(InMsg)] /\ inbox'[c] = (IF Alive(c) THEN in1 ELSE in)
      /\ \A d \in Child \ {c} : inbox'[d] = inbox[d]
  BY <1>1, <1>6, <1>7
<1>9. NoInit(in1, outbox'[c]) /\ NoInit(in, outbox'[c])
  BY <1>6 DEF Begins, NoInit
<1> HIDE DEF in, R
<1>10. /\ Line(inbox'[c], outbox'[c], proc[c].job, R, wanted)
       /\ StartsOf(inbox'[c]) \subseteq StartsOf(in) \union {j} /\ CancelsOf(inbox'[c]) \subseteq CancelsOf(in) \union {j}
       /\ NoInit(inbox'[c], outbox'[c])
  <2>1. CASE Alive(c)
    <3>1. inbox'[c] = in1
      BY <1>8, <2>1
    <3> QED BY <1>6, <1>9, <3>1
  <2>2. CASE ~Alive(c)
    <3>1. inbox'[c] = in
      BY <1>8, <2>2
    <3> QED BY <1>3, <1>9, <3>1
  <2> QED BY <2>1, <2>2
<1> QED BY <1>2, <1>8, <1>10 DEF in, R

LEMMA BeginsPool ==
  ASSUME IInv, NEW j \in Job, NEW c \in Child, Begins(j, c)
  PROVE  Pooled' /\ retained' \subseteq 1 .. made /\ \A d \in Child : Waiting(d)' <=> Waiting(d) /\ d # c
<1>1. /\ slot'[j].at = "run" /\ slot'[j].child = c /\ \A k \in Job \ {j} : slot'[k] = slot[k]
  BY BeginsSlot
<1>2. /\ OnePlace /\ NoneDead /\ ToSet(free) \subseteq 1 .. made
      /\ \A d \in retained : \E k \in Job : slot[k].at = "run" /\ slot[k].child = d
  BY DEF IInv, Pooled
<1>3. /\ slot[j].at \in {"off", "init"} /\ retained' = retained \union {c} /\ c \in 1 .. made /\ c \notin gone
      /\ \A k \in Job \ {j} : slot[k].at \in {"init", "run"} => slot[k].child # c
      /\ IsInjective(free') /\ ToSet(free') \subseteq ToSet(free) \ {c} /\ made' = made /\ gone' = gone
      /\ slot[j].at = "init" => slot[j].child = c
  BY DEF Begins, Begun
<1>4. OnePlace'
  <2>1. \A i, k \in Job : slot'[i].at \in {"init", "run"} /\ slot'[k].at \in {"init", "run"}
                            /\ slot'[i].child = slot'[k].child => i = k
    <3> SUFFICES ASSUME NEW i \in Job, NEW k \in Job, slot'[i].at \in {"init", "run"}, slot'[k].at \in {"init", "run"},
                        slot'[i].child = slot'[k].child, i # k
                 PROVE  FALSE
      OBVIOUS
    <3>1. CASE i = j
      BY <1>1, <1>3, <3>1
    <3>2. CASE k = j
      BY <1>1, <1>3, <3>2
    <3>3. CASE i # j /\ k # j
      BY <1>1, <1>2, <3>3 DEF OnePlace
    <3> QED BY <3>1, <3>2, <3>3
  <2>2. \A k \in Job : slot'[k].at \in {"init", "run"} => slot'[k].child \notin ToSet(free')
    BY <1>1, <1>2, <1>3 DEF OnePlace
  <2>3. ToSet(free') \intersect retained' = {}
    BY <1>2, <1>3 DEF OnePlace
  <2> QED BY <1>3, <2>1, <2>2, <2>3 DEF OnePlace
<1>5. NoneDead' /\ ToSet(free') \subseteq 1 .. made'
  BY <1>2, <1>3 DEF NoneDead
<1>6. \A d \in retained' : \E k \in Job : slot'[k].at = "run" /\ slot'[k].child = d
  <2> SUFFICES ASSUME NEW d \in retained \union {c} PROVE \E k \in Job : slot'[k].at = "run" /\ slot'[k].child = d
    BY <1>3
  <2>1. CASE d = c
    BY <1>1, <2>1
  <2>2. CASE d \in retained
    <3>1. PICK k \in Job : slot[k].at = "run" /\ slot[k].child = d
      BY <1>2, <2>2
    <3>2. k # j
      BY <1>3, <3>1
    <3> QED BY <1>1, <3>1, <3>2
  <2> QED BY <2>1, <2>2
<1>7. \A d \in Child : Waiting(d)' <=> Waiting(d) /\ d # c
  <2> SUFFICES ASSUME NEW d \in Child PROVE Waiting(d)' <=> Waiting(d) /\ d # c
    OBVIOUS
  <2>1. Waiting(d)' <=> \E k \in Job \ {j} : slot[k].at = "init" /\ slot[k].child = d
    BY <1>1 DEF Waiting
  <2>2. (\E k \in Job \ {j} : slot[k].at = "init" /\ slot[k].child = d) => Waiting(d) /\ d # c
    BY <1>3 DEF Waiting
  <2>3. Waiting(d) /\ d # c => \E k \in Job \ {j} : slot[k].at = "init" /\ slot[k].child = d
    BY <1>3 DEF Waiting
  <2> QED BY <2>1, <2>2, <2>3
<1>8. retained' \subseteq 1 .. made
  BY <1>3, Types
<1> QED BY <1>4, <1>5, <1>6, <1>7, <1>8 DEF Pooled

LEMMA BeginsStep ==
  ASSUME IInv, NEW j \in Job, NEW c \in Child, Begins(j, c)
  PROVE  IInv'
<1>1. /\ slot' \in [Job -> SlotType] /\ slot'[j].at = "run" /\ slot'[j].child = c /\ slot'[j].busy = Busy(c)
      /\ slot'[j].by = NoJob /\ slot'[j].got = {} /\ effects[j] = <<>> /\ ~slot[j].busy
      /\ \A k \in Job \ {j} : slot'[k] = slot[k]
  BY BeginsSlot
<1>2. /\ inbox' \in [Child -> Seq(InMsg)] /\ \A d \in Child \ {c} : inbox'[d] = inbox[d]
      /\ ~Alive(c) => inbox'[c] = inbox[c]
      /\ BusyRuns \subseteq BusyRuns' /\ Line(inbox'[c], outbox'[c], proc[c].job, BusyRuns', wanted)
      /\ StartsOf(inbox'[c]) \subseteq StartsOf(inbox[c]) \union {j}
      /\ CancelsOf(inbox'[c]) \subseteq CancelsOf(inbox[c]) \union {j}
      /\ NoInit(inbox'[c], outbox'[c])
  BY BeginsInbox
<1>3. Pooled' /\ retained' \subseteq 1 .. made /\ \A d \in Child : Waiting(d)' <=> Waiting(d) /\ d # c
  BY BeginsPool
<1>4. /\ slot[j].at \in {"off", "init"} /\ c \in 1 .. made /\ free' \in Seq(Child)
      /\ \A k \in Job \ {j} : slot[k].at \in {"init", "run"} => slot[k].child # c
      /\ outbox' \in [Child -> Seq(OutMsg)] /\ JobsOf(outbox'[c]) \subseteq JobsOf(outbox[c])
      /\ \A d \in Child \ {c} : outbox'[d] = outbox[d]
      /\ UNCHANGED <<made, proc, gone, effects, queries, clean, notes>>
  BY DEF Begins
<1>5. TypeOK'
  <2>1. TypeOK
    BY DEF IInv
  <2>2. \A k \in Job : slot'[k].at # "off" => slot'[k].child \in 1 .. made
    <3> SUFFICES ASSUME NEW k \in Job, slot'[k].at # "off" PROVE slot'[k].child \in 1 .. made
      OBVIOUS
    <3>1. CASE k = j
      BY <1>1, <1>4, <3>1
    <3>2. CASE k # j
      BY <1>1, <3>2, Types
    <3> QED BY <3>1, <3>2
  <2>3. slot' \in [Job -> [at : {"off", "init", "run", "resolved", "rejected"}, child : Child \union {NoChild},
                           by : Job \union {NoJob}, got : SUBSET Job, busy : BOOLEAN]]
    BY <1>1 DEF SlotType
  <2> QED BY <1>3, <1>4, <2>1, <2>2, <2>3 DEF TypeOK, clean, notes
<1>6. Channels'
  BY <1>2, <1>4 DEF IInv, Channels
<1>7. Unmade'
  <2>1. \A d \in Child : d > made => d # c
    <3>1. c \in Nat /\ made \in Nat /\ ~(c > made)
      BY <1>4, Types
    <3> QED BY <3>1
  <2> QED BY <1>2, <1>4, <2>1 DEF IInv, Unmade, Alive
<1>8. NotBegun'
  BY <1>1, <1>4 DEF IInv, NotBegun
<1>9. Asked'
  <2>1. \A q \in queries : q.child \in Child /\ q.child <= made /\ ~Waiting(q.child)
    BY Types DEF IInv, Asked
  <2> QED BY <1>3, <1>4, <2>1 DEF Asked
<1>10. InitFirst'
  <2> SUFFICES ASSUME NEW d \in Child
               PROVE  IF Waiting(d)' THEN FirstWords(inbox'[d], outbox'[d], proc[d].job) ELSE NoInit(inbox'[d], outbox'[d])
    BY <1>4 DEF InitFirst
  <2>1. CASE d = c
    BY <1>2, <1>3, <2>1
  <2>2. CASE d # c
    <3>1. inbox'[d] = inbox[d] /\ outbox'[d] = outbox[d] /\ (Waiting(d)' <=> Waiting(d))
      BY <1>2, <1>3, <1>4, <2>2
    <3> QED BY <3>1, WordsNow
  <2> QED BY <2>1, <2>2
<1>11. Lines'
  <2> SUFFICES ASSUME NEW d \in Child PROVE Line(inbox'[d], outbox'[d], proc[d].job, BusyRuns', wanted)
    BY <1>4 DEF Lines, notes
  <2>1. CASE d = c
    BY <1>2, <2>1
  <2>2. CASE d # c
    <3>1. inbox'[d] = inbox[d] /\ outbox'[d] = outbox[d] /\ Line(inbox[d], outbox[d], proc[d].job, BusyRuns, wanted)
      BY <1>2, <1>4, <2>2 DEF IInv, Lines
    <3>2. Line(inbox[d], outbox[d], proc[d].job, BusyRuns', wanted)
      BY <1>2, <3>1, LineGrows
    <3> QED BY <3>1, <3>2
  <2> QED BY <2>1, <2>2
<1>12. \A d \in Child : About(d)' \subseteq About(d) \union (IF d = c THEN {j} ELSE {})
  BY <1>2, <1>4 DEF About
<1>13. Where'
  <2> SUFFICES ASSUME NEW d \in Child, NEW k, k \in (About(d)' \union CancelsOf(inbox'[d])) \ {NoJob}
               PROVE  slot'[k].child = d /\ slot'[k].at \notin {"off", "init"}
    BY DEF Where
  <2>1. CASE d = c /\ k = j
    BY <1>1, <2>1
  <2>2. CASE ~(d = c /\ k = j)
    <3>1. k \in (About(d) \union CancelsOf(inbox[d])) \ {NoJob}
      <4>1. CancelsOf(inbox'[d]) \subseteq CancelsOf(inbox[d]) \union (IF d = c THEN {j} ELSE {})
        BY <1>2
      <4> QED BY <1>12, <2>2, <4>1
    <3>2. slot[k].child = d /\ slot[k].at \notin {"off", "init"}
      BY <3>1 DEF IInv, Where
    <3>3. k \in Job
      <4>1. JobsOf(outbox[d]) \subseteq Job \union {NoJob} /\ StartsOf(inbox[d]) \union CancelsOf(inbox[d]) \subseteq Job
        <5>1. inbox[d] \in Seq(InMsg) /\ outbox[d] \in Seq(OutMsg)
          BY Types
        <5> QED BY <5>1, JobsIn
      <4>2. proc[d].job \in Job \union {NoJob}
        BY Types DEF ProcType
      <4> QED BY <3>1, <4>1, <4>2 DEF About
    <3>4. k # j
      BY <1>4, <3>2
    <3> QED BY <1>1, <3>2, <3>3, <3>4
  <2> QED BY <2>1, <2>2
<1>14. Runs1'
  <2> SUFFICES ASSUME NEW k \in Job, ~slot'[k].busy PROVE OwnRun(k)' /\ Chained(k)'
    BY DEF Runs1
  <2>1. CASE k = j
    <3>1. effects'[j] = <<>> /\ JobsOf(effects'[j]) = {} /\ FinalsOf(effects'[j]) = {} /\ LastWord(effects'[j])
      BY <1>1, <1>4, Emptied
    <3>2. About(c)' \subseteq {j, NoJob}
      <4>1. ~Busy(c)
        BY <1>1, <2>1
      <4>2. About(c) \subseteq {NoJob}
        BY <4>1, NotBusy DEF About
      <4> QED BY <1>12, <4>2
    <3>3. slot'[j].child = c /\ slot'[j].by = NoJob /\ slot'[j].got = {} /\ slot'[j].at = "run"
      BY <1>1
    <3> QED BY <2>1, <3>1, <3>2, <3>3 DEF OwnRun, Chained, About
  <2>2. CASE k # j
    <3>1. slot'[k] = slot[k] /\ effects'[k] = effects[k] /\ OwnRun(k) /\ Chained(k)
      BY <1>1, <1>4, <2>2 DEF IInv, Runs1
    <3>2. ASSUME NEW d, d = slot[k].child, slot[k].at # "off"
          PROVE  (slot[k].at = "run" => About(d)' \subseteq {k, NoJob}) /\ (k \notin About(d) => k \notin About(d)')
      <4>1. d \in Child
        BY <3>2, Types
      <4>2. slot[k].at = "run" => d # c
        BY <1>4, <2>2, <3>2
      <4>3. slot[k].at = "run" => About(d) \subseteq {k, NoJob}
        BY <3>1, <3>2 DEF OwnRun
      <4> QED BY <1>12, <2>2, <4>1, <4>2, <4>3
    <3>3. FinalsOf(effects[k]) # {} \/ (slot[k].at = "resolved" /\ slot[k].by = k) => slot[k].at # "off"
      BY Emptied DEF IInv, NotBegun
    <3>4. PICK d : d = slot[k].child
      OBVIOUS
    <3>5. FinalsOf(effects[k]) # {} \/ (slot[k].at = "resolved" /\ slot[k].by = k) => k \notin About(d)'
      BY <3>1, <3>2, <3>3, <3>4 DEF Chained
    <3>6. slot[k].at = "run" => About(d)' \subseteq {k, NoJob}
      BY <3>2, <3>4
    <3> QED BY <3>1, <3>4, <3>5, <3>6 DEF OwnRun, Chained, About
  <2> QED BY <2>1, <2>2
<1>15. AbortsItsOwn'
  <2>1. \A k \in wanted : slot[k].busy => slot'[k].busy
    <3>1. wanted \subseteq Job
      BY DEF IInv, TypeOK
    <3> QED BY <1>1, <3>1
  <2> QED BY <1>4, <2>1 DEF IInv, AbortsItsOwn, notes
<1> QED BY <1>3, <1>5, <1>6, <1>7, <1>8, <1>9, <1>10, <1>11, <1>13, <1>14, <1>15 DEF IInv

\* Init was answered: the child has nothing else to read and to say.
LEMMA InitCompletedStep ==
  ASSUME IInv, NEW j \in Job, InitAnswered(j), Head(outbox[slot[j].child]).cmd = "initCompleted"
  PROVE  IInv'
<1> DEFINE c == slot[j].child
<1>1. /\ slot[j].at = "init" /\ c \notin gone /\ outbox[c] # <<>> /\ Begun(j, c) /\ UNCHANGED free
      /\ outbox' = [outbox EXCEPT ![c] = Tail(@)]
      /\ UNCHANGED <<made, proc, gone, effects, queries, clean, notes>>
  BY DEF InitAnswered
<1>2. /\ c \in Child /\ c \in 1 .. made /\ inbox[c] = <<>> /\ proc[c].job = NoJob /\ Tail(outbox[c]) = <<>> /\ c \notin ToSet(free)
      /\ \A k \in Job \ {j} : slot[k].at \in {"init", "run"} => slot[k].child # c
  BY <1>1, InitNow
<1>3. /\ outbox \in [Child -> Seq(OutMsg)] /\ free \in Seq(Child) /\ IsInjective(free)
      /\ inbox[c] \in Seq(InMsg) /\ outbox[c] \in Seq(OutMsg)
  BY <1>2, Types DEF IInv, Pooled, OnePlace
<1>4. /\ outbox' \in [Child -> Seq(OutMsg)] /\ outbox'[c] = <<>> /\ \A d \in Child \ {c} : outbox'[d] = outbox[d]
  <2>1. <<>> \in Seq(OutMsg) /\ outbox' = [outbox EXCEPT ![c] = <<>>]
    BY <1>1, <1>2, <1>3, EmptySeq
  <2> HIDE DEF c
  <2> QED BY <1>2, <1>3, <2>1
<1>5. Line(<<>>, <<>>, NoJob, BusyRuns, wanted)
  BY Emptied DEF Line
<1>6. NoInit(<<>>, <<>>)
  BY Emptied DEF NoInit
<1>7. JobsOf(outbox'[c]) = {} /\ Line(inbox[c], outbox'[c], proc[c].job, BusyRuns, wanted) /\ NoInit(inbox[c], outbox'[c])
  BY <1>2, <1>4, <1>5, <1>6, Emptied
<1> HIDE DEF c
<1>8. Begins(j, c)
  BY <1>1, <1>2, <1>3, <1>4, <1>7 DEF Begins, c
<1> QED BY <1>2, <1>8, BeginsStep

\* The last free child is taken.
LEMMA RetainFreeStep ==
  ASSUME IInv, NEW j \in Job, Retain(j), free # <<>>
  PROVE  IInv'
<1> DEFINE c == Last(free)
<1>1. /\ slot[j].at = "off" /\ free' = Front(free) /\ Begun(j, c)
      /\ UNCHANGED <<made, proc, gone, outbox, effects, queries, clean, notes>>
  BY DEF Retain
<1>2. OnePlace /\ NoneDead /\ ToSet(free) \subseteq 1 .. made
  BY DEF IInv, Pooled
<1>3. Front(free) \in Seq(Child) /\ IsInjective(Front(free)) /\ c \in ToSet(free) /\ ToSet(Front(free)) = ToSet(free) \ {c}
  BY <1>2, Types, FreeFront DEF OnePlace
<1> HIDE DEF c
<1>4. c \in 1 .. made /\ c \in Child /\ c \notin gone
  BY <1>2, <1>3, Types DEF NoneDead
<1>5. \A k \in Job : slot[k].at \in {"init", "run"} => slot[k].child # c
  BY <1>2, <1>3 DEF OnePlace
<1>6. ~Waiting(c)
  BY <1>5 DEF Waiting
<1>7. NoInit(inbox[c], outbox[c]) /\ Line(inbox[c], outbox[c], proc[c].job, BusyRuns, wanted)
  BY <1>4, <1>6, WordsNow DEF IInv, Lines
<1>8. outbox \in [Child -> Seq(OutMsg)]
  BY Types
<1>9. Begins(j, c)
  BY <1>1, <1>3, <1>4, <1>5, <1>7, <1>8 DEF Begins
<1> QED BY <1>4, <1>9, BeginsStep

\* A child is forked and sent the file.
LEMMA RetainNewStep ==
  ASSUME IInv, NEW j \in Job, Retain(j), free = <<>>
  PROVE  IInv'
<1> DEFINE m == Msg("init", j)
<1>0. PICK c \in Nat : c = made + 1
  BY Types
<1>1. /\ slot[j].at = "off" /\ made < MaxChildren /\ made' = c
      /\ proc' = [proc EXCEPT ![c].status = "new"] /\ inbox' = [inbox EXCEPT ![c] = <<m>>]
      /\ slot' = [slot EXCEPT ![j].at = "init", ![j].child = c]
      /\ UNCHANGED <<free, retained, gone, outbox, effects, queries, clean, notes>>
  BY <1>0 DEF Retain
<1>2. /\ made \in Nat /\ c \in Child /\ c > made /\ c \notin 1 .. made /\ 1 .. made \subseteq 1 .. c /\ c \in 1 .. c
      /\ c # NoChild /\ c <= MaxChildren /\ MaxChildren \in Nat
  BY <1>0, <1>1, Types, SandboxAssumption DEF Child, NoChild
<1>3. m \in InMsg /\ m.cmd = "init" /\ m.job = j
  BY DEF InMsg, Msg
<1>4. /\ proc \in [Child -> ProcType] /\ inbox \in [Child -> Seq(InMsg)] /\ outbox \in [Child -> Seq(OutMsg)]
      /\ slot \in [Job -> SlotType] /\ slot[j] \in SlotType /\ effects \in [Job -> Seq(EffMsg)]
      /\ \A d \in Child : proc[d].job # NoJob => proc[d].status \in {"started", "terminating"}
      /\ gone \subseteq {d \in 1 .. made : proc[d].status = "dead"}
      /\ \A k \in Job : slot[k].at # "off" => slot[k].child \in 1 .. made
  BY Types
<1>5. proc[c].status = "none" /\ outbox[c] = <<>> /\ inbox[c] = <<>> /\ proc[c].job = NoJob
  BY <1>2, <1>4 DEF IInv, Unmade, Alive
<1> HIDE DEF m
<1>6. /\ proc' \in [Child -> ProcType] /\ proc'[c].status = "new" /\ proc'[c].job = NoJob
      /\ \A d \in Child \ {c} : proc'[d] = proc[d]
  BY <1>1, <1>2, <1>4, <1>5 DEF ProcType
<1>7. /\ <<m>> \in Seq(InMsg) /\ Len(<<m>>) = 1 /\ JobsOf(<<m>>) = {j} /\ StartsOf(<<m>>) = {} /\ CancelsOf(<<m>>) = {}
      /\ WordsOf(<<m>>) = {"init"} /\ StartsOnce(<<m>>) /\ CancelsLate(<<m>>, BusyRuns)
  <2>1. <<>> \in Seq(InMsg) /\ Len(<<>>) = 0 /\ Append(<<>>, m) = <<m>>
    BY EmptySeq
  <2>2. ASSUME NEW s \in Seq(InMsg), s = <<>>
        PROVE  /\ Append(s, m) \in Seq(InMsg) /\ Len(Append(s, m)) = Len(s) + 1
               /\ JobsOf(Append(s, m)) = JobsOf(s) \union {m.job}
               /\ StartsOf(Append(s, m)) = StartsOf(s) \union (IF m.cmd = "start" THEN {m.job} ELSE {})
               /\ CancelsOf(Append(s, m)) = CancelsOf(s) \union (IF m.cmd = "cancel" THEN {m.job} ELSE {})
               /\ WordsOf(Append(s, m)) = WordsOf(s) \union {m.cmd}
    <3>1. m \in InMsg
      BY <1>3
    <3> QED BY <3>1, Appended
  <2>3. StartsOnce(Append(<<>>, m)) /\ CancelsLate(Append(<<>>, m), BusyRuns)
    BY <1>3, <2>1, AppendedInOrder, Emptied
  <2> QED BY <1>3, <2>1, <2>2, <2>3, Emptied
<1>8. /\ inbox' \in [Child -> Seq(InMsg)] /\ inbox'[c] = <<m>> /\ \A d \in Child \ {c} : inbox'[d] = inbox[d]
  BY <1>1, <1>2, <1>4, <1>7
<1>9. /\ slot' \in [Job -> SlotType] /\ slot'[j].at = "init" /\ slot'[j].child = c
      /\ slot'[j].by = slot[j].by /\ slot'[j].got = slot[j].got /\ slot'[j].busy = slot[j].busy
      /\ \A k \in Job \ {j} : slot'[k] = slot[k]
  BY <1>1, <1>2, <1>4 DEF SlotType
<1>10. \A k \in Job : slot[k].at # "off" => slot[k].child # c /\ k # j
  BY <1>1, <1>2, <1>4
<1>11. /\ Waiting(c)' /\ ~Waiting(c) /\ \A d \in Child \ {c} : Waiting(d)' <=> Waiting(d)
  <2>1. Waiting(c)' /\ ~Waiting(c)
    BY <1>9, <1>10 DEF Waiting
  <2>2. ASSUME NEW d \in Child \ {c}
        PROVE  Waiting(d)' <=> Waiting(d)
    BY <1>1, <1>9, <1>10 DEF Waiting
  <2> QED BY <2>1, <2>2
<1>12. TypeOK'
  <2>1. TypeOK
    BY DEF IInv
  <2>2. \A k \in Job : slot'[k].at # "off" => slot'[k].child \in 1 .. made'
    BY <1>1, <1>2, <1>4, <1>9
  <2>3. gone' \subseteq {d \in 1 .. made' : proc'[d].status = "dead"}
    <3>1. \A d \in gone : d \in Child \ {c} /\ d \in 1 .. made /\ proc[d].status = "dead"
      BY <1>2, <1>4, Types
    <3> QED BY <1>1, <1>2, <1>6, <3>1
  <2>4. \A d \in Child : proc'[d].job # NoJob => proc'[d].status \in {"started", "terminating"}
    BY <1>4, <1>6
  <2>5. slot' \in [Job -> [at : {"off", "init", "run", "resolved", "rejected"}, child : Child \union {NoChild},
                           by : Job \union {NoJob}, got : SUBSET Job, busy : BOOLEAN]]
    BY <1>9 DEF SlotType
  <2>6. proc' \in [Child -> [status : {"none", "new", "idle", "started", "terminating", "errored", "dead"},
                             job : Job \union {NoJob}, waits : BOOLEAN]]
    BY <1>6 DEF ProcType
  <2>7. made' \in 0 .. MaxChildren /\ 1 .. made \subseteq 1 .. made'
    <3>1. made' = c /\ c \in Nat
      BY <1>1, <1>2 DEF Child
    <3> QED BY <1>2, <3>1
  <2> QED BY <1>1, <2>1, <2>2, <2>3, <2>4, <2>5, <2>6, <2>7 DEF TypeOK, clean, notes
<1>13. Channels'
  BY <1>1, <1>4, <1>8 DEF Channels
<1>14. Unmade'
  <2> SUFFICES ASSUME NEW d \in Child
               PROVE  /\ d > c => proc'[d].status = "none" /\ outbox[d] = <<>>
                      /\ d <= c => proc'[d].status # "none"
                      /\ proc'[d].status \in {"none", "dead"} => inbox'[d] = <<>>
    BY <1>1 DEF Unmade, Alive
  <2>1. CASE d = c
    <3>1. ~(c > c)
      BY <1>2 DEF Child
    <3> QED BY <1>6, <2>1, <3>1
  <2>2. CASE d # c
    <3>1. (d > c => d > made) /\ (d <= c => d <= made)
      BY <1>0, <1>2, <2>2 DEF Child
    <3> QED BY <1>6, <1>8, <2>2, <3>1 DEF IInv, Unmade, Alive
  <2> QED BY <2>1, <2>2
<1>15. NotBegun'
  BY <1>1, <1>9 DEF IInv, NotBegun
<1>16. Pooled'
  <2>1. /\ OnePlace /\ NoneDead /\ ToSet(free) \subseteq 1 .. made /\ retained \subseteq 1 .. made
        /\ \A d \in retained : \E k \in Job : slot[k].at = "run" /\ slot[k].child = d
    BY Types DEF IInv, Pooled
  <2>2. \A i, k \in Job : slot'[i].at \in {"init", "run"} /\ slot'[k].at \in {"init", "run"}
                            /\ slot'[i].child = slot'[k].child => i = k
    <3> SUFFICES ASSUME NEW i \in Job, NEW k \in Job, slot'[i].at \in {"init", "run"}, slot'[k].at \in {"init", "run"},
                        slot'[i].child = slot'[k].child, i # k
                 PROVE  FALSE
      OBVIOUS
    <3>1. CASE i = j
      BY <1>9, <1>10, <3>1
    <3>2. CASE k = j
      BY <1>9, <1>10, <3>2
    <3>3. CASE i # j /\ k # j
      BY <1>9, <2>1, <3>3 DEF OnePlace
    <3> QED BY <3>1, <3>2, <3>3
  <2>3. \A k \in Job : slot'[k].at \in {"init", "run"} => slot'[k].child \notin ToSet(free')
    BY <1>1, <1>2, <1>9, <2>1 DEF OnePlace
  <2>4. OnePlace' /\ NoneDead'
    BY <1>1, <2>1, <2>2, <2>3 DEF OnePlace, NoneDead
  <2>5. \A d \in retained' : \E k \in Job : slot'[k].at = "run" /\ slot'[k].child = d
    <3> SUFFICES ASSUME NEW d \in retained PROVE \E k \in Job : slot'[k].at = "run" /\ slot'[k].child = d
      BY <1>1
    <3>1. PICK k \in Job : slot[k].at = "run" /\ slot[k].child = d
      BY <2>1
    <3> QED BY <1>9, <1>10, <3>1
  <2>6. ToSet(free') \subseteq 1 .. made'
    BY <1>1, <1>2, <2>1
  <2> QED BY <2>4, <2>5, <2>6 DEF Pooled
<1>17. Asked'
  <2> SUFFICES ASSUME NEW q \in queries PROVE q.child <= c /\ ~(Waiting(q.child)')
    BY <1>1 DEF Asked, Waiting
  <2>1. q.child \in Child /\ q.child <= made /\ ~Waiting(q.child)
    BY Types DEF IInv, Asked
  <2>2. q.child # c /\ q.child <= c
    BY <1>0, <1>2, <2>1 DEF Child
  <2> QED BY <1>11, <2>1, <2>2
<1>18. InitFirst'
  <2> SUFFICES ASSUME NEW d \in Child
               PROVE  IF Waiting(d)' THEN FirstWords(inbox'[d], outbox[d], proc'[d].job) ELSE NoInit(inbox'[d], outbox[d])
    BY <1>1 DEF InitFirst
  <2>1. CASE d = c
    <3>1. FirstWords(<<m>>, <<>>, NoJob)
      <4>1. Len(<<>>) <= 1
        BY EmptySeq
      <4> QED BY <1>7, <4>1, Emptied DEF FirstWords
    <3>2. inbox'[d] = <<m>> /\ outbox[d] = <<>> /\ proc'[d].job = NoJob /\ Waiting(d)'
      BY <1>5, <1>6, <1>8, <1>11, <2>1
    <3> QED BY <3>1, <3>2
  <2>2. CASE d # c
    <3>1. inbox'[d] = inbox[d] /\ proc'[d] = proc[d] /\ (Waiting(d)' <=> Waiting(d))
      BY <1>6, <1>8, <1>11, <2>2
    <3> QED BY <3>1, WordsNow
  <2> QED BY <2>1, <2>2
<1>19. BusyRuns' = BusyRuns
  BY <1>9 DEF BusyRuns
<1>20. Lines'
  <2> SUFFICES ASSUME NEW d \in Child PROVE Line(inbox'[d], outbox[d], proc'[d].job, BusyRuns, wanted)
    BY <1>1, <1>19 DEF Lines, notes
  <2>1. CASE d = c
    <3>1. Line(<<m>>, <<>>, NoJob, BusyRuns, wanted)
      BY <1>7, Emptied DEF Line
    <3>2. inbox'[d] = <<m>> /\ outbox[d] = <<>> /\ proc'[d].job = NoJob
      BY <1>5, <1>6, <1>8, <2>1
    <3> QED BY <3>1, <3>2
  <2>2. CASE d # c
    <3>1. inbox'[d] = inbox[d] /\ proc'[d] = proc[d] /\ Line(inbox[d], outbox[d], proc[d].job, BusyRuns, wanted)
      BY <1>6, <1>8, <2>2 DEF IInv, Lines
    <3> QED BY <3>1
  <2> QED BY <2>1, <2>2
<1>21. \A d \in Child : About(d)' \subseteq About(d) \union {NoJob} /\ CancelsOf(inbox'[d]) \subseteq CancelsOf(inbox[d])
  <2> SUFFICES ASSUME NEW d \in Child
               PROVE  About(d)' \subseteq About(d) \union {NoJob} /\ CancelsOf(inbox'[d]) \subseteq CancelsOf(inbox[d])
    OBVIOUS
  <2>1. CASE d = c
    <3>1. JobsOf(outbox'[c]) = {} /\ proc'[c].job = NoJob /\ StartsOf(inbox'[c]) = {} /\ CancelsOf(inbox'[c]) = {}
      <4>1. outbox'[c] = <<>> /\ inbox'[c] = <<m>>
        BY <1>1, <1>5, <1>8
      <4> QED BY <1>6, <1>7, <4>1, Emptied
    <3> QED BY <2>1, <3>1 DEF About
  <2>2. CASE d # c
    BY <1>1, <1>6, <1>8, <2>2 DEF About
  <2> QED BY <2>1, <2>2
<1>22. Where'
  <2> SUFFICES ASSUME NEW d \in Child, NEW k, k \in (About(d)' \union CancelsOf(inbox'[d])) \ {NoJob}
               PROVE  slot'[k].child = d /\ slot'[k].at \notin {"off", "init"}
    BY DEF Where
  <2>1. k \in (About(d) \union CancelsOf(inbox[d])) \ {NoJob}
    BY <1>21
  <2>2. slot[k].child = d /\ slot[k].at \notin {"off", "init"}
    BY <2>1 DEF IInv, Where
  <2>3. k \in Job
    <3>1. JobsOf(outbox[d]) \subseteq Job \union {NoJob} /\ StartsOf(inbox[d]) \union CancelsOf(inbox[d]) \subseteq Job
      <4>1. inbox[d] \in Seq(InMsg) /\ outbox[d] \in Seq(OutMsg)
        BY <1>4
      <4> QED BY <4>1, JobsIn
    <3>2. proc[d].job \in Job \union {NoJob}
      BY <1>4 DEF ProcType
    <3> QED BY <2>1, <3>1, <3>2 DEF About
  <2> QED BY <1>1, <1>9, <2>2, <2>3
<1>23. Runs1'
  <2> SUFFICES ASSUME NEW k \in Job, ~slot'[k].busy PROVE OwnRun(k)' /\ Chained(k)'
    BY DEF Runs1
  <2>1. CASE k = j
    <3>1. effects'[j] = <<>> /\ slot[j].by = NoJob /\ slot[j].got = {}
      BY <1>1 DEF IInv, NotBegun
    <3>2. JobsOf(effects'[j]) = {} /\ FinalsOf(effects'[j]) = {} /\ LastWord(effects'[j])
      BY <3>1, Emptied
    <3> QED BY <1>9, <2>1, <3>1, <3>2 DEF OwnRun, Chained
  <2>2. CASE k # j
    <3>1. slot'[k] = slot[k] /\ effects'[k] = effects[k] /\ OwnRun(k) /\ Chained(k)
      BY <1>1, <1>9, <2>2 DEF IInv, Runs1
    <3>2. ASSUME NEW d, d = slot[k].child, slot[k].at # "off"
          PROVE  About(d)' \subseteq About(d) \union {NoJob} /\ k # NoJob
      <4>1. d \in Child
        BY <3>2, Types
      <4> QED BY <1>21, <4>1, Zero
    <3>3. FinalsOf(effects[k]) # {} \/ (slot[k].at = "resolved" /\ slot[k].by = k) => slot[k].at # "off"
      BY Emptied DEF IInv, NotBegun
    <3>4. PICK d : d = slot[k].child
      OBVIOUS
    <3>5. FinalsOf(effects[k]) # {} \/ (slot[k].at = "resolved" /\ slot[k].by = k) => k \notin About(d)'
      BY <3>1, <3>2, <3>3, <3>4 DEF Chained
    <3>6. slot[k].at = "run" => About(d)' \subseteq {k, NoJob}
      BY <3>1, <3>2, <3>4 DEF OwnRun
    <3> QED BY <3>1, <3>4, <3>5, <3>6 DEF OwnRun, Chained, About
  <2> QED BY <2>1, <2>2
<1>24. AbortsItsOwn'
  <2>1. \A k \in wanted : slot[k].busy => slot'[k].busy
    <3>1. wanted \subseteq Job
      BY DEF IInv, TypeOK
    <3> QED BY <1>9, <3>1
  <2> QED BY <1>1, <2>1 DEF IInv, AbortsItsOwn, notes
<1> QED BY <1>12, <1>13, <1>14, <1>15, <1>16, <1>17, <1>18, <1>20, <1>22, <1>23, <1>24 DEF IInv

\* The signal of j is aborted: the child that has j is told.
LEMMA CancelStep ==
  ASSUME IInv, NEW j \in Job, Cancel(j)
  PROVE  IInv'
<1> DEFINE m == Msg("cancel", j)
<1>1. /\ slot[j].at # "off" /\ wanted' = wanted \union {j}
      /\ inbox' = IF slot[j].at = "run" THEN Sent(slot[j].child, <<m>>) ELSE inbox
      /\ UNCHANGED <<pool, proc, gone, outbox, calls, clean, ran, aborted>>
  BY DEF Cancel
<1>2. UNCHANGED <<free, retained, made, slot, effects, queries, closing, doomed, missed>>
  BY <1>1 DEF pool, calls, clean
<1>3. /\ inbox \in [Child -> Seq(InMsg)] /\ outbox \in [Child -> Seq(OutMsg)]
      /\ \A d \in Child : Line(inbox[d], outbox[d], proc[d].job, BusyRuns, wanted)
  BY Types DEF IInv, Lines
<1>4. m \in InMsg /\ m.cmd = "cancel" /\ m.job = j
  BY DEF Msg, InMsg
<1> HIDE DEF m
<1>5. \A d \in Child : Waiting(d)' <=> Waiting(d)
  BY <1>2 DEF Waiting
<1>6. BusyRuns' = BusyRuns
  BY <1>2 DEF BusyRuns
\* what each child is sent
<1>7. /\ inbox' \in [Child -> Seq(InMsg)]
      /\ \A d \in Child : \/ inbox'[d] = inbox[d]
                          \/ /\ slot[j].at = "run" /\ slot[j].child = d /\ Alive(d)
                             /\ inbox'[d] = Append(inbox[d], m)
  <2>1. CASE slot[j].at # "run"
    BY <1>1, <1>3, <2>1
  <2>2. CASE slot[j].at = "run"
    <3>0. PICK c \in Child : c = slot[j].child
      BY <1>1, Types
    <3>1. inbox' = [inbox EXCEPT ![c] = IF Alive(c) THEN inbox[c] \o <<m>> ELSE inbox[c]] /\ inbox[c] \in Seq(InMsg)
      BY <1>1, <1>3, <2>2, <3>0 DEF Sent
    <3>2. inbox[c] \o <<m>> = Append(inbox[c], m) /\ Append(inbox[c], m) \in Seq(InMsg)
      BY <1>4, <3>1, AppendIsConcat, AppendProperties
    <3>3. /\ inbox' \in [Child -> Seq(InMsg)] /\ inbox'[c] = (IF Alive(c) THEN Append(inbox[c], m) ELSE inbox[c])
          /\ \A d \in Child \ {c} : inbox'[d] = inbox[d]
      BY <1>3, <3>1, <3>2
    <3> QED BY <2>2, <3>0, <3>3
  <2> QED BY <2>1, <2>2
<1>8. ASSUME NEW d \in Child
      PROVE  /\ Line(inbox'[d], outbox[d], proc[d].job, BusyRuns, wanted')
             /\ StartsOf(inbox'[d]) = StartsOf(inbox[d]) /\ WordsOf(inbox'[d]) \subseteq WordsOf(inbox[d]) \union {"cancel"}
             /\ CancelsOf(inbox'[d]) \subseteq CancelsOf(inbox[d]) \union
                                               (IF slot[j].at = "run" /\ slot[j].child = d THEN {j} ELSE {})
             /\ ~Alive(d) => inbox'[d] = inbox[d]
             /\ Waiting(d) => inbox'[d] = inbox[d]
  <2>1. Line(inbox[d], outbox[d], proc[d].job, BusyRuns, wanted')
    <3>1. Line(inbox[d], outbox[d], proc[d].job, BusyRuns, wanted) /\ wanted \subseteq wanted'
      BY <1>1, <1>3
    <3> QED BY <3>1, LineGrows
  <2>2. CASE inbox'[d] = inbox[d]
    BY <2>1, <2>2
  <2>3. CASE inbox'[d] # inbox[d]
    <3>1. slot[j].at = "run" /\ slot[j].child = d /\ Alive(d) /\ inbox'[d] = Append(inbox[d], m) /\ inbox[d] \in Seq(InMsg)
      BY <1>3, <1>7, <2>3
    <3>2. j \in wanted' /\ (j \in BusyRuns \/ (StartsOf(inbox[d]) \subseteq {j} /\ proc[d].job \in {NoJob, j}))
      <4>1. j \notin BusyRuns => About(d) \subseteq {j, NoJob}
        BY <3>1 DEF IInv, Runs1, OwnRun, BusyRuns
      <4>2. NoJob \notin StartsOf(inbox[d])
        BY <3>1, JobsIn, Zero
      <4> QED BY <1>1, <4>1, <4>2 DEF About
    <3>3. Line(Append(inbox[d], m), outbox[d], proc[d].job, BusyRuns, wanted')
      <4>1. ASSUME NEW in \in Seq(InMsg), in = inbox[d], NEW out, out = outbox[d], NEW run, run = proc[d].job,
                   NEW R, R = BusyRuns, NEW W, W = wanted'
            PROVE  Line(Append(in, m), out, run, R, W)
        <5>1. Line(in, out, run, R, W) /\ j \in W /\ (j \in R \/ (StartsOf(in) \subseteq {j} /\ run \in {NoJob, j}))
          BY <2>1, <3>2, <4>1
        <5> QED BY <1>4, <5>1, LineSent
      <4> QED BY <3>1, <4>1
    <3>4. /\ StartsOf(Append(inbox[d], m)) = StartsOf(inbox[d]) /\ WordsOf(Append(inbox[d], m)) = WordsOf(inbox[d]) \union {"cancel"}
          /\ CancelsOf(Append(inbox[d], m)) = CancelsOf(inbox[d]) \union {j}
      <4>1. ASSUME NEW in \in Seq(InMsg), in = inbox[d]
            PROVE  /\ StartsOf(Append(in, m)) = StartsOf(in) \union (IF m.cmd = "start" THEN {m.job} ELSE {})
                   /\ CancelsOf(Append(in, m)) = CancelsOf(in) \union (IF m.cmd = "cancel" THEN {m.job} ELSE {})
                   /\ WordsOf(Append(in, m)) = WordsOf(in) \union {m.cmd}
        <5>1. m \in InMsg
          BY <1>4
        <5> QED BY <5>1, Appended
      <4> QED BY <1>4, <3>1, <4>1
    <3>5. ~Waiting(d)
      <4>1. OnePlace
        BY DEF IInv, Pooled
      <4> QED BY <3>1, <4>1 DEF OnePlace, Waiting
    <3> QED BY <3>1, <3>3, <3>4, <3>5
  <2> QED BY <2>2, <2>3
<1>9. TypeOK'
  <2>1. TypeOK
    BY DEF IInv
  <2>2. UNION {ran', wanted', aborted'} \subseteq Job
    BY <1>1, <2>1 DEF TypeOK
  <2> QED BY <1>1, <1>2, <2>1, <2>2 DEF TypeOK
<1>10. Channels'
  BY <1>1, <1>2, <1>7 DEF IInv, Channels
<1>11. Unmade'
  BY <1>1, <1>2, <1>8 DEF IInv, Unmade, Alive
<1>12. NotBegun' /\ Pooled' /\ Asked'
  <2>1. NotBegun'
    BY <1>2 DEF IInv, NotBegun
  <2>2. Pooled'
    BY <1>1, <1>2 DEF IInv, Pooled, OnePlace, NoneDead
  <2>3. Asked'
    BY <1>2, <1>5, Types DEF IInv, Asked
  <2> QED BY <2>1, <2>2, <2>3
<1>13. InitFirst'
  <2> SUFFICES ASSUME NEW d \in Child
               PROVE  IF Waiting(d) THEN FirstWords(inbox'[d], outbox[d], proc[d].job) ELSE NoInit(inbox'[d], outbox[d])
    BY <1>1, <1>5 DEF InitFirst
  <2>1. CASE Waiting(d)
    BY <1>8, <2>1, WordsNow
  <2>2. CASE ~Waiting(d)
    <3>1. NoInit(inbox[d], outbox[d])
      BY <2>2, WordsNow
    <3> QED BY <1>8, <2>2, <3>1 DEF NoInit
  <2> QED BY <2>1, <2>2
<1>14. Lines'
  BY <1>1, <1>6, <1>8 DEF Lines
<1>15. \A d \in Child : About(d)' = About(d)
  BY <1>1, <1>8 DEF About
<1>16. Where'
  <2> SUFFICES ASSUME NEW d \in Child, NEW k, k \in (About(d)' \union CancelsOf(inbox'[d])) \ {NoJob}
               PROVE  slot[k].child = d /\ slot[k].at \notin {"off", "init"}
    BY <1>2 DEF Where
  <2>1. CASE k \in About(d) \union CancelsOf(inbox[d])
    BY <2>1 DEF IInv, Where
  <2>2. CASE k \notin About(d) \union CancelsOf(inbox[d])
    <3>1. k = j /\ slot[j].at = "run" /\ slot[j].child = d
      BY <1>8, <1>15, <2>2
    <3> QED BY <3>1
  <2> QED BY <2>1, <2>2
<1>17. Runs1'
  <2> SUFFICES ASSUME NEW k \in Job, ~slot[k].busy PROVE OwnRun(k)' /\ Chained(k)'
    BY <1>2 DEF Runs1
  <2>1. OwnRun(k) /\ Chained(k)
    BY DEF IInv, Runs1
  <2>2. ASSUME NEW d, d = slot[k].child, slot[k].at # "off"
        PROVE  About(d)' = About(d)
    BY <1>15, <2>2, Types
  <2>3. FinalsOf(effects[k]) # {} \/ (slot[k].at = "resolved" /\ slot[k].by = k) => slot[k].at # "off"
    BY Emptied DEF IInv, NotBegun
  <2>4. PICK d : d = slot[k].child
    OBVIOUS
  <2>5. FinalsOf(effects[k]) # {} \/ (slot[k].at = "resolved" /\ slot[k].by = k) => k \notin About(d)'
    BY <2>1, <2>2, <2>3, <2>4 DEF Chained
  <2>6. slot[k].at = "run" => About(d)' \subseteq {k, NoJob}
    BY <2>1, <2>2, <2>4 DEF OwnRun
  <2> QED BY <1>2, <2>1, <2>4, <2>5, <2>6 DEF OwnRun, Chained, About
<1>18. AbortsItsOwn'
  BY <1>1, <1>2 DEF IInv, AbortsItsOwn
<1> QED BY <1>9, <1>10, <1>11, <1>12, <1>13, <1>14, <1>16, <1>17, <1>18 DEF IInv

-----------------------------------------------------------------------------
(* The theorems.                                                           *)

LEMMA Initially == Init => IInv
<1> SUFFICES ASSUME Init PROVE IInv
  OBVIOUS
<1>1. <<>> \in Seq(Child) /\ <<>> \in Seq(InMsg) /\ <<>> \in Seq(OutMsg) /\ <<>> \in Seq(EffMsg)
  BY EmptySeq
<1>2. /\ free = <<>> /\ retained = {} /\ made = 0 /\ gone = {} /\ queries = {}
      /\ \A c \in Child : /\ proc[c].status = "none" /\ proc[c].job = NoJob /\ inbox[c] = <<>> /\ outbox[c] = <<>>
      /\ \A j \in Job : /\ slot[j].at = "off" /\ slot[j].by = NoJob /\ slot[j].got = {} /\ ~slot[j].busy
                        /\ effects[j] = <<>>
      /\ aborted = {} /\ ran = {} /\ wanted = {}
  BY DEF Init
<1>3. 0 \in 0 .. MaxChildren
  BY SandboxAssumption
<1>4. TypeOK
  BY <1>1, <1>2, <1>3 DEF Init, TypeOK
<1>5. Channels
  BY <1>1 DEF Init, Channels
<1>6. Unmade
  <2>1. \A c \in Child : ~(c <= 0)
    BY DEF Child
  <2> QED BY <1>2, <2>1 DEF Unmade, Alive
<1>7. NotBegun /\ Asked
  BY <1>2 DEF NotBegun, Asked
<1>8. Pooled
  <2>1. ToSet(<<>>) = {} /\ IsInjective(<<>>)
    BY DEF ToSet, IsInjective
  <2> QED BY <1>2, <2>1 DEF Pooled, OnePlace, NoneDead
<1>9. InitFirst
  <2>1. \A c \in Child : ~Waiting(c)
    BY <1>2 DEF Waiting
  <2>2. NoInit(<<>>, <<>>)
    BY Emptied DEF NoInit
  <2> QED BY <1>2, <2>1, <2>2 DEF InitFirst
<1>10. Lines
  <2>1. Line(<<>>, <<>>, NoJob, BusyRuns, wanted)
    BY Emptied DEF Line
  <2> QED BY <1>2, <2>1 DEF Lines
<1>11. Where
  <2>1. \A c \in Child : About(c) \subseteq {NoJob} /\ CancelsOf(inbox[c]) = {}
    BY <1>2, Emptied DEF About
  <2> QED BY <2>1 DEF Where
<1>12. Runs1
  <2> SUFFICES ASSUME NEW j \in Job PROVE OwnRun(j) /\ Chained(j)
    BY DEF Runs1
  <2>1. JobsOf(effects[j]) = {} /\ FinalsOf(effects[j]) = {} /\ LastWord(effects[j])
    BY <1>2, Emptied
  <2> QED BY <1>2, <2>1 DEF OwnRun, Chained
<1>13. AbortsItsOwn
  BY <1>2 DEF AbortsItsOwn
<1> QED BY <1>4, <1>5, <1>6, <1>7, <1>8, <1>9, <1>10, <1>11, <1>12, <1>13 DEF IInv

LEMMA Inductive == IInv /\ [Next]_vars => IInv'
<1> SUFFICES ASSUME IInv, [Next]_vars PROVE IInv'
  OBVIOUS
<1>1. ASSUME NEW j \in Job, Retain(j)
      PROVE  IInv'
  BY <1>1, RetainFreeStep, RetainNewStep
<1>2. ASSUME NEW j \in Job, InitAnswered(j)
      PROVE  IInv'
  BY <1>2, InitCompletedStep, InitFailedStep
<1>3. ASSUME NEW j \in Job, Effect(j) \/ Cancel(j)
      PROVE  IInv'
  BY <1>3, EffectStep, CancelStep
<1>4. ASSUME NEW c \in Child, Receive(c) \/ Exits(c)
      PROVE  IInv'
  BY <1>4, ReceiveStep, ExitsStep
<1>5. ASSUME NEW c \in Child, InitChild(c) \/ Start(c) \/ Aborts(c) \/ Answered(c)
      PROVE  IInv'
  BY <1>5, InitChildStep, StartStep, AbortsStep, AnsweredStep
<1>6. ASSUME NEW c \in Child, Calls(c) \/ Ends(c) \/ Terminate(c) \/ Crash(c)
      PROVE  IInv'
  BY <1>6, CallsStep, EndsStep, TerminateStep, CrashStep
<1>7. ASSUME NEW q \in queries, Respond(q)
      PROVE  IInv'
  BY <1>7, RespondStep
<1>8. ASSUME Clean
      PROVE  IInv'
  BY <1>8, CleanStep
<1>9. ASSUME UNCHANGED vars
      PROVE  IInv'
  <2>1. BusyRuns' = BusyRuns
    BY <1>9 DEF BusyRuns, vars
  <2>2. \A c \in Child : (Waiting(c)' <=> Waiting(c)) /\ About(c)' = About(c)
    BY <1>9 DEF Waiting, About, vars
  <2>3. Asked'
    BY <1>9, <2>2, Types DEF IInv, Asked, vars
  <2>4. InitFirst' /\ Lines' /\ Where'
    BY <1>9, <2>1, <2>2 DEF IInv, InitFirst, Lines, Where, vars
  <2>5. Runs1'
    BY <1>9 DEF IInv, Runs1, OwnRun, Chained, About, vars
  <2>6. TypeOK' /\ Channels' /\ Unmade' /\ NotBegun' /\ Pooled' /\ AbortsItsOwn'
    BY <1>9 DEF IInv, TypeOK, Channels, Unmade, Alive, NotBegun, Pooled, OnePlace, NoneDead, AbortsItsOwn, vars
  <2> QED BY <2>3, <2>4, <2>5, <2>6 DEF IInv
<1> QED BY <1>1, <1>2, <1>3, <1>4, <1>5, <1>6, <1>7, <1>8, <1>9 DEF Next, Call, Parent, Runs

LEMMA Always == Spec => []IInv
<1>1. Init => IInv
  BY Initially
<1>2. IInv /\ [Next]_vars => IInv'
  BY Inductive
<1> QED BY <1>1, <1>2, PTL DEF Spec

\* child-pool.ts:40-89, sandbox.ts:219-227: the pool's fields have their types, each child is with one
\* call, or free once, or with nobody, and the pool hands out and keeps none it has seen exit.
THEOREM ChildrenInOnePlace == Spec => []PoolOK
<1>1. IInv => PoolOK
  BY DEF IInv, Pooled, PoolOK
<1> QED BY <1>1, Always, PTL

\* sandbox.ts:57-64, 84-86, 210-218, child-processor.ts:108-110: a job that came to an idle child is
\* settled and written to by its own run only, and a run is aborted by its own signal only, or by that of
\* a job that came to a child which was busy.
THEOREM RunsKeepApart == Spec => []RunsApart
<1>1. IInv => RunsApart
  BY DEF IInv, Runs1, OwnRun, RunsApart, AnswersAreOwn
<1> QED BY <1>1, Always, PTL

\* sandbox.ts:41-44: when Completed resolves a job, its side effects have all been committed: none is on
\* the chain, and none is in the channel.
THEOREM EffectsCommitFirst == Spec => []EffectsFirst
<1>1. IInv => EffectsFirst
  <2> SUFFICES ASSUME IInv, NEW j \in Job, slot[j].at = "resolved", slot[j].by = j, ~slot[j].busy
               PROVE  effects[j] = <<>> /\ \A i \in DOMAIN outbox[slot[j].child] : outbox[slot[j].child][i].job # j
    BY DEF EffectsFirst
  <2>1. effects[j] = <<>> /\ j \notin About(slot[j].child)
    BY DEF IInv, Runs1, Chained
  <2> QED BY <2>1 DEF About, JobsOf
<1> QED BY <1>1, Always, PTL
=============================================================================
