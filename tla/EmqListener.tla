----------------------------- MODULE EmqListener -----------------------------
(***************************************************************************)
(* The connection that listens: PgConnection, which holds one client of its *)
(* pool for LISTEN and replaces it when it is lost or was disconnected, and *)
(* NotificationManager, which keeps the channels that were subscribed to    *)
(* and listens to them anew on every client.                               *)
(*                                                                         *)
(* A step is what runs from one answer of the database to the next.  Five   *)
(* calls may be under way at once: init, reconnect, a subscribe for each    *)
(* channel, disconnect and close.                                          *)
(***************************************************************************)
EXTENDS Naturals, FiniteSets

CONSTANTS
  Channel,     \* channels that are subscribed to, each once
  MaxClients,  \* bound: clients the pool hands out
  Happens,     \* what may happen but that
  MaxHappens   \* bound: how much of it in one behaviour

ASSUME ListenerAssumption == MaxClients \in Nat \ {0} /\ MaxHappens \in Nat
ASSUME NamesAssumption == Channel \intersect {"init", "rec"} = {}

VARIABLES
  listener,   \* listenerClient, 0 for null; clients are numbered as the pool hands them out
  given,      \* how many clients the pool has handed out
  out,        \* clients that were not released
  alive,      \* clients whose session is up
  heard,      \* the channels each session listens to
  channels,   \* NotificationManager.channels
  listening,  \* NotificationManager.listening
  wired,      \* NotificationManager.wiredClient
  call,       \* init, reconnect and the subscribes: where each is
  disc,       \* disconnect: where it is, and the client it cuts
  closing,    \* close: where it is
  happened,   \* history: what has happened
  ignored     \* history: a client was lost while reconnect was under way

fields == <<listener, given, out, alive, heard, channels, listening, wired, call, disc, closing,
          happened, ignored>>

Null     == 0
Client   == 1 .. MaxClients
Proc     == {"init", "rec"} \union Channel
CallAt(where, client) == [at |-> where, client |-> client, done |-> {}]
Off      == CallAt("off", Null)

ListenerInit ==
  /\ listener = Null /\ given = 0 /\ out = {} /\ alive = {}
  /\ heard = [c \in Client |-> {}]
  /\ channels = {} /\ listening = {} /\ wired = Null
  /\ call = [p \in Proc |-> IF p = "init" THEN CallAt("connect", Null) ELSE Off]
  /\ disc = Off /\ closing = "no"
  /\ happened = {} /\ ignored = FALSE

Once(what) == /\ what \in Happens \ happened
              /\ Cardinality(happened) < MaxHappens
              /\ happened' = happened \union {what}

Closing   == closing # "no"
Closed    == closing \in {"end", "closed"}   \* so is the manager
InitEnded == call["init"].at \in {"ready", "failed"}

-----------------------------------------------------------------------------
(* NotificationManager                                                     *)

\* getListenerClient has an answer: null when closing; else it waits for init when there is
\* no client yet.
Available == Closing \/ listener # Null \/ InitEnded
Listener  == IF Closing THEN Null ELSE listener

\* Mutant of Returned: reconnecting is not reset.
ReturnedBusy(p, w, L) ==
  CASE p = "init" -> CallAt("ready", Null)
    [] p = "rec"  -> CallAt("hung", Null)
    [] OTHER      -> IF w = Null \/ p \in L THEN CallAt("done", Null) ELSE CallAt("listen", w)

\* Where a call goes on when rebindListenerClient returns and leaves w wired and L listening.
Returned(p, w, L) ==
  CASE p = "init" -> CallAt("ready", Null)
    [] p = "rec"  -> Off
    [] OTHER      -> IF w = Null \/ p \in L THEN CallAt("done", Null) ELSE CallAt("listen", w)

\* Mutant of Rebind: what was listened to is not forgotten, and not listened to again.
RebindKeeps(p, chs) ==
  /\ wired' = IF Closed THEN wired ELSE IF Available THEN Listener ELSE Null
  /\ listening' = listening
  /\ call' = [call EXCEPT ![p] =
       IF Closed \/ (Available /\ (Listener = Null \/ chs \subseteq listening))
       THEN Returned(p, wired', listening')
       ELSE IF Available THEN CallAt("replay", Listener) ELSE CallAt("bind", Null)]

\* rebindListenerClient up to its first query: the old client is let go, and the new one
\* wired when there is one, to listen to the channels chs.
Rebind(p, chs) ==
  /\ wired' = IF Closed THEN wired ELSE IF Available THEN Listener ELSE Null
  /\ listening' = IF ~Closed /\ Available /\ Listener # Null THEN {} ELSE listening
  /\ call' = [call EXCEPT ![p] =
       IF Closed \/ (Available /\ (Listener = Null \/ chs = {}))
       THEN Returned(p, wired', listening')
       ELSE IF Available THEN CallAt("replay", Listener) ELSE CallAt("bind", Null)]

Bound(p) ==
  /\ call[p].at = "bind" /\ Available
  /\ Rebind(p, channels)
  /\ UNCHANGED <<listener, given, out, alive, heard, channels, disc, closing, happened, ignored>>

\* A LISTEN of the replay; a channel added meanwhile has its turn.
Replay(p) ==
  LET c    == call[p].client
      left == channels \ call[p].done
  IN  /\ call[p].at = "replay" /\ left # {} /\ c \in alive
      /\ \E ch \in left :
           /\ heard' = [heard EXCEPT ![c] = @ \union {ch}]
           /\ listening' = listening \union {ch}
           /\ call' = [call EXCEPT ![p] = IF left = {ch} THEN Returned(p, wired, listening')
                                          ELSE [at |-> "replay", client |-> c, done |-> call[p].done \union {ch}]]
      /\ UNCHANGED <<listener, given, out, alive, channels, wired, disc, closing, happened, ignored>>

\* The replay has nothing left.
Replayed(p) ==
  /\ call[p].at = "replay" /\ channels \subseteq call[p].done
  /\ call' = [call EXCEPT ![p] = Returned(p, wired, listening)]
  /\ UNCHANGED <<listener, given, out, alive, heard, channels, listening, wired, disc, closing,
                 happened, ignored>>

\* A LISTEN fails: emit('error'), which nobody listens to, throws.
ReplayFails(p) ==
  /\ call[p].at = "replay" /\ channels \ call[p].done # {} /\ call[p].client \notin alive
  /\ call' = [call EXCEPT ![p] =
       CallAt(CASE p = "init" -> "failed" [] p = "rec" -> "sleep" [] OTHER -> "thrown", Null)]
  /\ UNCHANGED <<listener, given, out, alive, heard, channels, listening, wired, disc, closing,
                 happened, ignored>>

\* subscribe: tryWire gives the wired client, or the listener, which it wires first.
Subscribe(ch) ==
  /\ call[ch] = Off /\ ~Closed
  /\ channels' = channels \union {ch}
  /\ IF wired # Null
     THEN /\ call' = [call EXCEPT ![ch] = Returned(ch, wired, listening)]
          /\ UNCHANGED <<wired, listening>>
     ELSE IF Available /\ Listener = Null
     THEN /\ call' = [call EXCEPT ![ch] = CallAt("done", Null)]
          /\ UNCHANGED <<wired, listening>>
     ELSE Rebind(ch, channels')
  /\ UNCHANGED <<listener, given, out, alive, heard, disc, closing, happened, ignored>>

Listen(ch) ==
  LET c == call[ch].client
  IN  /\ call[ch].at = "listen"
      /\ IF c \in alive
         THEN /\ heard' = [heard EXCEPT ![c] = @ \union {ch}]
              /\ listening' = listening \union {ch}
              /\ call' = [call EXCEPT ![ch] = CallAt("done", Null)]
         ELSE /\ call' = [call EXCEPT ![ch] = CallAt("thrown", Null)]
              /\ UNCHANGED <<heard, listening>>
      /\ UNCHANGED <<listener, given, out, alive, channels, wired, disc, closing, happened, ignored>>

Unsubscribe(ch) ==
  /\ call[ch].at \in {"done", "thrown"} /\ ch \in channels
  /\ Once("unsubscribe")
  /\ channels' = channels \ {ch} /\ listening' = listening \ {ch}
  /\ LET c == IF wired # Null THEN wired ELSE Listener
     IN  heard' = IF c \in alive THEN [heard EXCEPT ![c] = @ \ {ch}] ELSE heard
  /\ UNCHANGED <<listener, given, out, alive, wired, call, disc, closing, ignored>>

-----------------------------------------------------------------------------
(* PgConnection                                                            *)

\* pool.connect answers init or reconnect.
Connect(p) ==
  LET c == given + 1
  IN  /\ p \in {"init", "rec"} /\ call[p].at = "connect" /\ c \in Client
      /\ given' = c /\ listener' = c /\ out' = out \union {c} /\ alive' = alive \union {c}
      /\ call' = [call EXCEPT ![p] = CallAt("name", c)]
      /\ UNCHANGED <<heard, channels, listening, wired, disc, closing, happened, ignored>>

\* Or it fails: reconnect tries again, unless closing.
ConnectFails(p) ==
  /\ p \in {"init", "rec"} /\ call[p].at = "connect" /\ Once("connect")
  /\ call' = [call EXCEPT ![p] = IF p = "init" THEN CallAt("failed", Null)
                                 ELSE IF Closing THEN Off ELSE CallAt("sleep", Null)]
  /\ UNCHANGED <<listener, given, out, alive, heard, channels, listening, wired, disc, closing, ignored>>

\* applyListenerAppName, which ignores an error; then the manager is bound.
Named(p) ==
  /\ call[p].at = "name"
  /\ Rebind(p, channels)
  /\ UNCHANGED <<listener, given, out, alive, heard, channels, disc, closing, happened, ignored>>

\* reconnect begins, unless it is under way.
Reconnects == IF Closing \/ call["rec"] # Off THEN call["rec"] ELSE CallAt("sleep", Null)

\* Mutant of Awake: the client there is is not released.
AwakeKeeps ==
  /\ call["rec"].at = "sleep"
  /\ IF Closing
     THEN /\ call' = [call EXCEPT !["rec"] = Off]
          /\ UNCHANGED listener
     ELSE /\ call' = [call EXCEPT !["rec"] = CallAt("connect", Null)]
          /\ listener' = Null
  /\ UNCHANGED <<out, given, alive, heard, channels, listening, wired, disc, closing, happened, ignored>>

\* The back-off is over: the client there is, dead or not, is released.
Awake ==
  /\ call["rec"].at = "sleep"
  /\ IF Closing
     THEN /\ call' = [call EXCEPT !["rec"] = Off]
          /\ UNCHANGED <<listener, out>>
     ELSE /\ call' = [call EXCEPT !["rec"] = CallAt("connect", Null)]
          /\ out' = out \ {listener} /\ listener' = Null
  /\ UNCHANGED <<given, alive, heard, channels, listening, wired, disc, closing, happened, ignored>>

\* The session of the listener ends; the client's error event.
Lost ==
  /\ listener \in alive /\ Once("lost")
  /\ alive' = alive \ {listener} /\ heard' = [heard EXCEPT ![listener] = {}]
  /\ call' = [call EXCEPT !["rec"] = Reconnects]
  /\ ignored' = (ignored \/ (~Closing /\ call["rec"] # Off))
  /\ UNCHANGED <<listener, given, out, channels, listening, wired, disc, closing>>

\* disconnect: the listener is cut, its error handler gone, and pg_terminate_backend sent;
\* without a listener it reconnects at once.  A worker calls it when init has ended.
Disconnect ==
  /\ disc = Off /\ ~Closing /\ InitEnded /\ Once("disconnect")
  /\ IF listener = Null
     THEN /\ call' = [call EXCEPT !["rec"] = Reconnects]
          /\ disc' = CallAt(IF call["rec"] = Off THEN "own" ELSE "again", Null)
          /\ UNCHANGED <<listener, alive, heard>>
     ELSE /\ disc' = CallAt("kill", listener)
          /\ listener' = Null
          /\ alive' = alive \ {listener} /\ heard' = [heard EXCEPT ![listener] = {}]
          /\ UNCHANGED call
  /\ UNCHANGED <<given, out, channels, listening, wired, closing, ignored>>

\* It has answered; what was under way on the client has failed before.  Then it reconnects.
Killed ==
  /\ disc.at = "kill" /\ \A p \in Proc : call[p].client # disc.client
  /\ out' = out \ {disc.client}
  /\ call' = [call EXCEPT !["rec"] = Reconnects]
  /\ disc' = CallAt(IF call["rec"] = Off THEN "own" ELSE "again", Null)
  /\ UNCHANGED <<listener, given, alive, heard, channels, listening, wired, closing, happened, ignored>>

\* Worker.whenCurrentJobsFinished reconnects once more, when that has ended.
Again ==
  /\ disc.at = "again" \/ (disc.at = "own" /\ call["rec"] = Off)
  /\ call' = [call EXCEPT !["rec"] = Reconnects]
  /\ disc' = CallAt("done", Null)
  /\ UNCHANGED <<listener, given, out, alive, heard, channels, listening, wired, closing, happened, ignored>>

Close ==
  /\ closing = "no" /\ Once("close")
  /\ closing' = "init"
  /\ UNCHANGED <<listener, given, out, alive, heard, channels, listening, wired, call, disc, ignored>>

\* Mutant of CloseManager: an init that has failed is waited for.
CloseWhenReady ==
  /\ closing = "init" /\ call["init"].at = "ready"
  /\ call' = [call EXCEPT !["rec"] = IF @.at = "sleep" THEN CallAt("hung", Null) ELSE @]
  /\ channels' = {} /\ listening' = {} /\ wired' = Null
  /\ closing' = "end"
  /\ listener' = Null
  /\ out' = out \ {listener} /\ heard' = [c \in Client |-> IF c = listener THEN {} ELSE heard[c]]
  /\ UNCHANGED <<given, alive, disc, happened, ignored>>

\* When init has ended: the back-off's timer is cleared, the manager closed, the listener cut.
CloseManager ==
  /\ closing = "init" /\ InitEnded
  /\ call' = [call EXCEPT !["rec"] = IF @.at = "sleep" THEN CallAt("hung", Null) ELSE @]
  /\ channels' = {} /\ listening' = {} /\ wired' = Null
  /\ closing' = "end"
  /\ listener' = Null
  /\ out' = out \ {listener} /\ heard' = [c \in Client |-> IF c = listener THEN {} ELSE heard[c]]
  /\ UNCHANGED <<given, alive, disc, happened, ignored>>

\* pool.end waits for every client that is out.
PoolEnds ==
  /\ closing = "end" /\ out = {}
  /\ closing' = "closed"
  /\ UNCHANGED <<listener, given, out, alive, heard, channels, listening, wired, call, disc,
                 happened, ignored>>

-----------------------------------------------------------------------------
Step(p) == Connect(p) \/ Named(p) \/ Bound(p) \/ Replay(p) \/ Replayed(p) \/ ReplayFails(p)

ListenerNext ==
  \/ \E p \in Proc : Step(p) \/ ConnectFails(p)
  \/ \E ch \in Channel : Subscribe(ch) \/ Listen(ch) \/ Unsubscribe(ch)
  \/ Awake \/ Lost \/ Disconnect \/ Killed \/ Again
  \/ Close \/ CloseManager \/ PoolEnds

ListenerSpec == ListenerInit /\ [][ListenerNext]_fields

\* Timers fire and queries are answered.
FairSpec ==
  /\ ListenerSpec
  /\ \A p \in Proc : WF_fields(Step(p))
  /\ \A ch \in Channel : WF_fields(Listen(ch))
  /\ WF_fields(Awake) /\ WF_fields(Killed) /\ WF_fields(Again) /\ WF_fields(CloseManager) /\ WF_fields(PoolEnds)

-----------------------------------------------------------------------------
(* Properties                                                              *)

\* The variables have the values the objects' fields can have, and a live call its client.
FieldsOK ==
  /\ {listener, wired, given} \subseteq Client \union {Null}
  /\ out \subseteq 1 .. given /\ alive \subseteq 1 .. given
  /\ heard \in [Client -> SUBSET Channel]
  /\ channels \subseteq Channel /\ listening \subseteq Channel
  /\ call \in [Proc -> [at : {"off", "connect", "name", "bind", "replay", "listen", "sleep", "hung",
                              "ready", "failed", "done", "thrown"},
                        client : Client \union {Null}, done : SUBSET Channel]]
  /\ \A p \in Proc : call[p].at \in {"name", "replay", "listen"} => call[p].client # Null
  /\ disc \in [at : {"off", "kill", "own", "again", "done"}, client : Client \union {Null}, done : {{}}]
  /\ closing \in {"no", "init", "end", "closed"}
  /\ happened \subseteq Happens /\ ignored \in BOOLEAN

\* pg-connection.ts:298-371: init, reconnect and disconnect lose no client: what is out of the pool
\* is the listener, or the one that disconnect is about to release.
NoneLeaked == out \subseteq {listener, disc.client}

\* The fields have their types, and no client is lost to the pool.
ClientsOK == FieldsOK /\ NoneLeaked

\* notification-manager.ts:117-144: what the manager takes for listened to, and so does not listen
\* to again, the session does listen to, however rebinds and subscribes overlap.
ListeningIsTrue ==
  wired \in alive /\ (\A p \in Proc : call[p].at \notin {"replay", "listen"}) =>
    listening \intersect channels \subseteq heard[wired]

Up(ch) == listener \in alive /\ wired = listener /\ ch \in heard[listener]

\* The error of a client that is lost while reconnect names it is ignored, and with no channel
\* to listen to reconnect takes it for good.
Deaf == ignored /\ call["rec"] = Off /\ listener \notin alive

\* notification-manager.ts:31-34: "the channel is recorded and LISTEN is replayed": a channel once
\* subscribed to is listened to, whenever clients are lost, cut and replaced.
Heard ==
  \A ch \in Channel :
    (ch \in channels) ~> \/ Up(ch) \/ ch \notin channels \/ Closing
                         \/ call["init"].at = "failed" \/ Deaf

\* pg-connection.ts:373-461: close returns, but when reconnect gets a client after it.
CloseEnds == Closing ~> closing = "closed" \/ (closing = "end" /\ listener # Null)

=============================================================================
