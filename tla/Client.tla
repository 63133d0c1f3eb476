------------------------------- MODULE Client -------------------------------
(***************************************************************************)
(* The client (client.go): connectLoop dials, shakes hands, moves what is  *)
(* pending to the new connection or fails it, subscribes again, and waits  *)
(* for the connection to die; meanwhile callers wait for a connection,     *)
(* send a request or a subscription on it and wait for the answer, Close   *)
(* ends everything, and a goroutine per subscription runs its callback.    *)
(*                                                                         *)
(* Connections are numbered as they are made: connection c carries         *)
(* endpoint c and, when the server did not resume, session c.  The server  *)
(* and the network are external: a dial or a handshake fails, a session is *)
(* resumed or not, an answer comes or not.  The critical section of        *)
(* bindSession is one step; Flow.tla has what runs into it inside a flow.  *)
(***************************************************************************)
EXTENDS Integers, FiniteSets

CONSTANTS
  Requests,       \* calls of Client.Request
  Subscriptions,  \* calls of Client.Subscribe
  MaxConns,       \* bound of the model: connections that get a CONNACK
  Reconnect       \* Config.Reconnect

ASSUME ClientAssumption ==
  /\ Requests \cap Subscriptions = {}
  /\ MaxConns \in Nat \ {0} /\ Reconnect \in BOOLEAN

Calls == Requests \cup Subscriptions
Conns == 1..MaxConns
\* The flow <<a, 0>> of a call; the flow <<s, c>> of subscribing again on connection c,
\* and its consumer goroutine.
Flows == (Calls \X {0}) \cup (Subscriptions \X Conns)
Own(a) == <<a, 0>>
None   == <<>>

VARIABLES
  dial,        \* Dial: waiting, or what it returned
  handshake,   \* the channel c.handshake: empty, or the result in it
  loop,        \* where connectLoop is
  established, \* its variable
  toResub,     \* the subscriptions left to resubscribe
  resub,       \* the flow whose SUBACK it waits for, or None
  closed,      \* c.closed is closed
  closing,     \* where Close is
  closeEp,     \* the endpoint it read
  ep,          \* c.ep, 0 for nil; the connection made last
  session,     \* c.sessionID, 0 for ""
  notify,      \* tokens in c.notify, which has room for one
  subs,        \* c.subs
  dead,        \* connections whose transport is dead
  sess,        \* the session of each connection
  nextID,      \* endpoint.nextID: the number of the next stream
  table,       \* endpoint.streams
  flow,        \* the flows
  call, at,    \* where each call is, and the endpoint waitEp gave it
  owed,        \* the server's answers to come
  subF,        \* Subscription.f
  consumer     \* per consumer goroutine: where it is and the flow it reads

loopVars   == <<loop, established, toResub, resub, handshake>>
closeVars  == <<closed, closing, closeEp>>
connVars   == <<ep, session, dead, sess>>
streamVars == <<nextID, table, flow>>
callVars   == <<call, at>>
subVars    == <<subF, consumer>>
vars == <<dial, loopVars, closeVars, connVars, notify, subs, streamVars, callVars, owed, subVars>>

NoFlow == [state |-> "none", id |-> 0, ep |-> 0, got |-> None]

Init ==
  /\ dial = "waiting" /\ handshake = "empty"
  /\ loop = "top" /\ established = FALSE /\ toResub = {} /\ resub = None
  /\ closed = FALSE /\ closing = "no" /\ closeEp = 0
  /\ ep = 0 /\ session = 0 /\ notify = 0 /\ subs = {} /\ dead = {}
  /\ sess = [c \in Conns |-> 0]
  /\ nextID = [c \in Conns |-> 1] /\ table = [c \in Conns |-> {}]
  /\ flow = [f \in Flows |-> NoFlow]
  /\ call = [a \in Calls |-> "check"] /\ at = [a \in Calls |-> 0]
  /\ owed = {}
  /\ subF = [s \in Subscriptions |-> None]
  /\ consumer = [f \in Flows |-> [pc |-> "none", f |-> None]]

Open(f)   == flow[f].state = "open"
Done(f)   == flow[f].state \in {"ok", "failed"}
Alive(c)  == c # 0 /\ c \notin dead

\* flow.finish of the flows S: the open ones leave the endpoint they belong to
FinishIn(fl, tb, S, result) ==
  LET ends == {f \in S : fl[f].state = "open"}
  IN /\ flow' = [f \in Flows |-> IF f \in ends THEN [fl[f] EXCEPT !.state = result] ELSE fl[f]]
     /\ table' = [c \in Conns |-> tb[c] \ {f \in ends : fl[f].ep = c}]

Finish(S, result) == FinishIn(flow, table, S, result)

\* newFlow, allocID and registerFlow on endpoint c
NewFlow(f, c) ==
  LET id == nextID[c]
  IN /\ nextID' = [nextID EXCEPT ![c] = id + 1]
     /\ flow' = [flow EXCEPT ![f] = [NoFlow EXCEPT !.state = "open", !.id = id, !.ep = c]]
     /\ table' = [table EXCEPT ![c] = {g \in @ : flow[g].id # id} \cup {f}]

\* finishHandshake: once
Handshake(result) == handshake' = IF dial = "waiting" /\ handshake = "empty"
                                  THEN result ELSE handshake

-----------------------------------------------------------------------------
(* connectLoop *)

Stop(result) == loop' = "stopped" /\ Handshake(result)

LoopOnly == UNCHANGED <<dial, closeVars, connVars, notify, subs, streamVars, callVars, owed,
                        subVars, established, toResub, resub>>

LoopTop ==
  /\ loop = "top"
  /\ IF closed THEN Stop("error") ELSE loop' = "dial" /\ UNCHANGED handshake
  /\ LoopOnly

DialTCP ==
  /\ loop = "dial" /\ ep < MaxConns
  /\ loop' = "connect" /\ UNCHANGED handshake
  /\ LoopOnly

\* Mutation of ConnectFails: the loop gives up without a word to Dial.
ConnectFailsSilently ==
  /\ loop \in {"dial", "connect"}
  /\ loop' = (IF ~established \/ ~Reconnect \/ closed THEN "stopped" ELSE "backoff")
  /\ UNCHANGED handshake
  /\ LoopOnly

\* dialTCP or establish fails
ConnectFails ==
  /\ loop \in {"dial", "connect"}
  /\ IF ~established \/ ~Reconnect \/ closed THEN Stop("error")
     ELSE loop' = "backoff" /\ UNCHANGED handshake
  /\ LoopOnly

\* sleepBackoff
Backoff ==
  /\ loop = "backoff"
  /\ \/ loop' = "top"
     \/ closed /\ loop' = "stopped"
  /\ UNCHANGED handshake
  /\ LoopOnly

\* bindSession up to tr.start: the CONNACK names the old session or a new one.  With
\* expire the flows of a lost session fail, with move the open ones are migrated.
Bind(resumed, expire, move, next) ==
  LET c      == ep + 1
      failed == session # 0 /\ ~resumed
      old    == IF ep = 0 THEN {} ELSE table[ep]
      moved  == {f \in old : Open(f) /\ move /\ ~(failed /\ expire)}
  IN /\ loop = "connect" /\ (resumed => session # 0)
     /\ ep' = c
     /\ session' = IF resumed THEN session ELSE c
     /\ sess' = [sess EXCEPT ![c] = session']
     /\ IF failed /\ expire THEN Finish(old, "failed")
        ELSE /\ flow' = [f \in Flows |-> IF f \in moved THEN [flow[f] EXCEPT !.ep = c]
                                                        ELSE flow[f]]
             /\ table' = [table EXCEPT ![c] = moved]
     /\ nextID' = [nextID EXCEPT ![c] = next]
     /\ toResub' = IF failed THEN subs ELSE {}
     /\ loop' = "resub"
     /\ UNCHANGED <<dial, closeVars, notify, subs, dead, callVars, owed, subVars,
                    established, resub, handshake>>

NextOfOld == IF ep = 0 THEN 1 ELSE nextID[ep]

\* Mutations of BindSession: numbers start again, nothing expires, nothing moves.
BindResetsID       == \E resumed \in BOOLEAN : Bind(resumed, TRUE, TRUE, 1)
BindWithoutExpiry  == \E resumed \in BOOLEAN : Bind(resumed, FALSE, TRUE, NextOfOld)
BindWithoutMigration == \E resumed \in BOOLEAN : Bind(resumed, TRUE, FALSE, NextOfOld)

BindSession == \E resumed \in BOOLEAN : Bind(resumed, TRUE, TRUE, NextOfOld)

\* resubscribeLocked: SUBSCRIBE on the new endpoint, or the flow fails with the send
ResubSend(s) ==
  LET f == <<s, ep>>
  IN /\ loop = "resub" /\ resub = None /\ s \in toResub
     /\ toResub' = toResub \ {s}
     /\ IF Alive(ep)
        THEN NewFlow(f, ep) /\ resub' = f /\ owed' = owed \cup {f}
        ELSE /\ nextID' = [nextID EXCEPT ![ep] = @ + 1]
             /\ UNCHANGED <<flow, table, resub, owed>>
     /\ UNCHANGED <<dial, closeVars, connVars, notify, subs, callVars, subVars, loop, established,
                    handshake>>

\* SUBACK starts a consumer; the end of the flow or resubAckTimeout leaves it at that
ResubEnds ==
  /\ resub # None
  /\ resub' = None
  /\ \/ /\ flow[resub].got # None
        /\ subF' = [subF EXCEPT ![resub[1]] = resub]
        /\ consumer' = [consumer EXCEPT ![resub] = [pc |-> "top", f |-> None]]
     \/ UNCHANGED subVars
  /\ UNCHANGED <<dial, closeVars, connVars, notify, subs, streamVars, callVars, owed, loop,
                 established, toResub, handshake>>

\* the end of bindSession: the callbacks, then the token for waitEp; connectLoop goes on
\* to wait for the end of the connection
Established ==
  /\ loop = "resub" /\ resub = None /\ toResub = {}
  /\ notify' = 1
  /\ established' = TRUE
  /\ Handshake("nil")
  /\ loop' = "serving"
  /\ UNCHANGED <<dial, closeVars, connVars, subs, streamVars, callVars, owed, subVars, toResub,
                 resub>>

\* <-tr.dead
ConnLost ==
  /\ loop = "serving" /\ ~Alive(ep)
  /\ loop' = IF closed \/ ~Reconnect THEN "stopped" ELSE "backoff"
  /\ UNCHANGED handshake
  /\ LoopOnly

ConnectLoop ==
  \/ LoopTop \/ DialTCP \/ ConnectFails \/ Backoff \/ BindSession
  \/ (\E s \in Subscriptions : ResubSend(s)) \/ ResubEnds \/ Established \/ ConnLost

\* transport.kill by the read or the write loop of the current connection
ConnDies ==
  /\ Alive(ep)
  /\ dead' = dead \cup {ep}
  /\ UNCHANGED <<dial, loopVars, closeVars, ep, session, sess, notify, subs, streamVars, callVars,
                 owed, subVars>>

-----------------------------------------------------------------------------
(* Dial and Close *)

DialReturns ==
  /\ dial = "waiting" /\ handshake # "empty" /\ closing = "no"
  /\ dial' = handshake
  /\ UNCHANGED <<loopVars, closeVars, connVars, notify, subs, streamVars, callVars, owed, subVars>>

\* Close, by the application or by Dial when its ctx ends: close(c.closed), ...
CloseStarts ==
  /\ closing = "no" /\ dial \in {"waiting", "nil"}
  /\ closed' = TRUE /\ closing' = "closed"
  /\ UNCHANGED <<dial, loopVars, closeEp, connVars, notify, subs, streamVars, callVars, owed,
                 subVars>>

\* Mutation of CloseKills: the connection is left to die by itself.
CloseSparesConn ==
  /\ closing = "closed"
  /\ closeEp' = ep /\ closing' = "killed"
  /\ UNCHANGED <<dial, loopVars, closed, ep, session, sess, dead, notify, subs, streamVars,
                 callVars, owed, subVars>>

\* Mutation of CloseKills: c.ep is not compared with nil.
CloseKillsNil ==
  /\ closing = "closed"
  /\ closeEp' = ep /\ closing' = "killed" /\ dead' = dead \cup {ep}
  /\ UNCHANGED <<dial, loopVars, closed, ep, session, sess, notify, subs, streamVars, callVars,
                 owed, subVars>>

\* ... the read of c.ep and the kill, ...
CloseKills ==
  /\ closing = "closed"
  /\ closeEp' = ep /\ closing' = "killed"
  /\ dead' = IF ep = 0 THEN dead ELSE dead \cup {ep}
  /\ UNCHANGED <<dial, loopVars, closed, ep, session, sess, notify, subs, streamVars, callVars,
                 owed, subVars>>

\* Mutation of CloseFails: the pending flows are forgotten.
CloseForgets ==
  /\ closing = "killed" /\ closing' = "done"
  /\ dial' = IF dial = "waiting" THEN "ctx" ELSE dial
  /\ UNCHANGED <<loopVars, closed, closeEp, connVars, notify, subs, streamVars, callVars, owed,
                 subVars>>

\* ... and the failing of the flows of that endpoint
CloseFails ==
  /\ closing = "killed" /\ closing' = "done"
  /\ IF closeEp = 0 THEN UNCHANGED <<flow, table>> ELSE Finish(table[closeEp], "failed")
  /\ dial' = IF dial = "waiting" THEN "ctx" ELSE dial
  /\ UNCHANGED <<loopVars, closed, closeEp, connVars, notify, subs, nextID, callVars, owed,
                 subVars>>

Close == CloseKills \/ CloseFails

-----------------------------------------------------------------------------
(* The calls: waitEp, then doRequest or doSubscribe *)

GoTo(a, pc) == call' = [call EXCEPT ![a] = pc]

CallOnly == UNCHANGED <<dial, loopVars, closeVars, connVars, subs, subVars>>

CheckEp(a) ==
  /\ call[a] = "check" /\ dial = "nil"
  /\ IF Alive(ep) THEN GoTo(a, "got") /\ at' = [at EXCEPT ![a] = ep]
                  ELSE GoTo(a, "blocked") /\ UNCHANGED at
  /\ UNCHANGED <<notify, streamVars, owed>> /\ CallOnly

Wakes(a) ==
  /\ call[a] = "blocked"
  /\ \/ notify = 1 /\ notify' = 0 /\ GoTo(a, "check")
     \/ closed /\ UNCHANGED notify /\ GoTo(a, "failed")
  /\ UNCHANGED <<streamVars, at, owed>> /\ CallOnly

Registers(a) ==
  /\ call[a] = "got"
  /\ NewFlow(Own(a), at[a])
  /\ GoTo(a, "registered")
  /\ UNCHANGED <<notify, at, owed>> /\ CallOnly

\* tr.send; when the transport is dead the call fails and unregisters from at
Sends(a) ==
  /\ call[a] = "registered"
  /\ IF Alive(at[a])
     THEN owed' = owed \cup {Own(a)} /\ GoTo(a, "waiting") /\ UNCHANGED table
     ELSE /\ table' = [table EXCEPT ![at[a]] = @ \ {Own(a)}]
          /\ GoTo(a, "failed") /\ UNCHANGED owed
  /\ UNCHANGED <<notify, nextID, flow, at>> /\ CallOnly

\* the answer is taken from frames, also when the flow is done
RequestAnswered(a) ==
  /\ call[a] = "waiting" /\ a \in Requests /\ flow[Own(a)].got # None
  /\ Finish({Own(a)}, "ok") /\ GoTo(a, "answered")
  /\ UNCHANGED <<notify, nextID, at, owed>> /\ CallOnly

\* SUBACK: doSubscribe starts the consumer
Subscribed(a) ==
  /\ call[a] = "waiting" /\ a \in Subscriptions /\ flow[Own(a)].got # None
  /\ subF' = [subF EXCEPT ![a] = Own(a)]
  /\ consumer' = [consumer EXCEPT ![Own(a)] = [pc |-> "top", f |-> None]]
  /\ GoTo(a, "subscribed")
  /\ UNCHANGED <<notify, streamVars, at, owed, dial, loopVars, closeVars, connVars, subs>>

\* Subscribe then enters it in c.subs
Remembers(a) ==
  /\ call[a] = "subscribed"
  /\ subs' = subs \cup {a} /\ GoTo(a, "answered")
  /\ UNCHANGED <<notify, streamVars, at, owed, dial, loopVars, closeVars, connVars, subVars>>

\* the doneCh branch
CallFails(a) ==
  /\ call[a] = "waiting" /\ Done(Own(a)) /\ (a \in Requests => flow[Own(a)].got = None)
  /\ GoTo(a, "failed")
  /\ UNCHANGED <<notify, streamVars, at, owed>> /\ CallOnly

CtxEnds(a) ==
  /\ \/ call[a] = "blocked" /\ UNCHANGED <<flow, table>>
     \/ call[a] = "waiting" /\ Finish({Own(a)}, "failed")
  /\ GoTo(a, "failed")
  /\ UNCHANGED <<notify, nextID, at, owed>> /\ CallOnly

Caller(a) ==
  \/ CheckEp(a) \/ Wakes(a) \/ Registers(a) \/ Sends(a) \/ RequestAnswered(a) \/ Subscribed(a)
  \/ Remembers(a) \/ CallFails(a)

-----------------------------------------------------------------------------
(* What the server sends, through the read loop of connection c of the same session:   *)
(* the one that carried the request, perhaps dead but with frames in its buffer, or    *)
(* a later one                                                                         *)

SentOn(f) == IF f[2] = 0 THEN at[f[1]] ELSE f[2]

Lookup(c, f) == {g \in table[c] : flow[g].id = flow[f].id}

\* RESPONSE or SUBACK; or ERROR
Answer(c, f) ==
  /\ f \in owed /\ c \in SentOn(f)..ep /\ sess[c] = sess[SentOn(f)]
  /\ owed' = owed \ {f}
  /\ \/ /\ flow' = [g \in Flows |-> IF g \in Lookup(c, f) THEN [flow[g] EXCEPT !.got = f]
                                                          ELSE flow[g]]
        /\ UNCHANGED table
     \/ Finish(Lookup(c, f), "failed")
  /\ UNCHANGED <<notify, nextID, callVars>> /\ CallOnly

-----------------------------------------------------------------------------
(* Subscription.consume, goroutine k of subscription k[1], and Subscription.Close.  A     *)
(* frame the server published is in flow.frames or not.                                  *)

ConsumerIs(k, pc, f) ==
  /\ consumer' = [consumer EXCEPT ![k] = [pc |-> pc, f |-> f]]
  /\ UNCHANGED <<dial, loopVars, closeVars, connVars, notify, subs, streamVars, callVars, owed,
                 subF>>

ReadsF(k) ==
  consumer[k].pc = "top" /\ ConsumerIs(k, "select", subF[k[1]])

TakesFrame(k) ==
  LET f == consumer[k].f
  IN \/ consumer[k].pc = "select" /\ ConsumerIs(k, "callback", f)
     \/ consumer[k].pc = "drain" /\ ConsumerIs(k, "lastCallback", f)

SeesDone(k) ==
  consumer[k].pc = "select" /\ Done(consumer[k].f) /\ ConsumerIs(k, "drain", consumer[k].f)

\* back to the read of sub.f, or to what is left in the frames of the finished flow
CallbackReturns(k) ==
  \/ consumer[k].pc = "callback" /\ ConsumerIs(k, "top", None)
  \/ consumer[k].pc = "lastCallback" /\ ConsumerIs(k, "drain", consumer[k].f)

Drained(k) ==
  consumer[k].pc = "drain" /\ ConsumerIs(k, "exited", None)

Consume(k) == ReadsF(k) \/ TakesFrame(k) \/ SeesDone(k) \/ CallbackReturns(k) \/ Drained(k)

\* once: UNSUBSCRIBE and the end of the flow; c.subs keeps the subscription
CloseSubscription(s) ==
  /\ call[s] = "answered"
  /\ Finish({subF[s]}, "ok") /\ GoTo(s, "closed")
  /\ UNCHANGED <<notify, nextID, at, owed>> /\ CallOnly

-----------------------------------------------------------------------------

Next ==
  \/ ConnectLoop \/ ConnDies \/ DialReturns \/ CloseStarts \/ Close
  \/ \E a \in Calls : Caller(a) \/ CtxEnds(a)
  \/ \E f \in Flows : Consume(f) \/ \E c \in Conns : Answer(c, f)
  \/ \E s \in Subscriptions : CloseSubscription(s)

Spec == Init /\ [][Next]_vars

\* connectLoop and Close go on while they can: a dial, a handshake and a wait for SUBACK end
\* by their deadlines, a backoff by its timer.
FairSpec == Spec /\ WF_vars(ConnectLoop) /\ WF_vars(DialReturns) /\ WF_vars(Close)

\* ... and so do the calls.
FairCallsSpec == FairSpec /\ \A a \in Calls : WF_vars(Caller(a))

-----------------------------------------------------------------------------

Flow == [state : {"none", "open", "ok", "failed"}, id : Nat, ep : 0..MaxConns,
         got : Flows \cup {None}]

Phases == {"check", "blocked", "got", "registered", "waiting", "subscribed", "answered",
           "closed", "failed"}

TypeOK ==
  /\ dial \in {"waiting", "nil", "error", "ctx"} /\ handshake \in {"empty", "nil", "error"}
  /\ loop \in {"top", "dial", "connect", "resub", "serving", "backoff", "stopped"}
  /\ established \in BOOLEAN /\ toResub \subseteq Subscriptions /\ resub \in Flows \cup {None}
  /\ closed \in BOOLEAN /\ closing \in {"no", "closed", "killed", "done"}
  /\ closeEp \in 0..MaxConns /\ ep \in 0..MaxConns /\ session \in 0..MaxConns
  /\ notify \in {0, 1} /\ subs \subseteq Subscriptions /\ dead \subseteq 1..ep
  /\ sess \in [Conns -> 0..MaxConns] /\ nextID \in [Conns -> Nat \ {0}]
  /\ table \in [Conns -> SUBSET Flows] /\ flow \in [Flows -> Flow]
  /\ call \in [Calls -> Phases] /\ at \in [Calls -> 0..MaxConns] /\ owed \subseteq Flows
  /\ subF \in [Subscriptions -> Flows \cup {None}]
  /\ \A k \in Flows : consumer[k].f \in Flows \cup {None}

\* An answer reaches the call that asked for it, though calls, reconnections and
\* resubscriptions take stream ids from different endpoints and late frames of an older
\* connection are still dispatched: the comment in bindSession on the id counter.
AnswersGoHome == \A f \in Flows : flow[f].got \in {None, f}

\* A call that waits for its answer can get it: its flow is on the current endpoint, in its
\* table, wherever the reconnection ran into the call.
WaitingIsAddressable ==
  \A a \in Calls : call[a] = "waiting" /\ Open(Own(a)) =>
    flow[Own(a)].ep = ep /\ Own(a) \in table[ep]

\* A call only waits for a server session that still knows of it: when the session was not
\* resumed, what was pending has failed (protocol.md 8.2).
PendingBelongsToSession ==
  \A a \in Calls : call[a] = "waiting" /\ Open(Own(a)) => sess[at[a]] = session

\* Close ends the calls that wait on the connection it found or on an earlier one, though
\* connectLoop may be moving their flows at the time.
CloseEndsPending ==
  closing = "done" =>
    \A a \in Calls : call[a] = "waiting" /\ at[a] <= closeEp => ~Open(Own(a))

\* Dial returns.
DialEnds == dial = "waiting" ~> dial # "waiting"

\* Close stops connectLoop when it finds it waiting, for the end of the connection or to
\* dial again.
CloseStopsIdleLoop ==
  closing = "closed" /\ loop \in {"top", "serving", "backoff"} ~> loop = "stopped"

(* What the documents or comments say and the code does not do. *)

\* client.go:14 and :124: without a connection an API call waits for the reconnection; so
\* it goes on once connectLoop has announced one, while that connection lives.
WaitersGetConnection ==
  \A a \in Calls : call[a] = "blocked" /\ loop = "serving" /\ Alive(ep)
                     ~> call[a] # "blocked" \/ ~Alive(ep)

\* flow.go:322: the callback of a subscription runs for one frame after the other.
CallbacksAreSerial ==
  \A j, k \in Flows : j # k /\ j[1] = k[1] =>
    ~ (/\ consumer[j].pc \in {"callback", "lastCallback"}
       /\ consumer[k].pc \in {"callback", "lastCallback"})

=============================================================================
