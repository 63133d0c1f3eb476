------------------------------- MODULE Streams -------------------------------
(***************************************************************************)
(* Streams and subscriptions from one end to the other.  A client opens    *)
(* streams, reads and cancels them; the server's read loop registers a     *)
(* flow for each (endpoint.prepareRequest) and a handler answers through   *)
(* the session's sendDown, one credit of the connection per frame.  For a  *)
(* subscription the session has an entry, and Server.Publish sends without *)
(* credit.  A call of the server goes the other way and lives and dies     *)
(* with its connection.  The connection may break; the session is then resumed on the   *)
(* next one, to which the flows of both sides move (serverSession.bind,    *)
(* Client.bindSession), or expires (terminate).  Read loops of old         *)
(* connections may still have frames.                                      *)
(*                                                                         *)
(* Handlers send and clients receive here: the other direction of a        *)
(* channel runs the same code with the sides exchanged.  A gate is its     *)
(* number of tokens (CreditWindow): how senders sleep at it is CreditGate's *)
(* subject, the handshake, sendCh, the retention limit and ss.mu are       *)
(* Session's, and the buffer of a flow and its reader are Flow's.          *)
(***************************************************************************)
EXTENDS Integers, Sequences, FiniteSets, SequencesExt

CONSTANTS
  Workloads,  \* the streams clients open and the server's calls, how often a connection breaks,
              \* the credit in effect and the frames that handlers emit before their last one
  MaxStreams, \* bounds of the model: streams
  MaxConns    \* and connections of the session

ASSUME StreamsAssumption ==
  /\ MaxStreams \in Nat /\ MaxConns \in Nat \ {0}
  /\ Workloads \subseteq [kind : [1..MaxStreams -> {"request", "stream", "channel", "subscription",
                                                 "call", "none"}],
                          breaks : Nat, window : Nat \ {0}, frames : Nat]

Streams == 1..MaxStreams
Conns   == 1..MaxConns

VARIABLES
  kind,       \* flow.kind of each stream the client may open, or a call of the server
  breaks,     \* how often a connection may break
  window,     \* the credit in effect for a connection
  frames,     \* bound of the model: frames a handler emits, or broadcasts to a subscription
  broken,     \* connections 1..broken are cut, the others intact
  up, down,   \* per connection: frames on their way to the server and to the client
  \* the session
  life,       \* in the store, its timer fired, out of the store, terminated
  resuming,   \* no, decided (by a handshake), moving (bind is past its snapshot of flows)
  moving,     \* the flows bind has found
  bound, last,\* ss.conn (0: nil) and ss.lastConn
  dead,       \* the server has killed its side of connections 1..dead
  retained,   \* ss.retained
  subs,       \* ss.subs, of one topic
  targets,    \* those a Publish under way has still to send to
  \* the server's calls
  asks,       \* not begun, has its endpoint, registered, waiting, answered or failed
  on,         \* the connection of its endpoint
  swept,      \* onDead has taken its snapshot of connections 1..swept
  work,       \* the client's handler of it: none, running or done
  gate,       \* per connection: tokens of the server's credit gate
  \* the client
  current,    \* the connection of c.ep
  call,       \* what the application knows of the stream
  ending,     \* the frame that Cancel or Close is about to send for it,
  asked,      \* and the endpoint it has asked the flow for
  home, cep,  \* the endpoints the client's flow was made for and is bound to
  unread,     \* frames in the client's flow.frames
  pending,    \* flow.pendingCredit
  \* the server's flows and handlers
  served,     \* not registered yet, open or done
  sep,        \* flow.ep
  table,      \* per connection: the flows in its endpoint's streams
  late,       \* history: registered where neither bind nor terminate looks any more
  handler,    \* where the handler of the stream is
  via,        \* the connection whose gate it takes credit from
  emitted     \* frames it has emitted, or broadcasts to the subscription

callVars    == <<asks, on, swept, work>>
pushVars    == <<subs, targets, callVars>>
load        == <<kind, breaks, window, frames>>
netVars     == <<broken, up, down>>
sessionVars == <<life, resuming, moving, bound, last, dead, retained>>
clientVars  == <<current, call, ending, asked, home, cep, unread, pending>>
flowVars    == <<served, sep, table, late>>
handlerVars == <<handler, via, emitted>>
vars == <<load, netVars, sessionVars, pushVars, gate, clientVars, flowVars, handlerVars>>

Running == {"running", "taking", "sending"}

\* endpoint.creditFlushAt
FlushAt == IF window \div 2 < 1 THEN 1 ELSE window \div 2

Init ==
  /\ \E w \in Workloads :
       kind = w.kind /\ breaks = w.breaks /\ window = w.window /\ frames = w.frames
  /\ broken = 0 /\ up = [c \in Conns |-> <<>>] /\ down = [c \in Conns |-> <<>>]
  /\ life = "stored" /\ resuming = "no" /\ moving = {} /\ bound = 1 /\ last = 1 /\ dead = 0
  /\ retained = [s \in Streams |-> <<>>] /\ gate = [c \in Conns |-> window]
  /\ subs = {} /\ targets = {}
  /\ asks = [s \in Streams |-> "none"] /\ on = [s \in Streams |-> 1] /\ swept = 0
  /\ work = [s \in Streams |-> "none"]
  /\ current = 1 /\ call = [s \in Streams |-> "none"]
  /\ ending = [s \in Streams |-> "none"] /\ asked = [s \in Streams |-> 1]
  /\ home = [s \in Streams |-> 1] /\ cep = [s \in Streams |-> 1]
  /\ unread = [s \in Streams |-> 0] /\ pending = [s \in Streams |-> 0]
  /\ served = [s \in Streams |-> "none"] /\ sep = [s \in Streams |-> 1]
  /\ table = [c \in Conns |-> {}] /\ late = [s \in Streams |-> FALSE]
  /\ handler = [s \in Streams |-> "none"] /\ via = [s \in Streams |-> 1]
  /\ emitted = [s \in Streams |-> 0]

Frame(type, s, n) == [type |-> type, stream |-> s, n |-> n]

-----------------------------------------------------------------------------
(* The connection *)

\* The read loop is at a SUBSCRIBE: the entry is made and the SUBACK not sent.
Subscribing(c) ==
  up[c] # <<>> /\ Head(up[c]).type = "SUBSCRIBE" /\ Head(up[c]).stream \in subs

\* A connection is lost with suffixes of what is on its way.  A client that has not got
\* its CONNACK yet has read nothing.
ConnBreaks ==
  /\ broken < last /\ broken < breaks
  /\ broken' = last
  /\ \E k \in 0..Len(up[last]) :
       /\ Subscribing(last) => k > 0
       /\ up' = [up EXCEPT ![last] = SubSeq(@, 1, k)]
  /\ \E k \in 0..Len(down[last]) :
       /\ current < last => k = 0
       /\ down' = [down EXCEPT ![last] = SubSeq(@, 1, k)]
  /\ UNCHANGED <<load, pushVars, sessionVars, gate, clientVars, flowVars, handlerVars>>

-----------------------------------------------------------------------------
(* The client *)

\* a frame for connection c: refused or never written once the connection is cut
SendUp(c, f) == up' = IF c > broken THEN [up EXCEPT ![c] = Append(@, f)] ELSE up

\* Request, Stream, Channel and Subscribe: the next id, the flow is registered, the REQUEST
\* or SUBSCRIBE sent; a transport that knows of its death refuses it and the flow is taken
\* back
Open(s) ==
  /\ kind[s] \notin {"none", "call"} /\ call[s] = "none"
  /\ (\A t \in 1..s-1 : call[t] # "none" \/ kind[t] = "call")
  /\ home' = [home EXCEPT ![s] = current] /\ cep' = [cep EXCEPT ![s] = current]
  /\ \/ /\ kind[s] # "subscription"
        /\ call' = [call EXCEPT ![s] = "open"] /\ SendUp(current, Frame("REQUEST", s, 0))
     \/ /\ kind[s] = "subscription"
        /\ call' = [call EXCEPT ![s] = "asking"] /\ SendUp(current, Frame("SUBSCRIBE", s, 0))
     \/ current <= broken /\ call' = [call EXCEPT ![s] = "failed"] /\ UNCHANGED up
  /\ UNCHANGED <<load, pushVars, broken, down, sessionVars, gate, current, ending, asked,
                 unread, pending, flowVars, handlerVars>>

\* The flow is not done.  A subscription is asked for until its SUBACK.
Alive(s) == call[s] \in {"asking", "open"}

\* Cancel, Close and a ctx that ends in doRequest, doSubscribe or Next: the flow is not done,
\* and which endpoint it is bound to
StartEnding(s, type) ==
  /\ Alive(s) /\ ending[s] = "none"
  /\ ending' = [ending EXCEPT ![s] = type] /\ asked' = [asked EXCEPT ![s] = cep[s]]
  /\ UNCHANGED <<load, pushVars, netVars, sessionVars, gate, current, call, home, cep,
                 unread, pending, flowVars, handlerVars>>

Cancel(s) ==
  (kind[s] = "subscription" => call[s] = "asking") /\ StartEnding(s, "CANCEL")
CloseChannel(s) == kind[s] = "channel" /\ StartEnding(s, "COMPLETE")
CloseSubscription(s) ==
  kind[s] = "subscription" /\ call[s] = "open" /\ StartEnding(s, "UNSUBSCRIBE")

\* Mutation of EndVia: the frame goes by the connection the stream was opened on.
StaleEndVia(s) == home[s]

\* doRequest and doSubscribe keep the endpoint they began with
EndVia(s) ==
  IF kind[s] = "request" \/ call[s] = "asking" THEN home[s] ELSE asked[s]

\* the frame, and the end of the flow unless the peer was faster
SendEnding(s) ==
  /\ ending[s] # "none"
  /\ SendUp(EndVia(s), Frame(ending[s], s, 0))
  /\ ending' = [ending EXCEPT ![s] = "none"]
  /\ call' = IF ~Alive(s) THEN call
             ELSE [call EXCEPT ![s] = IF ending[s] = "CANCEL" THEN "cancelled" ELSE "complete"]
  /\ UNCHANGED <<load, pushVars, broken, down, sessionVars, gate, current, asked, home,
                 cep, unread, pending, flowVars, handlerVars>>

\* ep.streams of connection c: finish removes a flow from its current endpoint only
Registered(c, s) ==
  call[s] # "none" /\ home[s] <= c /\ c <= cep[s] /\ (Alive(s) \/ c < cep[s])

\* RESPONSE and PUBLISH.  The one of a request ends it; others wait in flow.frames, and
\* deliver drops or keeps a frame of a finished flow that an old table still has.  A PUBLISH
\* of no flow goes to the client's own handler of the topic.
ClientData(c) ==
  LET s == Head(down[c]).stream
      gated == kind[s] # "request"
  IN /\ down[c] # <<>> /\ Head(down[c]).type \in {"RESPONSE", "PUBLISH"}
     /\ down' = [down EXCEPT ![c] = Tail(@)]
     /\ call' = IF ~gated /\ Registered(c, s) /\ call[s] = "open" /\ ending[s] = "none"
                THEN [call EXCEPT ![s] = "complete"] ELSE call
     /\ \/ /\ gated /\ Registered(c, s)
           /\ unread' = [unread EXCEPT ![s] = @ + 1]
        \/ /\ ~(gated /\ Registered(c, s)) \/ ~Alive(s)
           /\ UNCHANGED unread
     /\ UNCHANGED <<load, pushVars, broken, up, sessionVars, gate, current, ending,
                    asked, home, cep, pending, flowVars, handlerVars>>

\* COMPLETE and ERROR
ClientEnd(c) ==
  LET f == Head(down[c])
  IN /\ down[c] # <<>> /\ f.type \in {"COMPLETE", "ERROR"}
     /\ down' = [down EXCEPT ![c] = Tail(@)]
     /\ call' = IF Registered(c, f.stream) /\ call[f.stream] = "open"
                THEN [call EXCEPT ![f.stream] = IF f.type = "COMPLETE" THEN "complete" ELSE "failed"]
                ELSE call
     /\ UNCHANGED <<load, pushVars, broken, up, sessionVars, gate, current, ending,
                    asked, home, cep, unread, pending, flowVars, handlerVars>>

\* SUBACK: doSubscribe returns, unless its ctx has ended
ClientAck(c) ==
  LET s == Head(down[c]).stream
  IN /\ down[c] # <<>> /\ Head(down[c]).type = "SUBACK"
     /\ down' = [down EXCEPT ![c] = Tail(@)]
     /\ call' = IF Registered(c, s) /\ call[s] = "asking" /\ ending[s] = "none"
                THEN [call EXCEPT ![s] = "open"] ELSE call
     /\ UNCHANGED <<load, pushVars, broken, up, sessionVars, gate, current, ending,
                    asked, home, cep, unread, pending, flowVars, handlerVars>>

\* REQUEST of the server, or the CANCEL of one, which tells its handler and no more
ClientCalled(c) ==
  LET f == Head(down[c])
  IN /\ down[c] # <<>> /\ f.type \in {"REQUEST", "CANCEL"}
     /\ down' = [down EXCEPT ![c] = Tail(@)]
     /\ work' = IF f.type = "REQUEST" THEN [work EXCEPT ![f.stream] = "running"] ELSE work
     /\ UNCHANGED <<load, subs, targets, asks, on, swept, broken, up, sessionVars, gate,
                    clientVars, flowVars, handlerVars>>

\* The read loop of a connection starts when bindSession is through.
ClientRead(c) ==
  c <= current /\ (ClientData(c) \/ ClientEnd(c) \/ ClientAck(c) \/ ClientCalled(c))

\* The client's handler returns: the answer goes by the connection of the REQUEST.
AnswerCall(s) ==
  /\ work[s] = "running"
  /\ work' = [work EXCEPT ![s] = "done"]
  /\ SendUp(on[s], Frame("RESPONSE", s, 0)) \/ SendUp(on[s], Frame("ERROR", s, 0))
  /\ UNCHANGED <<load, subs, targets, asks, on, swept, broken, down, sessionVars, gate,
                 clientVars, flowVars, handlerVars>>

\* Mutation of Release: a half window and more is waited for.
ReleaseLate(s) ==
  IF pending[s] + 1 > FlushAt
  THEN SendUp(cep[s], Frame("CREDIT", s, pending[s] + 1)) /\ pending' = [pending EXCEPT ![s] = 0]
  ELSE pending' = [pending EXCEPT ![s] = @ + 1] /\ UNCHANGED up

\* Mutation of Release: what was granted is not taken off.
ReleaseTwice(s) ==
  IF pending[s] + 1 >= FlushAt
  THEN SendUp(cep[s], Frame("CREDIT", s, pending[s] + 1)) /\ pending' = [pending EXCEPT ![s] = @ + 1]
  ELSE pending' = [pending EXCEPT ![s] = @ + 1] /\ UNCHANGED up

\* flow.release(1) and transport.grantCredit
Release(s) ==
  IF pending[s] + 1 >= FlushAt
  THEN SendUp(cep[s], Frame("CREDIT", s, pending[s] + 1)) /\ pending' = [pending EXCEPT ![s] = 0]
  ELSE pending' = [pending EXCEPT ![s] = @ + 1] /\ UNCHANGED up

\* Next, Receive or consume hands a frame over; after a failure at most one more is taken.
\* A subscription has a consumer once it is acknowledged.
Read(s) ==
  /\ unread[s] > 0 /\ call[s] \in {"open", "complete", "failed", "cancelled"}
  /\ kind[s] = "subscription" => call[s] # "cancelled"
  /\ Release(s)
  /\ unread' = [unread EXCEPT ![s] = @ - 1]
  /\ call' = IF call[s] \in {"failed", "cancelled"} THEN [call EXCEPT ![s] = "left"] ELSE call
  /\ UNCHANGED <<load, pushVars, broken, down, sessionVars, gate, current, ending, asked,
                 home, cep, flowVars, handlerVars>>

\* bindSession, resumed: the flows that are not done move to the new endpoint
ClientBind ==
  /\ current < last /\ last > broken
  /\ current' = last
  /\ cep' = [s \in Streams |-> IF Alive(s) THEN last ELSE cep[s]]
  /\ UNCHANGED <<load, pushVars, netVars, sessionVars, gate, call, ending, asked, home,
                 unread, pending, flowVars, handlerVars>>

-----------------------------------------------------------------------------
(* The session *)

\* sendDown: to the bound connection, where a cut one loses it, or into the session; bind
\* holds ss.mu
SendDown(s, type) ==
  /\ resuming # "moving"
  /\ down' = IF bound > broken THEN [down EXCEPT ![bound] = Append(@, Frame(type, s, 0))] ELSE down
  /\ retained' = IF bound = 0 THEN [retained EXCEPT ![s] = Append(@, Frame(type, s, 0))] ELSE retained

\* flow.finish of the server's flow
Done(s) ==
  IF served[s] = "open"
  THEN /\ served' = [served EXCEPT ![s] = "done"]
       /\ table' = [table EXCEPT ![sep[s]] = @ \ {s}]
  ELSE UNCHANGED <<served, table>>

\* kill by the read or write loop, which closes the gate
ServerNotices ==
  /\ dead < broken
  /\ dead' = broken
  /\ UNCHANGED <<load, pushVars, netVars, life, resuming, moving, bound, last, retained,
                 gate, clientVars, flowVars, handlerVars>>

Unbind ==
  /\ bound # 0 /\ bound <= dead /\ resuming # "moving"
  /\ bound' = 0
  /\ UNCHANGED <<load, pushVars, netVars, life, resuming, moving, last, dead, retained,
                 gate, clientVars, flowVars, handlerVars>>

\* handleConn of the client's next connection finds the session in the store
DecideToResume ==
  /\ life \in {"stored", "fired"} /\ broken = last /\ resuming = "no"
  /\ last < MaxConns
  /\ resuming' = "decided"
  /\ UNCHANGED <<load, pushVars, netVars, life, moving, bound, last, dead, retained,
                 gate, clientVars, flowVars, handlerVars>>

\* Mutation of Migrating: only what a bound connection has is moved.
MigratingIfBound == IF bound = 0 THEN {} ELSE {s \in table[bound] : served[s] = "open"}

\* the open flows of the bound connection, or else of the last one
Migrating == {s \in table[IF bound = 0 THEN last ELSE bound] : served[s] = "open"}

\* bind, up to its snapshot: a connection that is still bound is killed.  The flows do not
\* wait for ss.mu: they may end before they are moved.
BindFindsFlows ==
  /\ resuming = "decided" /\ resuming' = "moving"
  /\ moving' = Migrating
  /\ dead' = IF bound # 0 THEN last ELSE dead
  /\ UNCHANGED <<load, pushVars, netVars, life, bound, last, retained, gate, clientVars,
                 flowVars, handlerVars>>

\* the frames retained, one stream's after the other's, the streams in any order
Kept == UNION {{s} \X DOMAIN retained[s] : s \in Streams}
Replays ==
  {q \in SetToSeqs(Kept) : \A i, j \in DOMAIN q : i < j /\ q[i][1] = q[j][1] =>
     q[i][2] < q[j][2] /\ \A k \in i..j : q[k][1] = q[i][1]}

\* the rest: flows move, and what was retained is replayed, stream by stream in any order and
\* without credit; the CONNACK follows
Bind ==
  LET c == last + 1
  IN /\ resuming = "moving" /\ resuming' = "no" /\ moving' = {}
     /\ bound' = c /\ last' = c
     /\ sep' = [s \in Streams |-> IF s \in moving THEN c ELSE sep[s]]
     /\ table' = [table EXCEPT ![c] = moving]
     /\ \E q \in Replays :
          down' = [down EXCEPT ![c] = [i \in 1..Cardinality(Kept) |-> retained[q[i][1]][q[i][2]]]]
     /\ retained' = [s \in Streams |-> <<>>]
     /\ UNCHANGED <<load, pushVars, broken, up, life, dead, gate, clientVars, served,
                    late, handlerVars>>

\* The retention timer; from here on timer.Stop in bind comes too late.
TimerFires ==
  /\ life = "stored" /\ bound = 0
  /\ life' = "fired"
  /\ UNCHANGED <<load, pushVars, netVars, resuming, moving, bound, last, dead, retained,
                 gate, clientVars, flowVars, handlerVars>>

\* sessionStore.drop
Drop ==
  /\ life = "fired"
  /\ life' = "dropped"
  /\ UNCHANGED <<load, pushVars, netVars, resuming, moving, bound, last, dead, retained,
                 gate, clientVars, flowVars, handlerVars>>

\* Mutation of Expiring: only the flows of a bound connection are ended.
ExpiringIfBound == IF bound = 0 THEN {} ELSE table[bound]

\* the flows terminate finds: ss.conn's or ss.lastConn's
Expiring == {s \in table[IF bound = 0 THEN last ELSE bound] : served[s] = "open"}

\* serverSession.terminate
Terminate ==
  /\ life = "dropped" /\ resuming # "moving"
  /\ life' = "terminated"
  /\ served' = [s \in Streams |-> IF s \in Expiring THEN "done" ELSE served[s]]
  /\ table' = [c \in Conns |-> {s \in table[c] : s \notin Expiring \/ sep[s] # c}]
  /\ UNCHANGED <<load, pushVars, netVars, resuming, moving, bound, last, dead, retained,
                 gate, clientVars, sep, late, handlerVars>>

-----------------------------------------------------------------------------
(* The server's read loop: handleFrame *)

Arrives(c, type) ==
  /\ up[c] # <<>> /\ Head(up[c]).type = type
  /\ up' = [up EXCEPT ![c] = Tail(@)]

\* registerFlow
Register(c, s) ==
  /\ served' = [served EXCEPT ![s] = "open"] /\ sep' = [sep EXCEPT ![s] = c]
  /\ table' = [table EXCEPT ![c] = @ \cup {s}]
  /\ late' = [late EXCEPT ![s] = c # last \/ resuming = "moving" \/ life = "terminated"]

\* REQUEST: prepareRequest registers the flow before the next frame is read, and the
\* handler starts
Request(c) ==
  LET s == Head(up[c]).stream
  IN /\ Arrives(c, "REQUEST")
     /\ Register(c, s)
     /\ handler' = [handler EXCEPT ![s] = "running"] /\ via' = [via EXCEPT ![s] = c]
     /\ UNCHANGED <<load, pushVars, broken, down, sessionVars, gate, clientVars,
                    emitted>>

\* REQUEST: no such route, or it is of another kind
RequestRefused(c) ==
  /\ Arrives(c, "REQUEST")
  /\ SendDown(Head(up[c]).stream, "ERROR")
  /\ UNCHANGED <<load, pushVars, broken, life, resuming, moving, bound, last, dead, gate,
                 clientVars, flowVars, handlerVars>>

\* CANCEL, or the COMPLETE of a channel; of no flow of this connection: nothing
FlowEnds(c) ==
  LET s == Head(up[c]).stream
  IN /\ Arrives(c, "CANCEL") \/ Arrives(c, "COMPLETE")
     /\ IF s \in table[c] THEN Done(s) ELSE UNCHANGED <<served, table>>
     /\ UNCHANGED <<load, pushVars, broken, down, sessionVars, gate, clientVars, sep,
                    late, handlerVars>>

\* CREDIT; a closed gate stays closed
Credit(c) ==
  /\ Arrives(c, "CREDIT")
  /\ gate' = IF c > dead THEN [gate EXCEPT ![c] = @ + Head(up[c]).n] ELSE gate
  /\ UNCHANGED <<load, pushVars, broken, down, sessionVars, clientVars, flowVars,
                 handlerVars>>

\* SUBSCRIBE: the entry, made under ss.mu, and then the SUBACK
Subscribe(c) ==
  LET s == Head(up[c]).stream
  IN /\ up[c] # <<>> /\ Head(up[c]).type = "SUBSCRIBE" /\ ~Subscribing(c)
     /\ resuming # "moving"
     /\ subs' = subs \cup {s}
     /\ UNCHANGED <<load, targets, callVars, netVars, sessionVars, gate, clientVars, flowVars,
                    handlerVars>>

Subscribed(c) ==
  /\ Subscribing(c) /\ Arrives(c, "SUBSCRIBE")
  /\ SendDown(Head(up[c]).stream, "SUBACK")
  /\ UNCHANGED <<load, pushVars, broken, life, resuming, moving, bound, last, dead, gate,
                 clientVars, flowVars, handlerVars>>

\* UNSUBSCRIBE
Unsubscribe(c) ==
  /\ Arrives(c, "UNSUBSCRIBE") /\ resuming # "moving"
  /\ subs' = subs \ {Head(up[c]).stream}
  /\ UNCHANGED <<load, targets, callVars, broken, down, sessionVars, gate, clientVars, flowVars,
                 handlerVars>>

\* RESPONSE or ERROR: the end of a call of the server
CallAnswered(c) ==
  LET f == Head(up[c])
  IN /\ Arrives(c, "RESPONSE") \/ Arrives(c, "ERROR")
     /\ asks' = IF asks[f.stream] = "waiting" /\ on[f.stream] = c
                THEN [asks EXCEPT ![f.stream] = IF f.type = "ERROR" THEN "failed" ELSE "answered"]
                ELSE asks
     /\ UNCHANGED <<load, subs, targets, on, swept, work, broken, down, sessionVars, gate,
                    clientVars, flowVars, handlerVars>>

ServerRead(c) ==
  \/ Request(c) \/ RequestRefused(c) \/ FlowEnds(c) \/ Credit(c)
  \/ Subscribe(c) \/ Subscribed(c) \/ Unsubscribe(c) \/ CallAnswered(c)

-----------------------------------------------------------------------------
(* Server.Publish, one at a time *)

\* the sessions of the store and then their subscriptions
Publish ==
  /\ targets = {} /\ life \in {"stored", "fired"} /\ resuming # "moving"
  /\ subs # {} /\ (\A s \in subs : emitted[s] < frames)
  /\ targets' = subs
  /\ UNCHANGED <<load, subs, callVars, netVars, sessionVars, gate, clientVars, flowVars, handlerVars>>

\* sendDown to one of them, whatever has become of it
PublishTo(s) ==
  /\ s \in targets
  /\ SendDown(s, "PUBLISH")
  /\ targets' = targets \ {s}
  /\ emitted' = [emitted EXCEPT ![s] = @ + 1]
  /\ UNCHANGED <<load, subs, callVars, broken, up, life, resuming, moving, bound, last, dead, gate,
                 clientVars, flowVars, handler, via>>

\* its ctx has ended
PublishStops ==
  /\ targets # {} /\ targets' = {}
  /\ UNCHANGED <<load, subs, callVars, netVars, sessionVars, gate, clientVars, flowVars, handlerVars>>

-----------------------------------------------------------------------------
(* Calls of the server: Server.Request.  They go past the session. *)

Asks(s, place) == asks' = [asks EXCEPT ![s] = place]

\* sessionEp: the session is in the store and has a live connection
StartCall(s) ==
  /\ kind[s] = "call" /\ asks[s] = "none"
  /\ life \in {"stored", "fired"} /\ resuming # "moving" /\ bound > dead
  /\ Asks(s, "chosen") /\ on' = [on EXCEPT ![s] = bound]
  /\ UNCHANGED <<load, subs, targets, swept, work, netVars, sessionVars, gate, clientVars,
                 flowVars, handlerVars>>

RegisterCall(s) ==
  /\ asks[s] = "chosen" /\ Asks(s, "registered")
  /\ UNCHANGED <<load, subs, targets, on, swept, work, netVars, sessionVars, gate, clientVars,
                 flowVars, handlerVars>>

\* sendRequestFrame: a transport that knows of its death refuses, and the flow is taken back
SendCall(s) ==
  /\ asks[s] = "registered"
  /\ Asks(s, IF on[s] > dead THEN "waiting" ELSE "failed")
  /\ down' = IF on[s] > broken THEN [down EXCEPT ![on[s]] = Append(@, Frame("REQUEST", s, 0))]
             ELSE down
  /\ UNCHANGED <<load, subs, targets, on, swept, work, broken, up, sessionVars, gate,
                 clientVars, flowVars, handlerVars>>

CallCtxEnds(s) ==
  /\ asks[s] = "waiting" /\ Asks(s, "failed")
  /\ down' = IF on[s] > broken THEN [down EXCEPT ![on[s]] = Append(@, Frame("CANCEL", s, 0))]
             ELSE down
  /\ UNCHANGED <<load, subs, targets, on, swept, work, broken, up, sessionVars, gate,
                 clientVars, flowVars, handlerVars>>

\* serverConn.onDead, once it has unbound: the calls that are registered fail.
\* Without one it does nothing.
OnDead ==
  /\ \E s \in Streams : asks[s] # "none"
  /\ swept < dead /\ resuming # "moving" /\ (bound = 0 \/ bound > dead)
  /\ swept' = dead
  /\ asks' = [s \in Streams |-> IF asks[s] = "waiting" /\ on[s] <= dead THEN "failed"
                                ELSE asks[s]]
  /\ UNCHANGED <<load, subs, targets, on, work, netVars, sessionVars, gate, clientVars,
                 flowVars, handlerVars>>

-----------------------------------------------------------------------------
(* Handlers *)

\* Emit and Send look at the flow first.  An Emitter keeps the endpoint of its REQUEST; a
\* channel asks for the current one.
StartEmit(s) ==
  /\ handler[s] = "running" /\ kind[s] # "request" /\ served[s] = "open"
  /\ emitted[s] < frames
  /\ handler' = [handler EXCEPT ![s] = "taking"]
  /\ via' = IF kind[s] = "channel" THEN [via EXCEPT ![s] = sep[s]] ELSE via
  /\ UNCHANGED <<load, pushVars, netVars, sessionVars, gate, clientVars, flowVars,
                 emitted>>

\* Mutation of TakeCredit: frames go out whatever the gate says.
TakeNothing(s) ==
  /\ handler[s] = "taking"
  /\ handler' = [handler EXCEPT ![s] = "sending"]
  /\ UNCHANGED <<load, pushVars, netVars, sessionVars, gate, clientVars, flowVars, via,
                 emitted>>

\* takeCredit.  A closed gate: Emit goes on without, Send fails.  No token: wait for one or
\* for the end of the flow.
TakeCredit(s) ==
  /\ handler[s] = "taking"
  /\ \/ /\ via[s] <= dead
        /\ handler' = [handler EXCEPT ![s] = IF kind[s] = "channel" THEN "running" ELSE "sending"]
        /\ UNCHANGED gate
     \/ /\ via[s] > dead /\ gate[via[s]] > 0
        /\ handler' = [handler EXCEPT ![s] = "sending"]
        /\ gate' = [gate EXCEPT ![via[s]] = @ - 1]
     \/ /\ via[s] > dead /\ gate[via[s]] = 0 /\ served[s] = "done"
        /\ handler' = [handler EXCEPT ![s] = "running"]
        /\ UNCHANGED gate
  /\ UNCHANGED <<load, pushVars, netVars, sessionVars, clientVars, flowVars, via,
                 emitted>>

SendFrame(s) ==
  /\ handler[s] = "sending"
  /\ SendDown(s, "RESPONSE")
  /\ emitted' = [emitted EXCEPT ![s] = @ + 1]
  /\ handler' = [handler EXCEPT ![s] = "running"]
  /\ UNCHANGED <<load, pushVars, broken, up, life, resuming, moving, bound, last, dead,
                 gate, clientVars, flowVars, via>>

\* runRequest and runChannel after the handler: the answer or its error, the end of the
\* flow.  Close of a channel that is done sends nothing.
Return(s) ==
  /\ handler[s] = "running"
  /\ handler' = [handler EXCEPT ![s] = "returned"]
  /\ \/ SendDown(s, "ERROR")
     \/ kind[s] = "request" /\ SendDown(s, "RESPONSE")
     \/ kind[s] = "stream" /\ SendDown(s, "COMPLETE")
     \/ kind[s] = "channel" /\ IF served[s] = "open" THEN SendDown(s, "COMPLETE")
                               ELSE UNCHANGED <<down, retained>>
  /\ Done(s)
  /\ UNCHANGED <<load, pushVars, broken, up, life, resuming, moving, bound, last, dead,
                 gate, clientVars, sep, late, via, emitted>>

\* the recover of runRequest: the flow is not finished
Panic(s) ==
  /\ handler[s] = "running"
  /\ handler' = [handler EXCEPT ![s] = "panicked"]
  /\ SendDown(s, "ERROR")
  /\ UNCHANGED <<load, pushVars, broken, up, life, resuming, moving, bound, last, dead,
                 gate, clientVars, flowVars, via, emitted>>

-----------------------------------------------------------------------------

Client(s) ==
  Open(s) \/ Cancel(s) \/ CloseChannel(s) \/ CloseSubscription(s) \/ SendEnding(s) \/ Read(s)

Session ==
  ServerNotices \/ Unbind \/ DecideToResume \/ BindFindsFlows \/ Bind \/ TimerFires \/ Drop
    \/ Terminate

Handler(s) == StartEmit(s) \/ TakeCredit(s) \/ SendFrame(s) \/ Return(s) \/ Panic(s)

Call(s) ==
  StartCall(s) \/ RegisterCall(s) \/ SendCall(s) \/ CallCtxEnds(s) \/ AnswerCall(s)

Next ==
  \/ ConnBreaks \/ ClientBind \/ Session \/ OnDead
  \/ Publish \/ PublishStops \/ (\E s \in Streams : PublishTo(s))
  \/ \E s \in Streams : Client(s) \/ Handler(s) \/ Call(s)
  \/ \E c \in Conns : ClientRead(c) \/ ServerRead(c)

Spec == Init /\ [][Next]_vars

\* Read loops, senders with a token, bind and a drop that has begun go on; the application
\* reads what arrives; a handler returns once its flow is done, as its context tells it to.
\* Nobody has to open, emit, cancel or reconnect, and connections may live for ever.
FairSpec ==
  /\ Spec
  /\ \A c \in Conns : WF_vars(ClientRead(c)) /\ WF_vars(ServerRead(c))
  /\ \A s \in Streams : /\ WF_vars(TakeCredit(s)) /\ WF_vars(SendFrame(s)) /\ WF_vars(Read(s))
                        /\ WF_vars(served[s] = "done" /\ Return(s))
  /\ WF_vars(Bind) /\ WF_vars(Unbind) /\ WF_vars(OnDead) /\ WF_vars(Drop) /\ WF_vars(Terminate)

-----------------------------------------------------------------------------

FrameSet == [type : {"REQUEST", "RESPONSE", "COMPLETE", "CANCEL", "ERROR", "CREDIT",
                     "SUBSCRIBE", "SUBACK", "PUBLISH", "UNSUBSCRIBE"},
             stream : Streams, n : Nat]

TypeOK ==
  /\ [kind |-> kind, breaks |-> breaks, window |-> window, frames |-> frames] \in Workloads
  /\ broken \in 0..last /\ dead \in 0..broken /\ last \in Conns /\ bound \in {0, last}
  /\ up \in [Conns -> Seq(FrameSet)] /\ down \in [Conns -> Seq(FrameSet)]
  /\ life \in {"stored", "fired", "dropped", "terminated"} /\ resuming \in {"no", "decided", "moving"}
  /\ moving \subseteq Streams /\ subs \subseteq Streams /\ targets \subseteq Streams
  /\ asks \in [Streams -> {"none", "chosen", "registered", "waiting", "answered", "failed"}]
  /\ on \in [Streams -> Conns] /\ swept \in 0..dead /\ work \in [Streams -> {"none", "running", "done"}]
  /\ retained \in [Streams -> Seq(FrameSet)] /\ gate \in [Conns -> Nat]
  /\ current \in 1..last
  /\ call \in [Streams -> {"none", "asking", "open", "complete", "failed", "cancelled", "left"}]
  /\ ending \in [Streams -> {"none", "CANCEL", "COMPLETE", "UNSUBSCRIBE"}] /\ asked \in [Streams -> Conns]
  /\ home \in [Streams -> Conns] /\ cep \in [Streams -> Conns]
  /\ unread \in [Streams -> Nat] /\ pending \in [Streams -> 0..FlushAt-1]
  /\ served \in [Streams -> {"none", "open", "done"}] /\ sep \in [Streams -> Conns]
  /\ table \in [Conns -> SUBSET Streams] /\ late \in [Streams -> BOOLEAN]
  /\ handler \in [Streams -> Running \cup {"none", "returned", "panicked"}]
  /\ via \in [Streams -> Conns] /\ emitted \in [Streams -> Nat]

\* The next bind and terminate see every flow they have to move or end: whatever breaks, is
\* taken over or resumed, an open flow is bound to the endpoint of the last connection and
\* in its table, or has been found by the bind that is under way.  But for one that the read
\* loop of an old connection registered after bind had looked, or any after terminate.
SessionKnowsItsFlows ==
  \A s \in Streams : served[s] = "open" /\ ~late[s] =>
    /\ s \in table[last] /\ sep[s] = last
    /\ resuming = "moving" => s \in moving

\* The credit of connection 1, unit by unit: tokens at the gate, one for each frame that is being
\* sent, on its way or unread, what is read and not granted back, and grants on their way.
Gated(f) == f.type = "RESPONSE" /\ kind[f.stream] # "request"

Units(place, count) == UNION {{<<place, i, k>> : k \in 1..count[i]} : i \in DOMAIN count}

Owed ==
  UNION {Units("gate", <<gate[1]>>), Units("unread", unread), Units("pending", pending),
         Units("sending", [s \in Streams |-> IF handler[s] = "sending" THEN 1 ELSE 0]),
         Units("down", [i \in DOMAIN down[1] |-> IF Gated(down[1][i]) THEN 1 ELSE 0]),
         Units("up", [i \in DOMAIN up[1] |-> up[1][i].n])}

\* protocol.md 7.9: on a connection that carries nothing of an earlier one, tokens, frames
\* on their way, unread or not yet granted back, and grants on their way never exceed the
\* window, until it dies: that is what bounds the client's buffers.  Without subscriptions,
\* that is: a PUBLISH takes no credit and is granted back all the same.
WindowRespected ==
  dead = 0 /\ (\A s \in Streams : kind[s] # "subscription") => Cardinality(Owed) <= window

\* An empty window is refilled while streams go on: credit is granted back in batches of a
\* half window and stream, so there have to be fewer streams than hold back a whole window.
\* Frames of a stream that ended are not granted back for certain.
WindowRefills ==
  Cardinality(Streams) * (FlushAt - 1) < window =>
    (last = 1 /\ gate[1] = 0 ~>
       gate[1] > 0 \/ broken > 0 \/ \E s \in Streams : call[s] \notin {"none", "asking", "open"})

\* What the end of a stream at the client has to bring about at the server.
Ended(s) == call[s] = IF kind[s] = "subscription" THEN "complete" ELSE "cancelled"
Over(s)  == IF kind[s] = "subscription" THEN s \notin subs
            ELSE handler[s] \notin Running \/ late[s]

\* flow.go:226 and 367: Cancel and the Close of a subscription go by the current connection,
\* so that after a resumption no handler runs on and no subscription is left behind.  Unless
\* the connection breaks that was the stream's when they looked, its handler or subscription
\* is over for good.  (A request cancels on the connection it was made on, and Subscribe sends
\* a CANCEL that means nothing to the server.)
EndReachesServer ==
  \A s \in Streams :
    Ended(s) ~> [](Over(s) \/ broken >= IF kind[s] = "request" THEN home[s] ELSE asked[s])

\* server.go:531: a terminated session leaves no handler behind.
HandlersEnd ==
  life = "terminated" ~> [](\A s \in Streams : handler[s] \notin Running \/ late[s])

\* server.go:379: a call of the server does not outlive its connection, although it may register
\* when onDead has taken its snapshot.
CallsEnd == \A s \in Streams : on[s] <= dead /\ asks[s] = "waiting" ~> asks[s] # "waiting"

\* Nobody on the server waits for what is gone.
DeathEndsWaiting == HandlersEnd /\ CallsEnd

=============================================================================
