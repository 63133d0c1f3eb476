------------------------------ MODULE Session ------------------------------
(***************************************************************************)
(* One logical session of the server (server.go): the connections that     *)
(* create and resume it, the frames its handlers send down, the queue that *)
(* keeps them while the client is away, and the retention timer.           *)
(*                                                                         *)
(* Sessions share nothing but the map that finds them by their random id,  *)
(* so one of them is followed; a connection that is refused, or whose      *)
(* lookup fails and which goes on to another session, is left there        *)
(* ("elsewhere").  A frame is its stream and its number in the stream.     *)
(* ss.mu is explicit only where it is held across a blocking send; every   *)
(* other critical section is one step.                                     *)
(***************************************************************************)
EXTENDS Integers, Sequences, FiniteSets

CONSTANTS
  Conns,           \* TCP connections the listener accepts
  Streams,         \* streams of the session that send frames down
  CtxStreams,      \* those whose sender passes a ctx that may expire (Publish)
  Nil,             \* no connection (ss.conn == nil), no stream
  SendCap,         \* capacity of transport.sendCh (256 in the code)
  FrameBytes,      \* bytes a retained frame of each stream accounts for
  RetentionBytes,  \* Config.RetentionBytes
  Retain,          \* Config.Retention >= 0
  MaxFrames,       \* bound of the model: frames sent, for each stream
  ConnackMayFail,  \* the peer may be gone when CONNACK is written
  ServerMayClose   \* Server.Close may be called

ASSUME SessionAssumption ==
  /\ Nil \notin Conns \cup Streams
  /\ CtxStreams \subseteq Streams
  /\ SendCap \in Nat \ {0}
  /\ FrameBytes \in [Streams -> Nat \ {0}]
  /\ RetentionBytes \in Nat
  /\ MaxFrames \in [Streams -> Nat]
  /\ {Retain, ConnackMayFail, ServerMayClose} \subseteq BOOLEAN

VARIABLES
  life,           \* of the session: unborn, stored, deleted (from the store), terminated
  conn,           \* ss.conn
  retained,       \* ss.retained
  retainedBytes,  \* ss.retainedBytes
  overflowed,     \* ss.overflowed
  timer,          \* ss.timer: nil, running, or expired but still referenced
  drops,          \* calls of store.drop that have started and not yet deleted
  mu,             \* ss.mu: free, or held across a send by sendDown or by bind
  at,             \* the stream that send is for
  returned,       \* what sendDown returned for each frame so far, per stream
  pc,             \* where handleConn is, per connection
  resumed,        \* aj.Resumed
  registered,     \* s.conns
  death,          \* transport.kill: alive, killed, notified (onDead has unbound)
  sendCh,         \* transport.sendCh
  line,           \* what was written to the socket, per connection
  writing,        \* the connections whose write loop runs
  server,         \* open, closing (Close took its snapshot), closed
  toKill          \* the rest of the snapshot in Server.Close

sessionVars == <<life, conn, retained, retainedBytes, overflowed, timer, drops, mu, at>>
connVars    == <<pc, resumed, registered, death, sendCh, line, writing>>
vars == <<sessionVars, connVars, returned, server, toKill>>

Frame   == [sid : Streams, n : Nat \ {0}]
CONNACK == [sid |-> Nil, n |-> 0]

Phases == {"idle", "handshake", "elsewhere", "decided", "registered", "replaying",
           "bound", "serving", "unbinding", "closed"}

Dead(c) == death[c] # "alive"

\* transport.kill: once; onDead is a goroutine of its own
Kill(S) == death' = [c \in Conns |-> IF c \in S /\ death[c] = "alive"
                                     THEN "killed" ELSE death[c]]

Init ==
  /\ life = "unborn" /\ conn = Nil
  /\ retained = [s \in Streams |-> <<>>] /\ retainedBytes = 0 /\ overflowed = FALSE
  /\ timer = "nil" /\ drops = 0 /\ mu = "free" /\ at = Nil
  /\ returned = [s \in Streams |-> <<>>]
  /\ pc = [c \in Conns |-> "idle"] /\ resumed = [c \in Conns |-> FALSE]
  /\ registered = {} /\ death = [c \in Conns |-> "alive"]
  /\ sendCh = [c \in Conns |-> <<>>] /\ line = [c \in Conns |-> <<>>] /\ writing = {}
  /\ server = "open" /\ toKill = {}

GoTo(c, phase) == pc' = [pc EXCEPT ![c] = phase]

-----------------------------------------------------------------------------
(* handleConn *)

Accept(c) ==
  /\ pc[c] = "idle" /\ server = "open"
  /\ GoTo(c, "handshake")
  /\ UNCHANGED <<sessionVars, resumed, registered, death, sendCh, line, writing, returned, server, toKill>>

\* a bad frame, a wrong version, a refusing OnAuth hook, no encryption, DialTimeout
RejectHandshake(c) ==
  /\ pc[c] = "handshake"
  /\ GoTo(c, "elsewhere")
  /\ UNCHANGED <<sessionVars, resumed, registered, death, sendCh, line, writing, returned, server, toKill>>

\* CONNECT without session_id: newSession puts the session in the store, unbound
CreateSession(c) ==
  /\ pc[c] = "handshake" /\ life = "unborn"
  /\ life' = "stored"
  /\ GoTo(c, "decided")
  /\ UNCHANGED <<conn, retained, retainedBytes, overflowed, timer, drops, mu, at,
                 resumed, registered, death, sendCh, line, writing, returned, server, toKill>>

\* a client knows the id once a CONNACK has carried it
Issued == \E c \in Conns : line[c] # <<>>

\* CONNECT with session_id: store.take and the (unlocked) read of ss.overflowed
ResumeSession(c) ==
  /\ pc[c] = "handshake" /\ Issued
  /\ IF life = "stored" /\ ~overflowed
     THEN GoTo(c, "decided") /\ resumed' = [resumed EXCEPT ![c] = TRUE]
     ELSE GoTo(c, "elsewhere") /\ UNCHANGED resumed
  /\ UNCHANGED <<sessionVars, registered, death, sendCh, line, writing, returned, server, toKill>>

Register(c) ==
  /\ pc[c] = "decided"
  /\ registered' = registered \cup {c}
  /\ GoTo(c, "registered")
  /\ UNCHANGED <<sessionVars, resumed, death, sendCh, line, writing, returned, server, toKill>>

\* Mutation of ReplayRest: what was retained stays in the queue.
ReplayNothing(c, r) ==
  mu' = "free" /\ at' = Nil /\ retainedBytes' = 0 /\ GoTo(c, "bound")

\* The loop of bind over what is left to replay (r): stream by stream, in any
\* order of streams; bind returns, and frees ss.mu, when nothing is left.
ReplayRest(c, r) ==
  IF \A s \in Streams : r[s] = <<>>
  THEN /\ mu' = "free" /\ at' = Nil /\ retainedBytes' = 0
       /\ GoTo(c, "bound")
  ELSE /\ mu' = "bind" /\ UNCHANGED retainedBytes
       /\ at' \in {s \in Streams : r[s] # <<>>}
       /\ (mu = "bind" /\ r[at] # <<>>) => at' = at
       /\ GoTo(c, "replaying")

\* serverSession.bind up to its first send: kill (takeover), rebind, set the timer, replay
Rebind(c, killed, newTimer) ==
  /\ pc[c] = "registered" /\ mu = "free"
  /\ Kill(killed)
  /\ conn' = c
  /\ timer' = newTimer
  /\ ReplayRest(c, retained)
  /\ UNCHANGED <<life, retained, overflowed, drops, resumed, registered, sendCh, line, writing,
                 returned, server, toKill>>

\* Mutations of Bind: the timer keeps running; the previous connection lives on.
BindKeepsTimer(c)      == Rebind(c, {conn} \ {c}, timer)
BindWithoutTakeover(c) == Rebind(c, {}, "nil")

Bind(c) == Rebind(c, {conn} \ {c}, "nil")

\* bind's tr.send of one frame, which goes to q or is lost
Replay(c, q) ==
  LET r == [retained EXCEPT ![at] = Tail(@)]
  IN /\ pc[c] = "replaying"
     /\ sendCh' = [sendCh EXCEPT ![c] = q]
     /\ retained' = r
     /\ ReplayRest(c, r)
     /\ UNCHANGED <<life, conn, overflowed, timer, drops, resumed, registered, death, line, writing,
                    returned, server, toKill>>

ReplayToQueue(c) ==
  ~Dead(c) /\ Len(sendCh[c]) < SendCap /\ Replay(c, Append(sendCh[c], Head(retained[at])))

\* Mutation of ReplayFrame: the send does not watch for the end of the transport.
ReplayIgnoresDeath(c) ==
  Len(sendCh[c]) < SendCap /\ Replay(c, Append(sendCh[c], Head(retained[at])))

\* blocks while sendCh is full, is refused once the transport is dead
ReplayFrame(c) == ReplayToQueue(c) \/ (Dead(c) /\ Replay(c, sendCh[c]))

\* rawWrite(CONNACK), then tr.start
Acknowledge(c) ==
  /\ pc[c] = "bound"
  /\ line' = [line EXCEPT ![c] = Append(@, CONNACK)]
  /\ writing' = writing \cup {c}
  /\ GoTo(c, "serving")
  /\ UNCHANGED <<sessionVars, resumed, registered, death, sendCh, returned, server, toKill>>

\* rawWrite fails: handleConn deregisters the connection and returns
AcknowledgeFails(c) ==
  /\ pc[c] = "bound" /\ (ConnackMayFail \/ Dead(c))
  /\ registered' = registered \ {c}
  /\ GoTo(c, "closed")
  /\ UNCHANGED <<sessionVars, resumed, death, sendCh, line, writing, returned, server, toKill>>

\* <-tr.dead
Deregister(c) ==
  /\ pc[c] = "serving" /\ Dead(c)
  /\ registered' = registered \ {c}
  /\ GoTo(c, "unbinding")
  /\ UNCHANGED <<sessionVars, resumed, death, sendCh, line, writing, returned, server, toKill>>

-----------------------------------------------------------------------------
(* The end of a connection, of the session, of the server *)

\* Mutations of Unbind: any connection unbinds; no timer is started.
UnbindAnyConn(c) ==
  /\ mu = "free" /\ conn' = Nil /\ timer' = "running"
  /\ UNCHANGED <<life, retained, retainedBytes, overflowed, drops, mu, at>>

UnbindWithoutTimer(c) ==
  /\ mu = "free"
  /\ conn' = IF conn = c THEN Nil ELSE conn
  /\ UNCHANGED <<life, retained, retainedBytes, overflowed, timer, drops, mu, at>>

\* serverSession.unbind: only the connection that is bound unbinds
Unbind(c) ==
  /\ mu = "free"
  /\ IF conn = c
     THEN /\ conn' = Nil
          /\ IF Retain THEN timer' = "running" /\ UNCHANGED drops
                       ELSE drops' = drops + 1 /\ UNCHANGED timer
     ELSE UNCHANGED <<conn, timer, drops>>
  /\ UNCHANGED <<life, retained, retainedBytes, overflowed, mu, at>>

HandleConnUnbinds(c) ==
  /\ pc[c] = "unbinding"
  /\ Unbind(c)
  /\ GoTo(c, "closed")
  /\ UNCHANGED <<resumed, registered, death, sendCh, line, writing, returned, server, toKill>>

OnDead(c) ==
  /\ death[c] = "killed"
  /\ Unbind(c)
  /\ death' = [death EXCEPT ![c] = "notified"]
  /\ UNCHANGED <<pc, resumed, registered, sendCh, line, writing, returned, server, toKill>>

\* read or write error, idle or write timeout, protocol violation of the peer
ConnFails(c) ==
  /\ pc[c] = "serving" /\ ~Dead(c)
  /\ Kill({c})
  /\ UNCHANGED <<sessionVars, pc, resumed, registered, sendCh, line, writing, returned, server, toKill>>

TimerExpires ==
  /\ timer = "running"
  /\ timer' = "expired" /\ drops' = drops + 1
  /\ UNCHANGED <<life, conn, retained, retainedBytes, overflowed, mu, at, connVars,
                 returned, server, toKill>>

\* store.drop: the deletion, under store.mu
DropSession ==
  /\ drops > 0
  /\ drops' = drops - 1
  /\ life' = IF life = "stored" THEN "deleted" ELSE life
  /\ UNCHANGED <<conn, retained, retainedBytes, overflowed, timer, mu, at, connVars,
                 returned, server, toKill>>

\* serverSession.terminate, under ss.mu
Terminate ==
  /\ life = "deleted" /\ mu = "free"
  /\ life' = "terminated" /\ timer' = "nil"
  /\ UNCHANGED <<conn, retained, retainedBytes, overflowed, drops, mu, at, connVars,
                 returned, server, toKill>>

\* Server.Close: close(s.closed), ln.Close and the snapshot of s.conns ...
CloseServer ==
  /\ ServerMayClose /\ server = "open"
  /\ server' = "closing" /\ toKill' = registered
  /\ UNCHANGED <<sessionVars, connVars, returned>>

\* ... and its loop of kills
CloseKills(c) ==
  /\ c \in toKill
  /\ toKill' = toKill \ {c}
  /\ Kill({c})
  /\ UNCHANGED <<sessionVars, pc, resumed, registered, sendCh, line, writing, returned, server>>

CloseReturns ==
  /\ server = "closing" /\ toKill = {}
  /\ server' = "closed"
  /\ UNCHANGED <<sessionVars, connVars, returned, toKill>>

-----------------------------------------------------------------------------
(* Frames down: serverSession.sendDown and transport.writeLoop *)

NextFrame(s) == [sid |-> s, n |-> Len(returned[s]) + 1]

\* a handler of the session, or Publish, calls sendDown and gets ss.mu
Calls(s) == Issued /\ mu = "free" /\ Len(returned[s]) < MaxFrames[s]

Returns(s, result) == returned' = [returned EXCEPT ![s] = Append(@, result)]

SendToConn(s) ==
  /\ Calls(s) /\ conn # Nil /\ ~Dead(conn)
  /\ IF Len(sendCh[conn]) < SendCap
     THEN /\ sendCh' = [sendCh EXCEPT ![conn] = Append(@, NextFrame(s))]
          /\ Returns(s, "nil")
          /\ UNCHANGED <<mu, at>>
     ELSE /\ mu' = "sendDown" /\ at' = s
          /\ UNCHANGED <<sendCh, returned>>
  /\ UNCHANGED <<life, conn, retained, retainedBytes, overflowed, timer, drops,
                 pc, resumed, registered, death, line, writing, server, toKill>>

\* Mutation of SendRefused: without the check of dead, the select may find room in sendCh.
SendToDead(s) ==
  /\ Calls(s) /\ conn # Nil /\ Dead(conn)
  /\ \/ Returns(s, "error") /\ UNCHANGED sendCh
     \/ /\ Len(sendCh[conn]) < SendCap /\ Returns(s, "nil")
        /\ sendCh' = [sendCh EXCEPT ![conn] = Append(@, NextFrame(s))]
  /\ UNCHANGED <<sessionVars, pc, resumed, registered, death, line, writing, server, toKill>>

\* sendCtx checks dead first
SendRefused(s) ==
  /\ Calls(s) /\ conn # Nil /\ Dead(conn)
  /\ Returns(s, "error")
  /\ UNCHANGED <<sessionVars, connVars, server, toKill>>

\* sendDown returns from its blocked send, with the frame in the queue q or lost
HeldSendEnds(q, result) ==
  /\ mu = "sendDown"
  /\ sendCh' = [sendCh EXCEPT ![conn] = q]
  /\ Returns(at, result)
  /\ mu' = "free" /\ at' = Nil
  /\ UNCHANGED <<life, conn, retained, retainedBytes, overflowed, timer, drops,
                 pc, resumed, registered, death, line, writing, server, toKill>>

SendGetsRoom ==
  Len(sendCh[conn]) < SendCap /\ HeldSendEnds(Append(sendCh[conn], NextFrame(at)), "nil")

\* Mutation of SendUnblocks: a blocked send does not watch for the connection's end.
SendIgnoresDeath == mu = "sendDown" /\ SendGetsRoom

\* the select of sendCtx, with ss.mu held: room in sendCh or death, ...
SendUnblocks ==
  /\ mu = "sendDown"
  /\ SendGetsRoom \/ (Dead(conn) /\ HeldSendEnds(sendCh[conn], "error"))

\* ... or the end of the caller's ctx
SendCancelled == at \in CtxStreams /\ HeldSendEnds(sendCh[conn], "error")

\* no connection: the frame is retained, unless the queue has overflowed or now does
RetainIf(s, fits) ==
  /\ Calls(s) /\ conn = Nil
  /\ \/ overflowed /\ UNCHANGED <<retained, retainedBytes, overflowed>>
     \/ /\ ~overflowed /\ ~fits /\ overflowed' = TRUE
        /\ retained' = [t \in Streams |-> <<>>] /\ retainedBytes' = 0
     \/ /\ ~overflowed /\ fits /\ UNCHANGED overflowed
        /\ retained' = [retained EXCEPT ![s] = Append(@, NextFrame(s))]
        /\ retainedBytes' = retainedBytes + FrameBytes[s]
  /\ Returns(s, "nil")
  /\ UNCHANGED <<life, conn, timer, drops, mu, at, connVars, server, toKill>>

\* Mutation of SendRetained: the limit is compared with the count before the frame.
SendRetainedLate(s) == RetainIf(s, retainedBytes <= RetentionBytes)

SendRetained(s) == RetainIf(s, retainedBytes + FrameBytes[s] <= RetentionBytes)

SendDown(s) == SendToConn(s) \/ SendRefused(s) \/ SendRetained(s)

\* the write loop takes a frame; its select may do so although dead is closed
TakesFrame(c) ==
  /\ c \in writing /\ sendCh[c] # <<>>
  /\ sendCh' = [sendCh EXCEPT ![c] = Tail(@)]
  /\ UNCHANGED <<sessionVars, pc, resumed, registered, returned, server, toKill>>

Writes(c) ==
  /\ ~Dead(c) /\ TakesFrame(c)
  /\ line' = [line EXCEPT ![c] = Append(@, Head(sendCh[c]))]
  /\ UNCHANGED <<death, writing>>

\* the frame is gone: the socket fails, or kill has closed it
WriteFails(c) ==
  /\ TakesFrame(c) /\ Kill({c})
  /\ writing' = writing \ {c}
  /\ UNCHANGED line

WriteLoop(c) == Writes(c) \/ WriteFails(c)

-----------------------------------------------------------------------------

HandleConn(c) ==
  \/ RejectHandshake(c) \/ CreateSession(c) \/ ResumeSession(c) \/ Register(c)
  \/ Bind(c) \/ ReplayFrame(c) \/ Acknowledge(c) \/ AcknowledgeFails(c)
  \/ Deregister(c) \/ HandleConnUnbinds(c)

DropCall == DropSession \/ Terminate

CloseCall == (\E c \in Conns : CloseKills(c)) \/ CloseReturns

Next ==
  \/ \E c \in Conns : Accept(c) \/ HandleConn(c) \/ OnDead(c) \/ ConnFails(c) \/ WriteLoop(c)
  \/ TimerExpires \/ DropCall \/ CloseServer \/ CloseCall
  \/ SendUnblocks \/ SendCancelled \/ \E s \in Streams : SendDown(s)

Spec == Init /\ [][Next]_vars

\* Each goroutine goes on while it can, and a started write ends within its
\* deadline, by progress or by a kill.  Clients may stay away, connections may
\* live for ever and nothing has to be sent.  Weak fairness also stands for the
\* queue of ss.mu (sync.Mutex starves no waiter): the frames that could overtake
\* a waiter are bounded.
Fairness ==
  /\ \A c \in Conns : WF_vars(HandleConn(c)) /\ WF_vars(OnDead(c))
                        /\ WF_vars(~Dead(c) /\ WriteLoop(c))
  /\ WF_vars(TimerExpires) /\ WF_vars(DropCall)
  /\ WF_vars(SendUnblocks) /\ WF_vars(CloseCall)

FairSpec == Spec /\ Fairness

-----------------------------------------------------------------------------
(* Properties.  The frames connection c has taken over, in order; the numbers of the   *)
(* frames of stream s in a sequence; the bytes that the queue accounts for, one by one. *)

Taken(c)      == line[c] \o sendCh[c]
Numbers(s, q) == {q[i].n : i \in {j \in DOMAIN q : q[j].sid = s}}
QueueBytes    == UNION {({s} \X DOMAIN retained[s]) \X (1..FrameBytes[s]) : s \in Streams}
ToReplay      == Cardinality(UNION {{s} \X DOMAIN retained[s] : s \in Streams})

\* The frames of stream s that sendDown accepted; whether frame n of it is retained, written,
\* or in a sendCh that a write loop empties or will; and the accepted ones that are not.
Accepted(s) == {n \in DOMAIN returned[s] : returned[s][n] = "nil"}
Gone(c)     == Dead(c) \/ pc[c] = "closed"
Safe(s, n)  == \/ n \in Numbers(s, retained[s])
               \/ \E c \in Conns : \/ n \in Numbers(s, line[c])
                                   \/ ~Gone(c) /\ n \in Numbers(s, sendCh[c])
Lost(s)     == {n \in Accepted(s) : ~Safe(s, n)}

TypeOK ==
  /\ life \in {"unborn", "stored", "deleted", "terminated"}
  /\ conn \in Conns \cup {Nil}
  /\ retained \in [Streams -> Seq(Frame)] /\ retainedBytes \in 0..RetentionBytes
  /\ overflowed \in BOOLEAN
  /\ timer \in {"nil", "running", "expired"} /\ drops \in Nat
  /\ mu \in {"free", "sendDown", "bind"} /\ at \in Streams \cup {Nil}
  /\ returned \in [Streams -> Seq({"nil", "error"})]
  /\ pc \in [Conns -> Phases] /\ resumed \in [Conns -> BOOLEAN]
  /\ registered \subseteq Conns
  /\ death \in [Conns -> {"alive", "killed", "notified"}]
  /\ sendCh \in [Conns -> Seq(Frame)] /\ line \in [Conns -> Seq(Frame \cup {CONNACK})]
  /\ writing \subseteq Conns
  /\ server \in {"open", "closing", "closed"} /\ toKill \subseteq Conns

\* A session that has a connection does not begin to expire: whoever binds stops the
\* timer, and a late unbind of an older connection neither arms it nor drops the session.
\* (A drop that has begun before the client came back is not called off.)
DropsBeginUnbound == [][drops' > drops => conn' = Nil]_vars

\* The takeover of bind leaves no second writer: of the connections that have
\* bound to the session, all but the bound one are dead (protocol.md 8.2).
SupersededAreDead ==
  \A c \in Conns :
    pc[c] \in {"replaying", "bound", "serving", "unbinding"} /\ c # conn => Dead(c)

\* A client that has its CONNACK can be found until its connection is dead: by Sessions
\* and Close through s.conns, by sendDown through ss.conn, and by the server's own calls,
\* which look for the session in the store first (sessionEp), if the connection is the
\* one that created it.  One that resumed it may have lost the store entry to a drop that
\* was under way, so the calls of the comment in handleConn do not always find it.
AddressableOnceAcknowledged ==
  \A c \in Conns : line[c] # <<>> /\ ~Dead(c) =>
    c \in registered /\ conn = c /\ (~resumed[c] => life = "stored")

\* What is retained is neither overtaken nor copied: while anything is in the queue
\* the session is unbound, or bind holds ss.mu and is emptying it.
RetainedOnlyWhileUnbound ==
  (\E s \in Streams : retained[s] # <<>>) => conn = Nil \/ mu = "bind"

\* The byte count that decides about overflow is the weight of the queue (outside
\* of bind), and an overflowed session keeps nothing.
RetainedAccounting ==
  /\ mu # "bind" => retainedBytes = Cardinality(QueueBytes)
  /\ overflowed => retainedBytes = 0

\* Replay before live traffic, and no frame twice: on every connection the frames
\* of a stream go up; of two connections one has only older frames of a stream
\* than the other, and what is retained is newer than both (protocol.md 8.2, 9).
OrderAcrossConnections ==
  LET Below(A, B) == \A a \in A, b \in B : a < b
  IN \A s \in Streams :
       /\ \A c \in Conns : \A i, j \in DOMAIN Taken(c) :
            i < j /\ Taken(c)[i].sid = s /\ Taken(c)[j].sid = s
              => Taken(c)[i].n < Taken(c)[j].n
       /\ \A c, d \in Conns : c # d =>
            \/ Below(Numbers(s, Taken(c)), Numbers(s, Taken(d)))
            \/ Below(Numbers(s, Taken(d)), Numbers(s, Taken(c)))
       /\ \A c \in Conns : Below(Numbers(s, Taken(c)), Numbers(s, retained[s]))

\* A frame that sendDown accepted is lost in one of three ways only, unless the queue
\* overflows: it was in sendCh, or in the hands of the write loop, when its connection
\* came to its end (protocol.md 8.3); its sendDown was blocked, or its connection without
\* a CONNACK and so without a write loop, when it was accepted; or bind was replaying it
\* to a connection that Close killed.  No send to a dead connection reports success.
LostOnlyWithConnection ==
  [][~overflowed' => \A s \in Streams : \A n \in Lost(s)' \ Lost(s) :
       \/ \E c \in Conns : ~Gone(c) /\ Gone(c)' /\ n \in Numbers(s, sendCh[c])
       \/ n \notin Accepted(s) /\ Gone(conn) /\ (mu = "sendDown" \/ ~Dead(conn))
       \/ mu = "bind" /\ Dead(conn)]_vars

\* A connection leaves the session only when it is dead: neither the unbind of an
\* older connection nor a takeover that forgets to kill can detach a live one.
DetachedOnlyDead ==
  [][conn # Nil /\ conn' # conn => death'[conn] # "alive"]_vars

\* bind comes to the end of the replay, and gives ss.mu back, if sendCh has room for what
\* is left, and also if not once the connection is killed.
ReplayEnds ==
  \A c \in Conns :
    pc[c] = "replaying" /\ (Dead(c) \/ ToReplay <= SendCap - Len(sendCh[c]))
      ~> pc[c] # "replaying"

\* No sendDown keeps ss.mu for ever: the write loop makes room or the connection dies.
MutexIsReleased == mu = "sendDown" ~> mu # "sendDown"

\* A session without a live connection is resumed or terminated: none stays in the
\* store, with its handlers and its queue, once its clients are gone.
UnboundIsResumedOrTerminated ==
  (life = "stored" /\ (conn = Nil \/ Dead(conn)))
    ~> (life = "terminated" \/ (conn # Nil /\ ~Dead(conn)) \/ server # "open")

(* What the documents or comments say and the code does not do. *)

\* Every connection that got a session is acknowledged or given up: bind does not
\* keep it, and ss.mu, for ever.
BindCompletes ==
  \A c \in Conns : pc[c] \in {"registered", "replaying"} ~> pc[c] \in {"serving", "closed"}

\* protocol.md 8.1: once its connection is gone a session is kept for the retention time;
\* so it does not stay bound to a connection that handleConn has closed.
ClosedIsUnbound == \A c \in Conns : (pc[c] = "closed" /\ conn = c) ~> conn # c

=============================================================================
