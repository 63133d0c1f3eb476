---------------------------- MODULE SessionProof ----------------------------
(***************************************************************************)
(* Proofs about Session, for any set of connections and streams and any    *)
(* capacities: type correctness, the control invariants of takeover, store *)
(* and retention queue, and the action properties DropsBeginUnbound and    *)
(* DetachedOnlyDead.                                                       *)
(***************************************************************************)
EXTENDS Session, TLAPS

\* bind holds ss.mu, for the bound connection, as long as a frame is left to replay
ReplayHoldsMutex ==
  \A c \in Conns : pc[c] = "replaying" =>
    mu = "bind" /\ conn = c /\ at \in Streams /\ retained[at] # <<>>

\* sendDown blocks on a bound connection only
HeldSendHasConn == mu = "sendDown" => conn \in Conns /\ at \in Streams

\* handleConn goes on to unbind only after tr.dead was closed
UnbindingIsDead == \A c \in Conns : pc[c] = "unbinding" => Dead(c)

\* nothing is written before CONNACK, and handleConn leaves after it by tr.dead only
WrittenOnlyOnceServing ==
  \A c \in Conns : line[c] # <<>> =>
    pc[c] \in {"serving", "unbinding", "closed"} /\ (pc[c] = "closed" => Dead(c))

\* a write loop runs only where CONNACK was written
WritingWasAcknowledged == \A c \in writing : line[c] # <<>>

\* s.conns holds the connection from before bind until its death
InConnsUntilDeath ==
  \A c \in Conns : pc[c] \in {"registered", "replaying", "bound", "serving"} => c \in registered

\* what an overflow leaves of the queue
OverflowedIsEmpty == overflowed => retainedBytes = 0

\* bind stops the timer that unbind armed, and only the bound connection's unbind arms it
TimerOnlyWhileUnbound == timer # "nil" => conn = Nil

\* A connection that has not got the session, or has left it; one that is on its way to
\* its CONNACK; one that handleConn works for.
Outside == {"idle", "handshake", "elsewhere", "closed"}
Opening == {"decided", "registered", "replaying", "bound"}
Working == Opening \cup {"serving"}

\* Nobody has anything of a session that is not there yet.  The connection that creates
\* it is alone with it until CONNACK, for nobody else knows the id; and while it lives
\* no drop begins.
UnbornIsUntouched ==
  life = "unborn" => /\ drops = 0 /\ timer = "nil" /\ conn = Nil
                     /\ \A c \in Conns : line[c] = <<>> /\ ~resumed[c] /\ pc[c] \in Outside

CreatorIsAlone ==
  \A c \in Conns : ~resumed[c] /\ pc[c] \in Opening =>
    conn \in {Nil, c} /\ \A d \in Conns \ {c} : line[d] = <<>> /\ pc[d] \in Outside

CreatorKeepsSession ==
  \A c \in Conns : ~resumed[c] /\ pc[c] \in Working /\ ~Dead(c) =>
    life = "stored" /\ drops = 0 /\ timer = "nil"

CreatorInv == UnbornIsUntouched /\ CreatorIsAlone /\ CreatorKeepsSession

IInv ==
  /\ TypeOK
  /\ ReplayHoldsMutex
  /\ HeldSendHasConn
  /\ UnbindingIsDead
  /\ WrittenOnlyOnceServing
  /\ WritingWasAcknowledged
  /\ InConnsUntilDeath
  /\ TimerOnlyWhileUnbound
  /\ SupersededAreDead
  /\ RetainedOnlyWhileUnbound
  /\ OverflowedIsEmpty

-----------------------------------------------------------------------------
(* The steps that touch sequences or several parts of the invariant get a lemma *)

\* The initial state satisfies every part of the invariant.
LEMMA InitInv == Init => IInv
<1> SUFFICES ASSUME Init PROVE IInv
    OBVIOUS
<1>1. TypeOK
  <2>1. \A S : <<>> \in Seq(S)
    OBVIOUS
  <2>2. 0 \in 0..RetentionBytes
    BY SessionAssumption
  <2>. QED
    BY <2>1, <2>2 DEF Init, TypeOK, Phases
<1>. QED
    BY <1>1, SessionAssumption DEF Init, IInv, ReplayHoldsMutex, HeldSendHasConn, UnbindingIsDead,
        WrittenOnlyOnceServing, WritingWasAcknowledged, InConnsUntilDeath, TimerOnlyWhileUnbound,
        SupersededAreDead, RetainedOnlyWhileUnbound, OverflowedIsEmpty, Dead

\* A sequence that something was appended to is not empty.
LEMMA AppendNonEmpty == ASSUME NEW S, NEW q \in Seq(S), NEW x \in S PROVE Append(q, x) # <<>>
<1>1. Len(Append(q, x)) = Len(q) + 1 /\ Len(q) \in Nat
    OBVIOUS
<1>. QED
    BY <1>1

\* Acknowledge preserves the invariant: the bound connection is registered and alive,
\* or dead already.
LEMMA AcknowledgeInv == ASSUME IInv, NEW c \in Conns, Acknowledge(c) PROVE IInv'
<1> USE DEF Acknowledge, GoTo, IInv
<1>1. TypeOK'
  <2>1. Append(line[c], CONNACK) \in Seq(Frame \cup {CONNACK})
    BY DEF TypeOK
  <2>. QED
    BY <2>1 DEF TypeOK, Phases, sessionVars
<1>2. \A d \in Conns : line'[d] # <<>> => d = c \/ line[d] # <<>>
    BY DEF TypeOK
<1>3. WritingWasAcknowledged'
  <2>1. line[c] \in Seq(Frame \cup {CONNACK})
    BY DEF TypeOK
  <2>2. Append(line[c], CONNACK) # <<>>
    BY <2>1, AppendNonEmpty
  <2>3. line'[c] # <<>>
    BY <2>2 DEF TypeOK
  <2>. QED
    BY <2>3 DEF WritingWasAcknowledged, TypeOK
<1>. QED
    BY <1>1, <1>2, <1>3, SessionAssumption DEF TypeOK, sessionVars, ReplayHoldsMutex,
        HeldSendHasConn, UnbindingIsDead, WrittenOnlyOnceServing, InConnsUntilDeath,
        TimerOnlyWhileUnbound, SupersededAreDead, RetainedOnlyWhileUnbound, OverflowedIsEmpty, Dead

\* transport.kill only ever adds to the dead.
LEMMA KillMonotone ==
  ASSUME TypeOK, NEW S, Kill(S)
  PROVE  /\ death' \in [Conns -> {"alive", "killed", "notified"}]
         /\ \A c \in Conns : Dead(c) => Dead(c)'
         /\ \A c \in Conns : c \in S => Dead(c)'
BY DEF TypeOK, Kill, Dead

\* The replay loop keeps the types, and leaves c either bound with ss.mu free and nothing
\* retained or replaying with ss.mu held and a frame of stream at to go.
LEMMA ReplayRestEffect ==
  ASSUME TypeOK, NEW c \in Conns, NEW r \in [Streams -> Seq(Frame)], ReplayRest(c, r)
  PROVE  /\ pc' \in [Conns -> Phases] /\ mu' \in {"free", "bind"}
         /\ at' \in Streams \cup {Nil} /\ retainedBytes' \in {0, retainedBytes}
         /\ \A d \in Conns \ {c} : pc'[d] = pc[d]
         /\ \/ /\ pc'[c] = "bound" /\ mu' = "free"
               /\ \A s \in Streams : r[s] = <<>>
            \/ /\ pc'[c] = "replaying" /\ mu' = "bind" /\ at' \in Streams
               /\ r[at'] # <<>>
<1>1. CASE \A s \in Streams : r[s] = <<>>
    BY <1>1 DEF ReplayRest, TypeOK, GoTo, Phases
<1>2. CASE ~(\A s \in Streams : r[s] = <<>>)
    BY <1>2 DEF ReplayRest, TypeOK, GoTo, Phases
<1>. QED
    BY <1>1, <1>2

\* bind preserves the invariant: the timer is stopped, the connection it replaces killed.
LEMMA BindInv == ASSUME IInv, NEW c \in Conns, Bind(c) PROVE IInv'
<1> USE DEF IInv
<1>1. Kill({conn} \ {c}) /\ ReplayRest(c, retained) /\ conn' = c /\ timer' = "nil"
    BY DEF Bind, Rebind
<1>2. pc[c] = "registered" /\ mu = "free"
    BY DEF Bind, Rebind
<1>3. UNCHANGED <<life, retained, overflowed, drops, resumed, registered, sendCh, line, writing,
                  returned, server, toKill>>
    BY DEF Bind, Rebind
<1>4. /\ death' \in [Conns -> {"alive", "killed", "notified"}]
      /\ \A d \in Conns : Dead(d) => Dead(d)'
      /\ \A d \in Conns : d \in {conn} \ {c} => Dead(d)'
    BY <1>1, KillMonotone
<1>5. /\ pc' \in [Conns -> Phases] /\ mu' \in {"free", "bind"}
      /\ at' \in Streams \cup {Nil} /\ retainedBytes' \in {0, retainedBytes}
      /\ \A d \in Conns \ {c} : pc'[d] = pc[d]
      /\ \/ /\ pc'[c] = "bound" /\ mu' = "free"
            /\ \A s \in Streams : retained[s] = <<>>
         \/ /\ pc'[c] = "replaying" /\ mu' = "bind" /\ at' \in Streams
            /\ retained[at'] # <<>>
    BY <1>1, ReplayRestEffect DEF TypeOK
<1>6. TypeOK'
  <2>1. retainedBytes' \in 0..RetentionBytes
    BY <1>5, SessionAssumption DEF TypeOK
  <2>. QED
    BY <1>1, <1>3, <1>4, <1>5, <2>1 DEF TypeOK
<1>7. ReplayHoldsMutex' /\ HeldSendHasConn'
    BY <1>1, <1>2, <1>3, <1>5 DEF ReplayHoldsMutex, HeldSendHasConn
<1>8. UnbindingIsDead' /\ WrittenOnlyOnceServing' /\ WritingWasAcknowledged'
      /\ InConnsUntilDeath'
    BY <1>2, <1>3, <1>4, <1>5 DEF UnbindingIsDead, WrittenOnlyOnceServing, WritingWasAcknowledged, InConnsUntilDeath
<1>9. SupersededAreDead'
    BY <1>1, <1>4, <1>5 DEF SupersededAreDead
<1>10. RetainedOnlyWhileUnbound' /\ TimerOnlyWhileUnbound' /\ OverflowedIsEmpty'
    BY <1>1, <1>3, <1>5
       DEF RetainedOnlyWhileUnbound, TimerOnlyWhileUnbound, OverflowedIsEmpty, TypeOK
<1>. QED
    BY <1>6, <1>7, <1>8, <1>9, <1>10

\* Replaying a frame preserves the invariant, whether the frame is queued or lost.
LEMMA ReplayInv ==
  ASSUME IInv, NEW c \in Conns, NEW q \in Seq(Frame), Replay(c, q) PROVE IInv'
<1> DEFINE r == [retained EXCEPT ![at] = Tail(@)]
<1> USE DEF IInv
<1>1. pc[c] = "replaying" /\ retained' = r /\ ReplayRest(c, r)
    BY DEF Replay
<1>2. /\ sendCh' = [sendCh EXCEPT ![c] = q]
      /\ UNCHANGED <<life, conn, overflowed, timer, drops, resumed, registered, death, line, writing,
                     returned, server, toKill>>
    BY DEF Replay
<1>3. mu = "bind" /\ conn = c /\ at \in Streams /\ retained[at] # <<>>
    BY <1>1 DEF ReplayHoldsMutex
<1>4. r \in [Streams -> Seq(Frame)]
    BY <1>3 DEF TypeOK
<1>5. /\ pc' \in [Conns -> Phases] /\ mu' \in {"free", "bind"}
      /\ at' \in Streams \cup {Nil} /\ retainedBytes' \in {0, retainedBytes}
      /\ \A d \in Conns \ {c} : pc'[d] = pc[d]
      /\ \/ /\ pc'[c] = "bound" /\ mu' = "free"
            /\ \A s \in Streams : r[s] = <<>>
         \/ /\ pc'[c] = "replaying" /\ mu' = "bind" /\ at' \in Streams
            /\ r[at'] # <<>>
  <2> HIDE DEF r
  <2>. QED
    BY <1>1, <1>4, ReplayRestEffect
<1> HIDE DEF r
<1>6. TypeOK'
  <2>1. sendCh' \in [Conns -> Seq(Frame)]
    BY <1>2 DEF TypeOK
  <2>2. retained' \in [Streams -> Seq(Frame)]
    BY <1>1, <1>4
  <2>3. /\ pc' \in [Conns -> Phases] /\ mu' \in {"free", "bind"}
        /\ at' \in Streams \cup {Nil} /\ retainedBytes' \in 0..RetentionBytes
    BY <1>5, SessionAssumption DEF TypeOK
  <2>. QED
    BY <2>1, <2>2, <2>3, <1>2 DEF TypeOK
<1>7. ReplayHoldsMutex' /\ HeldSendHasConn'
    BY <1>1, <1>2, <1>3, <1>5 DEF ReplayHoldsMutex, HeldSendHasConn
<1>8. UnbindingIsDead' /\ WrittenOnlyOnceServing' /\ WritingWasAcknowledged'
      /\ InConnsUntilDeath'
    BY <1>1, <1>2, <1>5 DEF UnbindingIsDead, WrittenOnlyOnceServing, WritingWasAcknowledged, InConnsUntilDeath, Dead
<1>9. SupersededAreDead'
    BY <1>2, <1>3, <1>5 DEF SupersededAreDead, Dead
<1>10. RetainedOnlyWhileUnbound' /\ TimerOnlyWhileUnbound' /\ OverflowedIsEmpty'
    BY <1>1, <1>2, <1>3, <1>5, SessionAssumption
       DEF RetainedOnlyWhileUnbound, TimerOnlyWhileUnbound, OverflowedIsEmpty, TypeOK
<1>. QED
    BY <1>6, <1>7, <1>8, <1>9, <1>10

\* unbind preserves the invariant when the connection is dead: only then is the timer
\* armed, and only for a session that ends up unbound.
LEMMA UnbindInv ==
  ASSUME IInv, NEW c \in Conns, Unbind(c), Dead(c),
         UNCHANGED <<resumed, registered, sendCh, line, writing, returned, server, toKill>>,
         pc' = pc \/ (pc[c] = "unbinding" /\ pc' = [pc EXCEPT ![c] = "closed"]),
         death' = death \/ death' = [death EXCEPT ![c] = "notified"]
  PROVE  IInv'
<1> USE DEF IInv, Unbind
<1>1. TypeOK'
  <2>1. pc' \in [Conns -> Phases]
    BY DEF TypeOK, Phases
  <2>2. death' \in [Conns -> {"alive", "killed", "notified"}]
    BY DEF TypeOK
  <2>3. conn' \in Conns \cup {Nil} /\ timer' \in {"nil", "running", "expired"} /\ drops' \in Nat
    BY DEF TypeOK
  <2>. QED
    BY <2>1, <2>2, <2>3 DEF TypeOK
<1>2. /\ conn' \in {conn, Nil} /\ (conn' # conn => conn = c) /\ mu = "free" /\ mu' = mu
      /\ timer' # "nil" => timer # "nil" \/ conn' = Nil
      /\ UNCHANGED <<retained, retainedBytes, overflowed, at>>
    OBVIOUS
<1>3. \A d \in Conns : Dead(d) <=> Dead(d)'
    BY DEF Dead, TypeOK
<1>4. \A d \in Conns : pc'[d] = pc[d] \/ (pc[d] = "unbinding" /\ pc'[d] = "closed")
    BY DEF TypeOK
<1>5. ReplayHoldsMutex' /\ HeldSendHasConn' /\ UnbindingIsDead'
    BY <1>2, <1>3, <1>4 DEF ReplayHoldsMutex, HeldSendHasConn, UnbindingIsDead
<1>6. WrittenOnlyOnceServing' /\ WritingWasAcknowledged' /\ InConnsUntilDeath'
    BY <1>3, <1>4 DEF WrittenOnlyOnceServing, WritingWasAcknowledged, InConnsUntilDeath, UnbindingIsDead
<1>7. TimerOnlyWhileUnbound'
    BY <1>2 DEF TimerOnlyWhileUnbound
<1>8. SupersededAreDead'
    BY <1>2, <1>3, <1>4 DEF SupersededAreDead
<1>9. RetainedOnlyWhileUnbound' /\ OverflowedIsEmpty'
    BY <1>2 DEF RetainedOnlyWhileUnbound, OverflowedIsEmpty
<1>. QED
    BY <1>1, <1>5, <1>6, <1>7, <1>8, <1>9

\* A step that only adds to the dead preserves the invariant (ConnFails, CloseKills).
LEMMA KillInv ==
  ASSUME IInv, NEW S, Kill(S), toKill' \subseteq toKill,
         UNCHANGED <<sessionVars, pc, resumed, registered, sendCh, line, writing, returned, server>>
  PROVE  IInv'
<1> USE DEF IInv, sessionVars
<1>1. /\ death' \in [Conns -> {"alive", "killed", "notified"}]
      /\ \A c \in Conns : Dead(c) => Dead(c)'
    BY KillMonotone
<1>2. TypeOK'
    BY <1>1 DEF TypeOK
<1>. QED
    BY <1>1, <1>2 DEF ReplayHoldsMutex, HeldSendHasConn, UnbindingIsDead, WrittenOnlyOnceServing, WritingWasAcknowledged,
       InConnsUntilDeath, TimerOnlyWhileUnbound, SupersededAreDead, RetainedOnlyWhileUnbound,
       OverflowedIsEmpty

\* The frame a caller sends next is a frame, and its result can be recorded.
LEMMA ReturnsType ==
  ASSUME TypeOK, NEW s \in Streams, NEW result \in {"nil", "error"}, Returns(s, result)
  PROVE  NextFrame(s) \in Frame /\ returned' \in [Streams -> Seq({"nil", "error"})]
<1>1. returned[s] \in Seq({"nil", "error"})
    BY DEF TypeOK
<1>2. Len(returned[s]) + 1 \in Nat \ {0}
    BY <1>1
<1>. QED
    BY <1>1, <1>2 DEF TypeOK, Returns, NextFrame, Frame

\* sendDown on a bound connection preserves the invariant.
LEMMA SendToConnInv == ASSUME IInv, NEW s \in Streams, SendToConn(s) PROVE IInv'
<1> USE DEF IInv
<1>1. /\ mu = "free" /\ conn \in Conns
      /\ UNCHANGED <<life, conn, retained, retainedBytes, overflowed, timer, drops,
                     pc, resumed, registered, death, line, writing, server, toKill>>
    BY DEF SendToConn, Calls, TypeOK
<1>2. \/ Returns(s, "nil") /\ UNCHANGED <<mu, at>>
         /\ sendCh' = [sendCh EXCEPT ![conn] = Append(@, NextFrame(s))]
      \/ mu' = "sendDown" /\ at' = s /\ UNCHANGED <<sendCh, returned>>
    BY DEF SendToConn
<1>3. sendCh' \in [Conns -> Seq(Frame)] /\ returned' \in [Streams -> Seq({"nil", "error"})]
  <2>1. CASE Returns(s, "nil") /\ sendCh' = [sendCh EXCEPT ![conn] = Append(@, NextFrame(s))]
    <3>1. NextFrame(s) \in Frame /\ returned' \in [Streams -> Seq({"nil", "error"})]
      BY <2>1, ReturnsType
    <3>2. Append(sendCh[conn], NextFrame(s)) \in Seq(Frame)
      BY <1>1, <3>1 DEF TypeOK
    <3>. QED
      BY <2>1, <3>1, <3>2 DEF TypeOK
  <2>2. CASE UNCHANGED <<sendCh, returned>>
    BY <2>2 DEF TypeOK
  <2>. QED
    BY <1>2, <2>1, <2>2
<1>4. TypeOK'
    BY <1>1, <1>2, <1>3 DEF TypeOK
<1>. QED
    BY <1>1, <1>2, <1>4 DEF ReplayHoldsMutex, HeldSendHasConn, UnbindingIsDead, TypeOK,
       WrittenOnlyOnceServing, WritingWasAcknowledged, InConnsUntilDeath, TimerOnlyWhileUnbound, SupersededAreDead,
       RetainedOnlyWhileUnbound, OverflowedIsEmpty, Dead

\* The end of a blocked send preserves the invariant, whatever came of the frame.
LEMMA HeldSendInv ==
  ASSUME IInv, NEW q \in Seq(Frame), NEW result \in {"nil", "error"}, HeldSendEnds(q, result)
  PROVE  IInv'
<1> USE DEF IInv
<1>1. /\ mu = "sendDown" /\ conn \in Conns /\ at \in Streams /\ mu' = "free" /\ at' = Nil
      /\ sendCh' = [sendCh EXCEPT ![conn] = q] /\ Returns(at, result)
      /\ UNCHANGED <<life, conn, retained, retainedBytes, overflowed, timer, drops,
                     pc, resumed, registered, death, line, writing, server, toKill>>
    BY DEF HeldSendEnds, HeldSendHasConn
<1>2. sendCh' \in [Conns -> Seq(Frame)] /\ returned' \in [Streams -> Seq({"nil", "error"})]
    BY <1>1, ReturnsType DEF TypeOK
<1>3. TypeOK'
    BY <1>1, <1>2 DEF TypeOK
<1>. QED
    BY <1>1, <1>3 DEF ReplayHoldsMutex, HeldSendHasConn, UnbindingIsDead, WrittenOnlyOnceServing, WritingWasAcknowledged,
       InConnsUntilDeath, TimerOnlyWhileUnbound, SupersededAreDead, RetainedOnlyWhileUnbound,
       OverflowedIsEmpty, Dead

\* A blocked sendDown that finds room, or the end of its connection, preserves the invariant.
LEMMA SendUnblocksInv == ASSUME IInv, SendUnblocks PROVE IInv'
<1>1. TypeOK /\ conn \in Conns /\ at \in Streams
    BY DEF IInv, HeldSendHasConn, SendUnblocks
<1>2. sendCh[conn] \in Seq(Frame) /\ NextFrame(at) \in Frame
  <2>1. Len(returned[at]) + 1 \in Nat \ {0}
    BY <1>1 DEF TypeOK
  <2>. QED
    BY <1>1, <2>1 DEF TypeOK, NextFrame, Frame
<1>3. Append(sendCh[conn], NextFrame(at)) \in Seq(Frame)
    BY <1>2
<1>4. CASE HeldSendEnds(Append(sendCh[conn], NextFrame(at)), "nil")
    BY <1>3, <1>4, HeldSendInv
<1>5. CASE HeldSendEnds(sendCh[conn], "error")
    BY <1>2, <1>5, HeldSendInv
<1>. QED
    BY <1>4, <1>5 DEF SendUnblocks, SendGetsRoom

\* A sendDown given up by its caller preserves the invariant.
LEMMA SendCancelledInv == ASSUME IInv, SendCancelled PROVE IInv'
<1>1. HeldSendEnds(sendCh[conn], "error")
    BY DEF SendCancelled
<1>2. sendCh[conn] \in Seq(Frame)
    BY <1>1 DEF HeldSendEnds, IInv, HeldSendHasConn, TypeOK
<1>. QED
    BY <1>1, <1>2, HeldSendInv

\* Retaining a frame preserves the invariant: it happens to an unbound session only and
\* never takes the byte count over the limit.
LEMMA SendRetainedInv == ASSUME IInv, NEW s \in Streams, SendRetained(s) PROVE IInv'
<1> USE DEF IInv
<1> DEFINE bytes == retainedBytes + FrameBytes[s]
<1>1. /\ mu = "free" /\ conn = Nil /\ Returns(s, "nil")
      /\ UNCHANGED <<life, conn, timer, drops, mu, at, connVars, server, toKill>>
    BY DEF SendRetained, RetainIf, Calls
<1>2. bytes \in Nat /\ RetentionBytes \in Nat
    BY SessionAssumption DEF TypeOK
<1>3. \/ UNCHANGED <<retained, retainedBytes, overflowed>>
      \/ overflowed' = TRUE /\ retained' = [t \in Streams |-> <<>>] /\ retainedBytes' = 0
      \/ /\ bytes <= RetentionBytes /\ ~overflowed /\ UNCHANGED overflowed
         /\ retained' = [retained EXCEPT ![s] = Append(@, NextFrame(s))]
         /\ retainedBytes' = bytes
    BY DEF SendRetained, RetainIf
<1>4. /\ returned' \in [Streams -> Seq({"nil", "error"})]
      /\ retained' \in [Streams -> Seq(Frame)]
  <2>1. NextFrame(s) \in Frame /\ returned' \in [Streams -> Seq({"nil", "error"})]
    BY <1>1, ReturnsType
  <2>2. Append(retained[s], NextFrame(s)) \in Seq(Frame) /\ <<>> \in Seq(Frame)
    BY <2>1 DEF TypeOK
  <2>. QED
    BY <1>3, <2>1, <2>2 DEF TypeOK
<1>5. OverflowedIsEmpty' /\ retainedBytes' \in 0..RetentionBytes /\ overflowed' \in BOOLEAN
  <2>1. CASE UNCHANGED <<retained, retainedBytes, overflowed>>
    BY <2>1 DEF OverflowedIsEmpty, TypeOK
  <2>2. CASE overflowed' = TRUE /\ retainedBytes' = 0
    BY <1>2, <2>2 DEF OverflowedIsEmpty
  <2>3. CASE bytes <= RetentionBytes /\ ~overflowed /\ UNCHANGED overflowed /\ retainedBytes' = bytes
    <3>1. overflowed' \in BOOLEAN /\ ~overflowed'
      BY <2>3 DEF TypeOK
    <3>. QED
      BY <1>2, <2>3, <3>1 DEF OverflowedIsEmpty
  <2>. QED
    BY <1>3, <2>1, <2>2, <2>3
<1> HIDE DEF bytes
<1>6. TypeOK'
    BY <1>1, <1>4, <1>5 DEF TypeOK, connVars
<1>. QED
    BY <1>1, <1>5, <1>6, SessionAssumption DEF ReplayHoldsMutex, HeldSendHasConn, UnbindingIsDead,
       WrittenOnlyOnceServing, WritingWasAcknowledged, InConnsUntilDeath, TimerOnlyWhileUnbound, SupersededAreDead,
       RetainedOnlyWhileUnbound, Dead, connVars, TypeOK

\* The frame that the write loop takes leaves sequences of frames behind.
LEMMA TakesFrameType ==
  ASSUME TypeOK, NEW c \in Conns, TakesFrame(c)
  PROVE  /\ Head(sendCh[c]) \in Frame /\ sendCh' \in [Conns -> Seq(Frame)]
         /\ UNCHANGED <<sessionVars, pc, resumed, registered, returned, server, toKill>>
<1>1. Head(sendCh[c]) \in Frame /\ Tail(sendCh[c]) \in Seq(Frame)
    BY DEF TakesFrame, TypeOK
<1>. QED
    BY <1>1 DEF TakesFrame, TypeOK

\* A write that succeeds preserves the invariant: something was written before.
LEMMA WritesInv == ASSUME IInv, NEW c \in Conns, Writes(c) PROVE IInv'
<1> USE DEF IInv
<1>1. /\ ~Dead(c) /\ c \in writing /\ Head(sendCh[c]) \in Frame
      /\ sendCh' \in [Conns -> Seq(Frame)]
      /\ line' = [line EXCEPT ![c] = Append(@, Head(sendCh[c]))]
      /\ UNCHANGED <<sessionVars, pc, resumed, registered, death, writing, returned, server, toKill>>
    BY TakesFrameType DEF Writes, TakesFrame
<1>2. line' \in [Conns -> Seq(Frame \cup {CONNACK})]
  <2>1. Append(line[c], Head(sendCh[c])) \in Seq(Frame \cup {CONNACK})
    BY <1>1 DEF TypeOK
  <2>. QED
    BY <1>1, <2>1 DEF TypeOK
<1>3. \A d \in Conns : line'[d] # <<>> => line[d] # <<>>
    BY <1>1 DEF TypeOK, WritingWasAcknowledged
<1>4. TypeOK'
    BY <1>1, <1>2 DEF TypeOK, sessionVars
<1>5. \A d \in Conns : line'[d] = <<>> => line[d] = <<>>
  <2>1. Append(line[c], Head(sendCh[c])) # <<>>
    BY <1>1, AppendNonEmpty DEF TypeOK
  <2>. QED
    BY <1>1, <2>1 DEF TypeOK
<1>. QED
    BY <1>1, <1>3, <1>4, <1>5 DEF ReplayHoldsMutex, HeldSendHasConn, UnbindingIsDead,
       WrittenOnlyOnceServing, WritingWasAcknowledged, InConnsUntilDeath, TimerOnlyWhileUnbound,
       SupersededAreDead, RetainedOnlyWhileUnbound, OverflowedIsEmpty, Dead, sessionVars

\* A write that fails preserves the invariant: it only adds to the dead.
LEMMA WriteFailsInv == ASSUME IInv, NEW c \in Conns, WriteFails(c) PROVE IInv'
<1> USE DEF IInv
<1>1. /\ sendCh' \in [Conns -> Seq(Frame)] /\ Kill({c}) /\ writing' = writing \ {c}
      /\ UNCHANGED <<sessionVars, pc, resumed, registered, line, returned, server, toKill>>
    BY TakesFrameType DEF WriteFails
<1>2. /\ death' \in [Conns -> {"alive", "killed", "notified"}]
      /\ \A d \in Conns : Dead(d) => Dead(d)'
    BY <1>1, KillMonotone
<1>3. TypeOK'
    BY <1>1, <1>2 DEF TypeOK, sessionVars
<1>. QED
    BY <1>1, <1>2, <1>3 DEF ReplayHoldsMutex, HeldSendHasConn, UnbindingIsDead,
       WrittenOnlyOnceServing, WritingWasAcknowledged, InConnsUntilDeath, TimerOnlyWhileUnbound,
       SupersededAreDead, RetainedOnlyWhileUnbound, OverflowedIsEmpty, sessionVars

-----------------------------------------------------------------------------
(* The theorems *)

\* The invariant is inductive: one step per action of Next.
LEMMA StepInv == IInv /\ [Next]_vars => IInv'
<1> SUFFICES ASSUME IInv, [Next]_vars PROVE IInv'
    OBVIOUS
<1> USE SessionAssumption DEF IInv, TypeOK, GoTo, Phases, ReplayHoldsMutex, HeldSendHasConn,
        UnbindingIsDead, WrittenOnlyOnceServing, WritingWasAcknowledged, InConnsUntilDeath, TimerOnlyWhileUnbound,
        SupersededAreDead, RetainedOnlyWhileUnbound, OverflowedIsEmpty, Dead, sessionVars, connVars
<1>1. ASSUME NEW c \in Conns, Accept(c) PROVE IInv'
    BY <1>1 DEF Accept
<1>2. ASSUME NEW c \in Conns, RejectHandshake(c) PROVE IInv'
    BY <1>2 DEF RejectHandshake
<1>3. ASSUME NEW c \in Conns, CreateSession(c) PROVE IInv'
    BY <1>3 DEF CreateSession
<1>4. ASSUME NEW c \in Conns, ResumeSession(c) PROVE IInv'
  <2>1. \/ GoTo(c, "decided") /\ resumed' = [resumed EXCEPT ![c] = TRUE]
        \/ GoTo(c, "elsewhere") /\ UNCHANGED resumed
    BY <1>4 DEF ResumeSession
  <2>2. pc[c] = "handshake" /\ UNCHANGED <<sessionVars, registered, death, sendCh, line, writing, returned,
                                          server, toKill>>
    BY <1>4 DEF ResumeSession
  <2>3. resumed' \in [Conns -> BOOLEAN]
    BY <2>1
  <2>4. \E phase \in {"decided", "elsewhere"} : pc' = [pc EXCEPT ![c] = phase]
    BY <2>1
  <2>. QED
    BY <2>2, <2>3, <2>4
<1>5. ASSUME NEW c \in Conns, Register(c) PROVE IInv'
    BY <1>5 DEF Register
<1>6. ASSUME NEW c \in Conns, Bind(c) PROVE IInv'
    BY <1>6, BindInv
<1>7. ASSUME NEW c \in Conns, ReplayFrame(c) PROVE IInv'
  <2>1. at \in Streams /\ retained[at] # <<>> /\ pc[c] = "replaying"
    BY <1>7 DEF ReplayFrame, ReplayToQueue, Replay
  <2>2. Append(sendCh[c], Head(retained[at])) \in Seq(Frame) /\ sendCh[c] \in Seq(Frame)
    BY <2>1
  <2>3. \E q \in Seq(Frame) : Replay(c, q)
    BY <1>7, <2>2 DEF ReplayFrame, ReplayToQueue
  <2>. QED
    BY <2>3, ReplayInv
<1>8. ASSUME NEW c \in Conns, Acknowledge(c) PROVE IInv'
    BY <1>8, AcknowledgeInv
<1>9. ASSUME NEW c \in Conns, AcknowledgeFails(c) PROVE IInv'
    BY <1>9 DEF AcknowledgeFails
<1>10. ASSUME NEW c \in Conns, Deregister(c) PROVE IInv'
    BY <1>10 DEF Deregister
<1>11. ASSUME NEW c \in Conns, HandleConnUnbinds(c) PROVE IInv'
  <2>1. /\ Unbind(c) /\ Dead(c) /\ death' = death
        /\ UNCHANGED <<resumed, registered, sendCh, line, writing, returned, server, toKill>>
        /\ pc[c] = "unbinding" /\ pc' = [pc EXCEPT ![c] = "closed"]
    BY <1>11 DEF HandleConnUnbinds
  <2>. QED
    BY <2>1, UnbindInv
<1>12. ASSUME NEW c \in Conns, OnDead(c) PROVE IInv'
  <2>1. /\ Unbind(c) /\ Dead(c) /\ death' = [death EXCEPT ![c] = "notified"] /\ pc' = pc
        /\ UNCHANGED <<resumed, registered, sendCh, line, writing, returned, server, toKill>>
    BY <1>12 DEF OnDead
  <2>. QED
    BY <2>1, UnbindInv
<1>13. ASSUME NEW c \in Conns, ConnFails(c) PROVE IInv'
  <2>1. /\ Kill({c}) /\ toKill' \subseteq toKill
        /\ UNCHANGED <<sessionVars, pc, resumed, registered, sendCh, line, writing, returned, server>>
    BY <1>13 DEF ConnFails
  <2>. QED
    BY <2>1, KillInv
<1>14. ASSUME NEW c \in Conns, CloseKills(c) PROVE IInv'
  <2>1. /\ Kill({c}) /\ toKill' \subseteq toKill
        /\ UNCHANGED <<sessionVars, pc, resumed, registered, sendCh, line, writing, returned, server>>
    BY <1>14 DEF CloseKills
  <2>. QED
    BY <2>1, KillInv
<1>15. ASSUME NEW c \in Conns, WriteLoop(c) PROVE IInv'
    BY <1>15, WritesInv, WriteFailsInv DEF WriteLoop
<1>16. ASSUME TimerExpires PROVE IInv'
    BY <1>16 DEF TimerExpires
<1>17. ASSUME DropSession PROVE IInv'
    BY <1>17 DEF DropSession
<1>18. ASSUME Terminate PROVE IInv'
    BY <1>18 DEF Terminate
<1>19. ASSUME CloseServer PROVE IInv'
    BY <1>19 DEF CloseServer
<1>20. ASSUME CloseReturns PROVE IInv'
    BY <1>20 DEF CloseReturns
<1>21. ASSUME SendUnblocks PROVE IInv'
    BY <1>21, SendUnblocksInv
<1>22. ASSUME SendCancelled PROVE IInv'
    BY <1>22, SendCancelledInv
<1>23. ASSUME NEW s \in Streams, SendToConn(s) PROVE IInv'
    BY <1>23, SendToConnInv
<1>24. ASSUME NEW s \in Streams, SendRefused(s) PROVE IInv'
    BY <1>24, ReturnsType DEF SendRefused
<1>25. ASSUME NEW s \in Streams, SendRetained(s) PROVE IInv'
    BY <1>25, SendRetainedInv
<1>26. CASE UNCHANGED vars
    BY <1>26 DEF vars
<1>. QED
    BY <1>1, <1>2, <1>3, <1>4, <1>5, <1>6, <1>7, <1>8, <1>9, <1>10, <1>11, <1>12, <1>13, <1>14,
       <1>15, <1>16, <1>17, <1>18, <1>19, <1>20, <1>21, <1>22, <1>23, <1>24, <1>25, <1>26
       DEF Next, HandleConn, DropCall, CloseCall, SendDown

\* CreatorInv is inductive on top of IInv.
LEMMA CreatorStep == IInv /\ CreatorInv /\ [Next]_vars => CreatorInv'
<1> SUFFICES ASSUME IInv, CreatorInv, [Next]_vars PROVE CreatorInv'
    OBVIOUS
<1> USE DEF CreatorInv, Outside, Opening, Working, Dead
<1>0. /\ TypeOK /\ TimerOnlyWhileUnbound /\ SupersededAreDead /\ WrittenOnlyOnceServing
      /\ WritingWasAcknowledged /\ UnbindingIsDead /\ ReplayHoldsMutex
    BY DEF IInv
<1>1. ASSUME NEW c \in Conns, ~resumed[c], pc[c] \in Opening
      PROVE  ~Issued
    BY <1>0, <1>1 DEF Issued, CreatorIsAlone, WrittenOnlyOnceServing
<1>2. life = "unborn" => ~Issued
    BY DEF Issued, UnbornIsUntouched
<1>3. ASSUME NEW c \in Conns, Accept(c) \/ RejectHandshake(c) \/ AcknowledgeFails(c) \/ Deregister(c)
      PROVE  CreatorInv'
  <2>1. UNCHANGED <<life, conn, timer, drops, resumed, death, line>>
    BY <1>3 DEF Accept, RejectHandshake, AcknowledgeFails, Deregister, sessionVars
  <2>2. PICK phase \in Outside \cup {"unbinding"} :
          /\ pc' = [pc EXCEPT ![c] = phase]
          /\ phase = "unbinding" => pc[c] = "serving"
    BY <1>3 DEF Accept, RejectHandshake, AcknowledgeFails, Deregister, GoTo
  <2>3. pc'[c] = phase /\ \A d \in Conns \ {c} : pc'[d] = pc[d]
    BY <1>0, <2>2 DEF TypeOK
  <2>. QED
    BY <2>1, <2>2, <2>3 DEF UnbornIsUntouched, CreatorIsAlone, CreatorKeepsSession
<1>4. ASSUME NEW c \in Conns, CreateSession(c) PROVE CreatorInv'
    BY <1>0, <1>4 DEF CreateSession, GoTo, TypeOK, UnbornIsUntouched, CreatorIsAlone,
       CreatorKeepsSession
<1>5. ASSUME NEW c \in Conns, ResumeSession(c) PROVE CreatorInv'
  <2>1. /\ pc[c] = "handshake" /\ Issued /\ UNCHANGED <<sessionVars, death, line>>
        /\ \/ pc' = [pc EXCEPT ![c] = "decided"] /\ resumed' = [resumed EXCEPT ![c] = TRUE]
           \/ pc' = [pc EXCEPT ![c] = "elsewhere"] /\ UNCHANGED resumed
    BY <1>5 DEF ResumeSession, GoTo
  <2>2. \A d \in Conns : ~resumed[d] => pc[d] \notin Opening
    BY <1>1, <2>1
  <2>3. \A d \in Conns : ~resumed'[d] =>
          ~resumed[d] /\ (pc'[d] = pc[d] \/ pc'[d] = "elsewhere")
    BY <1>0, <2>1 DEF TypeOK
  <2>4. UnbornIsUntouched'
    BY <1>2, <2>1 DEF UnbornIsUntouched, sessionVars
  <2>5. CreatorIsAlone'
    BY <2>2, <2>3 DEF CreatorIsAlone
  <2>6. CreatorKeepsSession'
    BY <2>1, <2>3 DEF CreatorKeepsSession, sessionVars
  <2>. QED
    BY <2>4, <2>5, <2>6
<1>6. ASSUME NEW c \in Conns, Register(c) PROVE CreatorInv'
    BY <1>0, <1>6 DEF Register, GoTo, sessionVars, TypeOK, UnbornIsUntouched, CreatorIsAlone,
       CreatorKeepsSession
<1>7. ASSUME NEW c \in Conns, Bind(c) PROVE CreatorInv'
  <2>1. /\ pc[c] = "registered" /\ conn' = c /\ timer' = "nil" /\ ReplayRest(c, retained)
        /\ Kill({conn} \ {c}) /\ UNCHANGED <<life, drops, resumed, line>>
    BY <1>7 DEF Bind, Rebind
  <2>2. /\ pc'[c] \in {"bound", "replaying"} /\ \A d \in Conns \ {c} : pc'[d] = pc[d]
    BY <1>0, <2>1, ReplayRestEffect DEF TypeOK
  <2>3. \A d \in Conns : Dead(d) => Dead(d)'
    BY <1>0, <2>1, KillMonotone
  <2>4. \A d \in Conns \ {c} : pc'[d] \in Opening /\ ~resumed[d] => FALSE
    BY <2>1, <2>2 DEF CreatorIsAlone
  <2>5. UnbornIsUntouched'
    BY <2>1 DEF UnbornIsUntouched
  <2>6. CreatorIsAlone'
    BY <2>1, <2>2, <2>4 DEF CreatorIsAlone
  <2>7. CreatorKeepsSession'
    BY <2>1, <2>2, <2>3 DEF CreatorKeepsSession
  <2>. QED
    BY <2>5, <2>6, <2>7
<1>8. ASSUME NEW c \in Conns, ReplayFrame(c) PROVE CreatorInv'
  <2>1. PICK q : Replay(c, q)
    BY <1>8 DEF ReplayFrame, ReplayToQueue
  <2> DEFINE r == [retained EXCEPT ![at] = Tail(@)]
  <2>2. /\ pc[c] = "replaying" /\ ReplayRest(c, r)
        /\ UNCHANGED <<life, conn, timer, drops, resumed, death, line>>
    BY <2>1 DEF Replay
  <2>3. r \in [Streams -> Seq(Frame)]
    BY <1>0, <2>2 DEF ReplayHoldsMutex, TypeOK
  <2> HIDE DEF r
  <2>4. /\ pc'[c] \in {"bound", "replaying"} /\ \A d \in Conns \ {c} : pc'[d] = pc[d]
    BY <1>0, <2>2, <2>3, ReplayRestEffect
  <2>. QED
    BY <2>2, <2>4 DEF UnbornIsUntouched, CreatorIsAlone, CreatorKeepsSession
<1>9. ASSUME NEW c \in Conns, Acknowledge(c) PROVE CreatorInv'
    BY <1>0, <1>9 DEF Acknowledge, GoTo, sessionVars, TypeOK, UnbornIsUntouched, CreatorIsAlone,
       CreatorKeepsSession
<1>11. ASSUME NEW c \in Conns, HandleConnUnbinds(c) \/ OnDead(c) PROVE CreatorInv'
  <2>1. /\ Unbind(c) /\ Dead(c) /\ UNCHANGED <<life, resumed, line>>
        /\ \A d \in Conns : Dead(d) => Dead(d)'
        /\ \A d \in Conns : pc'[d] = pc[d] \/ (pc[d] = "unbinding" /\ pc'[d] = "closed")
    <3>1. CASE HandleConnUnbinds(c)
      <4>1. /\ Unbind(c) /\ pc[c] = "unbinding" /\ pc' = [pc EXCEPT ![c] = "closed"]
            /\ UNCHANGED <<resumed, death, line>>
        BY <3>1 DEF HandleConnUnbinds, GoTo
      <4>2. life' = life
        BY <4>1 DEF Unbind
      <4>. QED
        BY <1>0, <4>1, <4>2 DEF TypeOK, UnbindingIsDead
    <3>2. CASE OnDead(c)
      <4>1. /\ Unbind(c) /\ death[c] = "killed" /\ death' = [death EXCEPT ![c] = "notified"]
            /\ UNCHANGED <<pc, resumed, line>>
        BY <3>2 DEF OnDead
      <4>2. life' = life
        BY <4>1 DEF Unbind
      <4>. QED
        BY <1>0, <4>1, <4>2 DEF TypeOK
    <3>. QED
      BY <1>11, <3>1, <3>2
  <2>2. conn' \in {conn, Nil} /\ (conn # c => UNCHANGED <<conn, timer, drops>>)
    BY <2>1 DEF Unbind
  <2>3. ASSUME NEW d \in Conns, ~resumed[d], pc[d] \in Working, ~Dead(d), conn = c
        PROVE  FALSE
    BY <1>0, <2>1, <2>3, SessionAssumption DEF CreatorIsAlone, SupersededAreDead
  <2>4. UnbornIsUntouched'
    BY <2>1, <2>2, SessionAssumption DEF UnbornIsUntouched
  <2>5. CreatorIsAlone'
    BY <2>1, <2>2 DEF CreatorIsAlone
  <2>6. CreatorKeepsSession'
    BY <2>1, <2>2, <2>3 DEF CreatorKeepsSession
  <2>. QED
    BY <2>4, <2>5, <2>6
<1>12. ASSUME NEW c \in Conns, ConnFails(c) \/ CloseKills(c) \/ WriteFails(c)
       PROVE  CreatorInv'
  <2>1. Kill({c}) /\ UNCHANGED <<life, conn, timer, drops, pc, resumed, line>>
    BY <1>12 DEF ConnFails, CloseKills, WriteFails, TakesFrame, sessionVars
  <2>2. \A d \in Conns : Dead(d) => Dead(d)'
    BY <1>0, <2>1, KillMonotone
  <2>. QED
    BY <2>1, <2>2 DEF UnbornIsUntouched, CreatorIsAlone, CreatorKeepsSession
<1>13. ASSUME NEW c \in Conns, Writes(c) PROVE CreatorInv'
  <2>1. /\ line[c] # <<>> /\ \A d \in Conns \ {c} : line'[d] = line[d]
        /\ UNCHANGED <<life, conn, timer, drops, pc, resumed, death>>
    BY <1>0, <1>13 DEF Writes, TakesFrame, sessionVars, TypeOK, WritingWasAcknowledged
  <2>2. Issued
    BY <2>1 DEF Issued
  <2>3. life # "unborn" /\ \A d \in Conns : ~resumed[d] => pc[d] \notin Opening
    BY <1>1, <1>2, <2>2
  <2>. QED
    BY <2>1, <2>3 DEF UnbornIsUntouched, CreatorIsAlone, CreatorKeepsSession
<1>14. ASSUME TimerExpires \/ DropSession \/ Terminate PROVE CreatorInv'
  <2>1. /\ UNCHANGED <<conn, pc, resumed, death, line>> /\ life' # "unborn"
        /\ timer = "running" \/ drops > 0 \/ life = "deleted"
    BY <1>0, <1>14 DEF TimerExpires, DropSession, Terminate, connVars, UnbornIsUntouched, TypeOK
  <2>2. ASSUME NEW d \in Conns, ~resumed[d], pc[d] \in Working, ~Dead(d)
        PROVE  FALSE
    BY <2>1, <2>2 DEF CreatorKeepsSession
  <2>. QED
    BY <2>1, <2>2 DEF UnbornIsUntouched, CreatorIsAlone, CreatorKeepsSession
<1>15. ASSUME UNCHANGED <<life, conn, timer, drops, pc, resumed, death, line>> PROVE CreatorInv'
    BY <1>15 DEF UnbornIsUntouched, CreatorIsAlone, CreatorKeepsSession
<1>16. ASSUME \/ CloseServer \/ CloseReturns \/ SendUnblocks \/ SendCancelled
              \/ \E s \in Streams : SendDown(s)
       PROVE  CreatorInv'
    BY <1>15, <1>16 DEF CloseServer, CloseReturns, SendUnblocks, SendGetsRoom, SendCancelled,
       HeldSendEnds, SendDown, SendToConn, SendRefused, SendRetained, RetainIf, sessionVars, connVars
<1>17. CASE UNCHANGED vars
    BY <1>15, <1>17 DEF vars, sessionVars, connVars
<1>. QED
    BY <1>3, <1>4, <1>5, <1>6, <1>7, <1>8, <1>9, <1>11, <1>12, <1>13, <1>14, <1>16, <1>17
       DEF Next, HandleConn, DropCall, CloseCall, WriteLoop

\* IInv holds throughout: the invariant the theorems below are read from.
THEOREM SessionInvariant == Spec => []IInv
<1>. QED
    BY InitInv, StepInv, PTL DEF Spec

\* Every variable keeps its type: what bind, sendDown and unbind leave in a session and its
\* connections can be taken by the next of them.
THEOREM SessionTypes == Spec => []TypeOK
<1>1. IInv => TypeOK
    BY DEF IInv
<1>. QED
    BY <1>1, SessionInvariant, PTL

\* No session begins to expire while a connection is bound to it: bind stops what unbind
\* armed, and only the unbind of the bound connection arms it, however connections take
\* each other over.
THEOREM TimerSafety == Spec => DropsBeginUnbound
<1>1. IInv /\ [Next]_vars => [drops' > drops => conn' = Nil]_vars
  <2> SUFFICES ASSUME IInv, Next, drops' > drops PROVE conn' = Nil
    BY DEF vars, sessionVars
  <2>1. drops \in Nat
    BY DEF IInv, TypeOK
  <2>2. ASSUME NEW c \in Conns, Unbind(c) PROVE conn' = Nil
    BY <2>1, <2>2 DEF Unbind
  <2>3. CASE TimerExpires
    BY <2>3 DEF TimerExpires, IInv, TimerOnlyWhileUnbound
  <2>4. CASE DropSession
    BY <2>1, <2>4 DEF DropSession
  <2>5. drops' = drops \/ TimerExpires \/ DropSession \/ \E c \in Conns : Unbind(c)
    BY DEF Next, HandleConn, DropCall, CloseCall, SendDown, Accept, RejectHandshake, CreateSession,
       ResumeSession, Register, Bind, Rebind, ReplayFrame, ReplayToQueue, Replay, Acknowledge,
       AcknowledgeFails, Deregister, HandleConnUnbinds, OnDead, ConnFails, CloseKills, WriteLoop,
       Writes, WriteFails, TakesFrame, Terminate, CloseServer, CloseReturns, SendUnblocks,
       SendGetsRoom, SendCancelled, HeldSendEnds, SendToConn, SendRefused, SendRetained, RetainIf,
       sessionVars, connVars
  <2>. QED
    BY <2>1, <2>2, <2>3, <2>4, <2>5
<1>. QED
    BY <1>1, SessionInvariant, PTL DEF Spec, DropsBeginUnbound

\* Takeover leaves one live connection per session at most.
THEOREM TakeoverSafety == Spec => []SupersededAreDead
<1>1. IInv => SupersededAreDead
    BY DEF IInv
<1>. QED
    BY <1>1, SessionInvariant, PTL

\* Until its connection is dead, a client that was sent CONNACK is in s.conns and is the one
\* sendDown reaches, and if its connection created the session it is still in the store: the
\* order "put, register, bind, write CONNACK" of handleConn, and the timer that only an
\* unbind arms.
THEOREM AddressableSafety == Spec => []AddressableOnceAcknowledged
<1>1. Init => CreatorInv
    BY DEF Init, CreatorInv, UnbornIsUntouched, CreatorIsAlone, CreatorKeepsSession, Outside,
       Opening, Working
<1>2. IInv /\ CreatorInv /\ [Next]_vars => CreatorInv'
    BY CreatorStep
<1>3. IInv /\ CreatorInv => AddressableOnceAcknowledged
    BY DEF IInv, WrittenOnlyOnceServing, InConnsUntilDeath, SupersededAreDead, UnbindingIsDead,
       CreatorInv, CreatorKeepsSession, Working, AddressableOnceAcknowledged
<1>. QED
    BY <1>1, <1>2, <1>3, SessionInvariant, PTL DEF Spec

\* Frames wait in the queue only while no connection could overtake them.
THEOREM RetentionSafety == Spec => []RetainedOnlyWhileUnbound
<1>1. IInv => RetainedOnlyWhileUnbound
    BY DEF IInv
<1>. QED
    BY <1>1, SessionInvariant, PTL

\* A connection leaves its session only dead: the late unbind of an older connection never
\* detaches a newer one, and a takeover kills what it replaces.
THEOREM DetachedSafety == Spec => DetachedOnlyDead
<1>1. IInv /\ IInv' /\ [Next]_vars => [conn # Nil /\ conn' # conn => death'[conn] # "alive"]_vars
  <2> SUFFICES ASSUME IInv, Next, conn # Nil, conn' # conn PROVE death'[conn] # "alive"
    BY DEF vars, sessionVars
  <2>1. ASSUME NEW c \in Conns, Bind(c) PROVE death'[conn] # "alive"
    BY <2>1 DEF Bind, Rebind, Kill, IInv, TypeOK
  <2>2. ASSUME NEW c \in Conns, HandleConnUnbinds(c) PROVE death'[conn] # "alive"
    BY <2>2 DEF HandleConnUnbinds, Unbind, IInv, UnbindingIsDead, Dead
  <2>3. ASSUME NEW c \in Conns, OnDead(c) PROVE death'[conn] # "alive"
    BY <2>3 DEF OnDead, Unbind, IInv, TypeOK
  <2>4. \E c \in Conns : Bind(c) \/ HandleConnUnbinds(c) \/ OnDead(c)
    BY DEF Next, HandleConn, DropCall, CloseCall, SendDown, Accept, RejectHandshake, CreateSession,
       ResumeSession, Register, ReplayFrame, ReplayToQueue, Replay, Acknowledge, AcknowledgeFails,
       Deregister, ConnFails, CloseKills, WriteLoop, Writes, WriteFails, TakesFrame, TimerExpires,
       DropSession, Terminate, CloseServer, CloseReturns, SendUnblocks, SendGetsRoom,
       SendCancelled, HeldSendEnds, SendToConn, SendRefused, SendRetained, RetainIf,
       sessionVars, connVars
  <2>. QED
    BY <2>1, <2>2, <2>3, <2>4
<1>. QED
    BY <1>1, SessionInvariant, PTL DEF Spec, DetachedOnlyDead

=============================================================================
