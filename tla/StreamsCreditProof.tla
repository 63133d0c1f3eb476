-------------------------- MODULE StreamsCreditProof --------------------------
(***************************************************************************)
(* The types of Streams and WindowRespected, for every number of streams,  *)
(* connections, frames and breaks and every window.  The types come first: *)
(* a frame's type says what its stream may be, and a stream emits or is    *)
(* published to, never both.  For the window the units of credit that are  *)
(* Owed before and after a step are matched: every unit a step leaves was  *)
(* one before it, and no two were the same one.                            *)
(***************************************************************************)
EXTENDS StreamsProof, SequenceTheorems, FiniteSetTheorems

Kinds == {"request", "stream", "channel", "subscription", "call", "none"}
Handled == {"request", "stream", "channel"}

\* What the type of a frame says of its stream.
UpFrames ==
  {f \in FrameSet : /\ f.type = "REQUEST" => kind[f.stream] \in Handled
                    /\ f.type = "SUBSCRIBE" => kind[f.stream] = "subscription"}
DownFrames == {f \in FrameSet : f.type = "PUBLISH" => kind[f.stream] = "subscription"}

\* The connections come one after the other.
NetTypes ==
  /\ last \in Conns /\ broken \in 0..last /\ dead \in 0..broken /\ swept \in 0..dead
  /\ bound \in {0, last} /\ current \in 1..last
  /\ life \in {"stored", "fired", "dropped", "terminated"}
  /\ resuming \in {"no", "decided", "moving"}
  /\ resuming # "no" => broken = last /\ last < MaxConns

FrameTypes ==
  /\ [kind |-> kind, breaks |-> breaks, window |-> window, frames |-> frames] \in Workloads
  /\ up \in [Conns -> Seq(UpFrames)] /\ down \in [Conns -> Seq(DownFrames)]
  /\ retained \in [Streams -> Seq(DownFrames)]

CallTypes ==
  /\ asks \in [Streams -> {"none", "chosen", "registered", "waiting", "answered", "failed"}]
  /\ on \in [Streams -> Conns] /\ work \in [Streams -> {"none", "running", "done"}]

ClientTypes ==
  /\ call \in [Streams -> {"none", "asking", "open", "complete", "failed", "cancelled", "left"}]
  /\ ending \in [Streams -> {"none", "CANCEL", "COMPLETE", "UNSUBSCRIBE"}]
  /\ asked \in [Streams -> Conns] /\ home \in [Streams -> Conns] /\ cep \in [Streams -> Conns]
  /\ unread \in [Streams -> Nat] /\ pending \in [Streams -> Nat]

FlowTypes ==
  /\ served \in [Streams -> {"none", "open", "done"}] /\ sep \in [Streams -> Conns]
  /\ table \in [Conns -> SUBSET Streams] /\ late \in [Streams -> BOOLEAN]
  /\ moving \subseteq Streams

\* A stream has a handler or is published to, never both.
HandlerTypes ==
  /\ handler \in [Streams -> Running \cup {"none", "returned", "panicked"}]
  /\ via \in [Streams -> Conns] /\ emitted \in [Streams -> Nat]
  /\ gate \in [Conns -> Nat]
  /\ subs \subseteq Streams /\ targets \subseteq Streams
  /\ \A s \in subs \cup targets : kind[s] = "subscription"
  /\ \A s \in Streams : handler[s] # "none" => kind[s] \in Handled

TInv ==
  /\ NetTypes /\ FrameTypes /\ CallTypes /\ ClientTypes /\ FlowTypes /\ HandlerTypes

LEMMA WindowPositive ==
  ASSUME FrameTypes
  PROVE  window \in Nat \ {0} /\ FlushAt \in Nat \ {0}
<1>1. window \in Nat \ {0}
  BY StreamsAssumption DEF FrameTypes
<1> QED
  BY <1>1 DEF FlushAt

LEMMA FirstConn == 1 \in Conns /\ Conns \subseteq Nat
  BY StreamsAssumption DEF Conns

LEMMA InitTypes == Init => TInv
<1> SUFFICES ASSUME Init PROVE TInv
  OBVIOUS
<1>1. NetTypes
  BY StreamsAssumption, FirstConn DEF Init, NetTypes
<1>2. FrameTypes
  <2>1. <<>> \in Seq(UpFrames) /\ <<>> \in Seq(DownFrames)
    BY EmptySeq
  <2>2. [kind |-> kind, breaks |-> breaks, window |-> window, frames |-> frames] \in Workloads
    <3>1. PICK w \in Workloads :
            kind = w.kind /\ breaks = w.breaks /\ window = w.window /\ frames = w.frames
      BY DEF Init
    <3>2. w = [kind |-> w.kind, breaks |-> w.breaks, window |-> w.window, frames |-> w.frames]
      BY <3>1, StreamsAssumption
    <3> QED
      BY <3>1, <3>2
  <2> QED
    BY <2>1, <2>2 DEF Init, FrameTypes
<1>3. CallTypes
  BY FirstConn DEF Init, CallTypes
<1>4. ClientTypes
  BY FirstConn DEF Init, ClientTypes
<1>5. FlowTypes
  BY FirstConn DEF Init, FlowTypes
<1>6. HandlerTypes
  BY <1>2, FirstConn, WindowPositive DEF Init, HandlerTypes
<1> QED
  BY <1>1, <1>2, <1>3, <1>4, <1>5, <1>6 DEF TInv

\* Less than a batch of credit is not granted back.
HeldBack == \A s \in Streams : pending[s] < FlushAt

LEMMA TypesSuffice == TInv /\ HeldBack => TypeOK
<1> SUFFICES ASSUME TInv, HeldBack PROVE TypeOK
  OBVIOUS
<1>1. UpFrames \subseteq FrameSet /\ DownFrames \subseteq FrameSet
  BY DEF UpFrames, DownFrames
<1>2. Seq(UpFrames) \subseteq Seq(FrameSet) /\ Seq(DownFrames) \subseteq Seq(FrameSet)
  BY <1>1
<1>3. /\ up \in [Conns -> Seq(FrameSet)] /\ down \in [Conns -> Seq(FrameSet)]
      /\ retained \in [Streams -> Seq(FrameSet)]
  BY <1>2 DEF TInv, FrameTypes
<1>4. pending \in [Streams -> 0..FlushAt-1]
  BY WindowPositive DEF TInv, ClientTypes, HeldBack
<1> QED
  BY <1>3, <1>4
  DEF TInv, NetTypes, FrameTypes, CallTypes, ClientTypes, FlowTypes, HandlerTypes, TypeOK

LEMMA KindsKnown ==
  ASSUME FrameTypes
  PROVE  kind \in [Streams -> Kinds]
  BY StreamsAssumption DEF FrameTypes, Streams, Kinds

\* Sequences of frames that grow at one place.
LEMMA AppendKeeps ==
  ASSUME NEW D, NEW S, NEW f \in [D -> Seq(S)], NEW d \in D, NEW e \in S
  PROVE  [f EXCEPT ![d] = Append(@, e)] \in [D -> Seq(S)]
<1>1. Append(f[d], e) \in Seq(S)
  BY AppendProperties
<1> QED
  BY <1>1

LEMMA SendUpKeeps ==
  ASSUME FrameTypes, NEW c \in Conns, NEW type, NEW s \in Streams, NEW n \in Nat,
         Frame(type, s, n) \in UpFrames, SendUp(c, Frame(type, s, n))
  PROVE  up' \in [Conns -> Seq(UpFrames)]
<1>1. up \in [Conns -> Seq(UpFrames)]
  BY DEF FrameTypes
<1>2. [up EXCEPT ![c] = Append(@, Frame(type, s, n))] \in [Conns -> Seq(UpFrames)]
  BY <1>1, AppendKeeps
<1> QED
  BY <1>1, <1>2 DEF SendUp

LEMMA SendDownKeeps ==
  ASSUME FrameTypes, NetTypes, NEW type, NEW s \in Streams, Frame(type, s, 0) \in DownFrames,
         SendDown(s, type)
  PROVE  down' \in [Conns -> Seq(DownFrames)] /\ retained' \in [Streams -> Seq(DownFrames)]
<1>1. down \in [Conns -> Seq(DownFrames)] /\ retained \in [Streams -> Seq(DownFrames)]
  BY DEF FrameTypes
<1>2. [retained EXCEPT ![s] = Append(@, Frame(type, s, 0))] \in [Streams -> Seq(DownFrames)]
  BY <1>1, AppendKeeps
<1>3. ASSUME bound > broken
      PROVE  [down EXCEPT ![bound] = Append(@, Frame(type, s, 0))] \in [Conns -> Seq(DownFrames)]
  <2>1. bound \in Conns
    BY <1>3, FirstConn DEF NetTypes
  <2> QED
    BY <1>1, <2>1, AppendKeeps
<1> QED
  BY <1>1, <1>2, <1>3 DEF SendDown

LEMMA ArrivesKeeps ==
  ASSUME FrameTypes, NEW c \in Conns, NEW type, Arrives(c, type)
  PROVE  /\ up' \in [Conns -> Seq(UpFrames)]
         /\ Head(up[c]) \in UpFrames /\ Head(up[c]).type = type
         /\ Head(up[c]).stream \in Streams /\ Head(up[c]).n \in Nat
<1>1. up \in [Conns -> Seq(UpFrames)] /\ up[c] \in Seq(UpFrames) /\ up[c] # <<>>
  BY DEF FrameTypes, Arrives
<1>2. Head(up[c]) \in UpFrames /\ Tail(up[c]) \in Seq(UpFrames)
  BY <1>1, HeadTailProperties
<1>3. up' = [up EXCEPT ![c] = Tail(@)] /\ Head(up[c]).type = type
  BY DEF Arrives
<1>4. up' \in [Conns -> Seq(UpFrames)]
  BY <1>1, <1>2, <1>3
<1> QED
  BY <1>2, <1>3, <1>4 DEF UpFrames, FrameSet

LEMMA ReadDownKeeps ==
  ASSUME FrameTypes, NEW c \in Conns, down[c] # <<>>
  PROVE  /\ [down EXCEPT ![c] = Tail(@)] \in [Conns -> Seq(DownFrames)]
         /\ Head(down[c]) \in DownFrames
         /\ Head(down[c]).stream \in Streams
<1>1. down \in [Conns -> Seq(DownFrames)] /\ down[c] \in Seq(DownFrames)
  BY DEF FrameTypes
<1>2. Head(down[c]) \in DownFrames /\ Tail(down[c]) \in Seq(DownFrames)
  BY <1>1, HeadTailProperties
<1> QED
  BY <1>1, <1>2 DEF DownFrames, FrameSet

LEMMA UpFrame ==
  ASSUME NEW s \in Streams, NEW n \in Nat,
         NEW type \in {"CANCEL", "COMPLETE", "UNSUBSCRIBE", "RESPONSE", "ERROR", "CREDIT"}
  PROVE  Frame(type, s, n) \in UpFrames
<1>1. Frame(type, s, n).type = type /\ Frame(type, s, n) \in FrameSet
  BY DEF Frame, FrameSet
<1> QED
  BY <1>1 DEF UpFrames

LEMMA DownFrame ==
  ASSUME NEW s \in Streams,
         NEW type \in {"CANCEL", "COMPLETE", "SUBACK", "RESPONSE", "ERROR", "REQUEST", "PUBLISH"},
         type = "PUBLISH" => kind[s] = "subscription"
  PROVE  Frame(type, s, 0) \in DownFrames
<1>1. /\ Frame(type, s, 0).type = type /\ Frame(type, s, 0).stream = s
      /\ Frame(type, s, 0) \in FrameSet
  BY DEF Frame, FrameSet
<1> QED
  BY <1>1 DEF DownFrames

\* What each part of the types depends on.
LEMMA Untouched ==
  ASSUME TInv
  PROVE  /\ UNCHANGED <<last, broken, dead, swept, bound, current, life, resuming>> => NetTypes'
         /\ UNCHANGED <<load, up, down, retained>> => FrameTypes'
         /\ UNCHANGED <<asks, on, work>> => CallTypes'
         /\ UNCHANGED <<call, ending, asked, home, cep, unread, pending>> => ClientTypes'
         /\ UNCHANGED <<served, sep, table, late, moving>> => FlowTypes'
         /\ UNCHANGED <<kind, handler, via, emitted, gate, subs, targets>> => HandlerTypes'
<1>1. UNCHANGED <<last, broken, dead, swept, bound, current, life, resuming>> => NetTypes'
  BY DEF TInv, NetTypes
<1>2. UNCHANGED <<load, up, down, retained>> => FrameTypes'
  BY DEF TInv, FrameTypes, UpFrames, DownFrames, load
<1>3. UNCHANGED <<asks, on, work>> => CallTypes'
  BY DEF TInv, CallTypes
<1>4. UNCHANGED <<call, ending, asked, home, cep, unread, pending>> => ClientTypes'
  BY DEF TInv, ClientTypes
<1>5. UNCHANGED <<served, sep, table, late, moving>> => FlowTypes'
  BY DEF TInv, FlowTypes
<1>6. UNCHANGED <<kind, handler, via, emitted, gate, subs, targets>> => HandlerTypes'
  BY DEF TInv, HandlerTypes
<1> QED
  BY <1>1, <1>2, <1>3, <1>4, <1>5, <1>6

\* Frames that go up or down and leave the kinds alone.
LEMMA FramesFollow ==
  ASSUME FrameTypes, UNCHANGED load,
         up' \in [Conns -> Seq(UpFrames)], down' \in [Conns -> Seq(DownFrames)],
         retained' \in [Streams -> Seq(DownFrames)]
  PROVE  FrameTypes'
<1>1. UpFrames' = UpFrames /\ DownFrames' = DownFrames
  BY DEF load, UpFrames, DownFrames
<1> QED
  BY <1>1 DEF FrameTypes, load

-----------------------------------------------------------------------------
(* The connection and the client *)

LEMMA ConnBreaksTypes == ASSUME TInv, ConnBreaks PROVE TInv'
<1> USE DEF ConnBreaks, load, pushVars, callVars, sessionVars, clientVars, flowVars, handlerVars
<1>1. FrameTypes'
  <2>1. up \in [Conns -> Seq(UpFrames)] /\ down \in [Conns -> Seq(DownFrames)] /\ last \in Conns
    BY DEF TInv, FrameTypes, NetTypes
  <2>2. PICK k \in 0..Len(up[last]) : up' = [up EXCEPT ![last] = SubSeq(@, 1, k)]
    OBVIOUS
  <2>3. PICK m \in 0..Len(down[last]) : down' = [down EXCEPT ![last] = SubSeq(@, 1, m)]
    OBVIOUS
  <2>4. SubSeq(up[last], 1, k) \in Seq(UpFrames) /\ SubSeq(down[last], 1, m) \in Seq(DownFrames)
    <3>1. up[last] \in Seq(UpFrames) /\ down[last] \in Seq(DownFrames)
      BY <2>1
    <3> QED
      BY <3>1, SubSeqProperties
  <2> QED
    BY <2>1, <2>2, <2>3, <2>4, FramesFollow DEF TInv, FrameTypes
<1>2. NetTypes'
  BY FirstConn DEF TInv, NetTypes
<1> QED
  BY <1>1, <1>2, Untouched DEF TInv

LEMMA OpenTypes == ASSUME TInv, NEW s \in Streams, Open(s) PROVE TInv'
<1> USE DEF Open, load, pushVars, callVars, sessionVars, flowVars, handlerVars
<1>0. current \in Conns /\ kind \in [Streams -> Kinds]
  BY KindsKnown, StreamsAssumption DEF TInv, NetTypes, Conns
<1>1. FrameTypes'
  <2>1. up' \in [Conns -> Seq(UpFrames)]
    <3>1. CASE kind[s] # "subscription" /\ SendUp(current, Frame("REQUEST", s, 0))
      <4>1. kind[s] \in Handled
        BY <1>0, <3>1 DEF Kinds, Handled
      <4>2. Frame("REQUEST", s, 0) \in UpFrames
        BY <4>1 DEF UpFrames, FrameSet, Frame
      <4> QED
        BY <1>0, <3>1, <4>2, SendUpKeeps DEF TInv
    <3>2. CASE kind[s] = "subscription" /\ SendUp(current, Frame("SUBSCRIBE", s, 0))
      <4>1. Frame("SUBSCRIBE", s, 0) \in UpFrames
        BY <3>2 DEF UpFrames, FrameSet, Frame
      <4> QED
        BY <1>0, <3>2, <4>1, SendUpKeeps DEF TInv
    <3>3. CASE UNCHANGED up
      BY <3>3 DEF TInv, FrameTypes
    <3> QED
      BY <3>1, <3>2, <3>3
  <2> QED
    BY <2>1, FramesFollow DEF TInv, FrameTypes
<1>2. ClientTypes'
  BY <1>0 DEF TInv, ClientTypes
<1>3. NetTypes'
  BY DEF TInv, NetTypes
<1> QED
  BY <1>1, <1>2, <1>3, Untouched DEF TInv

LEMMA EndingTypes ==
  ASSUME TInv, NEW s \in Streams, Cancel(s) \/ CloseChannel(s) \/ CloseSubscription(s)
  PROVE  TInv'
<1> USE DEF load, netVars, pushVars, callVars, sessionVars, flowVars, handlerVars
<1>1. PICK type \in {"CANCEL", "COMPLETE", "UNSUBSCRIBE"} : StartEnding(s, type)
  BY DEF Cancel, CloseChannel, CloseSubscription
<1>2. ClientTypes'
  BY <1>1 DEF TInv, ClientTypes, StartEnding
<1>3. NetTypes' /\ FrameTypes' /\ CallTypes' /\ FlowTypes' /\ HandlerTypes'
  BY <1>1, Untouched DEF StartEnding
<1> QED
  BY <1>2, <1>3 DEF TInv

LEMMA SendEndingTypes == ASSUME TInv, NEW s \in Streams, SendEnding(s) PROVE TInv'
<1> USE DEF SendEnding, load, pushVars, callVars, sessionVars, flowVars, handlerVars
<1>1. EndVia(s) \in Conns
  BY DEF EndVia, TInv, ClientTypes
<1>2. ending[s] \in {"CANCEL", "COMPLETE", "UNSUBSCRIBE"}
  BY DEF TInv, ClientTypes
<1>3. Frame(ending[s], s, 0) \in UpFrames
  BY <1>2, UpFrame
<1>4. up' \in [Conns -> Seq(UpFrames)]
  BY <1>1, <1>3, SendUpKeeps DEF TInv
<1>5. FrameTypes'
  BY <1>4, FramesFollow DEF TInv, FrameTypes
<1>6. ClientTypes'
  BY DEF TInv, ClientTypes
<1>7. NetTypes'
  BY DEF TInv, NetTypes
<1> QED
  BY <1>5, <1>6, <1>7, Untouched DEF TInv

LEMMA ReadTypes == ASSUME TInv, NEW s \in Streams, Read(s) PROVE TInv'
<1> USE DEF Read, load, pushVars, callVars, sessionVars, flowVars, handlerVars
<1>1. cep[s] \in Conns /\ pending[s] + 1 \in Nat
  BY DEF TInv, ClientTypes
<1>2. Frame("CREDIT", s, pending[s] + 1) \in UpFrames
  BY <1>1, UpFrame
<1>3. up' \in [Conns -> Seq(UpFrames)]
  <2>1. CASE SendUp(cep[s], Frame("CREDIT", s, pending[s] + 1))
    BY <1>1, <1>2, <2>1, SendUpKeeps DEF TInv
  <2>2. CASE UNCHANGED up
    BY <2>2 DEF TInv, FrameTypes
  <2> QED
    BY <2>1, <2>2 DEF Release
<1>4. FrameTypes'
  BY <1>3, FramesFollow DEF TInv, FrameTypes
<1>5. pending' \in [Streams -> Nat]
  BY DEF TInv, ClientTypes, Release
<1>6. ClientTypes'
  <2>1. unread' \in [Streams -> Nat]
    BY DEF TInv, ClientTypes
  <2>2. call' = call \/ call' = [call EXCEPT ![s] = "left"]
    OBVIOUS
  <2>3. UNCHANGED <<ending, asked, home, cep>>
    OBVIOUS
  <2> QED
    BY ONLY <1>5, <2>1, <2>2, <2>3, TInv DEF TInv, ClientTypes
<1>7. NetTypes'
  BY DEF TInv, NetTypes
<1> QED
  BY <1>4, <1>6, <1>7, Untouched DEF TInv

LEMMA ClientBindTypes == ASSUME TInv, ClientBind PROVE TInv'
<1> USE DEF ClientBind, load, netVars, pushVars, callVars, sessionVars, flowVars, handlerVars
<1>1. NetTypes'
  BY FirstConn DEF TInv, NetTypes
<1>2. ClientTypes'
  BY DEF TInv, ClientTypes, NetTypes, Alive
<1> QED
  BY <1>1, <1>2, Untouched DEF TInv

LEMMA ClientReadTypes == ASSUME TInv, NEW c \in Conns, ClientRead(c) PROVE TInv'
<1> USE DEF ClientRead, load, pushVars, callVars, sessionVars, flowVars, handlerVars, clientVars
<1>0. /\ down[c] # <<>> /\ down' = [down EXCEPT ![c] = Tail(@)]
      /\ UNCHANGED <<load, broken, up, sessionVars, gate, flowVars, handlerVars, subs, targets,
                     asks, on, swept, current>>
  BY DEF ClientData, ClientEnd, ClientAck, ClientCalled
<1>1. FrameTypes'
  BY <1>0, ReadDownKeeps, FramesFollow DEF TInv, FrameTypes
<1>2. Head(down[c]).stream \in Streams
  BY <1>0, ReadDownKeeps DEF TInv
<1>3. NetTypes' /\ FlowTypes' /\ HandlerTypes'
  BY <1>0, Untouched
<1>4. ClientTypes' /\ CallTypes'
  <2>1. CASE ClientData(c)
    <3>1. call' = call \/ call' = [call EXCEPT ![Head(down[c]).stream] = "complete"]
      BY <2>1, Zenon DEF ClientData
    <3>2. unread' = unread \/ unread' = [unread EXCEPT ![Head(down[c]).stream] = @ + 1]
      BY <2>1, Zenon DEF ClientData
    <3>3. ClientTypes'
      BY <1>2, <2>1, <3>1, <3>2 DEF ClientData, TInv, ClientTypes
    <3> QED
      BY <2>1, <3>3, Untouched DEF ClientData
  <2>2. CASE ClientEnd(c)
    <3>1. ClientTypes'
      BY <1>2, <2>2 DEF ClientEnd, TInv, ClientTypes
    <3> QED
      BY <2>2, <3>1, Untouched DEF ClientEnd
  <2>3. CASE ClientAck(c)
    <3>1. ClientTypes'
      BY <1>2, <2>3 DEF ClientAck, TInv, ClientTypes
    <3> QED
      BY <2>3, <3>1, Untouched DEF ClientAck
  <2>4. CASE ClientCalled(c)
    <3>1. CallTypes'
      BY <1>2, <2>4 DEF ClientCalled, TInv, CallTypes
    <3> QED
      BY <2>4, <3>1, Untouched DEF ClientCalled
  <2> QED
    BY <2>1, <2>2, <2>3, <2>4
<1> QED
  BY <1>1, <1>3, <1>4 DEF TInv

-----------------------------------------------------------------------------
(* The server's calls *)

LEMMA AnswerCallTypes == ASSUME TInv, NEW s \in Streams, AnswerCall(s) PROVE TInv'
<1> USE DEF AnswerCall, load, pushVars, callVars, sessionVars, flowVars, handlerVars, clientVars
<1>1. on[s] \in Conns
  BY DEF TInv, CallTypes
<1>2. Frame("RESPONSE", s, 0) \in UpFrames /\ Frame("ERROR", s, 0) \in UpFrames
  BY UpFrame
<1>3. up' \in [Conns -> Seq(UpFrames)]
  BY <1>1, <1>2, SendUpKeeps DEF TInv
<1>4. FrameTypes'
  BY <1>3, FramesFollow DEF TInv, FrameTypes
<1>5. CallTypes'
  BY DEF TInv, CallTypes
<1>6. NetTypes' /\ ClientTypes' /\ FlowTypes' /\ HandlerTypes'
  BY Untouched
<1> QED
  BY <1>4, <1>5, <1>6 DEF TInv

LEMMA CallTypesKept ==
  ASSUME TInv, NEW s \in Streams,
         StartCall(s) \/ RegisterCall(s) \/ SendCall(s) \/ CallCtxEnds(s)
  PROVE  TInv'
<1> USE DEF load, netVars, pushVars, callVars, sessionVars, flowVars, handlerVars, clientVars
<1>0. /\ UNCHANGED <<load, subs, targets, swept, work, broken, up, sessionVars, gate, clientVars,
                     flowVars, handlerVars>>
  BY DEF StartCall, RegisterCall, SendCall, CallCtxEnds
<1>1. NetTypes' /\ ClientTypes' /\ FlowTypes' /\ HandlerTypes'
  BY <1>0, Untouched
<1>2. on[s] \in Conns
  BY DEF TInv, CallTypes
<1>3. CallTypes'
  <2>1. CASE StartCall(s)
    <3>1. bound \in Conns
      BY <2>1, FirstConn DEF StartCall, TInv, NetTypes
    <3> QED
      BY <1>0, <2>1, <3>1 DEF StartCall, Asks, TInv, CallTypes
  <2>2. CASE RegisterCall(s)
    BY <1>0, <2>2 DEF RegisterCall, Asks, TInv, CallTypes
  <2>3. CASE SendCall(s)
    BY <1>0, <2>3 DEF SendCall, Asks, TInv, CallTypes
  <2>4. CASE CallCtxEnds(s)
    BY <1>0, <2>4 DEF CallCtxEnds, Asks, TInv, CallTypes
  <2> QED
    BY <2>1, <2>2, <2>3, <2>4
<1>4. FrameTypes'
  <2>1. Frame("REQUEST", s, 0) \in DownFrames /\ Frame("CANCEL", s, 0) \in DownFrames
    BY DownFrame
  <2>2. /\ down \in [Conns -> Seq(DownFrames)]
        /\ [down EXCEPT ![on[s]] = Append(@, Frame("REQUEST", s, 0))] \in [Conns -> Seq(DownFrames)]
        /\ [down EXCEPT ![on[s]] = Append(@, Frame("CANCEL", s, 0))] \in [Conns -> Seq(DownFrames)]
    BY <1>2, <2>1, AppendKeeps DEF TInv, FrameTypes
  <2>3. down' \in [Conns -> Seq(DownFrames)]
    BY <2>2 DEF StartCall, RegisterCall, SendCall, CallCtxEnds
  <2> QED
    BY <1>0, <2>3, FramesFollow DEF TInv, FrameTypes
<1> QED
  BY <1>1, <1>3, <1>4 DEF TInv

LEMMA OnDeadTypes == ASSUME TInv, OnDead PROVE TInv'
<1> USE DEF OnDead, load, netVars, pushVars, callVars, sessionVars, flowVars, handlerVars,
  clientVars
<1>1. NetTypes'
  BY DEF TInv, NetTypes
<1>2. CallTypes'
  BY DEF TInv, CallTypes
<1> QED
  BY <1>1, <1>2, Untouched DEF TInv

-----------------------------------------------------------------------------
(* The session *)

\* Every frame that is kept has a place among finitely many.
LEMMA KeptFinite ==
  ASSUME FrameTypes
  PROVE  Cardinality(Kept) \in Nat
<1>1. IsFiniteSet({{s} \X DOMAIN retained[s] : s \in Streams})
  <2>1. IsFiniteSet(Streams)
    BY FS_Interval, StreamsAssumption DEF Streams
  <2> QED
    <3> DEFINE T == {{s} \X DOMAIN retained[s] : s \in Streams}
               f == [s \in Streams |-> {s} \X DOMAIN retained[s]]
    <3>1. f \in Surjection(Streams, T)
      BY DEF Surjection
    <3> HIDE DEF f
    <3>2. IsFiniteSet(T)
      BY <2>1, <3>1, FS_Surjection
    <3> QED
      BY <3>2
<1>2. ASSUME NEW s \in Streams PROVE IsFiniteSet({s} \X DOMAIN retained[s])
  <2>1. retained[s] \in Seq(DownFrames)
    BY DEF FrameTypes
  <2>2. DOMAIN retained[s] = 1..Len(retained[s]) /\ Len(retained[s]) \in Nat
    BY <2>1, LenProperties
  <2>3. IsFiniteSet(DOMAIN retained[s])
    BY <2>2, FS_Interval
  <2>4. IsFiniteSet({s})
    BY FS_Singleton
  <2> QED
    BY <2>3, <2>4, FS_Product
<1> QED
  BY <1>1, <1>2, FS_UNION, FS_CardinalityType DEF Kept

LEMMA BindTypes == ASSUME TInv, Bind PROVE TInv'
<1> USE DEF load, pushVars, callVars, clientVars, handlerVars
<1> DEFINE c == last + 1
<1>1. c \in Conns /\ last \in Conns /\ moving \subseteq Streams
  BY StreamsAssumption DEF Bind, TInv, NetTypes, FlowTypes, Conns
<1>2. /\ resuming' = "no" /\ moving' = {} /\ bound' = c /\ last' = c
      /\ sep' = [s \in Streams |-> IF s \in moving THEN c ELSE sep[s]]
      /\ table' = [table EXCEPT ![c] = moving]
      /\ retained' = [s \in Streams |-> <<>>]
      /\ UNCHANGED <<load, pushVars, broken, up, life, dead, gate, clientVars, served, late,
                     handlerVars>>
  BY DEF Bind
<1>3. NetTypes'
  BY <1>1, <1>2, FirstConn DEF TInv, NetTypes
<1>4. FlowTypes'
  BY <1>1, <1>2 DEF TInv, FlowTypes
<1>5. FrameTypes'
  <2>1. PICK q \in Replays : down' =
          [down EXCEPT ![c] = [i \in 1..Cardinality(Kept) |-> retained[q[i][1]][q[i][2]]]]
    BY DEF Bind
  <2>2. PICK n \in Nat : n = Cardinality(Kept)
    BY KeptFinite DEF TInv
  <2>3. q \in [1..n -> Kept]
    BY <2>2 DEF Replays, SetToSeqs
  <2>4. ASSUME NEW i \in 1..n PROVE retained[q[i][1]][q[i][2]] \in DownFrames
    <3>1. q[i] \in Kept
      BY <2>3, <2>4
    <3>2. PICK s \in Streams : q[i] \in {s} \X DOMAIN retained[s]
      BY <3>1 DEF Kept
    <3>3. q[i][1] = s /\ q[i][2] \in DOMAIN retained[s]
      BY <3>2
    <3>4. retained[s] \in Seq(DownFrames)
      BY DEF TInv, FrameTypes
    <3> QED
      BY <3>3, <3>4, ElementOfSeq, LenProperties
  <2>5. [i \in 1..n |-> retained[q[i][1]][q[i][2]]] \in Seq(DownFrames)
    BY <2>4
  <2>6. down' \in [Conns -> Seq(DownFrames)]
    BY <1>1, <2>1, <2>2, <2>5 DEF TInv, FrameTypes
  <2>7. <<>> \in Seq(DownFrames)
    BY EmptySeq
  <2> QED
    BY <1>2, <2>6, <2>7, FramesFollow DEF TInv, FrameTypes
<1> QED
  BY <1>2, <1>3, <1>4, <1>5, Untouched DEF TInv

LEMMA SessionTypes == ASSUME TInv, Session PROVE TInv'
<1> USE DEF load, netVars, pushVars, callVars, clientVars, flowVars, handlerVars, TInv
<1>1. CASE ServerNotices \/ Unbind \/ DecideToResume \/ TimerFires \/ Drop
  <2>1. NetTypes'
    BY <1>1, FirstConn, StreamsAssumption
    DEF NetTypes, ServerNotices, Unbind, DecideToResume, TimerFires, Drop, Conns
  <2>2. FrameTypes' /\ CallTypes' /\ ClientTypes' /\ FlowTypes' /\ HandlerTypes'
    BY <1>1, Untouched DEF ServerNotices, Unbind, DecideToResume, TimerFires, Drop
  <2> QED
    BY <2>1, <2>2
<1>2. CASE BindFindsFlows
  <2>1. NetTypes'
    BY <1>2, FirstConn, StreamsAssumption DEF NetTypes, BindFindsFlows, Conns
  <2>2. Migrating \subseteq Streams
    BY FirstConn DEF Migrating, NetTypes, FlowTypes
  <2>3. FlowTypes'
    BY <1>2, <2>2 DEF FlowTypes, BindFindsFlows
  <2>4. FrameTypes' /\ CallTypes' /\ ClientTypes' /\ HandlerTypes'
    BY <1>2, Untouched DEF BindFindsFlows
  <2> QED
    BY <2>1, <2>3, <2>4
<1>3. CASE Terminate
  <2>1. NetTypes'
    BY <1>3 DEF NetTypes, Terminate
  <2>2. FlowTypes'
    BY <1>3 DEF FlowTypes, Terminate
  <2>3. FrameTypes' /\ CallTypes' /\ ClientTypes' /\ HandlerTypes'
    BY <1>3, Untouched DEF Terminate
  <2> QED
    BY <2>1, <2>2, <2>3
<1> QED
  BY <1>1, <1>2, <1>3, BindTypes DEF Session

-----------------------------------------------------------------------------
(* The server's read loop *)

\* A frame to the client that says of its stream what it may.
LEMMA SendDownTypes ==
  ASSUME TInv, UNCHANGED <<load, up>>, NEW s \in Streams,
         NEW type \in {"CANCEL", "COMPLETE", "SUBACK", "RESPONSE", "ERROR", "REQUEST", "PUBLISH"},
         type = "PUBLISH" => kind[s] = "subscription", SendDown(s, type)
  PROVE  FrameTypes'
<1>1. Frame(type, s, 0) \in DownFrames
  BY DownFrame
<1>2. down' \in [Conns -> Seq(DownFrames)] /\ retained' \in [Streams -> Seq(DownFrames)]
  BY <1>1, SendDownKeeps DEF TInv
<1> QED
  BY <1>2, FramesFollow DEF TInv, FrameTypes

LEMMA DoneTypes ==
  ASSUME TInv, NEW s, Done(s), UNCHANGED <<sep, late, moving>>
  PROVE  FlowTypes'
<1>1. CASE served[s] = "open"
  BY <1>1 DEF Done, TInv, FlowTypes
<1>2. CASE served[s] # "open"
  BY <1>2, Untouched DEF Done
<1> QED
  BY <1>1, <1>2

\* A frame that is read and answered by nothing.
LEMMA ReadUpTypes ==
  ASSUME TInv, NEW c \in Conns, NEW type, Arrives(c, type), UNCHANGED <<load, down, retained>>
  PROVE  FrameTypes'
  BY ArrivesKeeps, FramesFollow DEF TInv, FrameTypes

LEMMA RequestTypes == ASSUME TInv, NEW c \in Conns, Request(c) PROVE TInv'
<1> USE DEF load, pushVars, callVars, sessionVars, clientVars
<1> DEFINE s == Head(up[c]).stream
<1>1. /\ Arrives(c, "REQUEST") /\ Register(c, s)
      /\ handler' = [handler EXCEPT ![s] = "running"] /\ via' = [via EXCEPT ![s] = c]
      /\ UNCHANGED <<load, pushVars, broken, down, sessionVars, gate, clientVars, emitted>>
  BY DEF Request
<1>2. s \in Streams /\ Head(up[c]) \in UpFrames /\ Head(up[c]).type = "REQUEST"
  BY <1>1, ArrivesKeeps DEF TInv
<1>3. kind[s] \in Handled
  BY <1>2 DEF UpFrames
<1>4. FrameTypes'
  BY <1>1, ReadUpTypes
<1>5. HandlerTypes'
  BY <1>1, <1>2, <1>3 DEF TInv, HandlerTypes, Running
<1>6. FlowTypes'
  BY <1>1, <1>2 DEF TInv, FlowTypes, Register
<1>7. NetTypes' /\ CallTypes' /\ ClientTypes'
  BY <1>1, Untouched
<1> QED
  BY <1>4, <1>5, <1>6, <1>7 DEF TInv

LEMMA AnsweredTypes ==
  ASSUME TInv, NEW c \in Conns, RequestRefused(c) \/ Subscribed(c)
  PROVE  TInv'
<1> USE DEF load, pushVars, callVars, clientVars, flowVars, handlerVars
<1> DEFINE s == Head(up[c]).stream
<1>1. PICK type \in {"ERROR", "SUBACK"} : SendDown(s, type)
  BY DEF RequestRefused, Subscribed
<1>2. PICK what : Arrives(c, what)
  BY DEF RequestRefused, Subscribed
<1>3. UNCHANGED <<load, pushVars, broken, life, resuming, moving, bound, last, dead, gate,
                  clientVars, flowVars, handlerVars>>
  BY DEF RequestRefused, Subscribed
<1>4. s \in Streams /\ up' \in [Conns -> Seq(UpFrames)]
  BY <1>2, ArrivesKeeps DEF TInv
<1>5. Frame(type, s, 0) \in DownFrames
  BY <1>4, DownFrame
<1>6. down' \in [Conns -> Seq(DownFrames)] /\ retained' \in [Streams -> Seq(DownFrames)]
  BY <1>1, <1>4, <1>5, SendDownKeeps DEF TInv
<1>7. FrameTypes'
  BY <1>3, <1>4, <1>6, FramesFollow DEF TInv
<1>8. NetTypes' /\ CallTypes' /\ ClientTypes' /\ FlowTypes' /\ HandlerTypes'
  BY <1>3, Untouched
<1> QED
  BY <1>7, <1>8 DEF TInv

LEMMA FlowEndsTypes == ASSUME TInv, NEW c \in Conns, FlowEnds(c) PROVE TInv'
<1> USE DEF load, pushVars, callVars, sessionVars, clientVars, handlerVars
<1> DEFINE s == Head(up[c]).stream
<1>1. PICK type : Arrives(c, type)
  BY DEF FlowEnds
<1>2. /\ UNCHANGED <<load, pushVars, broken, down, sessionVars, gate, clientVars, sep, late,
                     handlerVars>>
      /\ Done(s) \/ UNCHANGED <<served, table>>
  BY DEF FlowEnds
<1>3. FrameTypes'
  BY <1>1, <1>2, ReadUpTypes
<1>4. FlowTypes'
  BY <1>2, DoneTypes, Untouched
<1>5. NetTypes' /\ CallTypes' /\ ClientTypes' /\ HandlerTypes'
  BY <1>2, Untouched
<1> QED
  BY <1>3, <1>4, <1>5 DEF TInv

LEMMA CreditTypes == ASSUME TInv, NEW c \in Conns, Credit(c) PROVE TInv'
<1> USE DEF Credit, load, pushVars, callVars, sessionVars, clientVars, flowVars, handlerVars
<1>1. FrameTypes'
  BY ReadUpTypes
<1>2. Head(up[c]).n \in Nat
  BY ArrivesKeeps DEF TInv
<1>3. HandlerTypes'
  <2>1. gate' \in [Conns -> Nat]
    BY <1>2 DEF TInv, HandlerTypes
  <2> QED
    BY <2>1 DEF TInv, HandlerTypes
<1>4. NetTypes' /\ CallTypes' /\ ClientTypes' /\ FlowTypes'
  BY Untouched
<1> QED
  BY <1>1, <1>3, <1>4 DEF TInv

LEMMA SubsTypes ==
  ASSUME TInv, NEW c \in Conns, Subscribe(c) \/ Unsubscribe(c)
  PROVE  TInv'
<1> USE DEF load, netVars, callVars, sessionVars, clientVars, flowVars, handlerVars
<1> DEFINE s == Head(up[c]).stream
<1>1. CASE Subscribe(c)
  <2>1. s \in Streams /\ kind[s] = "subscription"
    <3>1. up[c] \in Seq(UpFrames) /\ up[c] # <<>>
      BY <1>1 DEF Subscribe, TInv, FrameTypes
    <3>2. Head(up[c]) \in UpFrames
      BY <3>1, HeadTailProperties
    <3> QED
      BY <1>1, <3>2 DEF Subscribe, UpFrames, FrameSet
  <2>2. HandlerTypes'
    BY <1>1, <2>1 DEF Subscribe, TInv, HandlerTypes
  <2> QED
    BY <1>1, <2>2, Untouched DEF Subscribe, TInv
<1>2. CASE Unsubscribe(c)
  <2>1. FrameTypes'
    BY <1>2, ReadUpTypes DEF Unsubscribe
  <2>2. HandlerTypes'
    BY <1>2 DEF Unsubscribe, TInv, HandlerTypes
  <2> QED
    BY <1>2, <2>1, <2>2, Untouched DEF Unsubscribe, TInv
<1> QED
  BY <1>1, <1>2

LEMMA CallAnsweredTypes == ASSUME TInv, NEW c \in Conns, CallAnswered(c) PROVE TInv'
<1> USE DEF load, pushVars, callVars, sessionVars, clientVars, flowVars, handlerVars
<1> DEFINE s == Head(up[c]).stream
<1>1. PICK type : Arrives(c, type)
  BY DEF CallAnswered
<1>2. s \in Streams
  BY <1>1, ArrivesKeeps DEF TInv
<1>3. UNCHANGED <<load, subs, targets, on, swept, work, broken, down, sessionVars, gate,
                  clientVars, flowVars, handlerVars>>
  BY DEF CallAnswered
<1>4. FrameTypes'
  BY <1>1, <1>3, ReadUpTypes
<1>5. \/ asks' = asks
      \/ asks' = [asks EXCEPT ![s] = "failed"] \/ asks' = [asks EXCEPT ![s] = "answered"]
  BY Zenon DEF CallAnswered
<1>6. CallTypes'
  BY <1>2, <1>3, <1>5 DEF TInv, CallTypes
<1>7. NetTypes' /\ ClientTypes' /\ FlowTypes' /\ HandlerTypes'
  BY <1>3, Untouched
<1> QED
  BY <1>4, <1>6, <1>7 DEF TInv

LEMMA ServerReadTypes == ASSUME TInv, NEW c \in Conns, ServerRead(c) PROVE TInv'
  BY RequestTypes, AnsweredTypes, FlowEndsTypes, CreditTypes, SubsTypes, CallAnsweredTypes
  DEF ServerRead

-----------------------------------------------------------------------------
(* Publish and the handlers *)

LEMMA PublishTypes ==
  ASSUME TInv, Publish \/ PublishStops \/ \E s \in Streams : PublishTo(s)
  PROVE  TInv'
<1> USE DEF load, netVars, callVars, sessionVars, clientVars, flowVars, handlerVars
<1>1. CASE Publish
  <2>1. HandlerTypes'
    BY <1>1 DEF Publish, TInv, HandlerTypes
  <2> QED
    BY <1>1, <2>1, Untouched DEF Publish, TInv
<1>2. CASE PublishStops
  <2>1. HandlerTypes'
    BY <1>2 DEF PublishStops, TInv, HandlerTypes
  <2> QED
    BY <1>2, <2>1, Untouched DEF PublishStops, TInv
<1>3. ASSUME NEW s \in Streams, PublishTo(s) PROVE TInv'
  <2>1. kind[s] = "subscription" /\ handler[s] = "none"
    BY <1>3 DEF PublishTo, TInv, HandlerTypes, Handled
  <2>2. FrameTypes'
    BY <1>3, <2>1, SendDownTypes DEF PublishTo
  <2>3. emitted' \in [Streams -> Nat]
    BY <1>3, <2>1 DEF PublishTo, TInv, HandlerTypes
  <2>4. \A t \in Streams \ {s} : emitted'[t] = emitted[t]
    BY <1>3 DEF PublishTo, TInv, HandlerTypes
  <2>5. HandlerTypes'
    BY <1>3, <2>1, <2>3, <2>4 DEF PublishTo, TInv, HandlerTypes
  <2>6. NetTypes' /\ CallTypes' /\ ClientTypes' /\ FlowTypes'
    BY <1>3, Untouched DEF PublishTo
  <2> QED
    BY <2>2, <2>5, <2>6 DEF TInv
<1> QED
  BY <1>1, <1>2, <1>3

LEMMA EmitTypes ==
  ASSUME TInv, NEW s \in Streams, StartEmit(s) \/ TakeCredit(s) \/ SendFrame(s)
  PROVE  TInv'
<1> USE DEF load, netVars, pushVars, callVars, sessionVars, clientVars, flowVars, handlerVars
<1>0. kind[s] \in Handled /\ s \notin targets
  BY DEF StartEmit, TakeCredit, SendFrame, TInv, HandlerTypes, Handled
<1>1. CASE StartEmit(s)
  <2>1. via' \in [Streams -> Conns]
    BY <1>1 DEF StartEmit, TInv, HandlerTypes, FlowTypes
  <2>2. HandlerTypes'
    BY <1>0, <1>1, <2>1 DEF StartEmit, TInv, HandlerTypes, Running
  <2> QED
    BY <1>1, <2>2, Untouched DEF StartEmit, TInv
<1>2. CASE TakeCredit(s)
  <2>1. gate' \in [Conns -> Nat]
    BY <1>2 DEF TakeCredit, TInv, HandlerTypes
  <2>2. handler' = [handler EXCEPT ![s] = "running"] \/ handler' = [handler EXCEPT ![s] = "sending"]
    BY <1>2, Zenon DEF TakeCredit
  <2>3. handler[s] = "taking" /\ UNCHANGED <<kind, via, emitted, subs, targets>>
    BY <1>2 DEF TakeCredit
  <2>4. HandlerTypes'
    BY <1>0, <2>1, <2>2, <2>3 DEF TInv, HandlerTypes, Running
  <2> QED
    BY <1>2, <2>4, Untouched DEF TakeCredit, TInv
<1>3. CASE SendFrame(s)
  <2>1. FrameTypes'
    BY <1>3, SendDownTypes DEF SendFrame
  <2>2. emitted' \in [Streams -> Nat]
    BY <1>3 DEF SendFrame, TInv, HandlerTypes
  <2>3. HandlerTypes'
    BY <1>0, <1>3, <2>2 DEF SendFrame, TInv, HandlerTypes, Running
  <2>4. NetTypes' /\ CallTypes' /\ ClientTypes' /\ FlowTypes'
    BY <1>3, Untouched DEF SendFrame
  <2> QED
    BY <2>1, <2>3, <2>4 DEF TInv
<1> QED
  BY <1>1, <1>2, <1>3

LEMMA ReturnTypes ==
  ASSUME TInv, NEW s \in Streams, Return(s) \/ Panic(s)
  PROVE  TInv'
<1> USE DEF load, pushVars, callVars, sessionVars, clientVars, handlerVars
<1>1. PICK place \in {"returned", "panicked"} : handler' = [handler EXCEPT ![s] = place]
  BY DEF Return, Panic
<1>2. /\ handler[s] = "running"
      /\ UNCHANGED <<load, pushVars, broken, up, life, resuming, moving, bound, last, dead, gate,
                     clientVars, sep, late, via, emitted>>
  BY DEF Return, Panic, flowVars
<1>3. HandlerTypes'
  BY <1>1, <1>2 DEF TInv, HandlerTypes, Running
<1>4. FlowTypes'
  <2>1. Done(s) \/ UNCHANGED <<served, table>>
    BY DEF Return, Panic, flowVars
  <2> QED
    BY <1>2, <2>1, DoneTypes, Untouched
<1>5. FrameTypes'
  <2>1. \/ \E type \in {"ERROR", "RESPONSE", "COMPLETE"} : SendDown(s, type)
        \/ UNCHANGED <<down, retained>>
    BY DEF Return, Panic
  <2> QED
    BY <1>2, <2>1, SendDownTypes, Untouched
<1>6. NetTypes' /\ CallTypes' /\ ClientTypes'
  BY <1>2, Untouched
<1> QED
  BY <1>3, <1>4, <1>5, <1>6 DEF TInv

LEMMA NextTypes == TInv /\ [Next]_vars => TInv'
<1> SUFFICES ASSUME TInv, [Next]_vars PROVE TInv'
  OBVIOUS
<1>1. ASSUME NEW s \in Streams, Client(s) PROVE TInv'
  BY <1>1, OpenTypes, EndingTypes, SendEndingTypes, ReadTypes DEF Client
<1>2. ASSUME NEW s \in Streams, Handler(s) PROVE TInv'
  BY <1>2, EmitTypes, ReturnTypes DEF Handler
<1>3. ASSUME NEW s \in Streams, Call(s) PROVE TInv'
  BY <1>3, CallTypesKept, AnswerCallTypes DEF Call
<1>4. CASE UNCHANGED vars
  BY <1>4, Untouched
  DEF TInv, vars, load, netVars, pushVars, callVars, sessionVars, clientVars, flowVars, handlerVars
<1> QED
  BY <1>1, <1>2, <1>3, <1>4, ConnBreaksTypes, ClientBindTypes, SessionTypes, OnDeadTypes,
     PublishTypes, ClientReadTypes, ServerReadTypes DEF Next

LEMMA LoadStays == [Next]_vars => UNCHANGED load
  BY DEF Next, vars, ConnBreaks, ClientBind, Session, OnDead, Publish, PublishStops, PublishTo,
         Client, Open, Cancel, CloseChannel, CloseSubscription, StartEnding, SendEnding, Read,
         Handler, StartEmit, TakeCredit, SendFrame, Return, Panic, Call, StartCall, RegisterCall,
         SendCall, CallCtxEnds, AnswerCall, ClientRead, ClientData, ClientEnd, ClientAck,
         ClientCalled, ServerRead, Request, RequestRefused, FlowEnds, Credit, Subscribe, Subscribed,
         Unsubscribe, CallAnswered, ServerNotices, Unbind, DecideToResume, BindFindsFlows, Bind,
         TimerFires, Drop, Terminate

\* Only what is read is held back.
LEMMA OthersRelease ==
  ASSUME [Next]_vars
  PROVE  UNCHANGED pending \/ \E s \in Streams : Read(s)
  BY DEF Next, vars, ConnBreaks, ClientBind, Session, OnDead, Publish, PublishStops, PublishTo,
         Client, Open, Cancel, CloseChannel, CloseSubscription, StartEnding, SendEnding,
         Handler, StartEmit, TakeCredit, SendFrame, Return, Panic, Call, StartCall, RegisterCall,
         SendCall, CallCtxEnds, AnswerCall, ClientRead, ClientData, ClientEnd, ClientAck,
         ClientCalled, ServerRead, Request, RequestRefused, FlowEnds, Credit, Subscribe, Subscribed,
         Unsubscribe, CallAnswered, ServerNotices, Unbind, DecideToResume, BindFindsFlows, Bind,
         TimerFires, Drop, Terminate, clientVars

LEMMA HeldBackStays == TInv /\ HeldBack /\ [Next]_vars => HeldBack'
<1> SUFFICES ASSUME TInv, HeldBack, [Next]_vars PROVE HeldBack'
  OBVIOUS
<1>1. FlushAt' = FlushAt
  BY LoadStays DEF load, FlushAt
<1>2. FlushAt \in Nat \ {0} /\ pending \in [Streams -> Nat]
  BY WindowPositive DEF TInv, ClientTypes
<1>3. ASSUME NEW s \in Streams, Read(s) PROVE HeldBack'
  BY <1>1, <1>2, <1>3 DEF Read, Release, HeldBack
<1> QED
  BY <1>1, <1>3, OthersRelease DEF HeldBack

LEMMA InitHeldBack == Init => HeldBack
<1> SUFFICES ASSUME Init PROVE HeldBack
  OBVIOUS
<1>1. FlushAt \in Nat \ {0}
  BY InitTypes, WindowPositive DEF TInv
<1> QED
  BY <1>1 DEF Init, HeldBack

\* Every variable keeps its type: connections come one after the other, and what a flow holds
\* back of its credit stays below the batch it grants (server.go:437-480, flow.go:283).
THEOREM StreamsTypes == Spec => []TypeOK
<1> QED
  BY InitTypes, InitHeldBack, NextTypes, HeldBackStays, TypesSuffice, PTL DEF Spec

-----------------------------------------------------------------------------
(* Before the first connection dies *)

\* Nothing is of a connection to come, and the first one is alone until it dies.
Past ==
  /\ dead = 0 => last = 1 /\ bound = 1 /\ resuming # "moving"
  /\ \A s \in Streams : /\ home[s] <= last /\ cep[s] <= last /\ asked[s] <= last
                        /\ on[s] <= last /\ sep[s] <= last /\ via[s] <= last
  /\ \A c \in Conns : up[c] # <<>> => c <= last

LEMMA InitPast == Init => Past
  BY DEF Init, Past

\* Which of them a step can disturb.
LEMMA PastStays ==
  ASSUME Past,
         UNCHANGED <<dead, last, bound, resuming, home, cep, asked, on, sep, via>>,
         \A c \in Conns : up'[c] # <<>> => c <= last
  PROVE  Past'
  BY DEF Past

LEMMA SendUpPast ==
  ASSUME TInv, Past, NEW c \in Conns, c <= last, NEW f, SendUp(c, f)
  PROVE  \A d \in Conns : up'[d] # <<>> => d <= last
<1>1. up \in [Conns -> Seq(UpFrames)]
  BY DEF TInv, FrameTypes
<1> QED
  BY <1>1 DEF SendUp, Past

LEMMA ArrivesPast ==
  ASSUME TInv, Past, NEW c \in Conns, NEW type, Arrives(c, type)
  PROVE  c <= last /\ \A d \in Conns : up'[d] # <<>> => d <= last
<1>1. up \in [Conns -> Seq(UpFrames)]
  BY DEF TInv, FrameTypes
<1> QED
  BY <1>1 DEF Arrives, Past

LEMMA ClientPast ==
  ASSUME TInv, Past, NEW s \in Streams, Client(s)
  PROVE  Past'
<1> USE DEF load, netVars, pushVars, callVars, sessionVars, flowVars, handlerVars
<1>0. /\ current \in Conns /\ current <= last /\ cep[s] \in Conns /\ home[s] \in Conns
      /\ asked[s] \in Conns /\ last \in Conns /\ last \in Int
  BY StreamsAssumption, FirstConn DEF TInv, NetTypes, ClientTypes, Conns
<1>1. CASE Open(s)
  <2>1. \A d \in Conns : up'[d] # <<>> => d <= last
    <3>1. CASE \E f : SendUp(current, f)
      BY <1>0, <3>1, SendUpPast
    <3>2. CASE UNCHANGED up
      BY <3>2 DEF Past
    <3> QED
      BY <1>1, <3>1, <3>2 DEF Open
  <2>2. \A t \in Streams : home'[t] <= last /\ cep'[t] <= last
    BY <1>0, <1>1 DEF Open, Past, TInv, ClientTypes
  <2> QED
    BY <1>1, <2>1, <2>2 DEF Open, Past
<1>2. CASE Cancel(s) \/ CloseChannel(s) \/ CloseSubscription(s)
  <2>1. \A t \in Streams : asked'[t] <= last
    BY <1>2 DEF Cancel, CloseChannel, CloseSubscription, StartEnding, Past, TInv, ClientTypes
  <2> QED
    BY <1>2, <2>1 DEF Cancel, CloseChannel, CloseSubscription, StartEnding, Past
<1>3. CASE SendEnding(s)
  <2>1. EndVia(s) \in Conns /\ EndVia(s) <= last
    BY <1>0 DEF EndVia, Past
  <2>2. \A d \in Conns : up'[d] # <<>> => d <= last
    BY <1>3, <2>1, SendUpPast DEF SendEnding
  <2> QED
    BY <1>3, <2>2, PastStays DEF SendEnding
<1>4. CASE Read(s)
  <2>1. cep[s] <= last
    BY DEF Past
  <2>2. \A d \in Conns : up'[d] # <<>> => d <= last
    <3>1. CASE SendUp(cep[s], Frame("CREDIT", s, pending[s] + 1))
      BY <1>0, <2>1, <3>1, SendUpPast
    <3>2. CASE UNCHANGED up
      BY <3>2 DEF Past
    <3> QED
      BY <1>4, <3>1, <3>2 DEF Read, Release
  <2> QED
    BY <1>4, <2>2, PastStays DEF Read
<1> QED
  BY <1>1, <1>2, <1>3, <1>4 DEF Client

LEMMA SessionPast ==
  ASSUME TInv, Past, Session
  PROVE  Past'
<1> USE DEF load, netVars, pushVars, callVars, clientVars, flowVars, handlerVars
<1>0. /\ last \in Conns /\ last \in Nat \ {0} /\ last + 1 \in Nat
      /\ dead \in Nat /\ bound \in {0, last}
  BY FirstConn DEF TInv, NetTypes, Conns
<1>1. CASE ServerNotices \/ Unbind \/ DecideToResume \/ TimerFires \/ Drop
  BY <1>0, <1>1 DEF ServerNotices, Unbind, DecideToResume, TimerFires, Drop, Past, TInv, NetTypes
<1>2. CASE BindFindsFlows
  BY <1>0, <1>2 DEF BindFindsFlows, Past, TInv, NetTypes
<1>3. CASE Bind
  <2>1. /\ dead # 0 /\ dead' = dead /\ last' = last + 1
        /\ sep' = [s \in Streams |-> IF s \in moving THEN last + 1 ELSE sep[s]]
        /\ UNCHANGED <<up, home, cep, asked, on, via>>
    BY <1>3 DEF Bind, Past
  <2>2. ASSUME NEW s \in Streams
        PROVE  /\ home'[s] <= last' /\ cep'[s] <= last' /\ asked'[s] <= last'
               /\ on'[s] <= last' /\ sep'[s] <= last' /\ via'[s] <= last'
    <3>1. /\ home[s] <= last /\ cep[s] <= last /\ asked[s] <= last
          /\ on[s] <= last /\ sep[s] <= last /\ via[s] <= last
      BY DEF Past
    <3>2. /\ home[s] \in Nat /\ cep[s] \in Nat /\ asked[s] \in Nat
          /\ on[s] \in Nat /\ sep[s] \in Nat /\ via[s] \in Nat
      BY FirstConn DEF TInv, ClientTypes, CallTypes, FlowTypes, HandlerTypes
    <3> QED
      BY ONLY <1>0, <2>1, <3>1, <3>2
  <2>3. ASSUME NEW c \in Conns, up'[c] # <<>> PROVE c <= last'
    <3>1. c \in Nat /\ c <= last
      BY <2>1, <2>3, FirstConn DEF Past
    <3> QED
      BY ONLY <1>0, <2>1, <3>1
  <2> QED
    BY <2>1, <2>2, <2>3 DEF Past
<1>4. CASE Terminate
  BY <1>4 DEF Terminate, Past
<1> QED
  BY <1>1, <1>2, <1>3, <1>4 DEF Session

LEMMA HandlerPast ==
  ASSUME TInv, Past, NEW s \in Streams, Handler(s)
  PROVE  Past'
<1> USE DEF load, netVars, pushVars, callVars, sessionVars, clientVars, flowVars, handlerVars
<1>1. CASE StartEmit(s)
  <2>1. \A t \in Streams : via'[t] <= last
    BY <1>1 DEF StartEmit, Past, TInv, HandlerTypes
  <2> QED
    BY <1>1, <2>1 DEF StartEmit, Past
<1>2. CASE TakeCredit(s) \/ SendFrame(s) \/ Return(s) \/ Panic(s)
  BY <1>2 DEF TakeCredit, SendFrame, Return, Panic, Past
<1> QED
  BY <1>1, <1>2 DEF Handler

LEMMA ServerReadPast ==
  ASSUME TInv, Past, NEW c \in Conns, ServerRead(c)
  PROVE  Past'
<1> USE DEF load, netVars, pushVars, callVars, sessionVars, clientVars, flowVars, handlerVars
<1>1. CASE Subscribe(c)
  BY <1>1 DEF Subscribe, Past
<1>2. CASE Request(c)
  <2>1. Arrives(c, "REQUEST") /\ Register(c, Head(up[c]).stream)
    BY <1>2 DEF Request
  <2>2. c <= last /\ \A d \in Conns : up'[d] # <<>> => d <= last
    BY <2>1, ArrivesPast
  <2>3. \A t \in Streams : via'[t] <= last
    BY <1>2, <2>2 DEF Request, Past, TInv, HandlerTypes
  <2>4. \A t \in Streams : sep'[t] <= last
    BY <2>1, <2>2 DEF Register, Past, TInv, FlowTypes
  <2> QED
    BY <1>2, <2>2, <2>3, <2>4 DEF Request, Past
<1>3. ASSUME RequestRefused(c) \/ FlowEnds(c) \/ Credit(c) \/ Subscribed(c) \/ Unsubscribe(c)
               \/ CallAnswered(c)
      PROVE  Past'
  <2>1. PICK type : Arrives(c, type)
    BY <1>3 DEF RequestRefused, FlowEnds, Credit, Subscribed, Unsubscribe, CallAnswered
  <2>2. \A d \in Conns : up'[d] # <<>> => d <= last
    BY <2>1, ArrivesPast
  <2>3. UNCHANGED <<dead, last, bound, resuming, home, cep, asked, on, sep, via>>
    BY <1>3 DEF RequestRefused, FlowEnds, Credit, Subscribed, Unsubscribe, CallAnswered
  <2> QED
    BY <2>2, <2>3, PastStays
<1> QED
  BY <1>1, <1>2, <1>3 DEF ServerRead

LEMMA CallPast ==
  ASSUME TInv, Past, NEW s \in Streams, Call(s)
  PROVE  Past'
<1> USE DEF load, netVars, pushVars, callVars, sessionVars, clientVars, flowVars, handlerVars
<1>1. CASE StartCall(s)
  <2>1. \A t \in Streams : on'[t] <= last
    BY <1>1, FirstConn DEF StartCall, Past, TInv, CallTypes, NetTypes
  <2> QED
    BY <1>1, <2>1 DEF StartCall, Past
<1>2. CASE RegisterCall(s) \/ SendCall(s) \/ CallCtxEnds(s)
  BY <1>2 DEF RegisterCall, SendCall, CallCtxEnds, Past
<1>3. CASE AnswerCall(s)
  <2>1. on[s] \in Conns /\ on[s] <= last
    BY DEF TInv, CallTypes, Past
  <2>2. \A d \in Conns : up'[d] # <<>> => d <= last
    BY <1>3, <2>1, SendUpPast DEF AnswerCall
  <2> QED
    BY <1>3, <2>2, PastStays DEF AnswerCall
<1> QED
  BY <1>1, <1>2, <1>3 DEF Call

LEMMA NextPast == TInv /\ Past /\ [Next]_vars => Past'
<1> SUFFICES ASSUME TInv, Past, [Next]_vars PROVE Past'
  OBVIOUS
<1> USE DEF load, netVars, pushVars, callVars, sessionVars, clientVars, flowVars, handlerVars
<1>1. CASE ConnBreaks
  <2>1. \A d \in Conns : up'[d] # <<>> => d <= last
    <3>1. up \in [Conns -> Seq(UpFrames)] /\ last \in Conns
      BY DEF TInv, FrameTypes, NetTypes
    <3>2. ASSUME NEW d \in Conns, d # last PROVE up'[d] = up[d]
      BY <1>1, <3>1, <3>2 DEF ConnBreaks
    <3> QED
      BY <3>1, <3>2, FirstConn DEF Past
  <2> QED
    BY <1>1, <2>1, PastStays DEF ConnBreaks
<1>2. CASE ClientBind
  <2>1. \A t \in Streams : cep'[t] <= last
    BY <1>2, FirstConn DEF ClientBind, Past, TInv, NetTypes
  <2> QED
    BY <1>2, <2>1 DEF ClientBind, Past
<1>3. CASE OnDead \/ Publish \/ PublishStops \/ \E s \in Streams : PublishTo(s)
  BY <1>3 DEF OnDead, Publish, PublishStops, PublishTo, Past
<1>4. ASSUME NEW c \in Conns, ClientRead(c) PROVE Past'
  BY <1>4 DEF ClientRead, ClientData, ClientEnd, ClientAck, ClientCalled, Past
<1>5. CASE UNCHANGED vars
  BY <1>5 DEF vars, Past
<1> QED
  BY <1>1, <1>2, <1>3, <1>4, <1>5, ClientPast, SessionPast, HandlerPast, ServerReadPast, CallPast
  DEF Next

-----------------------------------------------------------------------------
(* The units of credit *)

\* A unit of the credit of connection 1, by where it is.
Unit(t, i, k) ==
  \/ t = "gate" /\ i = 1 /\ k \in 1..gate[1]
  \/ t = "sending" /\ i \in Streams /\ handler[i] = "sending" /\ k = 1
  \/ t = "down" /\ i \in DOMAIN down[1] /\ Gated(down[1][i]) /\ k = 1
  \/ t = "unread" /\ i \in Streams /\ k \in 1..unread[i]
  \/ t = "pending" /\ i \in Streams /\ k \in 1..pending[i]
  \/ t = "up" /\ i \in DOMAIN up[1] /\ k \in 1..up[1][i].n

OwedIsUnits ==
  /\ \A t, i, k : Unit(t, i, k) => <<t, i, k>> \in Owed
  /\ \A x \in Owed : \E t, i, k : x = <<t, i, k>> /\ Unit(t, i, k)

LEMMA UnitsMembers ==
  ASSUME NEW place, NEW count
  PROVE  /\ \A i \in DOMAIN count : \A k \in 1..count[i] : <<place, i, k>> \in Units(place, count)
         /\ \A x \in Units(place, count) :
              \E i \in DOMAIN count : \E k \in 1..count[i] : x = <<place, i, k>>
<1>1. ASSUME NEW i \in DOMAIN count, NEW k \in 1..count[i]
      PROVE  <<place, i, k>> \in Units(place, count)
  <2> DEFINE U == {<<place, i, j>> : j \in 1..count[i]}
  <2>1. <<place, i, k>> \in U
    OBVIOUS
  <2>2. U \in {{<<place, r, j>> : j \in 1..count[r]} : r \in DOMAIN count}
    OBVIOUS
  <2> HIDE DEF U
  <2> QED
    BY <2>1, <2>2 DEF Units
<1>2. ASSUME NEW x \in Units(place, count)
      PROVE  \E i \in DOMAIN count : \E k \in 1..count[i] : x = <<place, i, k>>
  BY DEF Units
<1> QED
  BY <1>1, <1>2

LEMMA OwedUnits == TInv => OwedIsUnits
<1> SUFFICES ASSUME TInv PROVE OwedIsUnits
  OBVIOUS
<1> DEFINE g == <<gate[1]>>
           h == [s \in Streams |-> IF handler[s] = "sending" THEN 1 ELSE 0]
           d == [i \in DOMAIN down[1] |-> IF Gated(down[1][i]) THEN 1 ELSE 0]
           u == [i \in DOMAIN up[1] |-> up[1][i].n]
<1>1. Owed = UNION {Units("gate", g), Units("unread", unread), Units("pending", pending),
                    Units("sending", h), Units("down", d), Units("up", u)}
  BY DEF Owed
<1>2. DOMAIN unread = Streams /\ DOMAIN pending = Streams
  BY DEF TInv, ClientTypes
<1>3. \A i, k : i \in DOMAIN g /\ k \in 1..g[i] <=> i = 1 /\ k \in 1..gate[1]
  OBVIOUS
<1>4. \A i, k : i \in DOMAIN h /\ k \in 1..h[i] <=> i \in Streams /\ handler[i] = "sending" /\ k = 1
  OBVIOUS
<1>5. \A i, k : i \in DOMAIN d /\ k \in 1..d[i]
                  <=> i \in DOMAIN down[1] /\ Gated(down[1][i]) /\ k = 1
  OBVIOUS
<1>6. \A i, k : i \in DOMAIN u /\ k \in 1..u[i] <=> i \in DOMAIN up[1] /\ k \in 1..up[1][i].n
  OBVIOUS
<1> HIDE DEF g, h, d, u
<1>7. ASSUME NEW t, NEW i, NEW k, Unit(t, i, k) PROVE <<t, i, k>> \in Owed
  <2>1. CASE t = "gate" /\ i = 1 /\ k \in 1..gate[1]
    BY <1>1, <1>3, <2>1, UnitsMembers
  <2>2. CASE t = "sending" /\ i \in Streams /\ handler[i] = "sending" /\ k = 1
    BY <1>1, <1>4, <2>2, UnitsMembers
  <2>3. CASE t = "down" /\ i \in DOMAIN down[1] /\ Gated(down[1][i]) /\ k = 1
    BY <1>1, <1>5, <2>3, UnitsMembers
  <2>4. CASE t = "unread" /\ i \in Streams /\ k \in 1..unread[i]
    BY <1>1, <1>2, <2>4, UnitsMembers
  <2>5. CASE t = "pending" /\ i \in Streams /\ k \in 1..pending[i]
    BY <1>1, <1>2, <2>5, UnitsMembers
  <2>6. CASE t = "up" /\ i \in DOMAIN up[1] /\ k \in 1..up[1][i].n
    BY <1>1, <1>6, <2>6, UnitsMembers
  <2> QED
    BY <1>7, <2>1, <2>2, <2>3, <2>4, <2>5, <2>6 DEF Unit
<1>8. ASSUME NEW x \in Owed PROVE \E t, i, k : x = <<t, i, k>> /\ Unit(t, i, k)
  <2>1. CASE x \in Units("gate", g)
    BY <1>3, <2>1, UnitsMembers DEF Unit
  <2>2. CASE x \in Units("sending", h)
    BY <1>4, <2>2, UnitsMembers DEF Unit
  <2>3. CASE x \in Units("down", d)
    BY <1>5, <2>3, UnitsMembers DEF Unit
  <2>4. CASE x \in Units("unread", unread)
    BY <1>2, <2>4, UnitsMembers DEF Unit
  <2>5. CASE x \in Units("pending", pending)
    BY <1>2, <2>5, UnitsMembers DEF Unit
  <2>6. CASE x \in Units("up", u)
    BY <1>6, <2>6, UnitsMembers DEF Unit
  <2> QED
    BY <1>1, <1>8, <2>1, <2>2, <2>3, <2>4, <2>5, <2>6
<1> QED
  BY <1>7, <1>8 DEF OwedIsUnits

LEMMA OwedUnitsNext == (TInv => OwedIsUnits)'
BY OwedUnits, PTL

Bounded == IsFiniteSet(Owed) /\ Cardinality(Owed) <= window

\* Every unit after the step comes from one before it, and no two from the same.
LEMMA Moves ==
  ASSUME TInv, TInv', Bounded, UNCHANGED window, NEW m,
         \A t, i, k : Unit(t, i, k)' => \E u, j, l : m[<<t, i, k>>] = <<u, j, l>> /\ Unit(u, j, l),
         \A t, i, k, u, j, l :
           Unit(t, i, k)' /\ Unit(u, j, l)' /\ m[<<t, i, k>>] = m[<<u, j, l>>]
             => t = u /\ i = j /\ k = l
  PROVE  Bounded'
<1> DEFINE f == [x \in Owed' |-> m[x]]
<1>1. OwedIsUnits /\ OwedIsUnits'
  BY OwedUnits, OwedUnitsNext
<1>2. \A x \in Owed' : m[x] \in Owed
  BY <1>1 DEF OwedIsUnits
<1>3. \A x, y \in Owed' : m[x] = m[y] => x = y
  BY <1>1 DEF OwedIsUnits
<1>4. f \in Injection(Owed', Owed)
  BY <1>2, <1>3 DEF Injection, IsInjective
<1> HIDE DEF f
<1> QED
  <2>1. IsFiniteSet(Owed') /\ Cardinality(Owed') <= Cardinality(Owed)
    BY <1>4, FS_Injection DEF Bounded
  <2>2. Cardinality(Owed) \in Nat /\ Cardinality(Owed') \in Nat /\ window \in Nat
    BY <2>1, FS_CardinalityType, WindowPositive DEF Bounded, TInv
  <2> QED
    BY <2>1, <2>2 DEF Bounded

\* Nothing is added.
LEMMA Stays ==
  ASSUME TInv, TInv', Bounded, UNCHANGED window, \A t, i, k : Unit(t, i, k)' => Unit(t, i, k)
  PROVE  Bounded'
<1> DEFINE m == [x \in Owed' |-> x]
<1>1. OwedIsUnits'
  BY OwedUnitsNext
<1>2. \A t, i, k : Unit(t, i, k)' => m[<<t, i, k>>] = <<t, i, k>>
  BY <1>1 DEF OwedIsUnits
<1> HIDE DEF m
<1>3. ASSUME NEW t, NEW i, NEW k, Unit(t, i, k)'
      PROVE  \E u, j, l : m[<<t, i, k>>] = <<u, j, l>> /\ Unit(u, j, l)
  <2>1. m[<<t, i, k>>] = <<t, i, k>> /\ Unit(t, i, k)
    BY <1>2, <1>3
  <2> QED
    BY <2>1
<1>4. \A t, i, k, u, j, l :
        Unit(t, i, k)' /\ Unit(u, j, l)' /\ m[<<t, i, k>>] = m[<<u, j, l>>]
          => t = u /\ i = j /\ k = l
  BY <1>2
<1> QED
  BY <1>3, <1>4, Moves

\* What a step that reads a frame of the client, or none, leaves of the rest.
Elsewhere ==
  /\ UNCHANGED <<unread, pending>>
  /\ \A s \in Streams : handler'[s] = "sending" => handler[s] = "sending"
  /\ \A i : i \in DOMAIN down'[1] /\ Gated(down[1][i])' => i \in DOMAIN down[1] /\ Gated(down[1][i])

LEMMA UpRead ==
  ASSUME TInv, TInv', Bounded, UNCHANGED window, up[1] # <<>>, up'[1] = Tail(up[1]), Elsewhere,
         gate'[1] = gate[1] \/ gate'[1] = gate[1] + Head(up[1]).n
  PROVE  Bounded'
<1> DEFINE m == [x \in Owed' |->
                  <<IF x[1] = "gate" /\ x[3] > gate[1] THEN "up" ELSE x[1],
                    IF x[1] = "up" THEN x[2] + 1 ELSE x[2],
                    IF x[1] = "gate" /\ x[3] > gate[1] THEN x[3] - gate[1] ELSE x[3]>>]
<1>1. OwedIsUnits'
  BY OwedUnitsNext
<1>2. \A t, i, k : Unit(t, i, k)' =>
        m[<<t, i, k>>] = <<IF t = "gate" /\ k > gate[1] THEN "up" ELSE t,
                           IF t = "up" THEN i + 1 ELSE i,
                           IF t = "gate" /\ k > gate[1] THEN k - gate[1] ELSE k>>
  BY <1>1 DEF OwedIsUnits
<1> HIDE DEF m
<1>3. /\ gate[1] \in Nat /\ gate'[1] \in Nat /\ Head(up[1]).n \in Nat /\ up[1] \in Seq(UpFrames)
      /\ Head(up[1]) = up[1][1] /\ Len(up[1]) \in Nat \ {0}
  <2>1. up[1] \in Seq(UpFrames)
    BY FirstConn DEF TInv, FrameTypes
  <2>2. Head(up[1]) \in UpFrames /\ Head(up[1]) = up[1][1] /\ Len(up[1]) \in Nat \ {0}
    BY <2>1
  <2>3. gate[1] \in Nat /\ gate'[1] \in Nat
    BY FirstConn DEF TInv, HandlerTypes
  <2> QED
    BY <2>1, <2>2, <2>3 DEF UpFrames, FrameSet
<1>4. DOMAIN up[1] = 1..Len(up[1]) /\ DOMAIN up'[1] = 1..Len(up[1])-1
      /\ \A i \in DOMAIN up'[1] : up'[1][i] = up[1][i+1]
  BY <1>3
<1>5. ASSUME NEW t, NEW i, NEW k, Unit(t, i, k)'
      PROVE  \E u, j, l : m[<<t, i, k>>] = <<u, j, l>> /\ Unit(u, j, l)
  <2>1. CASE t = "up"
    <3>1. i \in DOMAIN up'[1] /\ k \in 1..up'[1][i].n
      BY <1>5, <2>1 DEF Unit
    <3>2. i + 1 \in DOMAIN up[1] /\ k \in 1..up[1][i+1].n
      BY <1>3, <1>4, <3>1
    <3>3. Unit("up", i + 1, k)
      BY <3>2 DEF Unit
    <3>4. m[<<t, i, k>>] = <<"up", i + 1, k>>
      BY <1>2, <1>5, <2>1
    <3> QED
      BY <3>3, <3>4
  <2>2. CASE t = "gate"
    <3>1. i = 1 /\ k \in 1..gate'[1]
      BY <1>5, <2>2 DEF Unit
    <3>2. CASE k > gate[1]
      <4>1. 1 \in DOMAIN up[1] /\ k - gate[1] \in 1..up[1][1].n
        BY <1>3, <1>4, <3>1, <3>2
      <4>2. Unit("up", 1, k - gate[1])
        BY <4>1 DEF Unit
      <4>3. m[<<t, i, k>>] = <<"up", 1, k - gate[1]>>
        BY <1>2, <1>5, <2>2, <3>1, <3>2
      <4> QED
        BY <4>2, <4>3
    <3>3. CASE ~(k > gate[1])
      <4>1. Unit(t, i, k)
        BY <1>3, <2>2, <3>1, <3>3 DEF Unit
      <4>2. m[<<t, i, k>>] = <<t, i, k>>
        BY <1>2, <1>5, <2>2, <3>3
      <4> QED
        BY <4>1, <4>2
    <3> QED
      BY <3>2, <3>3
  <2>3. CASE t # "up" /\ t # "gate"
    <3>1. Unit(t, i, k)
      BY <1>5, <2>3 DEF Unit, Elsewhere
    <3>2. m[<<t, i, k>>] = <<t, i, k>>
      BY <1>2, <1>5, <2>3
    <3> QED
      BY <3>1, <3>2
  <2> QED
    BY <2>1, <2>2, <2>3
<1>6. ASSUME NEW t, NEW i, NEW k, NEW u, NEW j, NEW l,
             Unit(t, i, k)', Unit(u, j, l)', m[<<t, i, k>>] = m[<<u, j, l>>]
      PROVE  t = u /\ i = j /\ k = l
  <2>1. \A r, p, q : Unit(r, p, q)' =>
          /\ r = "up" => p \in Nat \ {0}
          /\ r = "gate" => p = 1 /\ q \in Nat
    <3>1. ASSUME NEW p, NEW q, Unit("up", p, q)' PROVE p \in Nat \ {0}
      BY <1>3, <1>4, <3>1 DEF Unit
    <3>2. ASSUME NEW p, NEW q, Unit("gate", p, q)' PROVE p = 1 /\ q \in Nat
      BY <1>3, <3>2 DEF Unit
    <3> QED
      BY <3>1, <3>2
  <2>2. /\ t = "up" => i \in Nat \ {0}
        /\ t = "gate" => i = 1 /\ k \in Nat
        /\ u = "up" => j \in Nat \ {0}
        /\ u = "gate" => j = 1 /\ l \in Nat
    BY <1>6, <2>1
  <2>3. /\ (IF t = "gate" /\ k > gate[1] THEN "up" ELSE t)
             = (IF u = "gate" /\ l > gate[1] THEN "up" ELSE u)
        /\ (IF t = "up" THEN i + 1 ELSE i) = (IF u = "up" THEN j + 1 ELSE j)
        /\ (IF t = "gate" /\ k > gate[1] THEN k - gate[1] ELSE k)
             = (IF u = "gate" /\ l > gate[1] THEN l - gate[1] ELSE l)
    BY <1>2, <1>6
  <2> QED
    BY ONLY <1>3, <2>2, <2>3
<1> QED
  BY <1>5, <1>6, Moves

LEMMA DownRead ==
  ASSUME TInv, TInv', Bounded, UNCHANGED window, down[1] # <<>>, down'[1] = Tail(down[1]),
         UNCHANGED <<kind, gate, handler, pending, up>>, NEW s \in Streams,
         \/ unread' = unread
         \/ Gated(Head(down[1])) /\ unread' = [unread EXCEPT ![s] = @ + 1]
  PROVE  Bounded'
<1> DEFINE New(t, i, k) == t = "unread" /\ i = s /\ k = unread[s] + 1
           m == [x \in Owed' |->
                  <<IF New(x[1], x[2], x[3]) THEN "down" ELSE x[1],
                    IF New(x[1], x[2], x[3]) THEN 1 ELSE IF x[1] = "down" THEN x[2] + 1 ELSE x[2],
                    IF New(x[1], x[2], x[3]) THEN 1 ELSE x[3]>>]
<1>1. OwedIsUnits'
  BY OwedUnitsNext
<1>2. \A t, i, k : Unit(t, i, k)' =>
        m[<<t, i, k>>] = <<IF New(t, i, k) THEN "down" ELSE t,
                           IF New(t, i, k) THEN 1 ELSE IF t = "down" THEN i + 1 ELSE i,
                           IF New(t, i, k) THEN 1 ELSE k>>
  BY <1>1 DEF OwedIsUnits
<1> HIDE DEF m
<1>3. /\ unread \in [Streams -> Nat] /\ unread' \in [Streams -> Nat]
      /\ Head(down[1]) = down[1][1] /\ Len(down[1]) \in Nat \ {0}
      /\ DOMAIN down[1] = 1..Len(down[1]) /\ DOMAIN down'[1] = 1..Len(down[1])-1
      /\ \A i \in DOMAIN down'[1] : down'[1][i] = down[1][i+1]
  <2>1. down[1] \in Seq(DownFrames)
    BY FirstConn DEF TInv, FrameTypes
  <2>2. Head(down[1]) = down[1][1] /\ Len(down[1]) \in Nat \ {0}
    BY <2>1
  <2>3. unread \in [Streams -> Nat] /\ unread' \in [Streams -> Nat]
    BY DEF TInv, ClientTypes
  <2>4. /\ DOMAIN down[1] = 1..Len(down[1]) /\ DOMAIN down'[1] = 1..Len(down[1])-1
        /\ \A i \in DOMAIN down'[1] : down'[1][i] = down[1][i+1]
    BY <2>1, <2>2
  <2> QED
    BY <2>2, <2>3, <2>4
<1>4. ASSUME NEW t, NEW i, NEW k, Unit(t, i, k)'
      PROVE  \E u, j, l : m[<<t, i, k>>] = <<u, j, l>> /\ Unit(u, j, l)
  <2>1. CASE New(t, i, k)
    <3>1. k \in 1..unread'[s]
      BY <1>4, <2>1 DEF Unit
    <3>2. Gated(down[1][1])
      BY <1>3, <2>1, <3>1
    <3>3. Unit("down", 1, 1)
      BY <1>3, <3>2 DEF Unit
    <3>4. m[<<t, i, k>>] = <<"down", 1, 1>>
      BY <1>2, <1>4, <2>1
    <3> QED
      BY <3>3, <3>4
  <2>2. CASE t = "down"
    <3>1. i \in DOMAIN down'[1] /\ Gated(down[1][i])' /\ k = 1
      BY <1>4, <2>2 DEF Unit
    <3>2. i + 1 \in DOMAIN down[1] /\ Gated(down[1][i+1])
      BY <1>3, <3>1 DEF Gated
    <3>3. Unit("down", i + 1, k)
      BY <3>1, <3>2 DEF Unit
    <3>4. m[<<t, i, k>>] = <<"down", i + 1, k>>
      BY <1>2, <1>4, <2>2
    <3> QED
      BY <3>3, <3>4
  <2>3. CASE ~New(t, i, k) /\ t # "down"
    <3>1. Unit(t, i, k)
      <4>1. CASE t = "unread"
        <5>1. i \in Streams /\ k \in 1..unread'[i]
          BY <1>4, <4>1 DEF Unit
        <5>2. k \in 1..unread[i]
          BY <1>3, <2>3, <4>1, <5>1
        <5> QED
          BY <4>1, <5>1, <5>2 DEF Unit
      <4>2. CASE t # "unread"
        BY <1>4, <2>3, <4>2 DEF Unit
      <4> QED
        BY <4>1, <4>2
    <3>2. m[<<t, i, k>>] = <<t, i, k>>
      BY <1>2, <1>4, <2>3
    <3> QED
      BY <3>1, <3>2
  <2> QED
    BY <2>1, <2>2, <2>3
<1>5. ASSUME NEW t, NEW i, NEW k, NEW u, NEW j, NEW l,
             Unit(t, i, k)', Unit(u, j, l)', m[<<t, i, k>>] = m[<<u, j, l>>]
      PROVE  t = u /\ i = j /\ k = l
  <2>1. \A p, q : Unit("down", p, q)' => p \in Nat \ {0} /\ q = 1
    BY <1>3 DEF Unit
  <2>2. (t = "down" => i \in Nat \ {0} /\ k = 1) /\ (u = "down" => j \in Nat \ {0} /\ l = 1)
    BY <1>5, <2>1
  <2>3. /\ (IF New(t, i, k) THEN "down" ELSE t) = (IF New(u, j, l) THEN "down" ELSE u)
        /\ (IF New(t, i, k) THEN 1 ELSE IF t = "down" THEN i + 1 ELSE i)
             = (IF New(u, j, l) THEN 1 ELSE IF u = "down" THEN j + 1 ELSE j)
        /\ (IF New(t, i, k) THEN 1 ELSE k) = (IF New(u, j, l) THEN 1 ELSE l)
    BY <1>2, <1>5
  <2> QED
    BY ONLY <2>2, <2>3
<1> QED
  BY <1>4, <1>5, Moves

LEMMA TokenTaken ==
  ASSUME TInv, TInv', Bounded, UNCHANGED window, NEW s \in Streams, handler[s] # "sending",
         handler' = [handler EXCEPT ![s] = "sending"], gate[1] > 0, gate'[1] = gate[1] - 1,
         UNCHANGED <<kind, down, unread, pending, up>>
  PROVE  Bounded'
<1> DEFINE New(t, i) == t = "sending" /\ i = s
           m == [x \in Owed' |->
                  <<IF New(x[1], x[2]) THEN "gate" ELSE x[1],
                    IF New(x[1], x[2]) THEN 1 ELSE x[2],
                    IF New(x[1], x[2]) THEN gate[1] ELSE x[3]>>]
<1>1. OwedIsUnits'
  BY OwedUnitsNext
<1>2. \A t, i, k : Unit(t, i, k)' =>
        m[<<t, i, k>>] = <<IF New(t, i) THEN "gate" ELSE t, IF New(t, i) THEN 1 ELSE i,
                           IF New(t, i) THEN gate[1] ELSE k>>
  BY <1>1 DEF OwedIsUnits
<1> HIDE DEF m
<1>3. gate[1] \in Nat /\ handler' = [handler EXCEPT ![s] = "sending"] /\ DOMAIN handler = Streams
  BY FirstConn DEF TInv, HandlerTypes
<1>4. ASSUME NEW t, NEW i, NEW k, Unit(t, i, k)'
      PROVE  \E u, j, l : m[<<t, i, k>>] = <<u, j, l>> /\ Unit(u, j, l)
  <2>1. CASE New(t, i)
    <3>1. Unit("gate", 1, gate[1])
      BY <1>3 DEF Unit
    <3>2. m[<<t, i, k>>] = <<"gate", 1, gate[1]>>
      BY <1>2, <1>4, <2>1
    <3> QED
      BY <3>1, <3>2
  <2>2. CASE ~New(t, i)
    <3>1. Unit(t, i, k)
      <4>1. CASE t = "gate"
        BY <1>3, <1>4, <4>1 DEF Unit
      <4>2. CASE t # "gate"
        BY <1>3, <1>4, <2>2, <4>2 DEF Unit, Gated
      <4> QED
        BY <4>1, <4>2
    <3>2. m[<<t, i, k>>] = <<t, i, k>>
      BY <1>2, <1>4, <2>2
    <3> QED
      BY <3>1, <3>2
  <2> QED
    BY <2>1, <2>2
<1>5. ASSUME NEW t, NEW i, NEW k, NEW u, NEW j, NEW l,
             Unit(t, i, k)', Unit(u, j, l)', m[<<t, i, k>>] = m[<<u, j, l>>]
      PROVE  t = u /\ i = j /\ k = l
  <2>1. \A p, q : Unit("gate", p, q)' => q \in 1..gate[1]-1
    BY <1>3 DEF Unit
  <2>2. \A p, q : Unit("sending", p, q)' => q = 1
    BY DEF Unit
  <2>3. /\ (t = "gate" => k \in 1..gate[1]-1) /\ (u = "gate" => l \in 1..gate[1]-1)
        /\ (t = "sending" => k = 1) /\ (u = "sending" => l = 1)
    BY <1>5, <2>1, <2>2
  <2>4. /\ (IF New(t, i) THEN "gate" ELSE t) = (IF New(u, j) THEN "gate" ELSE u)
        /\ (IF New(t, i) THEN 1 ELSE i) = (IF New(u, j) THEN 1 ELSE j)
        /\ (IF New(t, i) THEN gate[1] ELSE k) = (IF New(u, j) THEN gate[1] ELSE l)
    BY <1>2, <1>5
  <2> QED
    BY ONLY <1>3, <2>3, <2>4
<1> QED
  BY <1>4, <1>5, Moves

LEMMA FrameSent ==
  ASSUME TInv, TInv', Bounded, UNCHANGED window, NEW s \in Streams, handler[s] = "sending",
         handler' = [handler EXCEPT ![s] = "running"], NEW f,
         down'[1] = down[1] \/ down'[1] = Append(down[1], f),
         UNCHANGED <<kind, gate, unread, pending, up>>
  PROVE  Bounded'
<1> DEFINE n == Len(down[1]) + 1
           New(t, i) == t = "down" /\ i = n
           m == [x \in Owed' |->
                  <<IF New(x[1], x[2]) THEN "sending" ELSE x[1],
                    IF New(x[1], x[2]) THEN s ELSE x[2], x[3]>>]
<1>1. OwedIsUnits'
  BY OwedUnitsNext
<1>2. \A t, i, k : Unit(t, i, k)' =>
        m[<<t, i, k>>] = <<IF New(t, i) THEN "sending" ELSE t, IF New(t, i) THEN s ELSE i, k>>
  BY <1>1 DEF OwedIsUnits
<1> HIDE DEF m
<1>3. /\ DOMAIN handler = Streams /\ Len(down[1]) \in Nat /\ DOMAIN down[1] = 1..Len(down[1])
      /\ DOMAIN down'[1] \subseteq 1..n
      /\ \A i \in DOMAIN down'[1] : i # n => i \in DOMAIN down[1] /\ down'[1][i] = down[1][i]
  <2>1. down[1] \in Seq(DownFrames)
    BY FirstConn DEF TInv, FrameTypes
  <2>2. DOMAIN handler = Streams
    BY DEF TInv, HandlerTypes
  <2> QED
    BY <2>1, <2>2
<1>4. ASSUME NEW t, NEW i, NEW k, Unit(t, i, k)'
      PROVE  \E u, j, l : m[<<t, i, k>>] = <<u, j, l>> /\ Unit(u, j, l)
  <2>1. CASE New(t, i)
    <3>1. k = 1
      BY <1>4, <2>1 DEF Unit
    <3>2. Unit("sending", s, k)
      BY <3>1 DEF Unit
    <3>3. m[<<t, i, k>>] = <<"sending", s, k>>
      BY <1>2, <1>4, <2>1
    <3> QED
      BY <3>2, <3>3
  <2>2. CASE ~New(t, i)
    <3>1. Unit(t, i, k)
      <4>1. CASE t = "down"
        BY <1>3, <1>4, <2>2, <4>1 DEF Unit, Gated
      <4>2. CASE t # "down"
        BY <1>3, <1>4, <4>2 DEF Unit
      <4> QED
        BY <4>1, <4>2
    <3>2. m[<<t, i, k>>] = <<t, i, k>>
      BY <1>2, <1>4, <2>2
    <3> QED
      BY <3>1, <3>2
  <2> QED
    BY <2>1, <2>2
<1>5. ASSUME NEW t, NEW i, NEW k, NEW u, NEW j, NEW l,
             Unit(t, i, k)', Unit(u, j, l)', m[<<t, i, k>>] = m[<<u, j, l>>]
      PROVE  t = u /\ i = j /\ k = l
  <2>1. \A p, q : Unit("sending", p, q)' => p # s
    BY <1>3 DEF Unit
  <2>2. (t = "sending" => i # s) /\ (u = "sending" => j # s)
    BY <1>5, <2>1
  <2>3. /\ (IF New(t, i) THEN "sending" ELSE t) = (IF New(u, j) THEN "sending" ELSE u)
        /\ (IF New(t, i) THEN s ELSE i) = (IF New(u, j) THEN s ELSE j)
        /\ k = l
    BY <1>2, <1>5
  <2> QED
    BY ONLY <2>2, <2>3
<1> QED
  BY <1>4, <1>5, Moves

LEMMA FrameRead ==
  ASSUME TInv, TInv', Bounded, UNCHANGED window, NEW s \in Streams, unread[s] > 0,
         unread' = [unread EXCEPT ![s] = @ - 1], NEW f, f.n = pending[s] + 1,
         \/ pending' = [pending EXCEPT ![s] = @ + 1] /\ up'[1] = up[1]
         \/ pending' = [pending EXCEPT ![s] = 0] /\ (up'[1] = up[1] \/ up'[1] = Append(up[1], f)),
         UNCHANGED <<kind, gate, handler, down>>
  PROVE  Bounded'
<1> DEFINE n == Len(up[1]) + 1
           Back(t, i) == t = "up" /\ i = n
           New(t, i, k) == ((t = "pending" /\ i = s) \/ Back(t, i)) /\ k = pending[s] + 1
           Place(t, i, k) == IF New(t, i, k) THEN "unread"
                             ELSE IF Back(t, i) THEN "pending" ELSE t
           Index(t, i, k) == IF New(t, i, k) \/ Back(t, i) THEN s ELSE i
           Count(t, i, k) == IF New(t, i, k) THEN unread[s] ELSE k
           m == [x \in Owed' |-> <<Place(x[1], x[2], x[3]), Index(x[1], x[2], x[3]),
                                   Count(x[1], x[2], x[3])>>]
<1>1. OwedIsUnits'
  BY OwedUnitsNext
<1>2. \A t, i, k : Unit(t, i, k)' =>
        m[<<t, i, k>>] = <<Place(t, i, k), Index(t, i, k), Count(t, i, k)>>
  BY <1>1 DEF OwedIsUnits
<1> HIDE DEF m
<1>3. /\ unread \in [Streams -> Nat] /\ pending \in [Streams -> Nat]
      /\ Len(up[1]) \in Nat /\ DOMAIN up[1] = 1..Len(up[1])
      /\ DOMAIN up'[1] \subseteq 1..n
      /\ \A i \in DOMAIN up'[1] : i # n => i \in DOMAIN up[1] /\ up'[1][i] = up[1][i]
      /\ n \in DOMAIN up'[1] => up'[1][n].n = pending[s] + 1 /\ pending'[s] = 0
  <2>1. up[1] \in Seq(UpFrames)
    BY FirstConn DEF TInv, FrameTypes
  <2>2. unread \in [Streams -> Nat] /\ pending \in [Streams -> Nat]
    BY DEF TInv, ClientTypes
  <2>3. /\ DOMAIN up'[1] \subseteq 1..n
        /\ \A i \in DOMAIN up'[1] : i # n => i \in DOMAIN up[1] /\ up'[1][i] = up[1][i]
        /\ n \in DOMAIN up'[1] => up'[1][n].n = pending[s] + 1 /\ pending'[s] = 0
    <3>1. CASE up'[1] = up[1]
      BY <2>1, <3>1
    <3>2. CASE up'[1] = Append(up[1], f) /\ pending'[s] = 0
      <4>1. /\ DOMAIN Append(up[1], f) = 1..n /\ Append(up[1], f)[n] = f
            /\ \A i \in 1..n : i # n => i \in DOMAIN up[1] /\ Append(up[1], f)[i] = up[1][i]
        BY <2>1
      <4> QED
        BY <3>2, <4>1
    <3> QED
      BY <2>2, <3>1, <3>2
  <2> QED
    BY <2>1, <2>2, <2>3
<1>4. \A k : k \in 1..pending'[s] => k \in 1..pending[s] + 1
  BY <1>3
<1>5. ASSUME NEW t, NEW i, NEW k, Unit(t, i, k)'
      PROVE  \E u, j, l : m[<<t, i, k>>] = <<u, j, l>> /\ Unit(u, j, l)
  <2>1. CASE New(t, i, k)
    <3>1. Unit("unread", s, unread[s])
      BY <1>3 DEF Unit
    <3>2. m[<<t, i, k>>] = <<"unread", s, unread[s]>>
      BY <1>2, <1>5, <2>1
    <3> QED
      BY <3>1, <3>2
  <2>2. CASE ~New(t, i, k) /\ Back(t, i)
    <3>1. n \in DOMAIN up'[1] /\ k \in 1..up'[1][n].n
      BY <1>5, <2>2 DEF Unit
    <3>2. k \in 1..pending[s]
      BY <1>3, <2>2, <3>1
    <3>3. Unit("pending", s, k)
      BY <3>2 DEF Unit
    <3>4. m[<<t, i, k>>] = <<"pending", s, k>>
      BY <1>2, <1>5, <2>2
    <3> QED
      BY <3>3, <3>4
  <2>3. CASE ~New(t, i, k) /\ ~Back(t, i)
    <3>1. Unit(t, i, k)
      <4>1. CASE t = "unread"
        BY <1>3, <1>5, <4>1 DEF Unit
      <4>2. CASE t = "pending"
        <5>1. i \in Streams /\ k \in 1..pending'[i]
          BY <1>5, <4>2 DEF Unit
        <5>2. CASE i = s
          <6>1. k \in 1..pending[s] + 1
            BY <1>4, <5>1, <5>2
          <6> QED
            BY <1>3, <2>3, <4>2, <5>2, <6>1 DEF Unit
        <5>3. CASE i # s
          BY <1>3, <4>2, <5>1, <5>3 DEF Unit
        <5> QED
          BY <5>2, <5>3
      <4>3. CASE t = "up"
        BY <1>3, <1>5, <2>3, <4>3 DEF Unit
      <4>4. CASE t \notin {"unread", "pending", "up"}
        BY <1>5, <4>4 DEF Unit, Gated
      <4> QED
        BY <4>1, <4>2, <4>3, <4>4
    <3>2. m[<<t, i, k>>] = <<t, i, k>>
      BY <1>2, <1>5, <2>3
    <3> QED
      BY <3>1, <3>2
  <2> QED
    BY <2>1, <2>2, <2>3
<1>6. ASSUME NEW t, NEW i, NEW k, NEW u, NEW j, NEW l,
             Unit(t, i, k)', Unit(u, j, l)', m[<<t, i, k>>] = m[<<u, j, l>>]
      PROVE  t = u /\ i = j /\ k = l
  <2>1. \A q : Unit("unread", s, q)' => q # unread[s]
    BY <1>3 DEF Unit
  <2>2. /\ \A p, q : Unit("up", p, q)' => (p = n => pending'[s] = 0)
        /\ \A q : Unit("pending", s, q)' => pending'[s] # 0
    BY <1>3 DEF Unit
  <2>3. Unit(t, i, k)' /\ Unit(u, j, l)'
    BY <1>6
  <2>4. Place(t, i, k) = Place(u, j, l) /\ Index(t, i, k) = Index(u, j, l)
        /\ Count(t, i, k) = Count(u, j, l)
    BY <1>2, <1>6
  <2>5. New(t, i, k) <=> New(u, j, l)
    BY ONLY <2>1, <2>3, <2>4
  <2>6. /\ Back(t, i) \/ Back(u, j) => pending'[s] = 0
        /\ (t = "pending" /\ i = s) \/ (u = "pending" /\ j = s) => pending'[s] # 0
    <3>1. Back(t, i) => pending'[s] = 0
      BY ONLY <2>2, <2>3
    <3>2. Back(u, j) => pending'[s] = 0
      BY ONLY <2>2, <2>3
    <3>3. t = "pending" /\ i = s => pending'[s] # 0
      BY ONLY <2>2, <2>3
    <3>4. u = "pending" /\ j = s => pending'[s] # 0
      BY ONLY <2>2, <2>3
    <3> QED
      BY ONLY <3>1, <3>2, <3>3, <3>4
  <2>7. CASE New(t, i, k)
    BY ONLY <2>5, <2>6, <2>7
  <2>8. CASE ~New(t, i, k)
    <3>1. /\ (IF Back(t, i) THEN "pending" ELSE t) = (IF Back(u, j) THEN "pending" ELSE u)
          /\ (IF Back(t, i) THEN s ELSE i) = (IF Back(u, j) THEN s ELSE j) /\ k = l
      BY ONLY <2>4, <2>5, <2>8
    <3>2. Back(t, i) <=> Back(u, j)
      BY ONLY <2>6, <3>1
    <3> QED
      BY ONLY <3>1, <3>2
  <2> QED
    BY <2>7, <2>8
<1> QED
  BY ONLY TInv, TInv', Bounded, UNCHANGED window, <1>5, <1>6, Moves

\* The rest of the steps add nothing.
LEMMA NothingAdded ==
  ASSUME TInv, TInv', Bounded, UNCHANGED window, Elsewhere, gate'[1] = gate[1],
         \A i, k : i \in DOMAIN up'[1] /\ k \in 1..up'[1][i].n
                     => i \in DOMAIN up[1] /\ k \in 1..up[1][i].n
  PROVE  Bounded'
<1>1. ASSUME NEW t, NEW i, NEW k, Unit(t, i, k)' PROVE Unit(t, i, k)
  <2>1. CASE t = "up"
    BY <1>1, <2>1 DEF Unit
  <2>2. CASE t # "up"
    BY <1>1, <2>2 DEF Unit, Elsewhere
  <2> QED
    BY <2>1, <2>2
<1>2. \A t, i, k : Unit(t, i, k)' => Unit(t, i, k)
  BY <1>1
<1> QED
  BY <1>2, Stays

Unsubscribed == \A s \in Streams : kind[s] # "subscription"
WInv == dead = 0 /\ Unsubscribed => Bounded

\* Before the first connection dies, with a window that is respected.
Living == TInv /\ Past /\ dead = 0 /\ Unsubscribed /\ Bounded

LEMMA InitBounded == Init => Bounded
<1> SUFFICES ASSUME Init PROVE Bounded
  OBVIOUS
<1>1. OwedIsUnits
  BY InitTypes, OwedUnits
<1>2. ASSUME NEW t, NEW i, NEW k, Unit(t, i, k) PROVE t = "gate" /\ i = 1 /\ k \in 1..window
  <2>1. gate[1] = window /\ up[1] = <<>> /\ down[1] = <<>>
    BY FirstConn DEF Init
  <2>2. \A s \in Streams : unread[s] = 0 /\ pending[s] = 0 /\ handler[s] = "none"
    BY DEF Init
  <2> QED
    BY <1>2, <2>1, <2>2 DEF Unit
<1> DEFINE f == [x \in Owed |-> x[3]]
<1>3. f \in Injection(Owed, 1..window)
  <2>1. \A x \in Owed : x = <<"gate", 1, x[3]>> /\ x[3] \in 1..window
    BY <1>1, <1>2 DEF OwedIsUnits
  <2> QED
    BY <2>1 DEF Injection, IsInjective
<1> HIDE DEF f
<1>4. IsFiniteSet(1..window) /\ Cardinality(1..window) = window
  BY InitTypes, WindowPositive, FS_Interval DEF TInv
<1> QED
  BY <1>3, <1>4, FS_Injection DEF Bounded

LEMMA SendUpAdds ==
  ASSUME TInv, NEW c \in Conns, NEW f, f.n = 0, SendUp(c, f)
  PROVE  \A i, k : i \in DOMAIN up'[1] /\ k \in 1..up'[1][i].n
                     => i \in DOMAIN up[1] /\ k \in 1..up[1][i].n
<1>1. up \in [Conns -> Seq(UpFrames)] /\ up[1] \in Seq(UpFrames)
  BY FirstConn DEF TInv, FrameTypes
<1>2. CASE up'[1] = up[1]
  BY <1>2
<1>3. CASE up'[1] = Append(up[1], f)
  <2>1. \A i \in DOMAIN Append(up[1], f) :
          \/ i \in DOMAIN up[1] /\ Append(up[1], f)[i] = up[1][i]
          \/ Append(up[1], f)[i] = f
    BY <1>1
  <2> QED
    BY <1>3, <2>1
<1> QED
  BY <1>1, <1>2, <1>3 DEF SendUp

\* A frame that takes no credit.
LEMMA SendDownAdds ==
  ASSUME TInv, UNCHANGED kind, NEW c \in Conns, NEW f, ~Gated(f),
         down' = down \/ down' = [down EXCEPT ![c] = Append(@, f)]
  PROVE  \A i : i \in DOMAIN down'[1] /\ Gated(down[1][i])'
                  => i \in DOMAIN down[1] /\ Gated(down[1][i])
<1>1. down \in [Conns -> Seq(DownFrames)] /\ down[1] \in Seq(DownFrames)
  BY FirstConn DEF TInv, FrameTypes
<1>2. CASE down'[1] = down[1]
  BY <1>2 DEF Gated
<1>3. CASE down'[1] = Append(down[1], f)
  <2>1. \A i \in DOMAIN Append(down[1], f) :
          \/ i \in DOMAIN down[1] /\ Append(down[1], f)[i] = down[1][i]
          \/ Append(down[1], f)[i] = f
    BY <1>1
  <2> QED
    BY <1>3, <2>1 DEF Gated
<1>4. down'[1] = down[1] \/ down'[1] = Append(down[1], f)
  <2>1. 1 \in Conns
    BY FirstConn
  <2>2. CASE down' = [down EXCEPT ![c] = Append(@, f)]
    BY <1>1, <2>1, <2>2
  <2> QED
    BY <2>2
<1> QED
  BY ONLY <1>2, <1>3, <1>4

\* Steps of the client that send no credit, and steps that move nothing.
LEMMA UpSent ==
  ASSUME Living, TInv', UNCHANGED window, NEW c \in Conns, NEW f, f.n = 0, SendUp(c, f) \/ UNCHANGED up,
         UNCHANGED <<kind, gate, unread, pending, handler, down>>
  PROVE  Bounded'
<1>1. Elsewhere
  BY DEF Elsewhere, Gated
<1>2. \A i, k : i \in DOMAIN up'[1] /\ k \in 1..up'[1][i].n
                  => i \in DOMAIN up[1] /\ k \in 1..up[1][i].n
  BY SendUpAdds DEF Living
<1> QED
  BY <1>1, <1>2, NothingAdded DEF Living

LEMMA NothingMoves ==
  ASSUME Living, TInv', UNCHANGED window, UNCHANGED <<kind, gate, unread, pending, handler, up, down>>
  PROVE  Bounded'
<1>1. Elsewhere
  BY DEF Elsewhere, Gated
<1> QED
  BY <1>1, NothingAdded DEF Living

LEMMA BreakBounded == ASSUME Living, TInv', UNCHANGED window, ConnBreaks PROVE Bounded'
<1> USE DEF ConnBreaks, load, pushVars, clientVars, handlerVars
<1>1. last = 1 /\ 1 \in Conns
  BY FirstConn DEF Living, Past
<1>2. PICK k \in 0..Len(up[1]) : up' = [up EXCEPT ![1] = SubSeq(@, 1, k)]
  BY <1>1
<1>3. PICK m \in 0..Len(down[1]) : down' = [down EXCEPT ![1] = SubSeq(@, 1, m)]
  BY <1>1
<1>4. up[1] \in Seq(UpFrames) /\ down[1] \in Seq(DownFrames)
  BY <1>1 DEF Living, TInv, FrameTypes
<1>5. up'[1] = SubSeq(up[1], 1, k) /\ down'[1] = SubSeq(down[1], 1, m)
  BY <1>1, <1>2, <1>3 DEF Living, TInv, FrameTypes
<1>6. /\ DOMAIN up'[1] \subseteq DOMAIN up[1] /\ \A i \in DOMAIN up'[1] : up'[1][i] = up[1][i]
      /\ DOMAIN down'[1] \subseteq DOMAIN down[1]
      /\ \A i \in DOMAIN down'[1] : down'[1][i] = down[1][i]
  BY <1>4, <1>5
<1>7. Elsewhere
  BY <1>6 DEF Elsewhere, Gated
<1> QED
  BY <1>6, <1>7, NothingAdded DEF Living

LEMMA ClientBounded ==
  ASSUME Living, TInv', UNCHANGED window, NEW s \in Streams, Client(s)
  PROVE  Bounded'
<1> USE DEF load, netVars, pushVars, callVars, sessionVars, flowVars, handlerVars
<1>0. \A type, n : Frame(type, s, n).n = n
  BY DEF Frame
<1>1. CASE Open(s)
  <2>1. current \in Conns
    BY StreamsAssumption DEF Living, TInv, NetTypes, Conns
  <2>2. UNCHANGED <<kind, gate, unread, pending, handler, down>>
    BY <1>1 DEF Open
  <2>3. \/ SendUp(current, Frame("REQUEST", s, 0)) \/ SendUp(current, Frame("SUBSCRIBE", s, 0))
        \/ UNCHANGED up
    BY <1>1 DEF Open
  <2> QED
    BY <1>0, <2>1, <2>2, <2>3, UpSent
<1>2. CASE Cancel(s) \/ CloseChannel(s) \/ CloseSubscription(s)
  BY <1>2, NothingMoves DEF Cancel, CloseChannel, CloseSubscription, StartEnding
<1>3. CASE SendEnding(s)
  <2>1. EndVia(s) \in Conns
    BY DEF EndVia, Living, TInv, ClientTypes
  <2>2. UNCHANGED <<kind, gate, unread, pending, handler, down>>
    BY <1>3 DEF SendEnding
  <2>3. SendUp(EndVia(s), Frame(ending[s], s, 0))
    BY <1>3 DEF SendEnding
  <2> QED
    BY <1>0, <2>1, <2>2, <2>3, UpSent
<1>4. CASE Read(s)
  <2> DEFINE f == Frame("CREDIT", s, pending[s] + 1)
  <2>1. f.n = pending[s] + 1
    BY DEF Frame
  <2>2. unread[s] > 0 /\ unread' = [unread EXCEPT ![s] = @ - 1] /\ Release(s)
        /\ UNCHANGED <<kind, gate, handler, down>>
    BY <1>4 DEF Read
  <2>3. cep[s] \in Conns /\ cep[s] <= 1 /\ cep[s] = 1
    BY FirstConn, StreamsAssumption DEF Living, Past, TInv, ClientTypes, Conns
  <2>4. SendUp(cep[s], f) => up'[1] = up[1] \/ up'[1] = Append(up[1], f)
    BY <2>3, FirstConn DEF SendUp, Living, TInv, FrameTypes
  <2> HIDE DEF f
  <2>5. \/ pending' = [pending EXCEPT ![s] = @ + 1] /\ up'[1] = up[1]
        \/ pending' = [pending EXCEPT ![s] = 0] /\ (up'[1] = up[1] \/ up'[1] = Append(up[1], f))
    BY <2>2, <2>4 DEF Release, f
  <2> QED
    BY <2>1, <2>2, <2>5, FrameRead DEF Living
<1> QED
  BY <1>1, <1>2, <1>3, <1>4 DEF Client

LEMMA ClientReadBounded ==
  ASSUME Living, TInv', UNCHANGED window, NEW c \in Conns, ClientRead(c)
  PROVE  Bounded'
<1> USE DEF load, netVars, pushVars, callVars, sessionVars, flowVars, handlerVars, clientVars
<1>1. c = 1
  <2>1. c <= current /\ current \in 1..last /\ last = 1 /\ c \in Nat \ {0}
    BY FirstConn DEF ClientRead, Living, Past, TInv, NetTypes, Conns
  <2> QED
    BY <2>1
<1>2. /\ down[c] # <<>> /\ down' = [down EXCEPT ![c] = Tail(@)]
      /\ UNCHANGED <<kind, up, gate, pending, handler>>
  BY DEF ClientRead, ClientData, ClientEnd, ClientAck, ClientCalled
<1>3. down'[1] = Tail(down[1]) /\ down[1] # <<>>
  BY <1>1, <1>2 DEF Living, TInv, FrameTypes
<1>4. Head(down[1]).stream \in Streams /\ Head(down[1]) \in DownFrames
  BY <1>1, <1>2, ReadDownKeeps DEF Living, TInv
<1> DEFINE s == Head(down[1]).stream
<1>5. \/ unread' = unread
      \/ Gated(Head(down[1])) /\ unread' = [unread EXCEPT ![s] = @ + 1]
  <2>1. CASE unread' = unread
    BY <2>1
  <2>2. CASE unread' # unread
    <3>1. ClientData(c)
      BY <2>2 DEF ClientRead, ClientEnd, ClientAck, ClientCalled
    <3>2. kind[s] # "request" /\ unread' = [unread EXCEPT ![s] = @ + 1]
      BY <1>1, <2>2, <3>1 DEF ClientData
    <3>3. Head(down[1]).type \in {"RESPONSE", "PUBLISH"}
      BY <1>1, <3>1 DEF ClientData
    <3>4. Head(down[1]).type # "PUBLISH"
      BY <1>4 DEF DownFrames, Living, Unsubscribed
    <3> QED
      BY <3>2, <3>3, <3>4 DEF Gated
  <2> QED
    BY <2>1, <2>2
<1> QED
  BY <1>2, <1>3, <1>4, <1>5, DownRead DEF Living

\* What SendDown does to the frames on their way.
LEMMA SendDownIs ==
  ASSUME Living, NEW s, NEW type, SendDown(s, type)
  PROVE  down' = down \/ down' = [down EXCEPT ![1] = Append(@, Frame(type, s, 0))]
  BY DEF SendDown, Living, Past

LEMMA FrameGated ==
  ASSUME NEW s, NEW type, Gated(Frame(type, s, 0))
  PROVE  type = "RESPONSE" /\ kind[s] # "request"
  BY DEF Gated, Frame

LEMMA ServerReadBounded ==
  ASSUME Living, TInv', UNCHANGED window, NEW c \in Conns, ServerRead(c)
  PROVE  Bounded'
<1> USE DEF load, netVars, pushVars, callVars, sessionVars, flowVars, handlerVars, clientVars
<1> DEFINE s == Head(up[c]).stream
<1>1. CASE Subscribe(c)
  BY <1>1, NothingMoves DEF Subscribe
<1>2. ASSUME ~Subscribe(c) PROVE Bounded'
  <2>1. PICK type : Arrives(c, type)
    BY <1>2 DEF ServerRead, Request, RequestRefused, FlowEnds, Credit, Subscribed, Unsubscribe,
                CallAnswered
  <2>2. c = 1
    <3>1. c <= last /\ last = 1 /\ c \in Nat \ {0}
      BY <2>1, ArrivesPast, StreamsAssumption DEF Living, Past, Conns
    <3> QED
      BY <3>1
  <2>3. up[1] # <<>> /\ up'[1] = Tail(up[1])
    BY <2>1, <2>2 DEF Arrives, Living, TInv, FrameTypes
  <2>4. UNCHANGED <<kind, unread, pending>>
    BY <1>2 DEF ServerRead, Request, RequestRefused, FlowEnds, Credit, Subscribed, Unsubscribe,
                CallAnswered
  <2>5. ASSUME NEW t \in Streams, handler'[t] = "sending" PROVE handler[t] = "sending"
    <3>1. handler' = handler \/ handler' = [handler EXCEPT ![s] = "running"]
      BY <1>2 DEF ServerRead, Request, RequestRefused, FlowEnds, Credit, Subscribed, Unsubscribe,
                  CallAnswered
    <3> QED
      BY <2>5, <3>1 DEF Living, TInv, HandlerTypes
  <2>6. \A i : i \in DOMAIN down'[1] /\ Gated(down[1][i])'
                  => i \in DOMAIN down[1] /\ Gated(down[1][i])
    <3>1. PICK what \in {"ERROR", "SUBACK"} : SendDown(s, what) \/ UNCHANGED down
      BY <1>2 DEF ServerRead, Request, RequestRefused, FlowEnds, Credit, Subscribed, Unsubscribe,
                  CallAnswered
    <3>2. ~Gated(Frame(what, s, 0))
      BY FrameGated
    <3>3. down' = down \/ down' = [down EXCEPT ![1] = Append(@, Frame(what, s, 0))]
      BY <3>1, SendDownIs
    <3> QED
      BY <2>4, <3>2, <3>3, SendDownAdds, FirstConn DEF Living
  <2>7. gate'[1] = gate[1] \/ gate'[1] = gate[1] + Head(up[1]).n
    <3>1. gate' = gate \/ gate' = [gate EXCEPT ![c] = @ + Head(up[c]).n]
      BY <1>2 DEF ServerRead, Request, RequestRefused, FlowEnds, Credit, Subscribed, Unsubscribe,
                  CallAnswered
    <3> QED
      BY <2>2, <3>1 DEF Living, TInv, HandlerTypes
  <2>8. Elsewhere
    BY <2>4, <2>5, <2>6 DEF Elsewhere
  <2> QED
    BY <2>3, <2>7, <2>8, UpRead DEF Living
<1> QED
  BY <1>1, <1>2

LEMMA HandlerBounded ==
  ASSUME Living, TInv', UNCHANGED window, NEW s \in Streams, Handler(s)
  PROVE  Bounded'
<1> USE DEF load, netVars, pushVars, callVars, sessionVars, flowVars, handlerVars, clientVars
<1>0. /\ via[s] = 1 /\ dead = 0
      /\ handler \in [Streams -> Running \cup {"none", "returned", "panicked"}]
  <2>1. via[s] \in Conns /\ via[s] <= 1
    BY DEF Living, Past, TInv, HandlerTypes
  <2>2. via[s] = 1
    BY <2>1, StreamsAssumption DEF Conns
  <2> QED
    BY <2>2 DEF Living, TInv, HandlerTypes
<1>1. ASSUME UNCHANGED <<kind, gate, unread, pending, up>>, NEW place, place # "sending",
             handler' = [handler EXCEPT ![s] = place],
             NEW f, ~Gated(f), down' = down \/ down' = [down EXCEPT ![1] = Append(@, f)]
      PROVE  Bounded'
  <2>1. \A t \in Streams : handler'[t] = "sending" => handler[t] = "sending"
    BY <1>0, <1>1
  <2>2. \A i : i \in DOMAIN down'[1] /\ Gated(down[1][i])'
                  => i \in DOMAIN down[1] /\ Gated(down[1][i])
    BY <1>1, SendDownAdds, FirstConn DEF Living
  <2>3. Elsewhere
    BY <1>1, <2>1, <2>2 DEF Elsewhere
  <2> QED
    BY <1>1, <2>3, NothingAdded DEF Living
<1>2. \A what : what # "RESPONSE" \/ kind[s] = "request" => ~Gated(Frame(what, s, 0))
  BY FrameGated
<1>3. CASE StartEmit(s)
  <2>1. /\ UNCHANGED <<kind, gate, unread, pending, up, down>>
        /\ handler' = [handler EXCEPT ![s] = "taking"]
    BY <1>3 DEF StartEmit
  <2> QED
    BY <1>1, <1>2, <2>1
<1>4. CASE TakeCredit(s)
  <2>1. UNCHANGED <<kind, unread, pending, up, down>> /\ handler[s] = "taking"
    BY <1>4 DEF TakeCredit
  <2>2. CASE handler' = [handler EXCEPT ![s] = "running"] /\ UNCHANGED gate
    BY <1>1, <1>2, <2>1, <2>2
  <2>3. CASE handler' = [handler EXCEPT ![s] = "sending"] /\ gate[1] > 0 /\ gate'[1] = gate[1] - 1
    BY <2>1, <2>3, TokenTaken DEF Living
  <2>4. \/ handler' = [handler EXCEPT ![s] = "running"] /\ UNCHANGED gate
        \/ /\ handler' = [handler EXCEPT ![s] = "sending"] /\ gate[1] > 0
           /\ gate' = [gate EXCEPT ![1] = @ - 1]
    BY <1>0, <1>4 DEF TakeCredit
  <2>5. gate' = [gate EXCEPT ![1] = @ - 1] => gate'[1] = gate[1] - 1
    BY FirstConn DEF Living, TInv, HandlerTypes
  <2> QED
    BY <2>2, <2>3, <2>4, <2>5
<1>5. CASE SendFrame(s)
  <2>1. /\ UNCHANGED <<kind, gate, unread, pending, up>> /\ handler[s] = "sending"
        /\ handler' = [handler EXCEPT ![s] = "running"] /\ SendDown(s, "RESPONSE")
    BY <1>5 DEF SendFrame
  <2>2. down'[1] = down[1] \/ down'[1] = Append(down[1], Frame("RESPONSE", s, 0))
    BY <2>1, SendDownIs, FirstConn DEF Living, TInv, FrameTypes
  <2> QED
    BY <2>1, <2>2, FrameSent DEF Living
<1>6. CASE Return(s) \/ Panic(s)
  <2>1. PICK place \in {"returned", "panicked"} : handler' = [handler EXCEPT ![s] = place]
    BY <1>6 DEF Return, Panic
  <2>2. UNCHANGED <<kind, gate, unread, pending, up>>
    BY <1>6 DEF Return, Panic
  <2>3. PICK what : /\ what # "RESPONSE" \/ kind[s] = "request"
                    /\ SendDown(s, what) \/ UNCHANGED down
    BY <1>6 DEF Return, Panic
  <2>4. down' = down \/ down' = [down EXCEPT ![1] = Append(@, Frame(what, s, 0))]
    BY <2>3, SendDownIs
  <2> QED
    BY <1>1, <1>2, <2>1, <2>2, <2>3, <2>4
<1> QED
  BY <1>3, <1>4, <1>5, <1>6 DEF Handler

LEMMA CallBounded ==
  ASSUME Living, TInv', UNCHANGED window, NEW s \in Streams, Call(s)
  PROVE  Bounded'
<1> USE DEF load, netVars, pushVars, callVars, sessionVars, flowVars, handlerVars, clientVars
<1>1. CASE StartCall(s) \/ RegisterCall(s)
  BY <1>1, NothingMoves DEF StartCall, RegisterCall
<1>2. CASE SendCall(s) \/ CallCtxEnds(s)
  <2>1. UNCHANGED <<kind, gate, unread, pending, handler, up>>
    BY <1>2 DEF SendCall, CallCtxEnds
  <2>2. PICK what \in {"REQUEST", "CANCEL"} :
          down' = down \/ down' = [down EXCEPT ![on[s]] = Append(@, Frame(what, s, 0))]
    BY <1>2 DEF SendCall, CallCtxEnds
  <2>3. on[s] \in Conns /\ ~Gated(Frame(what, s, 0))
    BY FrameGated DEF Living, TInv, CallTypes
  <2>4. \A i : i \in DOMAIN down'[1] /\ Gated(down[1][i])'
                  => i \in DOMAIN down[1] /\ Gated(down[1][i])
    BY <2>1, <2>2, <2>3, SendDownAdds DEF Living
  <2>5. Elsewhere
    BY <2>1, <2>4 DEF Elsewhere
  <2> QED
    BY <2>1, <2>5, NothingAdded DEF Living
<1>3. CASE AnswerCall(s)
  <2>1. UNCHANGED <<kind, gate, unread, pending, handler, down>>
    BY <1>3 DEF AnswerCall
  <2>2. PICK what : SendUp(on[s], Frame(what, s, 0))
    BY <1>3 DEF AnswerCall
  <2>3. on[s] \in Conns /\ Frame(what, s, 0).n = 0
    BY DEF Frame, Living, TInv, CallTypes
  <2> QED
    BY <2>1, <2>2, <2>3, UpSent
<1> QED
  BY <1>1, <1>2, <1>3 DEF Call

LEMMA SessionBounded ==
  ASSUME Living, TInv', UNCHANGED window, Session, dead' = 0
  PROVE  Bounded'
<1> USE DEF load, netVars, pushVars, callVars, flowVars, handlerVars, clientVars
<1>1. ~Bind
  BY DEF Bind, Living, Past
<1> QED
  BY <1>1, NothingMoves
  DEF Session, ServerNotices, Unbind, DecideToResume, BindFindsFlows, TimerFires, Drop, Terminate

\* Once it has died a connection stays dead.
LEMMA DeadStays == TInv /\ [Next]_vars => (dead' = 0 => dead = 0) /\ UNCHANGED kind
<1> SUFFICES ASSUME TInv, [Next]_vars PROVE (dead' = 0 => dead = 0) /\ UNCHANGED kind
  OBVIOUS
<1> USE DEF load, netVars, pushVars, callVars, sessionVars, flowVars, handlerVars, clientVars
<1>1. CASE Session
  <2>1. dead \in Nat /\ broken \in Nat /\ last \in Nat \ {0} /\ dead <= broken
    BY FirstConn, StreamsAssumption DEF TInv, NetTypes, Conns
  <2> QED
    BY <1>1, <2>1 DEF Session, ServerNotices, Unbind, DecideToResume, BindFindsFlows, Bind,
                      TimerFires, Drop, Terminate
<1>2. CASE UNCHANGED vars
  BY <1>2 DEF vars
<1>3. ASSUME NEW s \in Streams, Client(s) \/ Handler(s) \/ Call(s) \/ PublishTo(s)
      PROVE  UNCHANGED <<dead, kind>>
  BY <1>3 DEF Client, Open, Cancel, CloseChannel, CloseSubscription, StartEnding, SendEnding, Read,
    Handler, StartEmit, TakeCredit, SendFrame, Return, Panic, Call, StartCall, RegisterCall,
    SendCall, CallCtxEnds, AnswerCall, PublishTo
<1>4. ASSUME NEW c \in Conns, ClientRead(c) \/ ServerRead(c) PROVE UNCHANGED <<dead, kind>>
  BY <1>4 DEF ClientRead, ClientData, ClientEnd, ClientAck, ClientCalled, ServerRead, Request,
    RequestRefused, FlowEnds, Credit, Subscribe, Subscribed, Unsubscribe, CallAnswered
<1>5. CASE ConnBreaks \/ ClientBind \/ OnDead \/ Publish \/ PublishStops
  BY <1>5 DEF ConnBreaks, ClientBind, OnDead, Publish, PublishStops
<1> QED
  BY <1>1, <1>2, <1>3, <1>4, <1>5 DEF Next

LEMMA NextBounded == TInv /\ Past /\ WInv /\ [Next]_vars => WInv'
<1> SUFFICES ASSUME TInv, Past, WInv, [Next]_vars, dead' = 0, Unsubscribed' PROVE Bounded'
  BY DEF WInv
<1>1. TInv' /\ dead = 0 /\ UNCHANGED <<kind, window>>
  BY NextTypes, DeadStays, LoadStays DEF load
<1>2. Living
  BY <1>1 DEF Living, Unsubscribed, WInv
<1> USE DEF load, netVars, pushVars, callVars, sessionVars, flowVars, handlerVars, clientVars
<1>3. CASE ClientBind \/ OnDead \/ Publish \/ PublishStops
  BY <1>1, <1>2, <1>3, NothingMoves DEF ClientBind, OnDead, Publish, PublishStops
<1>4. CASE \E s \in Streams : PublishTo(s)
  BY <1>2, <1>4 DEF PublishTo, Living, Unsubscribed, TInv, HandlerTypes
<1>5. CASE UNCHANGED vars
  BY <1>1, <1>2, <1>5, NothingMoves DEF vars
<1> QED
  BY <1>1, <1>2, <1>3, <1>4, <1>5, BreakBounded, ClientBounded, ClientReadBounded,
     ServerReadBounded, HandlerBounded, CallBounded, SessionBounded DEF Next

\* protocol.md 7.9: until the connection dies, tokens, frames on their way, unread or not granted
\* back yet, and grants on their way are never more than the window (message.go:97, flow.go:283).
THEOREM WindowSafety == Spec => []WindowRespected
<1>1. Init => TInv /\ Past /\ WInv
  BY InitTypes, InitPast, InitBounded DEF WInv
<1>2. WInv => WindowRespected
  BY DEF WInv, Bounded, Unsubscribed, WindowRespected
<1> QED
  BY <1>1, <1>2, NextTypes, NextPast, NextBounded, PTL DEF Spec
=============================================================================
