-------------------------------- MODULE Flow --------------------------------
(***************************************************************************)
(* The inbound side of one stream (flow.go): what the peer sends on it is  *)
(* dispatched by the read loop (endpoint.handleFrame), waits in flow.frames *)
(* and is read by the application through ReadStream.Next, Channel.Receive *)
(* or the goroutine of a Subscription, until the flow is finished by       *)
(* either side.  When the client resumes its session the flow moves to the *)
(* endpoint of the new connection (bindSession), while the read loop of    *)
(* the old one may still have frames buffered.                             *)
(***************************************************************************)
EXTENDS Integers, Sequences

CONSTANTS
  MaxConns,    \* connections 1..MaxConns, each the resumption of the one before
  MaxFrames,   \* bound of the model: data frames the peer sends
  FrameCap,    \* flowChanBuffer (32 in the code)
  FlushAt,     \* endpoint.creditFlushAt; 0: credit is off
  Kinds        \* the readers to consider

ASSUME FlowAssumption ==
  /\ MaxConns \in Nat \ {0} /\ MaxFrames \in Nat
  /\ FrameCap \in Nat \ {0} /\ FlushAt \in Nat
  /\ Kinds \subseteq {"stream", "channel", "subscription"}

VARIABLES
  kind,       \* flow.kind
  live,       \* the connection the peer writes to
  inbound,    \* per connection: sent by the peer, not yet dispatched
  held,       \* per connection: the frame its read loop is delivering, or NoFrame
  sendq,      \* read loops blocked on the full flow.frames, in the order of arrival
  frames,     \* flow.frames
  done, err,  \* flow.done, and whether flow.err is set
  ep,         \* flow.ep
  table,      \* connections whose endpoint has the flow in its streams
  moving,     \* bindSession: not moving the flow, past isDone, past setEndpoint
  inflight, pending, \* flow.inflight, flow.pendingCredit
  granted,    \* sum of the CREDIT frames sent for the flow
  reader,     \* the application: outside, in the select, with a frame taken, told of the
              \* end, or told so by the ctx branch of Next
  took,       \* the frame taken
  got,        \* history: frames handed to the application
  sent,       \* history: data frames the peer has sent
  ended       \* history: the connection whose COMPLETE finished the flow, or 0

netVars == <<live, inbound, sent>>
endVars == <<done, err, ep, table, moving, ended>>
appVars == <<reader, took, got>>
vars == <<kind, netVars, held, sendq, frames, endVars, inflight, pending, granted, appVars>>

Conns   == 1..MaxConns
Item    == [type : {"DATA", "COMPLETE", "ERROR"}, n : 0..MaxFrames, conn : Conns]
Frame   == [type : {"DATA"}, n : 1..MaxFrames, conn : Conns]
NoFrame == [type |-> "DATA", n |-> 0, conn |-> 1]

Init ==
  /\ kind \in Kinds
  /\ live = 1 /\ ep = 1 /\ table = {1} /\ moving = "no"
  /\ inbound = [c \in Conns |-> <<>>] /\ held = [c \in Conns |-> NoFrame] /\ sendq = <<>>
  /\ frames = <<>> /\ done = FALSE /\ err = FALSE /\ ended = 0
  /\ inflight = 0 /\ pending = 0 /\ granted = 0
  /\ reader = "out" /\ took = NoFrame /\ got = <<>> /\ sent = 0

-----------------------------------------------------------------------------
(* The peer, and the connection *)

Arrives(item) == inbound' = [inbound EXCEPT ![live] = Append(@, item)]

PeerSends ==
  /\ sent < MaxFrames
  /\ sent' = sent + 1
  /\ Arrives([type |-> "DATA", n |-> sent + 1, conn |-> live])
  /\ UNCHANGED <<kind, live, held, sendq, frames, endVars, inflight, pending, granted, appVars>>

\* COMPLETE, or ERROR or CANCEL: the last frame of the stream
PeerEnds ==
  /\ sent < MaxFrames + 1
  /\ sent' = MaxFrames + 1
  /\ \E type \in {"COMPLETE", "ERROR"} : Arrives([type |-> type, n |-> 0, conn |-> live])
  /\ UNCHANGED <<kind, live, held, sendq, frames, endVars, inflight, pending, granted, appVars>>

\* The connection is lost with a suffix of what was in flight, and the next one is
\* established: bindSession finds the flow not done.
Resume ==
  /\ live < MaxConns /\ moving = "no" /\ ~done
  /\ \E k \in 0..Len(inbound[live]) :
       inbound' = [inbound EXCEPT ![live] = SubSeq(@, 1, k)]
  /\ live' = live + 1 /\ moving' = "checked"
  /\ UNCHANGED <<kind, held, sendq, frames, done, err, ep, table, inflight, pending, granted,
                 appVars, sent, ended>>

SetEndpoint ==
  /\ moving = "checked"
  /\ ep' = live /\ moving' = "set"
  /\ UNCHANGED <<kind, netVars, held, sendq, frames, done, err, table, inflight, pending,
                 granted, appVars, ended>>

\* registerFlow, then tr.start
RegisterFlow ==
  /\ moving = "set"
  /\ table' = table \cup {live} /\ moving' = "no"
  /\ UNCHANGED <<kind, netVars, held, sendq, frames, done, err, ep, inflight, pending,
                 granted, appVars, ended>>

-----------------------------------------------------------------------------
(* flow.finish: once; read loops blocked in deliver leave by doneCh *)

\* Mutation of Finish: doneCh stays open for a read loop that waits in deliver.
FinishLeavesWaiters(e) ==
  IF done THEN UNCHANGED <<done, err, table, sendq, held>>
  ELSE done' = TRUE /\ err' = e /\ table' = table \ {ep} /\ UNCHANGED <<sendq, held>>

\* Mutation of Finish: the error is set before done is looked at.
FinishOverwrites(e) ==
  /\ err' = e
  /\ IF done THEN UNCHANGED <<done, table, sendq, held>>
     ELSE done' = TRUE /\ table' = table \ {ep} /\ UNCHANGED <<sendq, held>>

\* doneCh and the table are changed in one step
Finish(e) ==
  IF done THEN UNCHANGED <<done, err, table, sendq, held>>
  ELSE /\ done' = TRUE /\ err' = e
       /\ table' = table \ {ep}
       /\ sendq' = <<>>
       /\ held' = [c \in Conns |-> IF \E i \in DOMAIN sendq : sendq[i] = c
                                   THEN NoFrame ELSE held[c]]

-----------------------------------------------------------------------------
(* The read loop: handleFrame *)

Idle(c) == held[c] = NoFrame /\ inbound[c] # <<>> /\ (c = live => moving = "no")

\* RESPONSE or PUBLISH: lookupFlow, creditIn; a frame of no flow is dropped
DispatchData(c) ==
  /\ Idle(c) /\ Head(inbound[c]).type = "DATA"
  /\ inbound' = [inbound EXCEPT ![c] = Tail(@)]
  /\ IF c \in table
     THEN /\ held' = [held EXCEPT ![c] = Head(inbound[c])]
          /\ inflight' = IF FlushAt > 0 THEN inflight + 1 ELSE inflight
     ELSE UNCHANGED <<held, inflight>>
  /\ UNCHANGED <<kind, live, sent, sendq, frames, endVars, pending, granted, appVars>>

\* COMPLETE, ERROR or CANCEL
DispatchEnd(c) ==
  LET item == Head(inbound[c])
  IN /\ Idle(c) /\ item.type # "DATA"
     /\ inbound' = [inbound EXCEPT ![c] = Tail(@)]
     /\ IF c \in table THEN Finish(item.type = "ERROR")
        ELSE UNCHANGED <<done, err, table, sendq, held>>
     /\ ended' = IF c \in table /\ ~done /\ item.type = "COMPLETE" THEN c ELSE ended
     /\ UNCHANGED <<kind, live, sent, frames, ep, moving, inflight, pending, granted, appVars>>

\* Mutation of Deliver: a frame that finds the buffer full is dropped.
DeliverOrDrop(c) ==
  /\ held[c] # NoFrame
  /\ frames' = IF Len(frames) < FrameCap THEN Append(frames, held[c]) ELSE frames
  /\ held' = [held EXCEPT ![c] = NoFrame]
  /\ UNCHANGED <<kind, netVars, sendq, endVars, inflight, pending, granted, appVars>>

\* Mutation of Deliver: a frame is put in and kept.
DeliverTwice(c) ==
  /\ held[c] # NoFrame /\ Len(frames) < FrameCap
  /\ frames' = Append(frames, held[c])
  /\ UNCHANGED <<kind, netVars, held, sendq, endVars, inflight, pending, granted, appVars>>

\* flow.deliver: the select of room in flow.frames and doneCh; with neither, wait in line
Deliver(c) ==
  /\ held[c] # NoFrame /\ \A i \in DOMAIN sendq : sendq[i] # c
  /\ \/ /\ Len(frames) < FrameCap
        /\ frames' = Append(frames, held[c])
        /\ held' = [held EXCEPT ![c] = NoFrame] /\ UNCHANGED sendq
     \/ /\ done
        /\ held' = [held EXCEPT ![c] = NoFrame] /\ UNCHANGED <<frames, sendq>>
     \/ /\ ~done /\ Len(frames) = FrameCap
        /\ sendq' = Append(sendq, c) /\ UNCHANGED <<frames, held>>
  /\ UNCHANGED <<kind, netVars, endVars, inflight, pending, granted, appVars>>

-----------------------------------------------------------------------------
(* The application *)

Call ==
  /\ reader = "out"
  /\ reader' = "select"
  /\ UNCHANGED <<kind, netVars, held, sendq, frames, endVars, inflight, pending, granted,
                 took, got>>

\* a receive from flow.frames; the first read loop in line puts its frame in
Pop ==
  /\ frames # <<>>
  /\ IF sendq = <<>>
     THEN frames' = Tail(frames) /\ UNCHANGED <<sendq, held>>
     ELSE /\ frames' = Append(Tail(frames), held[Head(sendq)])
          /\ held' = [held EXCEPT ![Head(sendq)] = NoFrame]
          /\ sendq' = Tail(sendq)

\* Mutation of Release: the half window is granted again and again.
ReleaseTwice ==
  IF FlushAt = 0 THEN UNCHANGED <<inflight, pending, granted>>
  ELSE /\ inflight' = IF inflight > 1 THEN inflight - 1 ELSE 0
       /\ pending' = pending + 1
       /\ granted' = IF pending + 1 >= FlushAt THEN granted + pending + 1 ELSE granted

\* flow.release(1)
Release ==
  IF FlushAt = 0 THEN UNCHANGED <<inflight, pending, granted>>
  ELSE /\ inflight' = IF inflight > 1 THEN inflight - 1 ELSE 0
       /\ IF pending + 1 >= FlushAt
          THEN granted' = granted + pending + 1 /\ pending' = 0
          ELSE pending' = pending + 1 /\ UNCHANGED granted

TakeFrame ==
  /\ reader = "select"
  /\ Pop /\ Release
  /\ reader' = "took" /\ took' = Head(frames)
  /\ UNCHANGED <<kind, netVars, endVars, got>>

\* Next and Receive look at the end of the flow once more; a Subscription does not
ReturnFrame ==
  /\ reader = "took"
  /\ IF kind # "subscription" /\ done /\ err
     THEN reader' = "end" /\ UNCHANGED got
     ELSE reader' = "out" /\ got' = Append(got, took)
  /\ took' = NoFrame
  /\ UNCHANGED <<kind, netVars, held, sendq, frames, endVars, inflight, pending, granted>>

\* Mutation of SeeDone: only a normal end is seen.
EndUnlessFailed ==
  /\ reader = "select" /\ done /\ ~err /\ frames = <<>>
  /\ reader' = "end"
  /\ UNCHANGED <<kind, netVars, held, sendq, frames, inflight, pending, granted, got, endVars,
                 took>>

\* Mutation of SeeDone: the end is reported although frames are left.
EndAtOnce ==
  /\ reader = "select" /\ done
  /\ reader' = "end"
  /\ UNCHANGED <<kind, netVars, held, sendq, frames, inflight, pending, granted, got, endVars,
                 took>>

\* the doneCh branch: an error ends at once, a normal end only after what is left
SeeDone ==
  /\ reader = "select" /\ done
  /\ IF (err /\ kind # "subscription") \/ frames = <<>>
     THEN /\ reader' = "end"
          /\ UNCHANGED <<held, sendq, frames, inflight, pending, granted, got>>
     ELSE /\ Pop /\ Release
          /\ reader' = "out" /\ got' = Append(got, Head(frames))
  /\ UNCHANGED <<kind, netVars, endVars, took>>

\* the ctx branch: Next cancels the stream and returns false, Receive only returns
CtxEnds ==
  /\ reader = "select" /\ kind # "subscription"
  /\ IF kind = "stream" THEN Finish(TRUE) /\ reader' = "gaveUp"
     ELSE reader' = "out" /\ UNCHANGED <<done, err, table, sendq, held>>
  /\ UNCHANGED <<kind, netVars, frames, ep, moving, ended, inflight, pending, granted, took, got>>

\* Cancel of a stream or channel, Close of a channel or subscription, or the failure
\* of the session (resumption refused, terminate); a ReadStream has no Close.  Close of
\* a channel, although called half-close, finishes the flow for the reader too.
LocalEnd ==
  /\ ~done
  /\ \E e \in BOOLEAN : (kind = "stream" => e) /\ Finish(e)
  /\ UNCHANGED <<kind, netVars, frames, ep, moving, ended, inflight, pending, granted, appVars>>

-----------------------------------------------------------------------------

ReadLoop(c) == DispatchData(c) \/ DispatchEnd(c) \/ Deliver(c)

Reader == Call \/ TakeFrame \/ ReturnFrame \/ SeeDone

Migration == SetEndpoint \/ RegisterFlow

Next ==
  \/ PeerSends \/ PeerEnds \/ Resume \/ Migration \/ Reader \/ CtxEnds \/ LocalEnd
  \/ \E c \in Conns : ReadLoop(c)

Spec == Init /\ [][Next]_vars

\* Read loops and bindSession run on, and the application keeps reading until the end.  A
\* select picks among its ready cases at random: a ctx does not win every time.
FairSpec ==
  /\ Spec
  /\ WF_vars(Migration) /\ WF_vars(Reader) /\ SF_vars(TakeFrame \/ SeeDone)
  /\ \A c \in Conns : WF_vars(ReadLoop(c))

-----------------------------------------------------------------------------

TypeOK ==
  /\ kind \in Kinds /\ live \in Conns /\ ep \in Conns /\ table \subseteq Conns
  /\ inbound \in [Conns -> Seq(Item)] /\ held \in [Conns -> Frame \cup {NoFrame}]
  /\ sendq \in Seq(Conns) /\ frames \in Seq(Frame)
  /\ done \in BOOLEAN /\ err \in BOOLEAN /\ (err => done) /\ (ended # 0 => done /\ ~err)
  /\ moving \in {"no", "checked", "set"}
  /\ inflight \in Nat /\ pending \in Nat /\ granted \in Nat
  /\ reader \in {"out", "select", "took", "end", "gaveUp"} /\ took \in Frame \cup {NoFrame}
  /\ got \in Seq(Frame) /\ sent \in Nat /\ ended \in Conns \cup {0}

\* What came through the flow, from the application back to the buffer, and then what the
\* read loop of connection c is delivering
Pipe == got \o (IF took = NoFrame THEN <<>> ELSE <<took>>) \o frames
Path(c) == Pipe \o (IF held[c] = NoFrame THEN <<>> ELSE <<held[c]>>)

\* In s a frame of connection c is the successor of the frame of c before it.
Unbroken(s, c) ==
  \A i, j \in DOMAIN s :
    /\ i < j /\ s[i].conn = c /\ s[j].conn = c
    /\ \A k \in (i + 1)..(j - 1) : s[k].conn # c
    => s[j].n = s[i].n + 1

\* Frames of one connection reach the application in the order of the peer and without
\* a hole, however delivery, reading and the move to a new connection interleave, and
\* though the buffer fills up and the read loop waits; until the flow is done.
NoHoleWhileOpen == ~done => \A c \in Conns : Unbroken(Path(c), c)

\* No frame is handed over twice, and of one connection never an older after a newer
\* one, done or not.
OrderPerConnection ==
  \A i, j \in DOMAIN got : i < j /\ got[i].conn = got[j].conn => got[i].n < got[j].n

\* The comment on Next: the end is reported only after the rest was drained.  If COMPLETE
\* finished the flow, a reader that has seen the end has every frame that was dispatched
\* before COMPLETE on that connection: none is left in the buffer, none went missing.
CompleteMeansAll ==
  reader = "end" /\ ended # 0 =>
    /\ \A i \in DOMAIN frames : frames[i].conn # ended
    /\ Unbroken(Path(ended), ended)

\* Every frame the application took is granted back once or waits for the next grant,
\* and less than a half window waits.
CreditAccounting ==
  FlushAt > 0 =>
    /\ granted + pending >= Len(got)
    /\ granted + pending <= Len(got) + 1
    /\ pending < FlushAt

\* What ends a flow reaches an application that goes on reading: the end that the peer
\* sent, a Cancel, a failure, the Close of a subscription.  The Close of a channel is not
\* meant to (it is the half-close of protocol.md 7.6), so nothing is asked of it here.
EndReachesReader ==
  done /\ (kind = "channel" => err \/ ended # 0) ~> reader \in {"end", "gaveUp"}

\* No read loop hangs in deliver while the application reads.
ReadLoopGoesOn == \A c \in Conns : held[c] # NoFrame ~> held[c] = NoFrame

=============================================================================
