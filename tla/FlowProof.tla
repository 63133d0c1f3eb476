------------------------------ MODULE FlowProof ------------------------------
(***************************************************************************)
(* Proofs about Flow, for any number of connections and frames, any buffer *)
(* and any credit window: type correctness, the order of the frames of a   *)
(* connection, that none goes missing while the flow is open or before its *)
(* COMPLETE, and the accounting of credit.                                 *)
(***************************************************************************)
EXTENDS Flow, SequenceTheorems, TLAPS

\* The blocked read loops hold a frame each, are told apart, and leave when the flow ends.
WaitersHoldFrames ==
  /\ \A i \in DOMAIN sendq : held[sendq[i]] # NoFrame
  /\ \A i, j \in DOMAIN sendq : sendq[i] = sendq[j] => i = j
  /\ done => sendq = <<>>

\* A frame is taken only between the receive and the return of Next.
TookWhileReading == took # NoFrame <=> reader = "took"

\* An open flow is in the table of every connection that it has moved to.
OpenIsRegistered ==
  ~done => \A c \in Conns : c < live \/ (c = live /\ moving = "no") => c \in table

\* What a connection carries is numbered up to sent, and the end is the last of it.
Carried(c) ==
  \A i \in DOMAIN inbound[c] :
    /\ inbound[c][i].conn = c /\ inbound[c][i].n <= sent
    /\ inbound[c][i].type = "DATA" <=> inbound[c][i].n > 0
    /\ inbound[c][i].type # "DATA" => i = Len(inbound[c]) /\ sent > MaxFrames

NotYetLive == \A c \in Conns : c > live => inbound[c] = <<>> /\ held[c] = NoFrame

\* COMPLETE was the last frame that its connection carried.
AfterComplete ==
  ended # 0 => /\ done /\ ~err /\ sent > MaxFrames
               /\ inbound[ended] = <<>> /\ held[ended] = NoFrame

ControlInv ==
  /\ WaitersHoldFrames
  /\ TookWhileReading
  /\ OpenIsRegistered
  /\ \A c \in Conns : Carried(c)
  /\ NotYetLive
  /\ AfterComplete

-----------------------------------------------------------------------------

Before(f, g) == f.conn = g.conn => f.n < g.n

\* p is in order; what a read loop delivers comes after it, what is inbound after both
Ordered(p, h, in) ==
  /\ \A i, j \in DOMAIN p : i < j => Before(p[i], p[j])
  /\ \A c \in Conns : h[c] # NoFrame =>
       /\ h[c].conn = c
       /\ \A i \in DOMAIN p : Before(p[i], h[c])
  /\ \A c \in Conns : \A k \in DOMAIN in[c] : in[c][k].type = "DATA" =>
       /\ in[c][k].conn = c
       /\ \A i \in DOMAIN p : Before(p[i], in[c][k])
       /\ h[c] # NoFrame => Before(h[c], in[c][k])
       /\ \A l \in DOMAIN in[c] : l < k => Before(in[c][l], in[c][k])

\* what is on the way was sent, on a connection there was
Sent(p, h) ==
  /\ \A i \in DOMAIN p : p[i].n <= sent /\ p[i].conn <= live
  /\ \A c \in Conns : h[c] # NoFrame => h[c].n <= sent

\* frame m of connection c is in p, in the hands of the read loop or inbound
OnTheWay(p, h, in, c, m) ==
  \/ \E i \in DOMAIN p : p[i].conn = c /\ p[i].n = m
  \/ h[c] # NoFrame /\ h[c].n = m
  \/ \E k \in DOMAIN in[c] : in[c][k].type = "DATA" /\ in[c][k].n = m

\* between two frames of c that are on the way every frame is
Gapless(p, h, in, c) ==
  \A a, b, m \in Nat :
    /\ OnTheWay(p, h, in, c, a) /\ OnTheWay(p, h, in, c, b) /\ a < m /\ m < b
    => OnTheWay(p, h, in, c, m)

\* the next frame the peer sends has its predecessor on the way, unless it is the first
UpToSent(p, h, in) ==
  ~done /\ sent <= MaxFrames =>
    \A a \in Nat : OnTheWay(p, h, in, live, a) => OnTheWay(p, h, in, live, sent)

OrderInv == Ordered(Pipe, held, inbound) /\ Sent(Pipe, held)

\* No frame goes missing on an open flow, nor before COMPLETE on its connection.
GapInv ==
  /\ \A c \in Conns : ~done \/ ended = c => Gapless(Pipe, held, inbound, c)
  /\ UpToSent(Pipe, held, inbound)

\* The reader has seen the end: nothing of the completed connection is left.
DrainedInv ==
  reader = "end" => done /\ (ended # 0 => \A i \in DOMAIN frames : frames[i].conn # ended)

\* Credit granted back or waiting is what was taken; a frame that was taken and then
\* withheld for an error was granted all the same.
CreditInv ==
  FlushAt > 0 =>
    /\ pending < FlushAt
    /\ granted + pending \in {Len(got), Len(got) + 1}
    /\ reader \in {"out", "select", "gaveUp"} => granted + pending = Len(got)
    /\ reader = "took" => granted + pending = Len(got) + 1

IInv ==
  /\ TypeOK /\ ControlInv /\ OrderInv /\ GapInv /\ DrainedInv /\ CreditInv

-----------------------------------------------------------------------------
(* Type correctness *)

\* A sequence without its first element.
LEMMA HeadAndTail ==
  ASSUME NEW S, NEW s \in Seq(S), s # <<>>
  PROVE  Head(s) \in S /\ Tail(s) \in Seq(S) /\ Head(s) = s[1] /\ 1 \in DOMAIN s
OBVIOUS

\* After finish the flow is done.
LEMMA FinishEnds == ASSUME TypeOK, NEW e \in BOOLEAN, Finish(e) PROVE done' = TRUE
<1>1. CASE done
    BY <1>1, Zenon DEF Finish, TypeOK
<1>2. CASE ~done
    BY <1>2, Zenon DEF Finish
<1>. QED
    BY <1>1, <1>2

\* finish lets the blocked read loops go, each without its frame.
LEMMA FinishTypes ==
  ASSUME TypeOK, NEW e \in BOOLEAN, Finish(e)
  PROVE  /\ done' /\ err' \in BOOLEAN /\ table' \subseteq Conns
         /\ sendq' \in Seq(Conns) /\ held' \in [Conns -> Frame \cup {NoFrame}]
         /\ \A c \in Conns : held'[c] \in {held[c], NoFrame}
         /\ done => UNCHANGED <<done, err, table, sendq, held>>
         /\ ~done => err' = e /\ sendq' = <<>>
         /\ ended # 0 => ~err'
<1>1. CASE done
    BY <1>1 DEF Finish, TypeOK
<1>2. CASE ~done
  <2>1. done' = TRUE /\ err' = e /\ sendq' = <<>> /\ table' = table \ {ep}
    BY <1>2, Zenon DEF Finish
  <2>2. held' = [c \in Conns |-> IF \E i \in DOMAIN sendq : sendq[i] = c THEN NoFrame ELSE held[c]]
    BY <1>2, Zenon DEF Finish
  <2>3. /\ held' \in [Conns -> Frame \cup {NoFrame}]
        /\ \A c \in Conns : held'[c] \in {held[c], NoFrame}
    BY <2>2 DEF TypeOK
  <2>4. <<>> \in Seq(Conns)
    OBVIOUS
  <2>5. table' \subseteq Conns /\ sendq' \in Seq(Conns)
    BY <2>1, <2>4 DEF TypeOK
  <2>6. err' \in BOOLEAN /\ done'
    BY <2>1
  <2>7. ended = 0
    BY <1>2 DEF TypeOK
  <2>. QED
    BY <1>2, <2>1, <2>3, <2>5, <2>6, <2>7, Zenon
<1>. QED
    BY <1>1, <1>2

\* A receive takes the first frame, and lets the first blocked read loop put its own in.
LEMMA PopTypes ==
  ASSUME TypeOK, WaitersHoldFrames, Pop
  PROVE  /\ frames # <<>> /\ Head(frames) \in Frame
         /\ frames' \in Seq(Frame) /\ sendq' \in Seq(Conns)
         /\ held' \in [Conns -> Frame \cup {NoFrame}]
<1>1. frames # <<>> /\ Head(frames) \in Frame /\ Tail(frames) \in Seq(Frame)
    BY HeadAndTail DEF Pop, TypeOK
<1>2. CASE sendq = <<>>
    BY <1>1, <1>2 DEF Pop, TypeOK
<1>3. CASE sendq # <<>>
  <2>1. Head(sendq) \in Conns /\ Tail(sendq) \in Seq(Conns) /\ held[Head(sendq)] # NoFrame
    BY <1>3, HeadAndTail DEF TypeOK, WaitersHoldFrames
  <2>2. held[Head(sendq)] \in Frame
    BY <2>1 DEF TypeOK
  <2>3. /\ frames' = Append(Tail(frames), held[Head(sendq)])
        /\ held' = [held EXCEPT ![Head(sendq)] = NoFrame] /\ sendq' = Tail(sendq)
    BY <1>3, Zenon DEF Pop
  <2>4. held' \in [Conns -> Frame \cup {NoFrame}]
    BY <2>1, <2>3 DEF TypeOK
  <2>. QED
    BY <1>1, <2>1, <2>2, <2>3, <2>4
<1>. QED
    BY <1>2, <1>3

\* Every step keeps the types: a frame that is dispatched has a number, for the peer sends
\* no others, and a blocked read loop has a frame to put in.
LEMMA TypesPreserved == ASSUME TypeOK, ControlInv, [Next]_vars PROVE TypeOK'
<1> USE FlowAssumption DEF netVars, endVars, appVars
<1>1. CASE PeerSends
  <2>1. live \in Conns /\ inbound[live] \in Seq(Item) /\ sent + 1 \in 0..MaxFrames
    BY <1>1 DEF PeerSends, TypeOK
  <2>2. [type |-> "DATA", n |-> sent + 1, conn |-> live] \in Item
    BY <2>1 DEF Item
  <2>3. inbound' \in [Conns -> Seq(Item)]
    BY <1>1, <2>1, <2>2 DEF PeerSends, Arrives, TypeOK
  <2>. QED
    BY <1>1, <2>3 DEF PeerSends, TypeOK
<1>2. CASE PeerEnds
  <2>1. PICK type \in {"COMPLETE", "ERROR"} : Arrives([type |-> type, n |-> 0, conn |-> live])
    BY <1>2 DEF PeerEnds
  <2>2. [type |-> type, n |-> 0, conn |-> live] \in Item
    BY DEF Item, TypeOK
  <2>3. inbound' \in [Conns -> Seq(Item)]
    BY <2>1, <2>2 DEF Arrives, TypeOK
  <2>. QED
    BY <1>2, <2>3 DEF PeerEnds, TypeOK
<1>3. CASE Resume
  <2>1. PICK k \in 0..Len(inbound[live]) :
          inbound' = [inbound EXCEPT ![live] = SubSeq(inbound[live], 1, k)]
    BY <1>3 DEF Resume
  <2>2. SubSeq(inbound[live], 1, k) \in Seq(Item)
    BY DEF TypeOK
  <2>3. inbound' \in [Conns -> Seq(Item)] /\ live' \in Conns
    BY <1>3, <2>1, <2>2 DEF TypeOK, Resume, Conns
  <2>. QED
    BY <1>3, <2>3 DEF Resume, TypeOK
<1>4. CASE Migration
    BY <1>4 DEF Migration, SetEndpoint, RegisterFlow, TypeOK
<1>5. CASE Call
    BY <1>5 DEF Call, TypeOK
<1>6. CASE TakeFrame
  <2>1. inflight' \in Nat /\ pending' \in Nat /\ granted' \in Nat
    BY <1>6 DEF TakeFrame, Release, TypeOK
  <2>2. /\ Head(frames) \in Frame /\ frames' \in Seq(Frame) /\ sendq' \in Seq(Conns)
        /\ held' \in [Conns -> Frame \cup {NoFrame}]
    BY <1>6, PopTypes DEF TakeFrame, ControlInv
  <2>. QED
    BY <1>6, <2>1, <2>2 DEF TakeFrame, TypeOK
<1>7. CASE ReturnFrame
  <2>1. took \in Frame
    BY <1>7 DEF ReturnFrame, ControlInv, TookWhileReading, TypeOK
  <2>2. got' \in Seq(Frame) /\ reader' \in {"end", "out"} /\ took' = NoFrame
    <3>1. Append(got, took) \in Seq(Frame)
      BY <2>1 DEF TypeOK
    <3>2. CASE kind # "subscription" /\ done /\ err
      BY <1>7, <3>2 DEF ReturnFrame, TypeOK
    <3>3. CASE ~(kind # "subscription" /\ done /\ err)
      BY <1>7, <3>1, <3>3 DEF ReturnFrame
    <3>. QED
      BY <3>2, <3>3
  <2>. QED
    BY <1>7, <2>2 DEF ReturnFrame, TypeOK
<1>8. CASE SeeDone
  <2>1. CASE (err /\ kind # "subscription") \/ frames = <<>>
    BY <1>8, <2>1 DEF SeeDone, TypeOK
  <2>2. CASE ~((err /\ kind # "subscription") \/ frames = <<>>)
    <3>1. Pop /\ Release /\ reader' = "out" /\ got' = Append(got, Head(frames))
      BY <1>8, <2>2 DEF SeeDone
    <3>2. inflight' \in Nat /\ pending' \in Nat /\ granted' \in Nat
      BY <3>1 DEF Release, TypeOK
    <3>3. /\ Head(frames) \in Frame /\ frames' \in Seq(Frame) /\ sendq' \in Seq(Conns)
          /\ held' \in [Conns -> Frame \cup {NoFrame}]
      BY <3>1, PopTypes DEF ControlInv
    <3>4. got' \in Seq(Frame)
      BY <3>1, <3>3 DEF TypeOK
    <3>. QED
      BY <1>8, <3>1, <3>2, <3>3, <3>4 DEF SeeDone, TypeOK
  <2>. QED
    BY <2>1, <2>2
<1>9. CASE CtxEnds
  <2>1. CASE kind = "stream"
    <3>1. Finish(TRUE)
      BY <1>9, <2>1 DEF CtxEnds
    <3>2. /\ done' = TRUE /\ err' \in BOOLEAN /\ table' \subseteq Conns
          /\ sendq' \in Seq(Conns) /\ held' \in [Conns -> Frame \cup {NoFrame}]
          /\ ended # 0 => ~err'
      BY <3>1, FinishTypes, FinishEnds
    <3>. QED
      BY <1>9, <2>1, <3>2 DEF CtxEnds, TypeOK
  <2>2. CASE kind # "stream"
    BY <1>9, <2>2 DEF CtxEnds, TypeOK
  <2>. QED
    BY <2>1, <2>2
<1>10. CASE LocalEnd
  <2>1. PICK e \in BOOLEAN : Finish(e)
    BY <1>10 DEF LocalEnd
  <2>2. /\ done' = TRUE /\ err' \in BOOLEAN /\ table' \subseteq Conns
        /\ sendq' \in Seq(Conns) /\ held' \in [Conns -> Frame \cup {NoFrame}]
        /\ ended # 0 => ~err'
    BY <2>1, FinishTypes, FinishEnds
  <2>. QED
    BY <1>10, <2>2 DEF LocalEnd, TypeOK
<1>11. ASSUME NEW c \in Conns, DispatchData(c) PROVE TypeOK'
  <2>1. inbound[c] \in Seq(Item) /\ inbound[c] # <<>> /\ Carried(c)
    BY <1>11 DEF DispatchData, Idle, TypeOK, ControlInv
  <2>2. Head(inbound[c]) = inbound[c][1] /\ Head(inbound[c]) \in Item /\ 1 \in DOMAIN inbound[c]
        /\ Tail(inbound[c]) \in Seq(Item)
    BY <2>1, HeadAndTail
  <2>3. Head(inbound[c]).type = "DATA" /\ Head(inbound[c]).n > 0
    BY <1>11, <2>1, <2>2 DEF DispatchData, Carried
  <2>4. Head(inbound[c]) \in Frame
    BY <2>2, <2>3 DEF Item, Frame
  <2>5. inbound' \in [Conns -> Seq(Item)]
    BY <1>11, <2>2 DEF DispatchData, TypeOK
  <2>6. held' \in [Conns -> Frame \cup {NoFrame}] /\ inflight' \in Nat
    <3>1. CASE c \in table
      <4>1. held' = [held EXCEPT ![c] = Head(inbound[c])]
        BY <1>11, <3>1 DEF DispatchData
      <4>2. inflight' \in Nat
        BY <1>11, <3>1 DEF DispatchData, TypeOK
      <4>. QED
        BY <2>4, <4>1, <4>2 DEF TypeOK
    <3>2. CASE c \notin table
      BY <1>11, <3>2 DEF DispatchData, TypeOK
    <3>. QED
      BY <3>1, <3>2
  <2>. QED
    BY <1>11, <2>5, <2>6 DEF DispatchData, TypeOK
<1>12. ASSUME NEW c \in Conns, DispatchEnd(c) PROVE TypeOK'
  <2>1. inbound[c] \in Seq(Item) /\ inbound[c] # <<>>
    BY <1>12 DEF DispatchEnd, Idle, TypeOK
  <2>2. inbound' \in [Conns -> Seq(Item)]
    BY <1>12, <2>1, HeadAndTail DEF DispatchEnd, TypeOK
  <2>3. /\ done' \in BOOLEAN /\ err' \in BOOLEAN /\ table' \subseteq Conns
        /\ sendq' \in Seq(Conns) /\ held' \in [Conns -> Frame \cup {NoFrame}]
    <3>1. CASE c \in table
      <4>1. Finish(Head(inbound[c]).type = "ERROR")
        BY <1>12, <3>1 DEF DispatchEnd
      <4>2. (Head(inbound[c]).type = "ERROR") \in BOOLEAN
        OBVIOUS
      <4>. QED
        BY <4>1, <4>2, FinishTypes
    <3>2. CASE c \notin table
      BY <1>12, <3>2 DEF DispatchEnd, TypeOK
    <3>. QED
      BY <3>1, <3>2
  <2>4. ended' \in Conns \cup {0}
    BY <1>12 DEF DispatchEnd, TypeOK
  <2>5. (err' => done') /\ (ended' # 0 => done' /\ ~err')
    <3>1. CASE c \in table
      <4>1. PICK e \in BOOLEAN : e = (Head(inbound[c]).type = "ERROR") /\ Finish(e)
        BY <1>12, <3>1 DEF DispatchEnd
      <4>2. /\ done' = TRUE
            /\ ended # 0 => ~err'
            /\ ~done => err' = e
        BY <4>1, FinishTypes, FinishEnds
      <4>3. ended' = ended \/ (~done /\ Head(inbound[c]).type = "COMPLETE")
        BY <1>12, <3>1 DEF DispatchEnd
      <4>. QED
        BY <4>1, <4>2, <4>3
    <3>2. CASE c \notin table
      BY <1>12, <3>2 DEF DispatchEnd, TypeOK
    <3>. QED
      BY <3>1, <3>2
  <2>. QED
    BY <1>12, <2>2, <2>3, <2>4, <2>5 DEF DispatchEnd, TypeOK
<1>13. ASSUME NEW c \in Conns, Deliver(c) PROVE TypeOK'
  <2>1. held[c] \in Frame
    BY <1>13 DEF Deliver, TypeOK
  <2>2. /\ frames' \in Seq(Frame) /\ sendq' \in Seq(Conns)
        /\ held' \in [Conns -> Frame \cup {NoFrame}]
    <3>1. [held EXCEPT ![c] = NoFrame] \in [Conns -> Frame \cup {NoFrame}]
          /\ Append(frames, held[c]) \in Seq(Frame) /\ Append(sendq, c) \in Seq(Conns)
      BY <2>1 DEF TypeOK
    <3>2. /\ frames' \in {frames, Append(frames, held[c])} /\ sendq' \in {sendq, Append(sendq, c)}
          /\ held' \in {held, [held EXCEPT ![c] = NoFrame]}
      BY <1>13 DEF Deliver
    <3>. QED
      BY <3>1, <3>2 DEF TypeOK
  <2>. QED
    BY <1>13, <2>2 DEF Deliver, TypeOK
<1>14. CASE UNCHANGED vars
    BY <1>14 DEF vars, TypeOK
<1>. QED
    BY <1>1, <1>2, <1>3, <1>4, <1>5, <1>6, <1>7, <1>8, <1>9, <1>10, <1>11, <1>12, <1>13, <1>14
       DEF Next, Reader, ReadLoop

-----------------------------------------------------------------------------
(* Control *)

\* finish keeps what is known of the blocked read loops and of the table, and what it
\* leaves alone.
LEMMA FinishControl ==
  ASSUME TypeOK, WaitersHoldFrames, NEW e \in BOOLEAN, Finish(e)
  PROVE  /\ WaitersHoldFrames'
         /\ \A c \in Conns : held[c] = NoFrame => held'[c] = NoFrame
         /\ done'
<1>1. /\ done' /\ \A c \in Conns : held'[c] \in {held[c], NoFrame}
      /\ done => UNCHANGED <<sendq, held>>
      /\ ~done => sendq' = <<>>
    BY FinishTypes
<1>2. CASE done
    BY <1>1, <1>2 DEF WaitersHoldFrames
<1>3. CASE ~done
    BY <1>1, <1>3 DEF WaitersHoldFrames
<1>. QED
    BY <1>1, <1>2, <1>3

\* A receive keeps what is known of the blocked read loops: the first leaves with its frame.
LEMMA PopControl ==
  ASSUME TypeOK, WaitersHoldFrames, Pop, UNCHANGED done
  PROVE  WaitersHoldFrames' /\ \A c \in Conns : held[c] = NoFrame => held'[c] = NoFrame
<1>1. CASE sendq = <<>>
    BY <1>1 DEF Pop, WaitersHoldFrames
<1>2. CASE sendq # <<>>
  <2>1. held' = [held EXCEPT ![Head(sendq)] = NoFrame] /\ sendq' = Tail(sendq)
    BY <1>2, Zenon DEF Pop
  <2>2. /\ sendq \in Seq(Conns) /\ Head(sendq) = sendq[1] /\ 1 \in DOMAIN sendq
        /\ \A i \in DOMAIN Tail(sendq) : i + 1 \in DOMAIN sendq /\ Tail(sendq)[i] = sendq[i + 1]
                                          /\ i + 1 # 1 /\ i \in Nat
    BY <1>2 DEF TypeOK
  <2>3. \A i \in DOMAIN Tail(sendq) : held'[Tail(sendq)[i]] = held[sendq[i + 1]]
    BY <2>1, <2>2 DEF TypeOK, WaitersHoldFrames
  <2>4. ~done
    BY <1>2 DEF WaitersHoldFrames
  <2>5. \A i \in DOMAIN sendq' : held'[sendq'[i]] # NoFrame
    BY <2>1, <2>2, <2>3 DEF WaitersHoldFrames
  <2>6. \A i, j \in DOMAIN sendq' : sendq'[i] = sendq'[j] => i = j
    <3>1. SUFFICES ASSUME NEW i \in DOMAIN Tail(sendq), NEW j \in DOMAIN Tail(sendq),
                          Tail(sendq)[i] = Tail(sendq)[j]
                   PROVE  i = j
      BY <2>1
    <3>2. i + 1 = j + 1
      BY <2>2, <3>1 DEF WaitersHoldFrames
    <3>. QED
      BY <2>2, <3>2
  <2>7. \A c \in Conns : held[c] = NoFrame => held'[c] = NoFrame
    BY <2>1 DEF TypeOK
  <2>. QED
    BY <2>4, <2>5, <2>6, <2>7 DEF WaitersHoldFrames
<1>. QED
    BY <1>1, <1>2

\* What a connection carries stays numbered up to sent and ended by its last frame when
\* the peer sends one more.
LEMMA CarriedSends ==
  ASSUME TypeOK, NEW it \in Item, inbound' = [inbound EXCEPT ![live] = Append(@, it)],
         sent' \in Nat, sent <= MaxFrames, sent' > sent,
         it.conn = live, it.n <= sent', it.type = "DATA" <=> it.n > 0,
         it.type # "DATA" => sent' > MaxFrames,
         \A c \in Conns : Carried(c)
  PROVE  \A c \in Conns : Carried(c)'
<1> SUFFICES ASSUME NEW c \in Conns PROVE Carried(c)'
    OBVIOUS
<1> USE FlowAssumption
<1>1. \A i \in DOMAIN inbound[c] : inbound[c][i].n \in 0..MaxFrames
  <2>1. inbound[c] \in Seq(Item)
    BY DEF TypeOK
  <2>2. \A i \in DOMAIN inbound[c] : inbound[c][i] \in Item
    BY <2>1
  <2>. QED
    BY <2>2 DEF Item
<1>2. CASE c # live
    BY <1>1, <1>2 DEF Carried, TypeOK
<1>3. CASE c = live
  <2>1. inbound[c] \in Seq(Item) /\ inbound'[c] = Append(inbound[c], it)
    BY <1>3 DEF TypeOK
  <2>2. /\ Len(inbound'[c]) = Len(inbound[c]) + 1
        /\ \A i \in DOMAIN inbound'[c] : \/ i \in DOMAIN inbound[c] /\ inbound'[c][i] = inbound[c][i]
                                         \/ i = Len(inbound[c]) + 1 /\ inbound'[c][i] = it
    BY <2>1
  <2>3. \A i \in DOMAIN inbound[c] : inbound[c][i].type = "DATA"
    BY FlowAssumption DEF Carried, TypeOK
  <2>. QED
    BY <1>1, <1>3, <2>2, <2>3 DEF Carried, TypeOK
<1>. QED
    BY <1>2, <1>3

\* The same when the read loop takes the first.
LEMMA CarriedTail ==
  ASSUME TypeOK, NEW d \in Conns, inbound[d] # <<>>, UNCHANGED sent,
         inbound' = [inbound EXCEPT ![d] = Tail(@)], \A c \in Conns : Carried(c)
  PROVE  /\ \A c \in Conns : Carried(c)'
         /\ \A c \in Conns : inbound[c] = <<>> => inbound'[c] = <<>>
<1>1. /\ inbound[d] \in Seq(Item) /\ inbound'[d] = Tail(inbound[d])
      /\ Len(Tail(inbound[d])) = Len(inbound[d]) - 1
      /\ \A i \in DOMAIN Tail(inbound[d]) : i + 1 \in DOMAIN inbound[d]
                                            /\ Tail(inbound[d])[i] = inbound[d][i + 1]
    BY DEF TypeOK
<1>2. Carried(d)'
    BY <1>1 DEF Carried
<1>3. \A c \in Conns : c # d => inbound'[c] = inbound[c]
    BY DEF TypeOK
<1>. QED
    BY <1>2, <1>3 DEF Carried

\* The same when a suffix is lost with the connection.
LEMMA CarriedPrefix ==
  ASSUME TypeOK, NEW d \in Conns, NEW k \in 0..Len(inbound[d]), UNCHANGED sent,
         inbound' = [inbound EXCEPT ![d] = SubSeq(@, 1, k)], \A c \in Conns : Carried(c)
  PROVE  /\ \A c \in Conns : Carried(c)'
         /\ \A c \in Conns : inbound[c] = <<>> => inbound'[c] = <<>>
<1>1. /\ inbound[d] \in Seq(Item) /\ inbound'[d] = SubSeq(inbound[d], 1, k)
      /\ Len(inbound'[d]) = k
      /\ \A i \in DOMAIN inbound'[d] : i \in DOMAIN inbound[d] /\ i <= k
                                       /\ inbound'[d][i] = inbound[d][i]
    BY DEF TypeOK
<1>2. Carried(d)'
    BY <1>1 DEF Carried
<1>3. \A c \in Conns : c # d => inbound'[c] = inbound[c]
    BY DEF TypeOK
<1>4. inbound[d] = <<>> => inbound'[d] = <<>>
    BY <1>1
<1>. QED
    BY <1>2, <1>3, <1>4 DEF Carried

\* Every step keeps the control invariant.
LEMMA ControlPreserved == ASSUME TypeOK, ControlInv, [Next]_vars PROVE ControlInv'
<1> USE FlowAssumption DEF netVars, endVars, appVars, ControlInv
<1>t. TypeOK'
    BY TypesPreserved
<1>s. sent \in Nat /\ live \in Conns /\ live \in Nat /\ \A c \in Conns : c \in Nat /\ c # 0
    BY DEF TypeOK, Conns
<1>1. CASE PeerSends
  <2>1. [type |-> "DATA", n |-> sent + 1, conn |-> live] \in Item
    BY <1>1, <1>s DEF PeerSends, Item
  <2>2. \A c \in Conns : Carried(c)'
    <3> DEFINE it == [type |-> "DATA", n |-> sent + 1, conn |-> live]
    <3>1. /\ it \in Item /\ it.conn = live /\ it.n = sent + 1 /\ it.type = "DATA"
          /\ inbound' = [inbound EXCEPT ![live] = Append(@, it)]
      BY <1>1, <2>1 DEF PeerSends, Arrives
    <3>2. sent' = sent + 1 /\ sent < MaxFrames
      BY <1>1 DEF PeerSends
    <3>3. /\ sent' \in Nat /\ sent <= MaxFrames /\ sent' > sent /\ it.n <= sent'
          /\ it.type = "DATA" <=> it.n > 0
          /\ it.type # "DATA" => sent' > MaxFrames
      BY <1>s, <3>1, <3>2
    <3> HIDE DEF it
    <3>. QED
      BY <3>1, <3>3, CarriedSends
  <2>3. NotYetLive' /\ AfterComplete'
    BY <1>1, <1>s DEF PeerSends, Arrives, NotYetLive, AfterComplete, TypeOK
  <2>. QED
    BY <1>1, <2>2, <2>3 DEF PeerSends, WaitersHoldFrames, TookWhileReading, OpenIsRegistered
<1>2. CASE PeerEnds
  <2>1. PICK type \in {"COMPLETE", "ERROR"} : Arrives([type |-> type, n |-> 0, conn |-> live])
    BY <1>2 DEF PeerEnds
  <2>2. [type |-> type, n |-> 0, conn |-> live] \in Item
    BY <1>s DEF Item
  <2>3. sent <= MaxFrames /\ sent' = MaxFrames + 1
    BY <1>2, <1>s DEF PeerEnds
  <2>4. \A c \in Conns : Carried(c)'
    <3> DEFINE it == [type |-> type, n |-> 0, conn |-> live]
    <3>1. /\ it \in Item /\ it.conn = live /\ it.n = 0 /\ it.type # "DATA"
          /\ inbound' = [inbound EXCEPT ![live] = Append(@, it)]
      BY <2>1, <2>2 DEF Arrives
    <3>2. /\ sent' \in Nat /\ sent <= MaxFrames /\ sent' > sent /\ it.n <= sent'
          /\ it.type = "DATA" <=> it.n > 0
          /\ it.type # "DATA" => sent' > MaxFrames
      BY <1>s, <2>3, <3>1
    <3> HIDE DEF it
    <3>. QED
      BY <3>1, <3>2, CarriedSends
  <2>5. NotYetLive' /\ AfterComplete'
    BY <1>2, <1>s, <2>1, <2>3 DEF PeerEnds, Arrives, NotYetLive, AfterComplete, TypeOK
  <2>. QED
    BY <1>2, <2>4, <2>5 DEF PeerEnds, WaitersHoldFrames, TookWhileReading, OpenIsRegistered
<1>3. CASE Resume
  <2>1. PICK k \in 0..Len(inbound[live]) :
          inbound' = [inbound EXCEPT ![live] = SubSeq(@, 1, k)]
    BY <1>3 DEF Resume
  <2>2. /\ \A c \in Conns : Carried(c)'
        /\ \A c \in Conns : inbound[c] = <<>> => inbound'[c] = <<>>
    BY <1>3, <1>s, <2>1, CarriedPrefix DEF Resume
  <2>3. OpenIsRegistered'
    BY <1>3, <1>s DEF Resume, OpenIsRegistered
  <2>4. NotYetLive'
    BY <1>3, <1>s, <2>2 DEF Resume, NotYetLive
  <2>5. AfterComplete'
    BY <1>3, <2>2 DEF Resume, AfterComplete
  <2>. QED
    BY <1>3, <2>2, <2>3, <2>4, <2>5 DEF Resume, WaitersHoldFrames, TookWhileReading
<1>4. CASE Migration
    BY <1>4, <1>s DEF Migration, SetEndpoint, RegisterFlow, WaitersHoldFrames, TookWhileReading,
        OpenIsRegistered, Carried, NotYetLive, AfterComplete
<1>5. CASE Call
    BY <1>5 DEF Call, WaitersHoldFrames, TookWhileReading, OpenIsRegistered, Carried, NotYetLive,
        AfterComplete
<1>6. ASSUME Pop, UNCHANGED <<kind, netVars, endVars>>, TookWhileReading' PROVE ControlInv'
  <2>1. WaitersHoldFrames' /\ \A c \in Conns : held[c] = NoFrame => held'[c] = NoFrame
    BY <1>6, PopControl
  <2>. QED
    BY <1>6, <2>1 DEF OpenIsRegistered, Carried, NotYetLive, AfterComplete, TypeOK
<1>7. CASE TakeFrame
  <2>1. Head(frames) \in Frame
    BY <1>7, PopTypes DEF TakeFrame
  <2>2. Head(frames) # NoFrame
    BY <2>1 DEF Frame, NoFrame
  <2>. QED
    BY <1>6, <1>7, <2>2 DEF TakeFrame, TookWhileReading
<1>8. CASE ReturnFrame
    BY <1>8 DEF ReturnFrame, WaitersHoldFrames, TookWhileReading, OpenIsRegistered, Carried,
        NotYetLive, AfterComplete
<1>9. CASE SeeDone
  <2>1. TookWhileReading'
    BY <1>9 DEF SeeDone, TookWhileReading
  <2>2. CASE (err /\ kind # "subscription") \/ frames = <<>>
    BY <1>9, <2>1, <2>2 DEF SeeDone, WaitersHoldFrames, OpenIsRegistered, Carried, NotYetLive,
        AfterComplete
  <2>3. CASE ~((err /\ kind # "subscription") \/ frames = <<>>)
    BY <1>6, <1>9, <2>1, <2>3 DEF SeeDone
  <2>. QED
    BY <2>2, <2>3
<1>10. ASSUME NEW e \in BOOLEAN, Finish(e), UNCHANGED <<kind, netVars, ep, moving, ended>>,
              TookWhileReading'
       PROVE  ControlInv'
  <2>1. WaitersHoldFrames' /\ done' /\ \A c \in Conns : held[c] = NoFrame => held'[c] = NoFrame
    BY <1>10, FinishControl
  <2>2. done => UNCHANGED err
    BY <1>10, FinishTypes
  <2>3. AfterComplete'
    BY <1>10, <2>1, <2>2 DEF AfterComplete, TypeOK
  <2>4. NotYetLive'
    BY <1>10, <2>1 DEF NotYetLive
  <2>. QED
    BY <1>10, <2>1, <2>3, <2>4 DEF OpenIsRegistered, Carried
<1>11. CASE CtxEnds
  <2>1. TookWhileReading'
    BY <1>11 DEF CtxEnds, TookWhileReading
  <2>2. CASE kind = "stream"
    BY <1>10, <1>11, <2>1, <2>2 DEF CtxEnds
  <2>3. CASE kind # "stream"
    BY <1>11, <2>1, <2>3 DEF CtxEnds, WaitersHoldFrames, OpenIsRegistered, Carried, NotYetLive,
        AfterComplete
  <2>. QED
    BY <2>2, <2>3
<1>12. CASE LocalEnd
    BY <1>10, <1>12 DEF LocalEnd, TookWhileReading
<1>13. ASSUME NEW c \in Conns, DispatchData(c) PROVE ControlInv'
  <2>1. /\ inbound[c] # <<>> /\ held[c] = NoFrame /\ UNCHANGED <<sent, live, moving, done, table, sendq>>
        /\ inbound' = [inbound EXCEPT ![c] = Tail(@)]
        /\ held' = [held EXCEPT ![c] = held'[c]]
    BY <1>13 DEF DispatchData, Idle, TypeOK
  <2>2. /\ \A d \in Conns : Carried(d)'
        /\ \A d \in Conns : inbound[d] = <<>> => inbound'[d] = <<>>
    BY <2>1, CarriedTail
  <2>3. \A d \in Conns : d # c => held'[d] = held[d]
    BY <2>1 DEF TypeOK
  <2>4. WaitersHoldFrames'
    BY <2>1, <2>3 DEF WaitersHoldFrames, TypeOK
  <2>5. NotYetLive'
    BY <2>1, <2>2, <2>3 DEF NotYetLive
  <2>6. AfterComplete'
    BY <1>13, <2>1, <2>2, <2>3 DEF AfterComplete, DispatchData, TypeOK
  <2>. QED
    BY <1>13, <2>2, <2>4, <2>5, <2>6 DEF DispatchData, TookWhileReading, OpenIsRegistered
<1>14. ASSUME NEW c \in Conns, DispatchEnd(c) PROVE ControlInv'
  <2>1. /\ inbound[c] # <<>> /\ held[c] = NoFrame /\ UNCHANGED <<sent, live, moving>>
        /\ inbound' = [inbound EXCEPT ![c] = Tail(@)]
    BY <1>14 DEF DispatchEnd, Idle
  <2>2. /\ \A d \in Conns : Carried(d)'
        /\ \A d \in Conns : inbound[d] = <<>> => inbound'[d] = <<>>
    BY <2>1, CarriedTail
  <2>3. TookWhileReading'
    BY <1>14 DEF DispatchEnd, TookWhileReading
  <2>4. CASE c \in table
    <3>1. Finish(Head(inbound[c]).type = "ERROR")
      BY <1>14, <2>4 DEF DispatchEnd
    <3>2. (Head(inbound[c]).type = "ERROR") \in BOOLEAN
      OBVIOUS
    <3>3. WaitersHoldFrames' /\ done' /\ \A d \in Conns : held[d] = NoFrame => held'[d] = NoFrame
      BY <3>1, <3>2, FinishControl
    <3>4. /\ done => UNCHANGED err
          /\ ~done => err' = (Head(inbound[c]).type = "ERROR")
      BY <3>1, <3>2, FinishTypes
    <3>5. /\ Len(inbound[c]) = 1 /\ sent > MaxFrames /\ Tail(inbound[c]) = <<>>
      <4>1. inbound[c] \in Seq(Item) /\ Head(inbound[c]) = inbound[c][1] /\ 1 \in DOMAIN inbound[c]
        BY <2>1 DEF TypeOK
      <4>2. Len(inbound[c]) = 1 /\ sent > MaxFrames
        <5>1. inbound[c][1].type # "DATA" /\ Carried(c)
          BY <1>14, <4>1 DEF DispatchEnd
        <5>. QED
          BY <4>1, <5>1 DEF Carried
      <4>3. Tail(inbound[c]) \in Seq(Item) /\ Len(Tail(inbound[c])) = 0
        BY <4>1, <4>2
      <4>. QED
        BY <4>2, <4>3, EmptySeq
    <3>6. CASE ~done /\ Head(inbound[c]).type = "COMPLETE"
      <4>1. ended' = c /\ ~err' /\ inbound'[c] = <<>>
        BY <1>14, <2>1, <2>4, <3>4, <3>5, <3>6 DEF DispatchEnd, TypeOK
      <4>. QED
        BY <2>1, <2>2, <2>3, <3>3, <3>5, <4>1 DEF OpenIsRegistered, NotYetLive, AfterComplete
    <3>7. CASE ~(~done /\ Head(inbound[c]).type = "COMPLETE")
      <4>1. ended' = ended
        BY <1>14, <3>7 DEF DispatchEnd
      <4>2. AfterComplete'
        BY <2>1, <2>2, <3>3, <3>4, <4>1 DEF AfterComplete, TypeOK
      <4>. QED
        BY <2>1, <2>2, <2>3, <3>3, <4>2 DEF OpenIsRegistered, NotYetLive
    <3>. QED
      BY <3>6, <3>7
  <2>5. CASE c \notin table
    <3>1. UNCHANGED <<done, err, table, sendq, held, ended>>
      BY <1>14, <2>5 DEF DispatchEnd
    <3>. QED
      BY <2>1, <2>2, <2>3, <3>1 DEF WaitersHoldFrames, OpenIsRegistered, NotYetLive, AfterComplete,
          TypeOK
  <2>. QED
    BY <2>4, <2>5
<1>15. ASSUME NEW c \in Conns, Deliver(c) PROVE ControlInv'
  <2>1. /\ held[c] # NoFrame /\ \A i \in DOMAIN sendq : sendq[i] # c
        /\ UNCHANGED <<kind, netVars, endVars, appVars>>
    BY <1>15 DEF Deliver
  <2>2. \/ held' = [held EXCEPT ![c] = NoFrame] /\ UNCHANGED sendq
        \/ ~done /\ sendq' = Append(sendq, c) /\ UNCHANGED held
    BY <1>15 DEF Deliver
  <2>3. \A d \in Conns : held[d] = NoFrame => held'[d] = NoFrame
    BY <2>2 DEF TypeOK
  <2>4. WaitersHoldFrames'
    <3>1. CASE held' = [held EXCEPT ![c] = NoFrame] /\ UNCHANGED sendq
      BY <2>1, <3>1 DEF WaitersHoldFrames, TypeOK
    <3>2. CASE ~done /\ sendq' = Append(sendq, c) /\ UNCHANGED held
      <4>1. \A i \in DOMAIN sendq' : \/ i \in DOMAIN sendq /\ sendq'[i] = sendq[i]
                                     \/ i = Len(sendq) + 1 /\ sendq'[i] = c
        BY <3>2 DEF TypeOK
      <4>. QED
        BY <2>1, <3>2, <4>1 DEF WaitersHoldFrames
    <3>. QED
      BY <2>2, <3>1, <3>2
  <2>. QED
    BY <2>1, <2>3, <2>4 DEF TookWhileReading, OpenIsRegistered, Carried, NotYetLive, AfterComplete,
        TypeOK
<1>16. CASE UNCHANGED vars
    BY <1>16 DEF vars, WaitersHoldFrames, TookWhileReading, OpenIsRegistered, Carried, NotYetLive,
        AfterComplete
<1>. QED
    BY <1>1, <1>2, <1>3, <1>4, <1>5, <1>7, <1>8, <1>9, <1>11, <1>12, <1>13, <1>14, <1>15, <1>16
       DEF Next, Reader, ReadLoop

-----------------------------------------------------------------------------
(* What the steps do to the pipe: nothing, or a frame more at its end, but for the frame *)
(* that Next withholds *)

\* An element may be appended before or after the concatenation.
LEMMA AppendToConcat ==
  ASSUME NEW S, NEW s \in Seq(S), NEW t \in Seq(S), NEW e \in S
  PROVE  s \o Append(t, e) = Append(s \o t, e)
<1>1. s \o Append(t, e) = s \o (t \o <<e>>)
    BY AppendIsConcat
<1>2. <<e>> \in Seq(S) /\ s \o t \in Seq(S)
    BY ConcatProperties
<1>3. s \o (t \o <<e>>) = (s \o t) \o <<e>>
    BY <1>2, ConcatAssociative
<1>. QED
    BY <1>1, <1>2, <1>3, AppendIsConcat

\* The first of the second sequence may go to the end of the first.
LEMMA HeadMoves ==
  ASSUME NEW S, NEW s \in Seq(S), NEW t \in Seq(S), t # <<>>
  PROVE  Append(s, Head(t)) \o Tail(t) = s \o t
<1>1. Head(t) \in S /\ Tail(t) \in Seq(S)
    OBVIOUS
<1>2. <<Head(t)>> \in Seq(S) /\ Append(s, Head(t)) = s \o <<Head(t)>>
    BY <1>1, AppendIsConcat
<1>3. t = <<Head(t)>> \o Tail(t)
  <2>1. <<Head(t)>> \o Tail(t) \in Seq(S) /\ Len(<<Head(t)>> \o Tail(t)) = Len(t)
    BY <1>1, <1>2
  <2>2. \A i \in 1..Len(t) : (<<Head(t)>> \o Tail(t))[i] = t[i]
    BY <1>1, <1>2
  <2>. QED
    BY <2>1, <2>2, SeqEqual
<1>4. s \o (<<Head(t)>> \o Tail(t)) = (s \o <<Head(t)>>) \o Tail(t)
    BY <1>1, <1>2, ConcatAssociative
<1>. QED
    BY <1>2, <1>3, <1>4

\* The pipe with and without a frame in the hands of Next.
LEMMA PipeParts ==
  ASSUME NEW g \in Seq(Frame), NEW t \in Frame \cup {NoFrame}, NEW f \in Seq(Frame)
  PROVE  LET p == g \o (IF t = NoFrame THEN <<>> ELSE <<t>>) \o f
         IN  /\ p \in Seq(Frame)
             /\ t = NoFrame => p = g \o f
             /\ t # NoFrame => t \in Frame /\ p = Append(g, t) \o f
<1>1. CASE t = NoFrame
    BY <1>1, ConcatEmptySeq, ConcatProperties
<1>2. CASE t # NoFrame
  <2>1. t \in Frame /\ <<t>> \in Seq(Frame) /\ g \o <<t>> = Append(g, t) /\ Append(g, t) \in Seq(Frame)
    BY <1>2, AppendIsConcat
  <2>2. Append(g, t) \o f \in Seq(Frame)
    BY <2>1, ConcatProperties
  <2>. QED
    BY <1>2, <2>1, <2>2
<1>. QED
    BY <1>1, <1>2

\* The same of this state and of the next.
LEMMA PipeIs ==
  ASSUME TypeOK
  PROVE  /\ Pipe \in Seq(Frame)
         /\ took = NoFrame => Pipe = got \o frames
         /\ took # NoFrame => took \in Frame /\ Pipe = Append(got, took) \o frames
BY PipeParts DEF TypeOK, Pipe

\* After a step the pipe is made of the primed parts in the same way.
LEMMA PipeWillBe ==
  ASSUME TypeOK'
  PROVE  /\ Pipe' \in Seq(Frame)
         /\ took' = NoFrame => Pipe' = got' \o frames'
         /\ took' # NoFrame => took' \in Frame /\ Pipe' = Append(got', took') \o frames'
BY PipeParts DEF TypeOK, Pipe

\* The read loop of c hands its frame over: it is at the end of the pipe.
HandsOver(c) ==
  held[c] # NoFrame /\ Pipe' = Append(Pipe, held[c]) /\ held' = [held EXCEPT ![c] = NoFrame]

\* A receive moves the boundary between the buffer and the application; the frame of a
\* blocked read loop comes in behind.
LEMMA PopPipe ==
  ASSUME TypeOK, TypeOK', WaitersHoldFrames, Pop, took = NoFrame,
         \/ took' = Head(frames) /\ UNCHANGED got
         \/ took' = NoFrame /\ got' = Append(got, Head(frames))
  PROVE  (Pipe' = Pipe /\ UNCHANGED held) \/ \E c \in Conns : HandsOver(c)
<1>1. /\ frames # <<>> /\ Head(frames) \in Frame /\ Head(frames) # NoFrame
      /\ Tail(frames) \in Seq(Frame) /\ frames \in Seq(Frame) /\ got \in Seq(Frame)
  <2>1. frames # <<>> /\ Head(frames) \in Frame
    BY PopTypes
  <2>. QED
    <3>1. frames \in Seq(Frame) /\ got \in Seq(Frame)
      BY DEF TypeOK
    <3>2. Tail(frames) \in Seq(Frame)
      BY <2>1, <3>1, HeadTailProperties
    <3>3. Head(frames) # NoFrame
      BY <2>1 DEF Frame, NoFrame
    <3>. QED
      BY <2>1, <3>1, <3>2, <3>3
<1>2. Append(got, Head(frames)) \in Seq(Frame)
    BY <1>1, AppendProperties
<1>3. Pipe' = Append(got, Head(frames)) \o frames'
    BY <1>1, PipeWillBe
<1>4. Append(got, Head(frames)) \o Tail(frames) = Pipe
    BY <1>1, HeadMoves, PipeIs
<1>5. CASE sendq = <<>>
    BY <1>3, <1>4, <1>5 DEF Pop
<1>6. CASE sendq # <<>>
  <2>1. Head(sendq) \in Conns /\ held[Head(sendq)] # NoFrame
    BY <1>6, HeadAndTail DEF TypeOK, WaitersHoldFrames
  <2>2. held[Head(sendq)] \in Frame
    BY <2>1 DEF TypeOK
  <2>3. /\ frames' = Append(Tail(frames), held[Head(sendq)])
        /\ held' = [held EXCEPT ![Head(sendq)] = NoFrame]
    BY <1>6, Zenon DEF Pop
  <2>4. Pipe' = Append(Pipe, held[Head(sendq)])
    <3>1. Append(got, Head(frames)) \o Append(Tail(frames), held[Head(sendq)])
            = Append(Append(got, Head(frames)) \o Tail(frames), held[Head(sendq)])
      BY <1>1, <1>2, <2>2, AppendToConcat
    <3>. QED
      BY <1>3, <1>4, <2>3, <3>1
  <2>. QED
    BY <2>1, <2>3, <2>4 DEF HandsOver
<1>. QED
    BY <1>5, <1>6

-----------------------------------------------------------------------------
(* Order and what is on the way, for any pipe, hands and inbound frames *)

\* A handover keeps the order and what is on the way.
LEMMA HandOverKeeps ==
  ASSUME NEW p \in Seq(Frame), NEW h \in [Conns -> Frame \cup {NoFrame}],
         NEW in \in [Conns -> Seq(Item)], NEW c \in Conns, h[c] # NoFrame, Ordered(p, h, in)
  PROVE  LET q == Append(p, h[c])
             g == [h EXCEPT ![c] = NoFrame]
         IN  /\ Ordered(q, g, in)
             /\ \A d \in Conns, m \in Nat : OnTheWay(q, g, in, d, m) <=> OnTheWay(p, h, in, d, m)
<1> DEFINE q == Append(p, h[c])
           g == [h EXCEPT ![c] = NoFrame]
<1>1. h[c] \in Frame /\ h[c].conn = c
    BY DEF Ordered
<1>2. /\ q \in Seq(Frame) /\ Len(q) = Len(p) + 1 /\ Len(p) \in Nat
      /\ DOMAIN q = 1..(Len(p) + 1) /\ DOMAIN p = 1..Len(p)
      /\ \A i \in DOMAIN p : q[i] = p[i]
      /\ q[Len(p) + 1] = h[c]
      /\ \A i \in DOMAIN q : i \in DOMAIN p \/ i = Len(p) + 1
      /\ \A i \in DOMAIN p : i \in DOMAIN q /\ i < Len(p) + 1 /\ i \in Nat
      /\ Len(p) + 1 \in DOMAIN q
    BY <1>1
<1>3. g[c] = NoFrame /\ \A d \in Conns : d # c => g[d] = h[d]
    OBVIOUS
<1> HIDE DEF q, g
<1>4. \A i, j \in DOMAIN q : i < j => Before(q[i], q[j])
  <2>1. SUFFICES ASSUME NEW i \in DOMAIN q, NEW j \in DOMAIN q, i < j PROVE Before(q[i], q[j])
    OBVIOUS
  <2>2. i \in DOMAIN p
    BY <1>2, <2>1
  <2>3. CASE j \in DOMAIN p
    BY <1>2, <2>1, <2>2, <2>3 DEF Ordered
  <2>4. CASE j = Len(p) + 1
    BY <1>2, <2>2, <2>4 DEF Ordered
  <2>. QED
    BY <1>2, <2>3, <2>4
<1>5. \A d \in Conns : g[d] # NoFrame => g[d].conn = d /\ \A i \in DOMAIN q : Before(q[i], g[d])
  <2>1. SUFFICES ASSUME NEW d \in Conns, g[d] # NoFrame, NEW i \in DOMAIN q
                 PROVE  g[d].conn = d /\ Before(q[i], g[d])
    BY <1>2
  <2>2. d # c /\ g[d] = h[d] /\ h[d].conn = d
    BY <1>3, <2>1 DEF Ordered
  <2>3. CASE i \in DOMAIN p
    BY <1>2, <2>1, <2>2, <2>3 DEF Ordered
  <2>4. CASE i \notin DOMAIN p
    BY <1>1, <1>2, <2>2, <2>4 DEF Before
  <2>. QED
    BY <2>3, <2>4
<1>6. \A d \in Conns : \A k \in DOMAIN in[d] : in[d][k].type = "DATA" =>
        /\ in[d][k].conn = d
        /\ \A i \in DOMAIN q : Before(q[i], in[d][k])
        /\ g[d] # NoFrame => Before(g[d], in[d][k])
        /\ \A l \in DOMAIN in[d] : l < k => Before(in[d][l], in[d][k])
  <2>1. SUFFICES ASSUME NEW d \in Conns, NEW k \in DOMAIN in[d], in[d][k].type = "DATA"
                 PROVE  \A i \in DOMAIN q : Before(q[i], in[d][k])
    BY <1>3 DEF Ordered
  <2>2. \A i \in DOMAIN p : Before(q[i], in[d][k])
    BY <1>2, <2>1 DEF Ordered
  <2>3. Before(h[c], in[d][k])
    <3>1. CASE d = c
      BY <2>1, <3>1 DEF Ordered
    <3>2. CASE d # c
      BY <1>1, <2>1, <3>2 DEF Before, Ordered
    <3>. QED
      BY <3>1, <3>2
  <2>. QED
    BY <1>2, <2>2, <2>3
<1>7. \A d \in Conns, m \in Nat : OnTheWay(q, g, in, d, m) <=> OnTheWay(p, h, in, d, m)
  <2>1. SUFFICES ASSUME NEW d \in Conns, NEW m \in Nat
                 PROVE  OnTheWay(q, g, in, d, m) <=> OnTheWay(p, h, in, d, m)
    OBVIOUS
  <2>2. (\E i \in DOMAIN q : q[i].conn = d /\ q[i].n = m)
          <=> (\E i \in DOMAIN p : p[i].conn = d /\ p[i].n = m) \/ (d = c /\ h[c].n = m)
    <3>1. ASSUME NEW i \in DOMAIN q, q[i].conn = d /\ q[i].n = m
          PROVE  (\E l \in DOMAIN p : p[l].conn = d /\ p[l].n = m) \/ (d = c /\ h[c].n = m)
      BY <1>1, <1>2, <3>1
    <3>2. ASSUME NEW i \in DOMAIN p, p[i].conn = d /\ p[i].n = m
          PROVE  \E l \in DOMAIN q : q[l].conn = d /\ q[l].n = m
      BY <1>2, <3>2
    <3>3. ASSUME d = c, h[c].n = m
          PROVE  \E l \in DOMAIN q : q[l].conn = d /\ q[l].n = m
      BY <1>1, <1>2, <3>3
    <3>. QED
      BY <3>1, <3>2, <3>3
  <2>. QED
    BY <1>3, <2>2 DEF OnTheWay
<1>. QED
    BY <1>4, <1>5, <1>6, <1>7 DEF Ordered, q, g

\* The read loop takes the first inbound frame into its hands: the order stays, and what is
\* on the way.
LEMMA TakeKeeps ==
  ASSUME NEW p \in Seq(Frame), NEW h \in [Conns -> Frame \cup {NoFrame}],
         NEW in \in [Conns -> Seq(Item)], NEW c \in Conns, h[c] = NoFrame, in[c] # <<>>,
         Head(in[c]).type = "DATA", Head(in[c]) \in Frame, Ordered(p, h, in)
  PROVE  LET g == [h EXCEPT ![c] = Head(in[c])]
             out == [in EXCEPT ![c] = Tail(in[c])]
         IN  /\ Ordered(p, g, out)
             /\ \A d \in Conns, m \in Nat : OnTheWay(p, g, out, d, m) <=> OnTheWay(p, h, in, d, m)
<1> DEFINE g == [h EXCEPT ![c] = Head(in[c])]
           out == [in EXCEPT ![c] = Tail(in[c])]
           first == in[c][1]
<1>1. /\ in[c] \in Seq(Item) /\ Head(in[c]) = first /\ 1 \in DOMAIN in[c]
      /\ \A k \in DOMAIN Tail(in[c]) : /\ k \in Nat /\ k + 1 \in DOMAIN in[c] /\ 1 < k + 1
                                       /\ Tail(in[c])[k] = in[c][k + 1]
      /\ \A k \in DOMAIN in[c] : k = 1 \/ (k - 1 \in DOMAIN Tail(in[c]) /\ k = (k - 1) + 1)
    OBVIOUS
<1>2. first # NoFrame
    BY <1>1 DEF Frame, NoFrame
<1>3. g[c] = first /\ out[c] = Tail(in[c])
    BY <1>1
<1>4. \A d \in Conns : d # c => g[d] = h[d] /\ out[d] = in[d]
    OBVIOUS
<1>5. /\ first.type = "DATA" /\ first.conn = c
      /\ \A i \in DOMAIN p : Before(p[i], first)
    BY <1>1 DEF Ordered
<1> HIDE DEF g, out, first
<1>6. \A d \in Conns : g[d] # NoFrame => g[d].conn = d /\ \A i \in DOMAIN p : Before(p[i], g[d])
    BY <1>3, <1>4, <1>5 DEF Ordered
<1>7. \A d \in Conns : \A k \in DOMAIN out[d] : out[d][k].type = "DATA" =>
        /\ out[d][k].conn = d
        /\ \A i \in DOMAIN p : Before(p[i], out[d][k])
        /\ g[d] # NoFrame => Before(g[d], out[d][k])
        /\ \A l \in DOMAIN out[d] : l < k => Before(out[d][l], out[d][k])
  <2>1. SUFFICES ASSUME NEW k \in DOMAIN out[c], out[c][k].type = "DATA"
                 PROVE  /\ out[c][k].conn = c
                        /\ \A i \in DOMAIN p : Before(p[i], out[c][k])
                        /\ Before(first, out[c][k])
                        /\ \A l \in DOMAIN out[c] : l < k => Before(out[c][l], out[c][k])
    <3>1. SUFFICES ASSUME NEW d \in Conns, NEW k \in DOMAIN out[d], out[d][k].type = "DATA", d # c
                   PROVE  /\ out[d][k].conn = d
                          /\ \A i \in DOMAIN p : Before(p[i], out[d][k])
                          /\ g[d] # NoFrame => Before(g[d], out[d][k])
                          /\ \A l \in DOMAIN out[d] : l < k => Before(out[d][l], out[d][k])
      BY <1>3
    <3>2. g[d] = h[d] /\ out[d] = in[d]
      BY <1>4, <3>1
    <3>. QED
      BY <3>1, <3>2 DEF Ordered
  <2>2. k + 1 \in DOMAIN in[c] /\ out[c][k] = in[c][k + 1] /\ 1 < k + 1
    BY <1>1, <1>3
  <2>3. Before(first, out[c][k])
    BY <1>1, <2>1, <2>2 DEF Ordered, first
  <2>4. ASSUME NEW l \in DOMAIN out[c], l < k PROVE Before(out[c][l], out[c][k])
    <3>1. l + 1 \in DOMAIN in[c] /\ out[c][l] = in[c][l + 1] /\ l + 1 < k + 1
      BY <1>1, <1>3, <2>4
    <3>. QED
      BY <2>1, <2>2, <3>1 DEF Ordered
  <2>5. out[c][k].conn = c /\ \A i \in DOMAIN p : Before(p[i], out[c][k])
    BY <2>1, <2>2 DEF Ordered
  <2>. QED
    BY <2>3, <2>4, <2>5
<1>8. \A d \in Conns, m \in Nat : OnTheWay(p, g, out, d, m) <=> OnTheWay(p, h, in, d, m)
  <2>1. ASSUME NEW m \in Nat
        PROVE  (\E k \in DOMAIN in[c] : in[c][k].type = "DATA" /\ in[c][k].n = m)
                 <=> first.n = m \/ \E k \in DOMAIN out[c] : out[c][k].type = "DATA" /\ out[c][k].n = m
    <3>1. ASSUME NEW k \in DOMAIN in[c], in[c][k].type = "DATA", in[c][k].n = m
          PROVE  first.n = m \/ \E l \in DOMAIN out[c] : out[c][l].type = "DATA" /\ out[c][l].n = m
      BY <1>1, <1>3, <3>1 DEF first
    <3>2. ASSUME first.n = m
          PROVE  \E k \in DOMAIN in[c] : in[c][k].type = "DATA" /\ in[c][k].n = m
      BY <1>1, <1>5, <3>2 DEF first
    <3>3. ASSUME NEW k \in DOMAIN out[c], out[c][k].type = "DATA", out[c][k].n = m
          PROVE  \E l \in DOMAIN in[c] : in[c][l].type = "DATA" /\ in[c][l].n = m
      BY <1>1, <1>3, <3>3
    <3>. QED
      BY <3>1, <3>2, <3>3
  <2>2. SUFFICES ASSUME NEW d \in Conns, NEW m \in Nat
                 PROVE  OnTheWay(p, g, out, d, m) <=> OnTheWay(p, h, in, d, m)
    OBVIOUS
  <2>3. CASE d = c
    BY <1>2, <1>3, <2>1, <2>3 DEF OnTheWay
  <2>4. CASE d # c
    BY <1>4, <2>4 DEF OnTheWay
  <2>. QED
    BY <2>3, <2>4
<1>. QED
    BY <1>6, <1>7, <1>8 DEF Ordered, g, out

\* out is what remains inbound of in, after a loss at either end
Remains(in, out) ==
  \A d \in Conns : \E off \in Nat : \A k \in DOMAIN out[d] :
    k + off \in DOMAIN in[d] /\ out[d][k] = in[d][k + off]

\* What is lost, inbound at either end or in the hands of read loops, leaves the order.
LEMMA LossKeepsOrder ==
  ASSUME NEW p \in Seq(Frame), NEW h \in [Conns -> Frame \cup {NoFrame}],
         NEW g \in [Conns -> Frame \cup {NoFrame}],
         NEW in \in [Conns -> Seq(Item)], NEW out \in [Conns -> Seq(Item)],
         \A d \in Conns : g[d] \in {h[d], NoFrame},
         Remains(in, out), Ordered(p, h, in)
  PROVE  Ordered(p, g, out)
<1>1. \A d \in Conns : g[d] # NoFrame => g[d].conn = d /\ \A i \in DOMAIN p : Before(p[i], g[d])
    BY DEF Ordered
<1>2. ASSUME NEW d \in Conns, NEW k \in DOMAIN out[d], out[d][k].type = "DATA"
      PROVE  /\ out[d][k].conn = d
             /\ \A i \in DOMAIN p : Before(p[i], out[d][k])
             /\ g[d] # NoFrame => Before(g[d], out[d][k])
             /\ \A l \in DOMAIN out[d] : l < k => Before(out[d][l], out[d][k])
  <2>1. PICK off \in Nat : \A l \in DOMAIN out[d] :
          l + off \in DOMAIN in[d] /\ out[d][l] = in[d][l + off]
    BY DEF Remains
  <2>2. k + off \in DOMAIN in[d] /\ out[d][k] = in[d][k + off]
    BY <2>1
  <2>3. ASSUME NEW l \in DOMAIN out[d], l < k PROVE Before(out[d][l], out[d][k])
    <3>1. l + off \in DOMAIN in[d] /\ out[d][l] = in[d][l + off] /\ l + off < k + off
      <4>1. l \in Int /\ k \in Int
        OBVIOUS
      <4>. QED
        BY <2>1, <2>3, <4>1
    <3>. QED
      BY <1>2, <2>2, <3>1 DEF Ordered
  <2>4. g[d] # NoFrame => Before(g[d], out[d][k])
    BY <1>2, <2>2 DEF Ordered
  <2>5. out[d][k].conn = d /\ \A i \in DOMAIN p : Before(p[i], out[d][k])
    BY <1>2, <2>2 DEF Ordered
  <2>. QED
    BY <2>3, <2>4, <2>5
<1>. QED
    BY <1>1, <1>2 DEF Ordered

\* the number of it is above those of p and of all that connection c has
Newest(p, h, in, c, it) ==
  it.type = "DATA" =>
    /\ \A i \in DOMAIN p : p[i].n < it.n
    /\ h[c] # NoFrame => h[c].n < it.n
    /\ \A k \in DOMAIN in[c] : in[c][k].n < it.n

\* out is in with it at the end of connection c
Joins(in, out, c, it) ==
  out[c] = Append(in[c], it) /\ \A d \in Conns : d # c => out[d] = in[d]

\* A frame with a number above all others arrives last on its connection: the order stays.
LEMMA ArrivalKeepsOrder ==
  ASSUME NEW p \in Seq(Frame), NEW h \in [Conns -> Frame \cup {NoFrame}],
         NEW in \in [Conns -> Seq(Item)], NEW out, NEW c \in Conns, NEW it \in Item, it.conn = c,
         Newest(p, h, in, c, it), Joins(in, out, c, it),
         Ordered(p, h, in)
  PROVE  Ordered(p, h, out)
<1> DEFINE last == Len(in[c]) + 1
<1>1. /\ in[c] \in Seq(Item) /\ last \in Nat
      /\ \A k \in DOMAIN out[c] : k \in DOMAIN in[c] \/ k = last
      /\ \A k \in DOMAIN in[c] : k \in DOMAIN out[c] /\ out[c][k] = in[c][k] /\ k < last /\ k \in Nat
      /\ last \in DOMAIN out[c] /\ out[c][last] = it
      /\ \A k \in DOMAIN in[c], l \in DOMAIN out[c] :
           l < k => l \in DOMAIN in[c] /\ out[c][l] = in[c][l]
    BY DEF Joins
<1>2. \A d \in Conns : d # c => out[d] = in[d]
    BY DEF Joins
<1> HIDE DEF last
<1>3. ASSUME NEW d \in Conns, NEW k \in DOMAIN out[d], out[d][k].type = "DATA"
      PROVE  /\ out[d][k].conn = d
             /\ \A i \in DOMAIN p : Before(p[i], out[d][k])
             /\ h[d] # NoFrame => Before(h[d], out[d][k])
             /\ \A l \in DOMAIN out[d] : l < k => Before(out[d][l], out[d][k])
  <2>1. CASE d # c
    <3>1. out[d] = in[d]
      BY <1>2, <2>1
    <3>. QED
      BY <1>3, <3>1 DEF Ordered
  <2>2. CASE d = c /\ k \in DOMAIN in[c]
    <3>1. \A l \in DOMAIN out[d] : l < k => l \in DOMAIN in[c] /\ out[d][l] = in[c][l]
      BY <1>1, <2>2
    <3>. QED
      BY <1>1, <1>3, <2>2, <3>1 DEF Ordered
  <2>3. CASE d = c /\ k = last
    BY <1>1, <1>3, <2>3 DEF Before, Newest
  <2>. QED
    BY <1>1, <2>1, <2>2, <2>3
<1>4. \A i, j \in DOMAIN p : i < j => Before(p[i], p[j])
    BY DEF Ordered
<1>5. \A d \in Conns : h[d] # NoFrame => h[d].conn = d /\ \A i \in DOMAIN p : Before(p[i], h[d])
    BY DEF Ordered
<1>. QED
    BY <1>3, <1>4, <1>5 DEF Ordered

\* What arrives is on the way if it is a frame; the end of the stream changes nothing.
LEMMA ArrivalOnTheWay ==
  ASSUME NEW p, NEW h, NEW in \in [Conns -> Seq(Item)], NEW out, NEW c \in Conns, NEW it \in Item,
         Joins(in, out, c, it), NEW d \in Conns, NEW m \in Nat
  PROVE  OnTheWay(p, h, out, d, m) <=>
           OnTheWay(p, h, in, d, m) \/ (d = c /\ it.type = "DATA" /\ it.n = m)
<1> DEFINE last == Len(in[c]) + 1
<1>1. /\ \A k \in DOMAIN out[c] : k \in DOMAIN in[c] \/ k = last
      /\ \A k \in DOMAIN in[c] : k \in DOMAIN out[c] /\ out[c][k] = in[c][k]
      /\ last \in DOMAIN out[c] /\ out[c][last] = it
  <2>1. in[c] \in Seq(Item)
    OBVIOUS
  <2>. QED
    BY <2>1 DEF Joins
<1> HIDE DEF last
<1>2. CASE d # c
    BY <1>2 DEF OnTheWay, Joins
<1>3. CASE d = c
  <2>1. (\E k \in DOMAIN out[c] : out[c][k].type = "DATA" /\ out[c][k].n = m)
          <=> \/ \E k \in DOMAIN in[c] : in[c][k].type = "DATA" /\ in[c][k].n = m
              \/ it.type = "DATA" /\ it.n = m
    BY <1>1
  <2>. QED
    BY <1>3, <2>1 DEF OnTheWay
<1>. QED
    BY <1>2, <1>3

\* A suffix that is lost with the connection leaves no gap: it is behind everything else.
LEMMA PrefixKeepsGapless ==
  ASSUME NEW p \in Seq(Frame), NEW h \in [Conns -> Frame \cup {NoFrame}],
         NEW in \in [Conns -> Seq(Item)], NEW c \in Conns, NEW k \in 0..Len(in[c]),
         Ordered(p, h, in), Gapless(p, h, in, c), \A i \in DOMAIN p : p[i].n \in Nat
  PROVE  Gapless(p, h, [in EXCEPT ![c] = SubSeq(in[c], 1, k)], c)
<1> DEFINE out == [in EXCEPT ![c] = SubSeq(in[c], 1, k)]
<1>1. /\ in[c] \in Seq(Item)
      /\ \A i \in DOMAIN out[c] : i \in DOMAIN in[c] /\ i <= k /\ out[c][i] = in[c][i]
      /\ \A i \in DOMAIN in[c] : i \in Nat /\ (i <= k => i \in DOMAIN out[c])
    OBVIOUS
<1> HIDE DEF out
<1>2. SUFFICES ASSUME NEW a \in Nat, NEW b \in Nat, NEW m \in Nat, a < m, m < b,
                      OnTheWay(p, h, out, c, a), OnTheWay(p, h, out, c, b)
               PROVE  OnTheWay(p, h, out, c, m)
    BY DEF Gapless, out
<1>3. \A x \in Nat : OnTheWay(p, h, out, c, x) => OnTheWay(p, h, in, c, x)
    BY <1>1 DEF OnTheWay
<1>4. OnTheWay(p, h, in, c, m)
    BY <1>2, <1>3 DEF Gapless
<1>5. ASSUME NEW l \in DOMAIN in[c], in[c][l].type = "DATA", in[c][l].n = m
      PROVE  l \in DOMAIN out[c]
  <2>1. CASE \E i \in DOMAIN p : p[i].conn = c /\ p[i].n = b
    <3>1. PICK i \in DOMAIN p : p[i].conn = c /\ p[i].n = b
      BY <2>1
    <3>2. b < m
      BY <1>5, <3>1 DEF Ordered, Before
    <3>. QED
      BY <1>2, <3>2
  <2>2. CASE h[c] # NoFrame /\ h[c].n = b
    <3>1. h[c].conn = c /\ Before(h[c], in[c][l]) /\ in[c][l].conn = c
      BY <1>5, <2>2 DEF Ordered
    <3>. QED
      BY <1>2, <1>5, <2>2, <3>1 DEF Before
  <2>3. CASE \E i \in DOMAIN out[c] : out[c][i].type = "DATA" /\ out[c][i].n = b
    <3>1. PICK i \in DOMAIN out[c] : out[c][i].type = "DATA" /\ out[c][i].n = b
      BY <2>3
    <3>2. i \in DOMAIN in[c] /\ i <= k /\ in[c][i].type = "DATA" /\ in[c][i].n = b
      BY <1>1, <3>1
    <3>3. ~(i < l)
      BY <1>2, <1>5, <3>2 DEF Ordered, Before
    <3>. QED
      BY <1>1, <1>5, <3>2, <3>3
  <2>. QED
    BY <1>2, <2>1, <2>2, <2>3 DEF OnTheWay
<1>. QED
    BY <1>1, <1>4, <1>5 DEF OnTheWay

\* A frame taken out of the middle of the pipe leaves the rest in order.
LEMMA WithheldKeepsOrder ==
  ASSUME NEW g \in Seq(Frame), NEW t \in Frame, NEW f \in Seq(Frame),
         NEW h \in [Conns -> Frame \cup {NoFrame}], NEW in \in [Conns -> Seq(Item)],
         Ordered(Append(g, t) \o f, h, in)
  PROVE  /\ Ordered(g \o f, h, in)
         /\ \A i \in DOMAIN (g \o f) : \E l \in DOMAIN (Append(g, t) \o f) :
              (g \o f)[i] = (Append(g, t) \o f)[l]
<1> DEFINE p == Append(g, t) \o f
           q == g \o f
           at == [i \in DOMAIN q |-> IF i <= Len(g) THEN i ELSE i + 1]
<1>1. \A i \in DOMAIN q : at[i] \in DOMAIN p /\ q[i] = p[at[i]]
    OBVIOUS
<1>2. \A i, j \in DOMAIN q : i < j => at[i] < at[j]
    OBVIOUS
<1>3. Ordered(p, h, in)
    OBVIOUS
<1> HIDE DEF p, q, at
<1>4. Ordered(q, h, in)
  <2>1. \A i, j \in DOMAIN q : i < j => Before(q[i], q[j])
    BY <1>1, <1>2, <1>3 DEF Ordered
  <2>2. \A c \in Conns : h[c] # NoFrame => h[c].conn = c /\ \A i \in DOMAIN q : Before(q[i], h[c])
    BY <1>1, <1>3 DEF Ordered
  <2>3. \A c \in Conns : \A k \in DOMAIN in[c] : in[c][k].type = "DATA" =>
          /\ in[c][k].conn = c
          /\ \A i \in DOMAIN q : Before(q[i], in[c][k])
          /\ h[c] # NoFrame => Before(h[c], in[c][k])
          /\ \A l \in DOMAIN in[c] : l < k => Before(in[c][l], in[c][k])
    <3>1. SUFFICES ASSUME NEW c \in Conns, NEW k \in DOMAIN in[c], in[c][k].type = "DATA"
                   PROVE  \A i \in DOMAIN q : Before(q[i], in[c][k])
      BY <1>3 DEF Ordered
    <3>2. \A l \in DOMAIN p : Before(p[l], in[c][k])
      BY <1>3, <3>1 DEF Ordered
    <3>. QED
      BY <1>1, <3>2
  <2>. QED
    BY <2>1, <2>2, <2>3 DEF Ordered
<1>. QED
    BY <1>1, <1>4 DEF p, q

-----------------------------------------------------------------------------
(* The steps keep the order and leave no gap *)

WayInv == OrderInv /\ GapInv

\* The hypotheses of the lemmas on the way, in one place.
LEMMA WayTypes ==
  ASSUME TypeOK
  PROVE  /\ Pipe \in Seq(Frame) /\ held \in [Conns -> Frame \cup {NoFrame}]
         /\ inbound \in [Conns -> Seq(Item)]
         /\ \A i \in DOMAIN Pipe : Pipe[i] \in Frame
         /\ \A f \in Frame : f.n \in Nat /\ f.n > 0 /\ f.conn \in Conns
         /\ sent \in Nat /\ live \in Nat /\ live \in Conns /\ \A c \in Conns : c \in Nat /\ c # 0
<1>1. Pipe \in Seq(Frame)
    BY PipeIs
<1>2. \A i \in DOMAIN Pipe : Pipe[i] \in Frame
    BY <1>1
<1>3. /\ held \in [Conns -> Frame \cup {NoFrame}] /\ inbound \in [Conns -> Seq(Item)]
      /\ sent \in Nat /\ live \in Conns
    BY DEF TypeOK
<1>4. \A f \in Frame : f.n \in Nat /\ f.n > 0 /\ f.conn \in Conns
    BY DEF Frame
<1>5. \A c \in Conns : c \in Nat /\ c # 0
    BY DEF Conns
<1>. QED
    BY <1>1, <1>2, <1>3, <1>4, <1>5

\* Nothing is on the way that was not sent, and all of it has a positive number.
LEMMA OnTheWayIsSent ==
  ASSUME TypeOK, ControlInv, OrderInv, NEW c \in Conns, NEW m \in Nat,
         OnTheWay(Pipe, held, inbound, c, m)
  PROVE  m <= sent
<1>1. CASE \E i \in DOMAIN Pipe : Pipe[i].conn = c /\ Pipe[i].n = m
    BY <1>1 DEF OrderInv, Sent
<1>2. CASE held[c] # NoFrame /\ held[c].n = m
    BY <1>2 DEF OrderInv, Sent
<1>3. CASE \E k \in DOMAIN inbound[c] : inbound[c][k].type = "DATA" /\ inbound[c][k].n = m
    BY <1>3 DEF ControlInv, Carried
<1>. QED
    BY <1>1, <1>2, <1>3 DEF OnTheWay

\* Steps that keep the pipe, the hands and what is inbound.
LEMMA StillWay ==
  ASSUME TypeOK, ControlInv, WayInv, UNCHANGED <<Pipe, held, inbound, sent, ended>>,
         live' \in Nat, live' >= live, done => done',
         ~done' => UpToSent(Pipe, held, inbound)'
  PROVE  WayInv'
<1> USE DEF WayInv, OrderInv, GapInv
<1>1. OrderInv'
    BY WayTypes DEF Sent
<1>2. ended # 0 => done
    BY DEF ControlInv, AfterComplete
<1>3. \A c \in Conns : ~done' \/ ended' = c => Gapless(Pipe', held', inbound', c)
    BY <1>2, WayTypes
<1>. QED
    BY <1>1, <1>3 DEF UpToSent

\* A handover.
LEMMA HandOverWay ==
  ASSUME TypeOK, ControlInv, WayInv, NEW c \in Conns, HandsOver(c),
         UNCHANGED <<inbound, sent, live, done, ended>>
  PROVE  WayInv'
<1> USE DEF WayInv, OrderInv, GapInv, HandsOver
<1>1. /\ Ordered(Pipe', held', inbound')
      /\ \A d \in Conns, m \in Nat :
           OnTheWay(Pipe', held', inbound', d, m) <=> OnTheWay(Pipe, held, inbound, d, m)
    BY WayTypes, HandOverKeeps
<1>2. Sent(Pipe, held)'
  <2>1. held[c].n <= sent /\ held[c].conn = c /\ c <= live
    BY WayTypes DEF Ordered, Sent, ControlInv, NotYetLive
  <2>2. \A i \in DOMAIN Pipe' : (i \in DOMAIN Pipe /\ Pipe'[i] = Pipe[i]) \/ Pipe'[i] = held[c]
    BY WayTypes
  <2>3. \A d \in Conns : held'[d] # NoFrame => held'[d] = held[d]
    BY WayTypes
  <2>. QED
    BY <2>1, <2>2, <2>3 DEF Sent
<1>3. \A d \in Conns : ~done' \/ ended' = d => Gapless(Pipe', held', inbound', d)
    BY <1>1 DEF Gapless
<1>4. UpToSent(Pipe, held, inbound)'
    BY <1>1, WayTypes DEF UpToSent
<1>. QED
    BY <1>1, <1>2, <1>3, <1>4

\* The read loop takes a data frame.
LEMMA TakeWay ==
  ASSUME TypeOK, ControlInv, WayInv, NEW c \in Conns, held[c] = NoFrame, inbound[c] # <<>>,
         Head(inbound[c]).type = "DATA",
         held' = [held EXCEPT ![c] = Head(inbound[c])],
         inbound' = [inbound EXCEPT ![c] = Tail(inbound[c])],
         UNCHANGED <<Pipe, sent, live, done, ended>>
  PROVE  WayInv'
<1> USE DEF WayInv, OrderInv, GapInv
<1>1. /\ inbound[c] \in Seq(Item) /\ 1 \in DOMAIN inbound[c] /\ Head(inbound[c]) = inbound[c][1]
      /\ inbound[c][1] \in Item
  <2>1. inbound[c] \in Seq(Item)
    BY DEF TypeOK
  <2>. QED
    BY <2>1
<1>2. inbound[c][1].n > 0 /\ inbound[c][1].n <= sent
    BY <1>1 DEF ControlInv, Carried
<1>3. Head(inbound[c]) \in Frame
    BY <1>1, <1>2 DEF Item, Frame
<1>4. /\ Ordered(Pipe', held', inbound')
      /\ \A d \in Conns, m \in Nat :
           OnTheWay(Pipe', held', inbound', d, m) <=> OnTheWay(Pipe, held, inbound, d, m)
    BY <1>3, WayTypes, TakeKeeps
<1>5. Sent(Pipe, held)'
    BY <1>1, <1>2, WayTypes DEF Sent
<1>6. \A d \in Conns : ~done' \/ ended' = d => Gapless(Pipe', held', inbound', d)
    BY <1>4 DEF Gapless
<1>7. UpToSent(Pipe, held, inbound)'
    BY <1>4, WayTypes DEF UpToSent
<1>. QED
    BY <1>4, <1>5, <1>6, <1>7

\* Losses when the flow is done, but for the completed connection.
LEMMA LossWay ==
  ASSUME TypeOK, TypeOK', ControlInv, WayInv, done', UNCHANGED <<Pipe, sent, live>>,
         \A d \in Conns : held'[d] \in {held[d], NoFrame},
         Remains(inbound, inbound'),
         ended' # 0 => /\ \A m \in Nat : OnTheWay(Pipe, held, inbound, ended', m) <=>
                                         OnTheWay(Pipe', held', inbound', ended', m)
                       /\ ~done \/ ended' = ended
  PROVE  WayInv'
<1> USE DEF WayInv, OrderInv, GapInv
<1>1. /\ held' \in [Conns -> Frame \cup {NoFrame}] /\ inbound' \in [Conns -> Seq(Item)]
      /\ ended' \in Conns \cup {0}
    BY DEF TypeOK
<1>2. Ordered(Pipe', held', inbound')
    BY <1>1, WayTypes, LossKeepsOrder
<1>3. Sent(Pipe, held)'
    BY DEF Sent
<1>4. ASSUME NEW d \in Conns, ended' = d PROVE Gapless(Pipe', held', inbound', d)
  <2>1. Gapless(Pipe, held, inbound, d) /\ ended' # 0
    BY <1>4, WayTypes
  <2>. QED
    BY <1>4, <2>1 DEF Gapless
<1>5. UpToSent(Pipe, held, inbound)'
    BY DEF UpToSent
<1>. QED
    BY <1>2, <1>3, <1>4, <1>5

\* The peer sends the next frame, or the end of the stream.
LEMMA SendWay ==
  ASSUME TypeOK, ControlInv, WayInv, NEW it \in Item, it.conn = live,
         sent' \in Nat, sent <= MaxFrames,
         \/ it.type = "DATA" /\ it.n = sent + 1 /\ sent' = sent + 1
         \/ it.type # "DATA" /\ sent' = MaxFrames + 1,
         inbound' = [inbound EXCEPT ![live] = Append(@, it)],
         UNCHANGED <<Pipe, held, live, done, ended>>
  PROVE  WayInv'
<1> USE FlowAssumption DEF WayInv, OrderInv, GapInv
<1>1. \A m \in Nat : OnTheWay(Pipe, held, inbound, live, m) => m <= sent
    BY WayTypes, OnTheWayIsSent
<1>2. /\ \A i \in DOMAIN Pipe : Pipe[i].n < sent + 1
      /\ held[live] # NoFrame => held[live].n < sent + 1
      /\ \A k \in DOMAIN inbound[live] : inbound[live][k].n < sent + 1
  <2>1. \A k \in DOMAIN inbound[live] : inbound[live][k].n <= sent /\ inbound[live][k].n \in Nat
    <3>1. inbound[live] \in Seq(Item)
      BY WayTypes
    <3>2. \A k \in DOMAIN inbound[live] : inbound[live][k] \in Item
      BY <3>1
    <3>. QED
      BY <3>2, WayTypes DEF ControlInv, Carried, Item
  <2>2. \A i \in DOMAIN Pipe : Pipe[i].n <= sent /\ Pipe[i].n \in Nat
    BY WayTypes DEF Sent
  <2>3. held[live] # NoFrame => held[live].n <= sent /\ held[live].n \in Nat
    BY WayTypes DEF Sent
  <2>. QED
    BY <2>1, <2>2, <2>3, WayTypes
<1>3. /\ Ordered(Pipe', held', inbound')
      /\ \A d \in Conns, m \in Nat :
           OnTheWay(Pipe', held', inbound', d, m) <=>
             OnTheWay(Pipe, held, inbound, d, m) \/ (d = live /\ it.type = "DATA" /\ it.n = m)
  <2>1. Newest(Pipe, held, inbound, live, it)
    BY <1>2 DEF Newest
  <2>2. Joins(inbound, inbound', live, it)
    BY WayTypes DEF Joins
  <2>3. Ordered(Pipe, held, inbound)
    OBVIOUS
  <2>4. /\ Pipe \in Seq(Frame) /\ held \in [Conns -> Frame \cup {NoFrame}]
        /\ inbound \in [Conns -> Seq(Item)] /\ live \in Conns /\ it \in Item /\ it.conn = live
    BY WayTypes
  <2>5. Ordered(Pipe, held, inbound')
    BY ONLY <2>1, <2>2, <2>3, <2>4, ArrivalKeepsOrder
  <2>6. \A d \in Conns, m \in Nat :
          OnTheWay(Pipe, held, inbound', d, m) <=>
            OnTheWay(Pipe, held, inbound, d, m) \/ (d = live /\ it.type = "DATA" /\ it.n = m)
    BY ONLY <2>2, <2>4, ArrivalOnTheWay
  <2>. QED
    BY <2>5, <2>6
<1>4. Sent(Pipe, held)'
  <2>1. sent' >= sent
    BY WayTypes
  <2>2. \A i \in DOMAIN Pipe : Pipe[i].n \in Nat
    BY WayTypes
  <2>3. \A d \in Conns : held[d] # NoFrame => held[d].n \in Nat
    BY WayTypes
  <2>. QED
    BY <2>1, <2>2, <2>3, WayTypes DEF Sent
<1>5. ended = 0
    BY WayTypes DEF ControlInv, AfterComplete
<1>6. ASSUME NEW d \in Conns, ~done PROVE Gapless(Pipe', held', inbound', d)
  <2>1. CASE d = live /\ it.type = "DATA"
    <3>1. SUFFICES ASSUME NEW a \in Nat, NEW b \in Nat, NEW m \in Nat, a < m, m < b,
                          OnTheWay(Pipe', held', inbound', live, a),
                          OnTheWay(Pipe', held', inbound', live, b)
                   PROVE  OnTheWay(Pipe, held, inbound, live, m)
      BY <1>3, <2>1 DEF Gapless
    <3>2. b <= sent + 1 /\ OnTheWay(Pipe, held, inbound, live, a)
      <4>1. it.n = sent + 1
        BY <2>1
      <4>2. OnTheWay(Pipe, held, inbound, live, b) \/ b = sent + 1
        BY <1>3, <3>1, <4>1, WayTypes
      <4>3. b <= sent + 1
        BY <1>1, <4>2, WayTypes
      <4>4. OnTheWay(Pipe, held, inbound, live, a) \/ a = sent + 1
        BY <1>3, <3>1, <4>1, WayTypes
      <4>5. a < sent + 1
        BY <3>1, <4>3, WayTypes
      <4>. QED
        BY <4>3, <4>4, <4>5, WayTypes
    <3>3. OnTheWay(Pipe, held, inbound, live, sent)
      BY <1>6, <3>2 DEF UpToSent
    <3>4. m = sent \/ m < sent
      BY <3>1, <3>2, WayTypes
    <3>. QED
      BY <1>6, <3>1, <3>2, <3>3, <3>4, WayTypes DEF Gapless
  <2>2. CASE ~(d = live /\ it.type = "DATA")
    BY <1>3, <1>6, <2>2 DEF Gapless
  <2>. QED
    BY <2>1, <2>2
<1>7. UpToSent(Pipe, held, inbound)'
  <2>1. CASE it.type = "DATA"
    <3>1. OnTheWay(Pipe', held', inbound', live, sent')
      BY <1>3, <2>1, WayTypes
    <3>. QED
      BY <3>1 DEF UpToSent
  <2>2. CASE it.type # "DATA"
    BY <2>2, WayTypes DEF UpToSent
  <2>. QED
    BY <2>1, <2>2
<1>. QED
    BY <1>3, <1>4, <1>5, <1>6, <1>7, WayTypes

\* The connection is lost with a suffix of what it carried; nothing was sent on the next.
LEMMA ResumeWay ==
  ASSUME TypeOK, ControlInv, WayInv, ~done, NEW k \in 0..Len(inbound[live]),
         live + 1 \in Conns, live' = live + 1,
         inbound' = [inbound EXCEPT ![live] = SubSeq(@, 1, k)],
         UNCHANGED <<Pipe, held, sent, done, ended>>
  PROVE  WayInv'
<1> USE DEF WayInv, OrderInv, GapInv
<1>1. /\ inbound[live] \in Seq(Item) /\ SubSeq(inbound[live], 1, k) \in Seq(Item)
      /\ \A l \in DOMAIN SubSeq(inbound[live], 1, k) :
           l + 0 \in DOMAIN inbound[live] /\ SubSeq(inbound[live], 1, k)[l] = inbound[live][l + 0]
  <2>1. inbound[live] \in Seq(Item)
    BY WayTypes
  <2>. QED
    BY <2>1
<1>2. /\ inbound' \in [Conns -> Seq(Item)] /\ inbound'[live] = SubSeq(inbound[live], 1, k)
      /\ \A d \in Conns : d # live => inbound'[d] = inbound[d]
    BY <1>1, WayTypes
<1>3. Ordered(Pipe', held', inbound')
  <2>1. Remains(inbound, inbound')
    <3>1. SUFFICES ASSUME NEW d \in Conns
                   PROVE  \A l \in DOMAIN inbound'[d] :
                            l + 0 \in DOMAIN inbound[d] /\ inbound'[d][l] = inbound[d][l + 0]
      BY DEF Remains
    <3>2. CASE d = live
      BY <1>1, <1>2, <3>2
    <3>3. CASE d # live
      <4>1. inbound[d] \in Seq(Item) /\ inbound'[d] = inbound[d]
        BY <1>2, <3>3, WayTypes
      <4>. QED
        BY <4>1
    <3>. QED
      BY <3>2, <3>3
  <2>2. Ordered(Pipe, held, inbound) /\ \A d \in Conns : held[d] \in {held[d], NoFrame}
    OBVIOUS
  <2>3. Ordered(Pipe, held, inbound')
    BY <1>2, <2>1, <2>2, WayTypes, LossKeepsOrder, ZenonT(30)
  <2>. QED
    BY <2>3
<1>4. Sent(Pipe, held)'
  <2>1. \A i \in DOMAIN Pipe : Pipe[i].conn \in Nat
    BY WayTypes
  <2>. QED
    BY <2>1, WayTypes DEF Sent
<1>5. ASSUME NEW d \in Conns PROVE Gapless(Pipe', held', inbound', d)
  <2>1. Gapless(Pipe, held, inbound, d) /\ \A i \in DOMAIN Pipe : Pipe[i].n \in Nat
    BY WayTypes
  <2>2. CASE d = live
    <3> DEFINE out == [inbound EXCEPT ![live] = SubSeq(inbound[live], 1, k)]
    <3>1. Ordered(Pipe, held, inbound)
      OBVIOUS
    <3>2. Gapless(Pipe, held, out, live)
      BY <2>1, <2>2, <3>1, WayTypes, PrefixKeepsGapless
    <3>3. inbound' = out
      OBVIOUS
    <3> HIDE DEF out
    <3>. QED
      BY <2>2, <3>2, <3>3
  <2>3. CASE d # live
    <3>1. \A m \in Nat : OnTheWay(Pipe', held', inbound', d, m) <=> OnTheWay(Pipe, held, inbound, d, m)
      BY <1>2, <2>3 DEF OnTheWay
    <3>. QED
      BY <2>1, <3>1 DEF Gapless
  <2>. QED
    BY <2>2, <2>3
<1>6. UpToSent(Pipe, held, inbound)'
  <2>1. \A i \in DOMAIN Pipe : Pipe[i].conn # live + 1
    BY WayTypes DEF Sent
  <2>2. held[live + 1] = NoFrame /\ inbound[live + 1] = <<>>
    BY WayTypes DEF ControlInv, NotYetLive
  <2>3. \A a \in Nat : ~OnTheWay(Pipe', held', inbound', live', a)
    BY <1>2, <2>1, <2>2, WayTypes DEF OnTheWay
  <2>. QED
    BY <2>3 DEF UpToSent
<1>. QED
    BY <1>3, <1>4, <1>5, <1>6

\* A frame withheld because the flow has failed.
LEMMA WithheldWay ==
  ASSUME TypeOK, ControlInv, WayInv, done, err, took \in Frame,
         Pipe = Append(got, took) \o frames, Pipe' = got \o frames,
         UNCHANGED <<held, inbound, sent, live, done, ended>>
  PROVE  WayInv'
<1> USE DEF WayInv, OrderInv, GapInv
<1>1. got \in Seq(Frame) /\ frames \in Seq(Frame)
    BY DEF TypeOK
<1>2. /\ Ordered(got \o frames, held, inbound)
      /\ \A i \in DOMAIN (got \o frames) : \E l \in DOMAIN Pipe : (got \o frames)[i] = Pipe[l]
  <2>1. Ordered(Append(got, took) \o frames, held, inbound)
    OBVIOUS
  <2>2. /\ Ordered(got \o frames, held, inbound)
        /\ \A i \in DOMAIN (got \o frames) : \E l \in DOMAIN (Append(got, took) \o frames) :
             (got \o frames)[i] = (Append(got, took) \o frames)[l]
    BY <1>1, <2>1, WayTypes, WithheldKeepsOrder
  <2>. QED
    BY <2>2
<1>3. Sent(Pipe, held)'
    BY <1>2 DEF Sent
<1>4. ended = 0
    BY DEF ControlInv, AfterComplete
<1>. QED
    BY <1>2, <1>3, <1>4, WayTypes DEF UpToSent

\* What remains when a read loop takes a frame and drops it, and when nothing is lost inbound.
LEMMA RemainsTail ==
  ASSUME TypeOK, NEW c \in Conns, inbound[c] # <<>>, inbound' = [inbound EXCEPT ![c] = Tail(@)]
  PROVE  Remains(inbound, inbound')
<1>1. SUFFICES ASSUME NEW d \in Conns
               PROVE  \E off \in Nat : \A k \in DOMAIN inbound'[d] :
                        k + off \in DOMAIN inbound[d] /\ inbound'[d][k] = inbound[d][k + off]
    BY DEF Remains
<1>2. inbound[d] \in Seq(Item)
    BY DEF TypeOK
<1>3. CASE d = c
  <2>1. inbound'[d] = Tail(inbound[d])
    BY <1>3 DEF TypeOK
  <2>2. \A k \in DOMAIN inbound'[d] :
          k + 1 \in DOMAIN inbound[d] /\ inbound'[d][k] = inbound[d][k + 1]
    <3>1. inbound[d] # <<>>
      BY <1>3
    <3>2. \A k \in DOMAIN Tail(inbound[d]) :
            k + 1 \in DOMAIN inbound[d] /\ Tail(inbound[d])[k] = inbound[d][k + 1]
      BY ONLY <1>2, <3>1
    <3>. QED
      BY ONLY <2>1, <3>2
  <2>. QED
    BY <2>2
<1>4. CASE d # c
  <2>1. inbound'[d] = inbound[d]
    BY <1>4 DEF TypeOK
  <2>2. \A k \in DOMAIN inbound'[d] :
          k + 0 \in DOMAIN inbound[d] /\ inbound'[d][k] = inbound[d][k + 0]
    BY ONLY <1>2, <2>1
  <2>. QED
    BY <2>2
<1>. QED
    BY <1>3, <1>4

\* A step that leaves the connections alone loses nothing of them.
LEMMA RemainsAll ==
  ASSUME TypeOK, UNCHANGED inbound
  PROVE  Remains(inbound, inbound')
<1>1. SUFFICES ASSUME NEW d \in Conns
               PROVE  \A k \in DOMAIN inbound'[d] :
                        k + 0 \in DOMAIN inbound[d] /\ inbound'[d][k] = inbound[d][k + 0]
    BY DEF Remains
<1>2. inbound[d] \in Seq(Item)
    BY DEF TypeOK
<1>. QED
    BY <1>2

\* A local end: the blocked read loops lose their frames.
LEMMA FinishWay ==
  ASSUME TypeOK, TypeOK', ControlInv, WayInv, NEW e \in BOOLEAN, Finish(e),
         UNCHANGED <<netVars, frames, took, got, ended>>
  PROVE  WayInv'
<1>1. /\ done' /\ (done => UNCHANGED held)
      /\ \A c \in Conns : held'[c] \in {held[c], NoFrame}
    BY FinishTypes
<1>2. UNCHANGED Pipe /\ UNCHANGED <<inbound, sent, live>>
    BY DEF Pipe, netVars
<1>3. Remains(inbound, inbound')
    BY <1>2, RemainsAll
<1>4. ended # 0 => done
    BY DEF ControlInv, AfterComplete
<1>5. ended' # 0 => /\ \A m \in Nat : OnTheWay(Pipe, held, inbound, ended', m) <=>
                                      OnTheWay(Pipe', held', inbound', ended', m)
                    /\ ~done \/ ended' = ended
    BY <1>1, <1>2, <1>4
<1>. QED
    BY <1>1, <1>2, <1>3, <1>5, LossWay

\* The end of the stream, or a frame that is dropped: no other frame of the connection goes.
LEMMA DispatchEndWay ==
  ASSUME TypeOK, TypeOK', ControlInv, WayInv, NEW c \in Conns, DispatchEnd(c)
  PROVE  WayInv'
<1>1. /\ inbound[c] # <<>> /\ held[c] = NoFrame /\ Head(inbound[c]).type # "DATA"
      /\ inbound' = [inbound EXCEPT ![c] = Tail(@)]
      /\ UNCHANGED <<sent, live, frames, took, got>>
    BY DEF DispatchEnd, Idle, appVars
<1>2. UNCHANGED Pipe
    BY <1>1 DEF Pipe
<1>3. /\ Head(inbound[c]) = inbound[c][1] /\ 1 \in DOMAIN inbound[c] /\ Len(inbound[c]) = 1
      /\ Tail(inbound[c]) = <<>>
  <2>1. inbound[c] \in Seq(Item)
    BY DEF TypeOK
  <2>2. Head(inbound[c]) = inbound[c][1] /\ 1 \in DOMAIN inbound[c]
    BY <1>1, <2>1
  <2>3. Len(inbound[c]) = 1
    <3>1. inbound[c][1].type # "DATA" /\ Carried(c)
      BY <1>1, <2>2 DEF ControlInv
    <3>. QED
      BY <2>2, <3>1 DEF Carried
  <2>4. Tail(inbound[c]) \in Seq(Item) /\ Len(Tail(inbound[c])) = 0
    BY <1>1, <2>1, <2>3
  <2>. QED
    BY <2>2, <2>3, <2>4, EmptySeq
<1>4. inbound'[c] = <<>> /\ \A d \in Conns : d # c => inbound'[d] = inbound[d]
    BY <1>1, <1>3 DEF TypeOK
<1>5. \A m \in Nat : ~\E k \in DOMAIN inbound[c] : inbound[c][k].type = "DATA" /\ inbound[c][k].n = m
  <2>1. inbound[c] \in Seq(Item)
    BY DEF TypeOK
  <2>2. \A k \in DOMAIN inbound[c] : k = 1
    BY <1>3, <2>1
  <2>. QED
    BY <1>1, <1>3, <2>2
<1>6. Remains(inbound, inbound')
    BY <1>1, RemainsTail
<1>7. ended # 0 => done /\ c # ended
    BY <1>1 DEF ControlInv, AfterComplete
<1>8. CASE c \in table
  <2>1. Finish(Head(inbound[c]).type = "ERROR")
    BY <1>8 DEF DispatchEnd
  <2>2. (Head(inbound[c]).type = "ERROR") \in BOOLEAN
    OBVIOUS
  <2>3. /\ done' /\ (done => UNCHANGED held)
        /\ \A d \in Conns : held'[d] \in {held[d], NoFrame}
    BY <2>1, <2>2, FinishTypes
  <2>4. CASE ended' = c /\ ~done
    <3>1. held'[c] = NoFrame
      BY <1>1, <2>3
    <3>2. \A m \in Nat : OnTheWay(Pipe, held, inbound, c, m) <=> OnTheWay(Pipe', held', inbound', c, m)
      BY <1>1, <1>2, <1>4, <1>5, <3>1 DEF OnTheWay
    <3>. QED
      BY <1>1, <1>2, <1>6, <2>3, <2>4, <3>2, LossWay
  <2>5. CASE ended' = ended
    <3>1. ended # 0 => ended \in Conns /\ inbound'[ended] = inbound[ended] /\ held' = held /\ done
      BY <1>4, <1>7, <2>3 DEF TypeOK
    <3>2. ended' # 0 => /\ \A m \in Nat : OnTheWay(Pipe, held, inbound, ended', m) <=>
                                          OnTheWay(Pipe', held', inbound', ended', m)
                        /\ ~done \/ ended' = ended
      BY <1>2, <2>5, <3>1 DEF OnTheWay
    <3>. QED
      BY <1>1, <1>2, <1>6, <2>3, <3>2, LossWay
  <2>. QED
    BY <2>4, <2>5 DEF DispatchEnd
<1>9. CASE c \notin table
  <2>1. UNCHANGED <<done, held, ended>>
    BY <1>9 DEF DispatchEnd
  <2>2. done
    BY <1>1, <1>9 DEF DispatchEnd, Idle, ControlInv, OpenIsRegistered, NotYetLive, TypeOK, Conns
  <2>3. ended # 0 => ended \in Conns /\ inbound'[ended] = inbound[ended]
    BY <1>4, <1>7 DEF TypeOK
  <2>4. ended' # 0 => /\ \A m \in Nat : OnTheWay(Pipe, held, inbound, ended', m) <=>
                                        OnTheWay(Pipe', held', inbound', ended', m)
                      /\ ~done \/ ended' = ended
    BY <1>2, <2>1, <2>3 DEF OnTheWay
  <2>. QED
    BY <1>1, <1>2, <1>6, <2>1, <2>2, <2>4, LossWay
<1>. QED
    BY <1>8, <1>9

\* Every step keeps the order of the frames and leaves no gap.
LEMMA WayPreserved == ASSUME TypeOK, ControlInv, WayInv, [Next]_vars PROVE WayInv'
<1> USE FlowAssumption DEF netVars, endVars, appVars
<1>t. TypeOK' /\ ControlInv' /\ WaitersHoldFrames
    BY TypesPreserved, ControlPreserved DEF ControlInv
<1>s. sent \in Nat /\ live \in Conns /\ live \in Nat
    BY DEF TypeOK, Conns
<1>w. OrderInv /\ GapInv
    BY DEF WayInv
<1>1. ASSUME UNCHANGED <<took, got, frames, held, inbound, sent, live, done, ended>> PROVE WayInv'
  <2>1. UNCHANGED Pipe
    BY <1>1 DEF Pipe
  <2>2. UpToSent(Pipe, held, inbound)'
    BY <1>1, <1>w, <2>1 DEF UpToSent, GapInv
  <2>. QED
    BY <1>1, <1>s, <2>1, <2>2, StillWay
<1>2. CASE PeerSends
  <2> DEFINE it == [type |-> "DATA", n |-> sent + 1, conn |-> live]
  <2>1. it \in Item /\ it.conn = live /\ it.type = "DATA" /\ it.n = sent + 1
    BY <1>2, <1>s DEF PeerSends, Item
  <2>2. inbound' = [inbound EXCEPT ![live] = Append(@, it)] /\ UNCHANGED Pipe
    BY <1>2 DEF PeerSends, Arrives, Pipe
  <2>3. sent' = sent + 1 /\ sent <= MaxFrames /\ sent' \in Nat
    BY <1>2, <1>s DEF PeerSends
  <2>4. UNCHANGED <<held, live, done, ended>>
    BY <1>2 DEF PeerSends
  <2> HIDE DEF it
  <2>. QED
    BY <2>1, <2>2, <2>3, <2>4, SendWay
<1>3. CASE PeerEnds
  <2>1. PICK type \in {"COMPLETE", "ERROR"} : Arrives([type |-> type, n |-> 0, conn |-> live])
    BY <1>3 DEF PeerEnds
  <2> DEFINE it == [type |-> type, n |-> 0, conn |-> live]
  <2>2. it \in Item /\ it.conn = live /\ it.type # "DATA"
    BY <1>s DEF Item
  <2>3. inbound' = [inbound EXCEPT ![live] = Append(@, it)] /\ UNCHANGED Pipe
    BY <1>3, <2>1 DEF PeerEnds, Arrives, Pipe
  <2>4. sent' = MaxFrames + 1 /\ sent <= MaxFrames /\ sent' \in Nat
    BY <1>3, <1>s DEF PeerEnds
  <2>5. UNCHANGED <<held, live, done, ended>>
    BY <1>3 DEF PeerEnds
  <2> HIDE DEF it
  <2>. QED
    BY <2>2, <2>3, <2>4, <2>5, SendWay
<1>4. CASE Resume
  <2>1. PICK k \in 0..Len(inbound[live]) :
          inbound' = [inbound EXCEPT ![live] = SubSeq(@, 1, k)]
    BY <1>4 DEF Resume
  <2>2. live + 1 \in Conns /\ live' = live + 1 /\ ~done
    BY <1>4, <1>s DEF Resume, Conns
  <2>3. UNCHANGED <<held, sent, done, ended, Pipe>>
    BY <1>4 DEF Resume, Pipe
  <2>. QED
    BY <2>1, <2>2, <2>3, ResumeWay
<1>5. CASE Migration
    BY <1>1, <1>5 DEF Migration, SetEndpoint, RegisterFlow
<1>6. CASE Call
    BY <1>1, <1>6 DEF Call
<1>7. ASSUME Pop, took = NoFrame, UNCHANGED <<inbound, sent, live, done, ended>>,
             \/ took' = Head(frames) /\ UNCHANGED got
             \/ took' = NoFrame /\ got' = Append(got, Head(frames))
      PROVE  WayInv'
  <2>1. CASE Pipe' = Pipe /\ UNCHANGED held
    <3>1. UpToSent(Pipe, held, inbound)'
      BY <1>7, <1>w, <2>1 DEF UpToSent, GapInv
    <3>. QED
      BY <1>7, <1>s, <2>1, <3>1, StillWay
  <2>2. CASE \E c \in Conns : HandsOver(c)
    BY <1>7, <2>2, HandOverWay
  <2>. QED
    BY <1>7, <1>t, <2>1, <2>2, PopPipe
<1>8. CASE TakeFrame
    BY <1>7, <1>8 DEF TakeFrame, ControlInv, TookWhileReading
<1>9. CASE ReturnFrame
  <2>1. took \in Frame /\ Pipe = Append(got, took) \o frames
    BY <1>9, PipeIs DEF ReturnFrame, ControlInv, TookWhileReading
  <2>2. Pipe' = got' \o frames'
    BY <1>9, <1>t, PipeWillBe DEF ReturnFrame
  <2>3. UNCHANGED <<held, frames, inbound, sent, live, done, ended>>
    BY <1>9 DEF ReturnFrame
  <2>4. CASE kind # "subscription" /\ done /\ err
    <3>1. UNCHANGED got
      BY <1>9, <2>4 DEF ReturnFrame
    <3>. QED
      BY <2>1, <2>2, <2>3, <2>4, <3>1, WithheldWay
  <2>5. CASE ~(kind # "subscription" /\ done /\ err)
    <3>1. UNCHANGED Pipe
      BY <1>9, <2>1, <2>2, <2>3, <2>5 DEF ReturnFrame
    <3>2. UpToSent(Pipe, held, inbound)'
      BY <1>w, <2>3, <3>1 DEF UpToSent, GapInv
    <3>. QED
      BY <1>s, <2>3, <3>1, <3>2, StillWay
  <2>. QED
    BY <2>4, <2>5
<1>10. CASE SeeDone
  <2>1. CASE (err /\ kind # "subscription") \/ frames = <<>>
    BY <1>1, <1>10, <2>1 DEF SeeDone
  <2>2. CASE ~((err /\ kind # "subscription") \/ frames = <<>>)
    BY <1>7, <1>10, <2>2 DEF SeeDone, ControlInv, TookWhileReading
  <2>. QED
    BY <2>1, <2>2
<1>11. CASE CtxEnds
  <2>1. CASE kind = "stream"
    BY <1>11, <1>t, <2>1, FinishWay DEF CtxEnds
  <2>2. CASE kind # "stream"
    BY <1>1, <1>11, <2>2 DEF CtxEnds
  <2>. QED
    BY <2>1, <2>2
<1>12. CASE LocalEnd
    BY <1>12, <1>t, FinishWay DEF LocalEnd
<1>13. ASSUME NEW c \in Conns, DispatchData(c) PROVE WayInv'
  <2>1. /\ held[c] = NoFrame /\ inbound[c] # <<>> /\ Head(inbound[c]).type = "DATA"
        /\ inbound' = [inbound EXCEPT ![c] = Tail(@)]
        /\ UNCHANGED <<sent, live, done, ended>>
    BY <1>13 DEF DispatchData, Idle
  <2>2. UNCHANGED Pipe
    BY <1>13 DEF DispatchData, Pipe
  <2>3. CASE c \in table
    <3>1. held' = [held EXCEPT ![c] = Head(inbound[c])]
      BY <1>13, <2>3 DEF DispatchData
    <3>. QED
      BY <2>1, <2>2, <3>1, TakeWay
  <2>4. CASE c \notin table
    <3>1. UNCHANGED held /\ \A d \in Conns : held'[d] \in {held[d], NoFrame}
      BY <1>13, <2>4 DEF DispatchData
    <3>2. done
      BY <1>13, <2>4 DEF DispatchData, Idle, ControlInv, OpenIsRegistered, NotYetLive, TypeOK, Conns
    <3>3. ended # 0 => ended \in Conns /\ inbound'[ended] = inbound[ended]
      BY <2>1 DEF ControlInv, AfterComplete, TypeOK
    <3>4. ended' # 0 => /\ \A m \in Nat : OnTheWay(Pipe, held, inbound, ended', m) <=>
                                          OnTheWay(Pipe', held', inbound', ended', m)
                        /\ ~done \/ ended' = ended
      <4>1. /\ ended' = ended /\ held' = held /\ Pipe' = Pipe
            /\ ended # 0 => inbound'[ended] = inbound[ended]
        BY <2>1, <2>2, <3>1, <3>3
      <4>. QED
        BY ONLY <4>1 DEF OnTheWay
    <3>5. Remains(inbound, inbound')
      BY <2>1, RemainsTail
    <3>. QED
      BY <1>t, <2>1, <2>2, <3>1, <3>2, <3>4, <3>5, LossWay
  <2>. QED
    BY <2>3, <2>4
<1>14. ASSUME NEW c \in Conns, DispatchEnd(c) PROVE WayInv'
    BY <1>14, <1>t, DispatchEndWay
<1>15. ASSUME NEW c \in Conns, Deliver(c) PROVE WayInv'
  <2>1. held[c] # NoFrame /\ UNCHANGED <<inbound, sent, live, done, ended, took, got>>
    BY <1>15 DEF Deliver
  <2>2. CASE frames' = Append(frames, held[c]) /\ held' = [held EXCEPT ![c] = NoFrame]
    <3>1. /\ held[c] \in Frame /\ got \in Seq(Frame) /\ frames \in Seq(Frame)
      BY <2>1 DEF TypeOK
    <3>2. Pipe' = Append(Pipe, held[c])
      <4> DEFINE front == got \o (IF took = NoFrame THEN <<>> ELSE <<took>>)
      <4>1. front \in Seq(Frame)
        <5>1. (IF took = NoFrame THEN <<>> ELSE <<took>>) \in Seq(Frame)
          BY DEF TypeOK
        <5>. QED
          BY <3>1, <5>1, ConcatProperties
      <4>2. Pipe = front \o frames /\ Pipe' = front \o Append(frames, held[c])
        BY <2>1, <2>2 DEF Pipe
      <4> HIDE DEF front
      <4>. QED
        BY <3>1, <4>1, <4>2, AppendToConcat
    <3>. QED
      BY <2>1, <2>2, <3>2, HandOverWay DEF HandsOver
  <2>3. CASE done /\ held' = [held EXCEPT ![c] = NoFrame] /\ UNCHANGED frames
    <3>1. UNCHANGED Pipe
      BY <2>1, <2>3 DEF Pipe
    <3>2. \A d \in Conns : held'[d] \in {held[d], NoFrame}
      BY <2>3 DEF TypeOK
    <3>3. ended # 0 => ended \in Conns /\ held'[ended] = held[ended]
      BY <2>1, <2>3 DEF ControlInv, AfterComplete, TypeOK
    <3>4. ended' # 0 => /\ \A m \in Nat : OnTheWay(Pipe, held, inbound, ended', m) <=>
                                          OnTheWay(Pipe', held', inbound', ended', m)
                        /\ ~done \/ ended' = ended
      <4>1. ended' = ended /\ inbound' = inbound /\ Pipe' = Pipe /\ (ended # 0 => held'[ended] = held[ended])
        BY <2>1, <3>1, <3>3
      <4>. QED
        BY ONLY <4>1 DEF OnTheWay
    <3>5. Remains(inbound, inbound')
      BY <2>1, RemainsAll
    <3>. QED
      BY <1>t, <2>1, <2>3, <3>1, <3>2, <3>4, <3>5, LossWay
  <2>4. CASE UNCHANGED <<frames, held>>
    BY <1>1, <2>1, <2>4
  <2>. QED
    BY <1>15, <2>2, <2>3, <2>4 DEF Deliver
<1>16. CASE UNCHANGED vars
    BY <1>1, <1>16 DEF vars
<1>. QED
    BY <1>2, <1>3, <1>4, <1>5, <1>6, <1>8, <1>9, <1>10, <1>11, <1>12, <1>13, <1>14, <1>15, <1>16
       DEF Next, Reader, ReadLoop

-----------------------------------------------------------------------------
(* The end of the flow, and credit *)

\* Every step keeps what is known once the reader has seen the end: nothing of the completed
\* connection is left in the buffer, and no read loop has any of it.
LEMMA DrainedPreserved ==
  ASSUME TypeOK, ControlInv, WayInv, DrainedInv, [Next]_vars PROVE DrainedInv'
<1> USE FlowAssumption DEF netVars, endVars, appVars, DrainedInv
<1>t. ControlInv' /\ TypeOK'
    BY TypesPreserved, ControlPreserved
<1>1. ASSUME UNCHANGED <<frames, ended>>, reader' = "end" => reader = "end", done => done'
      PROVE  DrainedInv'
    BY <1>1
<1>2. ASSUME reader' # "end" PROVE DrainedInv'
    BY <1>2
<1>3. CASE PeerSends \/ PeerEnds \/ Resume \/ Migration \/ Call
    BY <1>1, <1>3 DEF PeerSends, PeerEnds, Resume, Migration, SetEndpoint, RegisterFlow, Call
<1>4. CASE TakeFrame
    BY <1>2, <1>4 DEF TakeFrame
<1>5. CASE ReturnFrame
  <2>1. CASE kind # "subscription" /\ done /\ err
    BY <1>5, <2>1 DEF ReturnFrame, ControlInv, AfterComplete
  <2>2. CASE ~(kind # "subscription" /\ done /\ err)
    BY <1>2, <1>5, <2>2 DEF ReturnFrame
  <2>. QED
    BY <2>1, <2>2
<1>6. CASE SeeDone
  <2>1. CASE (err /\ kind # "subscription") \/ frames = <<>>
    <3>1. done /\ UNCHANGED <<done, err, frames, ended>>
      BY <1>6, <2>1 DEF SeeDone
    <3>2. err => ended = 0
      BY DEF ControlInv, AfterComplete
    <3>3. frames = <<>> => DOMAIN frames = {}
      OBVIOUS
    <3>. QED
      BY <2>1, <3>1, <3>2, <3>3
  <2>2. CASE ~((err /\ kind # "subscription") \/ frames = <<>>)
    BY <1>2, <1>6, <2>2 DEF SeeDone
  <2>. QED
    BY <2>1, <2>2
<1>7. CASE CtxEnds
  <2>1. CASE kind = "stream"
    BY <1>2, <1>7, <2>1 DEF CtxEnds
  <2>2. CASE kind # "stream"
    BY <1>2, <1>7, <2>2 DEF CtxEnds
  <2>. QED
    BY <2>1, <2>2
<1>8. CASE LocalEnd
  <2>1. done' /\ UNCHANGED <<frames, ended, reader>>
    BY <1>8, FinishTypes DEF LocalEnd
  <2>. QED
    BY <1>1, <2>1
<1>9. ASSUME NEW c \in Conns, DispatchData(c) PROVE DrainedInv'
    BY <1>1, <1>9 DEF DispatchData
<1>10. ASSUME NEW c \in Conns, DispatchEnd(c) PROVE DrainedInv'
  <2>1. CASE reader = "end"
    <3>1. done /\ ended' = ended /\ UNCHANGED <<frames, reader>>
      BY <1>10, <2>1 DEF DispatchEnd
    <3>2. done'
      BY <1>10, <3>1 DEF DispatchEnd, Finish
    <3>. QED
      BY <1>1, <3>1, <3>2
  <2>2. CASE reader # "end"
    BY <1>2, <1>10, <2>2 DEF DispatchEnd
  <2>. QED
    BY <2>1, <2>2
<1>11. ASSUME NEW c \in Conns, Deliver(c) PROVE DrainedInv'
  <2>1. held[c] # NoFrame /\ UNCHANGED <<done, ended, reader>> /\ frames' \in {frames, Append(frames, held[c])}
    BY <1>11 DEF Deliver
  <2>2. held[c].conn = c /\ (ended # 0 => c # ended)
    BY <2>1 DEF WayInv, OrderInv, Ordered, ControlInv, AfterComplete
  <2>3. \A i \in DOMAIN frames' : (i \in DOMAIN frames /\ frames'[i] = frames[i]) \/ frames'[i] = held[c]
    <3>1. frames \in Seq(Frame) /\ held[c] \in Frame
      BY <2>1 DEF TypeOK
    <3>2. \A i \in DOMAIN Append(frames, held[c]) :
            \/ i \in DOMAIN frames /\ Append(frames, held[c])[i] = frames[i]
            \/ Append(frames, held[c])[i] = held[c]
      BY ONLY <3>1
    <3>. QED
      BY <2>1, <3>2
  <2>. QED
    BY <2>1, <2>2, <2>3
<1>12. CASE UNCHANGED vars
    BY <1>1, <1>12 DEF vars
<1>. QED
    BY <1>3, <1>4, <1>5, <1>6, <1>7, <1>8, <1>9, <1>10, <1>11, <1>12 DEF Next, Reader, ReadLoop

\* A release is one frame more, granted or pending.
LEMMA ReleaseCounts ==
  ASSUME TypeOK, CreditInv, Release, FlushAt > 0
  PROVE  pending' < FlushAt /\ granted' + pending' = granted + pending + 1
BY FlowAssumption DEF TypeOK, CreditInv, Release

\* Every step keeps the accounting of credit.
LEMMA CreditPreserved ==
  ASSUME TypeOK, ControlInv, CreditInv, [Next]_vars PROVE CreditInv'
<1> SUFFICES ASSUME FlushAt > 0
             PROVE  /\ pending' < FlushAt
                    /\ granted' + pending' \in {Len(got'), Len(got') + 1}
                    /\ reader' \in {"out", "select", "gaveUp"} => granted' + pending' = Len(got')
                    /\ reader' = "took" => granted' + pending' = Len(got') + 1
    BY DEF CreditInv
<1> USE FlowAssumption DEF netVars, endVars, appVars
<1>t. got \in Seq(Frame) /\ took \in Frame \cup {NoFrame} /\ pending \in Nat /\ granted \in Nat
      /\ Len(got) \in Nat
    BY DEF TypeOK
<1>1. ASSUME UNCHANGED <<pending, granted, got>>,
             reader' = reader \/ (reader' \in {"out", "select", "gaveUp"} /\ reader \in {"out", "select"})
      PROVE  CreditInv'
    BY <1>1 DEF CreditInv
<1>2. CASE PeerSends \/ PeerEnds \/ Resume \/ Migration \/ Call
    BY <1>1, <1>2 DEF PeerSends, PeerEnds, Resume, Migration, SetEndpoint, RegisterFlow, Call,
        CreditInv
<1>3. CASE TakeFrame
    BY <1>3, <1>t, ReleaseCounts DEF TakeFrame, CreditInv
<1>4. CASE ReturnFrame
  <2>1. granted + pending = Len(got) + 1 /\ UNCHANGED <<granted, pending>> /\ pending < FlushAt
    BY <1>4 DEF ReturnFrame, CreditInv
  <2>2. CASE reader' = "end" /\ UNCHANGED got
    BY <1>t, <2>1, <2>2
  <2>3. CASE reader' = "out" /\ got' = Append(got, took)
    BY <1>t, <2>1, <2>3
  <2>. QED
    BY <1>4, <2>2, <2>3 DEF ReturnFrame
<1>5. CASE SeeDone
  <2>1. CASE (err /\ kind # "subscription") \/ frames = <<>>
    BY <1>5, <1>t, <2>1 DEF SeeDone, CreditInv
  <2>2. CASE ~((err /\ kind # "subscription") \/ frames = <<>>)
    <3>1. Release /\ Pop /\ reader' = "out" /\ got' = Append(got, Head(frames)) /\ reader = "select"
      BY <1>5, <2>2 DEF SeeDone
    <3>2. Head(frames) \in Frame
      BY <3>1, PopTypes DEF ControlInv
    <3>3. Len(got') = Len(got) + 1
      BY <1>t, <3>1, <3>2
    <3>. QED
      BY <1>t, <3>1, <3>3, ReleaseCounts DEF CreditInv
  <2>. QED
    BY <2>1, <2>2
<1>6. CASE CtxEnds \/ LocalEnd
    BY <1>1, <1>6 DEF CtxEnds, LocalEnd, CreditInv
<1>7. ASSUME NEW c \in Conns, ReadLoop(c) PROVE CreditInv'
    BY <1>1, <1>7 DEF ReadLoop, DispatchData, DispatchEnd, Deliver
<1>8. CASE UNCHANGED vars
    BY <1>1, <1>8 DEF vars, CreditInv
<1>. QED
    BY <1>2, <1>3, <1>4, <1>5, <1>6, <1>7, <1>8 DEF Next, Reader, CreditInv

-----------------------------------------------------------------------------
(* The theorems *)

\* The initial state satisfies every part of the invariant.
LEMMA InitInv == Init => IInv
<1> SUFFICES ASSUME Init PROVE IInv
    OBVIOUS
<1>1. \A S : <<>> \in Seq(S) /\ Len(<<>>) = 0 /\ DOMAIN <<>> = {}
    OBVIOUS
<1>2. TypeOK
  <2>1. 1 \in Conns
    BY FlowAssumption DEF Conns
  <2>2. inbound \in [Conns -> Seq(Item)] /\ held \in [Conns -> Frame \cup {NoFrame}]
    BY <1>1 DEF Init
  <2>3. kind \in Kinds /\ live \in Conns /\ ep \in Conns /\ table \subseteq Conns
    BY <2>1 DEF Init
  <2>4. sendq \in Seq(Conns) /\ frames \in Seq(Frame) /\ got \in Seq(Frame)
    BY <1>1 DEF Init
  <2>5. done \in BOOLEAN /\ err \in BOOLEAN /\ (err => done) /\ (ended # 0 => done /\ ~err)
    BY Zenon DEF Init
  <2>6. /\ moving \in {"no", "checked", "set"}
        /\ reader \in {"out", "select", "took", "end", "gaveUp"} /\ took \in Frame \cup {NoFrame}
        /\ inflight \in Nat /\ pending \in Nat /\ granted \in Nat
        /\ sent \in Nat /\ ended \in Conns \cup {0}
    BY DEF Init
  <2>. QED
    BY <2>2, <2>3, <2>4, <2>5, <2>6, Zenon DEF TypeOK
<1>3. ControlInv
    BY <1>1, FlowAssumption DEF Init, ControlInv, WaitersHoldFrames, TookWhileReading,
        OpenIsRegistered, Carried, NotYetLive, AfterComplete, Conns
<1>4. Pipe = <<>> /\ DOMAIN Pipe = {}
  <2>1. Pipe = got \o frames /\ got = <<>> /\ frames = <<>> /\ got \in Seq(Frame)
    BY <1>2, PipeIs DEF Init
  <2>2. Pipe = <<>>
    BY <2>1, ConcatEmptySeq
  <2>. QED
    BY <1>1, <2>2
<1>5. \A c \in Conns : held[c] = NoFrame /\ inbound[c] = <<>> /\ DOMAIN inbound[c] = {}
    BY <1>1 DEF Init
<1>6. OrderInv
    BY <1>4, <1>5 DEF OrderInv, Ordered, Sent
<1>7. GapInv
  <2>1. \A c \in Conns : \A m \in Nat : ~OnTheWay(Pipe, held, inbound, c, m)
    BY <1>4, <1>5 DEF OnTheWay
  <2>2. live \in Conns
    BY <1>2 DEF TypeOK
  <2>. QED
    BY <2>1, <2>2 DEF GapInv, Gapless, UpToSent
<1>8. DrainedInv /\ CreditInv
    BY <1>1, FlowAssumption DEF Init, DrainedInv, CreditInv
<1>. QED
    BY <1>2, <1>3, <1>6, <1>7, <1>8 DEF IInv

\* The invariant holds in every reachable state.
THEOREM FlowInvariant == Spec => []IInv
<1>1. IInv /\ [Next]_vars => IInv'
    BY TypesPreserved, ControlPreserved, WayPreserved, DrainedPreserved, CreditPreserved
       DEF IInv, WayInv
<1>. QED
    BY <1>1, InitInv, PTL DEF Spec

\* A pipe in order without a gap is unbroken: of two neighbouring frames of a connection
\* the second is the successor of the first.
LEMMA PathUnbroken ==
  ASSUME TypeOK, OrderInv, NEW c \in Conns, Gapless(Pipe, held, inbound, c)
  PROVE  Unbroken(Path(c), c)
<1> DEFINE s == Path(c)
<1>1. /\ Len(Pipe) \in Nat
      /\ \A i \in DOMAIN s : \/ i \in DOMAIN Pipe /\ s[i] = Pipe[i]
                             \/ i = Len(Pipe) + 1 /\ held[c] # NoFrame /\ s[i] = held[c]
      /\ \A i \in DOMAIN Pipe : i \in DOMAIN s /\ s[i] = Pipe[i] /\ i \in Nat /\ i < Len(Pipe) + 1
  <2>1. Pipe \in Seq(Frame) /\ Len(Pipe) \in Nat
    BY PipeIs
  <2>2. CASE held[c] = NoFrame
    <3>1. s = Pipe
      BY <2>1, <2>2, ConcatEmptySeq DEF Path
    <3>. QED
      BY <2>1, <3>1
  <2>3. CASE held[c] # NoFrame
    <3>1. held[c] \in Frame
      BY <2>3 DEF TypeOK
    <3>2. s = Append(Pipe, held[c])
      BY <2>1, <2>3, <3>1, AppendIsConcat DEF Path
    <3>3. /\ \A i \in DOMAIN Append(Pipe, held[c]) :
               \/ i \in DOMAIN Pipe /\ Append(Pipe, held[c])[i] = Pipe[i]
               \/ i = Len(Pipe) + 1 /\ Append(Pipe, held[c])[i] = held[c]
          /\ \A i \in DOMAIN Pipe : /\ i \in DOMAIN Append(Pipe, held[c])
                                    /\ Append(Pipe, held[c])[i] = Pipe[i]
                                    /\ i \in Nat /\ i < Len(Pipe) + 1
      BY ONLY <2>1, <3>1
    <3>. QED
      BY <2>1, <2>3, <3>2, <3>3
  <2>. QED
    BY <2>2, <2>3
<1> HIDE DEF s
<1>2. SUFFICES ASSUME NEW i \in DOMAIN s, NEW j \in DOMAIN s, i < j, s[i].conn = c, s[j].conn = c,
                      \A k \in (i + 1)..(j - 1) : s[k].conn # c
               PROVE  s[j].n = s[i].n + 1
    BY DEF Unbroken, s
<1>3. i \in DOMAIN Pipe /\ s[i] = Pipe[i]
    BY <1>1, <1>2
<1>4. /\ s[i].n \in Nat /\ s[j].n \in Nat /\ i \in Nat /\ j \in Nat
  <2>1. s[i] \in Frame /\ s[j] \in Frame
    BY <1>1, <1>3, WayTypes
  <2>. QED
    BY <1>1, <1>2, <2>1 DEF Frame
<1>5. s[i].n < s[j].n
    BY <1>1, <1>2, <1>3 DEF OrderInv, Ordered, Before
<1>6. SUFFICES ASSUME s[i].n + 1 < s[j].n PROVE FALSE
    BY <1>4, <1>5
<1> DEFINE m == s[i].n + 1
<1>7. OnTheWay(Pipe, held, inbound, c, s[i].n) /\ OnTheWay(Pipe, held, inbound, c, s[j].n)
    BY <1>1, <1>2, <1>3 DEF OnTheWay
<1>8. m \in Nat /\ s[i].n < m /\ m < s[j].n
    BY <1>4, <1>6
<1>9. OnTheWay(Pipe, held, inbound, c, m)
    BY <1>4, <1>7, <1>8 DEF Gapless
<1> HIDE DEF m
<1>10. ASSUME NEW k \in DOMAIN Pipe, Pipe[k].conn = c, Pipe[k].n = m PROVE FALSE
  <2>1. k \in DOMAIN s /\ s[k] = Pipe[k] /\ k \in Nat
    BY <1>1
  <2>2. ~(k < i) /\ k # i
    BY <1>2, <1>3, <1>4, <1>8, <1>10 DEF OrderInv, Ordered, Before
  <2>3. k < j
    <3>1. CASE j \in DOMAIN Pipe /\ s[j] = Pipe[j]
      <4>1. ~(j < k) /\ j # k
        BY <1>2, <1>4, <1>8, <1>10, <3>1 DEF OrderInv, Ordered, Before
      <4>. QED
        BY <1>4, <2>1, <4>1
    <3>2. CASE j = Len(Pipe) + 1
      BY <1>1, <3>2
    <3>. QED
      BY <1>1, <3>1, <3>2
  <2>4. k \in (i + 1)..(j - 1)
    BY <1>4, <2>1, <2>2, <2>3
  <2>. QED
    BY <1>2, <1>10, <2>1, <2>4
<1>11. ASSUME held[c] # NoFrame, held[c].n = m PROVE FALSE
  <2>1. held[c].conn = c /\ \A l \in DOMAIN Pipe : Before(Pipe[l], held[c])
    BY <1>11 DEF OrderInv, Ordered
  <2>2. CASE j \in DOMAIN Pipe /\ s[j] = Pipe[j]
    BY ONLY <1>2, <1>4, <1>8, <1>11, <2>1, <2>2 DEF Before
  <2>3. CASE s[j] = held[c]
    BY ONLY <1>4, <1>8, <1>11, <2>3
  <2>. QED
    BY ONLY <1>1, <1>2, <2>2, <2>3
<1>12. ASSUME NEW k \in DOMAIN inbound[c], inbound[c][k].type = "DATA", inbound[c][k].n = m
       PROVE  FALSE
  <2>1. /\ inbound[c][k].conn = c
        /\ \A l \in DOMAIN Pipe : Before(Pipe[l], inbound[c][k])
        /\ held[c] # NoFrame => held[c].conn = c /\ Before(held[c], inbound[c][k])
    BY <1>12 DEF OrderInv, Ordered
  <2>2. CASE j \in DOMAIN Pipe /\ s[j] = Pipe[j]
    BY ONLY <1>2, <1>4, <1>8, <1>12, <2>1, <2>2 DEF Before
  <2>3. CASE held[c] # NoFrame /\ s[j] = held[c]
    BY ONLY <1>2, <1>4, <1>8, <1>12, <2>1, <2>3 DEF Before
  <2>. QED
    BY ONLY <1>1, <1>2, <2>2, <2>3
<1>. QED
    BY <1>9, <1>10, <1>11, <1>12 DEF OnTheWay


-----------------------------------------------------------------------------
(* The properties of the runs *)

\* Types: every variable of the flow keeps its type.
THEOREM FlowTypes == Spec => []TypeOK
<1>. QED
    BY FlowInvariant, PTL DEF IInv

\* No frame is handed to the application twice, and of one connection never an older
\* after a newer one: flow.frames, the blocked deliver and the move to a new connection
\* keep the order of the peer.
THEOREM OrderSafety == Spec => []OrderPerConnection
<1>1. ASSUME IInv PROVE OrderPerConnection
  <2>1. PICK r \in Seq(Frame) : Pipe = got \o r /\ got \in Seq(Frame)
    <3>1. /\ got \in Seq(Frame) /\ frames \in Seq(Frame)
          /\ (IF took = NoFrame THEN <<>> ELSE <<took>>) \in Seq(Frame)
      <4>1. CASE took = NoFrame
        BY <1>1, <4>1, EmptySeq DEF IInv, TypeOK
      <4>2. CASE took # NoFrame
        BY <1>1, <4>2 DEF IInv, TypeOK
      <4>. QED
        BY <4>1, <4>2
    <3> DEFINE w == IF took = NoFrame THEN <<>> ELSE <<took>>
    <3>2. w \in Seq(Frame) /\ Pipe = got \o w \o frames
      BY <3>1 DEF Pipe
    <3> HIDE DEF w
    <3>3. w \o frames \in Seq(Frame) /\ Pipe = got \o (w \o frames)
      BY <3>1, <3>2, ConcatProperties, ConcatAssociative
    <3>. QED
      BY <3>1, <3>3
  <2>2. \A i \in DOMAIN got : i \in DOMAIN Pipe /\ Pipe[i] = got[i]
    BY <2>1, ConcatProperties
  <2>. QED
    BY <1>1, <2>2 DEF IInv, OrderInv, Ordered, Before, OrderPerConnection
<1>. QED
    BY <1>1, FlowInvariant, PTL

\* While the flow is open nothing that came through it is missing: a frame is followed by
\* the next one of its connection, up to the frame in the hands of the read loop.
THEOREM NoHoleSafety == Spec => []NoHoleWhileOpen
<1>1. IInv => NoHoleWhileOpen
    BY PathUnbroken DEF IInv, GapInv, NoHoleWhileOpen
<1>. QED
    BY <1>1, FlowInvariant, PTL

\* A reader that has seen the end of a flow that COMPLETE finished has every frame that
\* was dispatched before COMPLETE.
THEOREM CompleteSafety == Spec => []CompleteMeansAll
<1>1. ASSUME IInv, reader = "end", ended # 0
      PROVE  /\ \A i \in DOMAIN frames : frames[i].conn # ended
             /\ Unbroken(Path(ended), ended)
  <2>1. ended \in Conns
    BY <1>1 DEF IInv, TypeOK
  <2>2. Gapless(Pipe, held, inbound, ended)
    BY <1>1, <2>1 DEF IInv, GapInv
  <2>. QED
    BY <1>1, <2>1, <2>2, PathUnbroken DEF IInv, DrainedInv
<1>. QED
    BY <1>1, FlowInvariant, PTL DEF CompleteMeansAll

\* Credit: every frame taken from the flow is granted back once or waits for the next
\* grant, and less than half a window waits.
THEOREM CreditIsAccounted == Spec => []CreditAccounting
<1>1. IInv => CreditAccounting
    BY SMT DEF IInv, TypeOK, CreditInv, CreditAccounting
<1>. QED
    BY <1>1, FlowInvariant, PTL


=============================================================================
