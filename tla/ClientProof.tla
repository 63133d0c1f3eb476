----------------------------- MODULE ClientProof -----------------------------
(***************************************************************************)
(* Proofs about Client, for any number of calls and reconnections: type    *)
(* correctness, that an answer reaches the call that asked for it, that a  *)
(* waiting call is on the current endpoint and of the current session, and *)
(* that Close ends what it found waiting.                                  *)
(***************************************************************************)
EXTENDS Client, TLAPS

\* A consumer goroutine belongs to a subscription.
ConsumerInv ==
  /\ consumer \in [Flows -> [pc : {"none", "top", "select", "callback", "drain",
                                   "lastCallback", "exited"},
                             f : Flows \cup {None}]]
  /\ \A k \in Flows : consumer[k].pc # "none" => k[1] \in Subscriptions
  /\ resub # None => resub \in Subscriptions \X Conns

\* Where connectLoop is, and what it has made.
LoopInv ==
  /\ loop = "resub" => ep # 0
  /\ loop = "connect" => ep < MaxConns
  /\ session = 0 <=> ep = 0
  /\ ep # 0 => sess[ep] = session

\* connectLoop dials only when the connection before is dead; Close kills the one it read.
DeadInv ==
  /\ \A c \in Conns : c < ep => c \in dead
  /\ loop \in {"top", "dial", "connect", "backoff"} /\ ep # 0 => ep \in dead
  /\ closeEp <= ep
  /\ closing \in {"killed", "done"} /\ closeEp # 0 => closeEp \in dead

Begun(f) == flow[f].state # "none"

\* A call has a flow once it is registered; resubscribing on a connection makes its own.
Phase(a) ==
  /\ call[a] \in {"check", "blocked", "got"} => ~Begun(Own(a))
  /\ call[a] \in {"registered", "waiting", "subscribed", "answered", "closed"} => Begun(Own(a))
  /\ call[a] = "got" => at[a] \in 1..ep
  /\ call[a] = "subscribed" => a \in Subscriptions

PhaseInv ==
  /\ \A a \in Calls : Phase(a)
  /\ loop = "resub" => \A s \in toResub : ~Begun(<<s, ep>>)

\* Flow g has an id that no endpoint from its own up to d gives again: it is below their
\* counters, and below what they have given.
Kept(g, d) ==
  /\ Begun(g) /\ SentOn(g) <= d /\ d <= ep
  /\ \A e \in SentOn(g)..d : flow[g].id < nextID[e]
  /\ \A f \in Flows : Begun(f) /\ SentOn(g) < SentOn(f) /\ SentOn(f) <= d
                        => flow[g].id < flow[f].id

\* Ids are told apart on the endpoint that gave them, ...
GivenInv ==
  /\ \A f \in Flows : Begun(f) => SentOn(f) \in 1..ep /\ flow[f].id < nextID[SentOn(f)]
  /\ \A f, g \in Flows : Begun(f) /\ Begun(g) /\ f # g /\ SentOn(f) = SentOn(g)
                           => flow[f].id # flow[g].id

\* ... as far as a flow was moved, and, when an answer is to come, on every endpoint.
KeptInv ==
  /\ \A c \in Conns : \A g \in table[c] : Kept(g, c)
  /\ \A f \in owed : Kept(f, ep)

IdInv == GivenInv /\ KeptInv

\* A call that waits is in the table of every endpoint since it was sent, so of the one
\* that is current and of the one that Close has read.
WaitingInv ==
  \A a \in Calls : call[a] = "waiting" /\ Open(Own(a)) =>
    /\ flow[Own(a)].ep = ep /\ sess[at[a]] = session
    /\ \A d \in at[a]..ep : Own(a) \in table[d]
    /\ closing = "done" => closeEp < at[a]

\* A registered call of the current endpoint is there to be found.
RegisteredInv ==
  \A a \in Calls : call[a] = "registered" /\ at[a] = ep /\ Open(Own(a)) =>
    flow[Own(a)].ep = ep /\ Own(a) \in table[ep]

IInv ==
  /\ TypeOK /\ ConsumerInv /\ LoopInv /\ DeadInv /\ PhaseInv /\ IdInv
  /\ WaitingInv /\ RegisteredInv /\ AnswersGoHome


-----------------------------------------------------------------------------
(* What the steps do to flows and tables *)

\* A flow is the one of a call or the one of subscribing again on a connection.
LEMMA FlowParts ==
  ASSUME NEW f \in Flows
  PROVE  \/ f[2] = 0 /\ f[1] \in Calls /\ f = Own(f[1])
         \/ f[2] \in Conns /\ f[1] \in Subscriptions /\ f = <<f[1], f[2]>>
<1>1. CASE f \in Calls \X {0}
    BY <1>1 DEF Own
<1>2. CASE f \in Subscriptions \X Conns
    BY <1>2
<1>. QED
    BY <1>1, <1>2 DEF Flows

\* The flow of a call, and the connection it was sent on.
LEMMA OwnFlow ==
  ASSUME NEW a \in Calls
  PROVE  Own(a) \in Flows /\ SentOn(Own(a)) = at[a] /\ Own(a)[1] = a /\ Own(a)[2] = 0
<1>1. Own(a) = <<a, 0>> /\ Own(a) \in Calls \X {0}
    BY DEF Own
<1>. QED
    BY <1>1 DEF Flows, SentOn

\* The flow of subscribing again on connection c.
LEMMA ResubFlow ==
  ASSUME NEW s \in Subscriptions, NEW c \in Conns
  PROVE  <<s, c>> \in Flows /\ SentOn(<<s, c>>) = c
<1>1. <<s, c>> \in Subscriptions \X Conns /\ <<s, c>>[2] = c /\ c # 0
    BY DEF Conns
<1>. QED
    BY <1>1 DEF Flows, SentOn

\* finish ends the open ones among S, takes them out of a table, and leaves all else.
LEMMA FinishEffect ==
  ASSUME TypeOK, NEW S, NEW r \in {"ok", "failed"}, Finish(S, r)
  PROVE  /\ flow' \in [Flows -> Flow] /\ table' \in [Conns -> SUBSET Flows]
         /\ \A f \in Flows : /\ flow'[f].id = flow[f].id /\ flow'[f].ep = flow[f].ep
                             /\ flow'[f].got = flow[f].got
                             /\ flow'[f].state # "none" <=> flow[f].state # "none"
                             /\ flow'[f].state = "open" <=> flow[f].state = "open" /\ f \notin S
         /\ \A c \in Conns : /\ table'[c] \subseteq table[c]
                             /\ \A f \in table[c] : f \notin S => f \in table'[c]
<1> DEFINE ends == {f \in S : flow[f].state = "open"}
<1>1. /\ flow' = [f \in Flows |-> IF f \in ends THEN [flow[f] EXCEPT !.state = r] ELSE flow[f]]
      /\ table' = [c \in Conns |-> table[c] \ {f \in ends : flow[f].ep = c}]
    BY Zenon DEF Finish, FinishIn
<1>2. /\ table' \in [Conns -> SUBSET Flows]
      /\ \A c \in Conns : /\ table'[c] \subseteq table[c]
                          /\ \A f \in table[c] : f \notin S => f \in table'[c]
    BY <1>1 DEF TypeOK
<1>3. ASSUME NEW f \in Flows
      PROVE  /\ flow'[f] \in Flow
             /\ flow'[f].id = flow[f].id /\ flow'[f].ep = flow[f].ep
             /\ flow'[f].got = flow[f].got
             /\ flow'[f].state # "none" <=> flow[f].state # "none"
             /\ flow'[f].state = "open" <=> flow[f].state = "open" /\ f \notin S
  <2>1. flow[f] \in Flow
    BY DEF TypeOK
  <2>2. CASE f \in ends
    <3>1. flow'[f] = [flow[f] EXCEPT !.state = r]
      BY <1>1, <2>2
    <3>. QED
      BY <2>1, <2>2, <3>1 DEF Flow
  <2>3. CASE f \notin ends
    <3>1. flow'[f] = flow[f]
      BY <1>1, <2>3
    <3>. QED
      BY <2>1, <2>3, <3>1
  <2>. QED
    BY <2>2, <2>3
<1>4. flow' \in [Flows -> Flow]
    BY <1>1, <1>3
<1>. QED
    BY <1>2, <1>3, <1>4

\* A new flow gets the next id of its endpoint and replaces what the table has under it.
LEMMA StartEffect ==
  ASSUME TypeOK, NEW f \in Flows, NEW c \in Conns, NewFlow(f, c)
  PROVE  /\ flow' \in [Flows -> Flow] /\ table' \in [Conns -> SUBSET Flows]
         /\ nextID' \in [Conns -> Nat \ {0}]
         /\ \A e \in Conns : nextID'[e] = IF e = c THEN nextID[c] + 1 ELSE nextID[e]
         /\ flow'[f].state = "open" /\ flow'[f].id = nextID[c] /\ flow'[f].ep = c
         /\ flow'[f].got = None
         /\ \A g \in Flows : g # f => flow'[g] = flow[g]
         /\ \A e \in Conns : e # c => table'[e] = table[e]
         /\ table'[c] = {g \in table[c] : flow[g].id # nextID[c]} \cup {f}
<1> DEFINE new == [NoFlow EXCEPT !.state = "open", !.id = nextID[c], !.ep = c]
<1>1. /\ nextID' = [nextID EXCEPT ![c] = nextID[c] + 1]
      /\ flow' = [flow EXCEPT ![f] = new]
      /\ table' = [table EXCEPT ![c] = {g \in @ : flow[g].id # nextID[c]} \cup {f}]
    BY Zenon DEF NewFlow
<1>2. new.state = "open" /\ new.id = nextID[c] /\ new.ep = c /\ new.got = None
    BY DEF NoFlow
<1>3. new \in Flow
  <2>1. nextID[c] \in Nat /\ c \in 0..MaxConns
    BY DEF TypeOK, Conns
  <2>. QED
    BY <2>1 DEF NoFlow, Flow
<1> HIDE DEF new
<1>. QED
    BY <1>1, <1>2, <1>3 DEF TypeOK


-----------------------------------------------------------------------------
(* Type correctness *)

Streamless == UNCHANGED <<nextID, table, flow>>

\* The steps of connectLoop that make no flow.
LEMMA LoopTypes ==
  ASSUME TypeOK, ConsumerInv, LoopTop \/ DialTCP \/ ConnectFails \/ Backoff \/ ConnLost
  PROVE  TypeOK' /\ ConsumerInv'
<1>1. /\ UNCHANGED <<dial, closeVars, connVars, notify, subs, streamVars, callVars, owed, subVars,
                     established, toResub, resub>>
      /\ loop' \in {"top", "dial", "connect", "backoff", "stopped"}
      /\ handshake' \in {handshake, "error"}
    BY DEF LoopTop, DialTCP, ConnectFails, Backoff, ConnLost, LoopOnly, Stop, Handshake
<1>. QED
    BY <1>1 DEF closeVars, connVars, streamVars, callVars, subVars, TypeOK, ConsumerInv

\* A session is bound: the open flows of the old endpoint move on or fail.
LEMMA BindTypes ==
  ASSUME TypeOK, ConsumerInv, LoopInv, BindSession
  PROVE  TypeOK' /\ ConsumerInv'
<1>1. PICK resumed \in BOOLEAN : Bind(resumed, TRUE, TRUE, NextOfOld)
    BY DEF BindSession
<1> DEFINE c == ep + 1
           failed == session # 0 /\ ~resumed
           old == IF ep = 0 THEN {} ELSE table[ep]
           moved == {f \in old : Open(f) /\ ~failed}
<1>2. c \in Conns /\ ep' = c /\ ep' \in 0..MaxConns /\ ep < c
    BY <1>1, ClientAssumption DEF Bind, LoopInv, TypeOK, Conns
<1>3. session' \in 0..MaxConns /\ sess' \in [Conns -> 0..MaxConns]
  <2>1. session' = IF resumed THEN session ELSE c
    BY <1>1 DEF Bind
  <2>2. sess' = [sess EXCEPT ![c] = session']
    BY <1>1 DEF Bind
  <2>. QED
    BY <1>2, <2>1, <2>2 DEF TypeOK
<1>4. old \subseteq Flows /\ moved \subseteq Flows
    BY DEF TypeOK, Conns
<1>5. flow' \in [Flows -> Flow] /\ table' \in [Conns -> SUBSET Flows]
  <2>1. CASE failed
    <3>1. Finish(old, "failed")
      BY <1>1, <2>1 DEF Bind
    <3>. QED
      BY <3>1, FinishEffect
  <2>2. CASE ~failed
    <3>1. /\ flow' = [f \in Flows |-> IF f \in moved THEN [flow[f] EXCEPT !.ep = c] ELSE flow[f]]
          /\ table' = [table EXCEPT ![c] = moved]
      BY <1>1, <2>2 DEF Bind
    <3>2. ASSUME NEW f \in Flows PROVE flow'[f] \in Flow
      <4>1. flow[f] \in Flow /\ c \in 0..MaxConns
        BY <1>2 DEF TypeOK
      <4>2. [flow[f] EXCEPT !.ep = c] \in Flow
        BY <4>1 DEF Flow
      <4>. QED
        BY <3>1, <4>1, <4>2
    <3>. QED
      BY <1>4, <3>1, <3>2 DEF TypeOK
  <2>. QED
    BY <2>1, <2>2
<1>6. nextID' \in [Conns -> Nat \ {0}]
  <2>1. NextOfOld \in Nat \ {0}
    BY DEF NextOfOld, TypeOK, Conns
  <2>2. nextID' = [nextID EXCEPT ![c] = NextOfOld]
    BY <1>1 DEF Bind
  <2>. QED
    BY <2>1, <2>2 DEF TypeOK
<1>7. toResub' \subseteq Subscriptions /\ loop' = "resub"
    BY <1>1 DEF Bind, TypeOK
<1>8. /\ dead' \subseteq 1..ep'
      /\ UNCHANGED <<dial, closeVars, notify, subs, dead, callVars, owed, subVars, established,
                     resub, handshake>>
    BY <1>1, <1>2 DEF Bind, TypeOK
<1> HIDE DEF c, failed, old, moved
<1>. QED
    BY <1>2, <1>3, <1>5, <1>6, <1>7, <1>8
       DEF closeVars, callVars, subVars, TypeOK, ConsumerInv

\* The other steps of connectLoop.
LEMMA ResubTypes ==
  ASSUME TypeOK, ConsumerInv, LoopInv,
         (\E s \in Subscriptions : ResubSend(s)) \/ ResubEnds \/ Established
  PROVE  TypeOK' /\ ConsumerInv'
<1>1. ASSUME NEW s \in Subscriptions, ResubSend(s) PROVE TypeOK' /\ ConsumerInv'
  <2>1. ep \in Conns /\ <<s, ep>> \in Flows /\ <<s, ep>> \in Subscriptions \X Conns
    BY <1>1, ResubFlow DEF ResubSend, LoopInv, TypeOK, Conns
  <2>2. /\ flow' \in [Flows -> Flow] /\ table' \in [Conns -> SUBSET Flows]
        /\ nextID' \in [Conns -> Nat \ {0}]
        /\ resub' \in {resub, <<s, ep>>} /\ owed' \in {owed, owed \cup {<<s, ep>>}}
    <3>1. CASE Alive(ep)
      <4>1. NewFlow(<<s, ep>>, ep) /\ resub' = <<s, ep>> /\ owed' = owed \cup {<<s, ep>>}
        BY <1>1, <3>1 DEF ResubSend
      <4>. QED
        BY <2>1, <4>1, StartEffect
    <3>2. CASE ~Alive(ep)
      <4>1. nextID' = [nextID EXCEPT ![ep] = @ + 1] /\ UNCHANGED <<flow, table, resub, owed>>
        BY <1>1, <3>2 DEF ResubSend
      <4>. QED
        BY <2>1, <4>1 DEF TypeOK
    <3>. QED
      BY <3>1, <3>2
  <2>3. /\ toResub' = toResub \ {s}
        /\ UNCHANGED <<dial, closeVars, connVars, notify, subs, callVars, subVars, loop,
                       established, handshake>>
    BY <1>1 DEF ResubSend
  <2>. QED
    BY <2>1, <2>2, <2>3 DEF closeVars, connVars, callVars, subVars, TypeOK, ConsumerInv
<1>2. CASE ResubEnds
  <2>1. /\ resub \in Subscriptions \X Conns /\ resub' = None
        /\ resub[1] \in Subscriptions /\ resub \in Flows
    BY <1>2 DEF ResubEnds, ConsumerInv, Flows
  <2>2. subF' \in [Subscriptions -> Flows \cup {None}] /\ ConsumerInv'
    <3>1. CASE UNCHANGED subVars
      BY <2>1, <3>1 DEF subVars, ConsumerInv, TypeOK
    <3>2. CASE /\ subF' = [subF EXCEPT ![resub[1]] = resub]
               /\ consumer' = [consumer EXCEPT ![resub] = [pc |-> "top", f |-> None]]
      BY <2>1, <3>2 DEF ConsumerInv, TypeOK
    <3>. QED
      BY <1>2, <3>1, <3>2 DEF ResubEnds
  <2>3. UNCHANGED <<dial, closeVars, connVars, notify, subs, streamVars, callVars, owed, loop,
                    established, toResub, handshake>>
    BY <1>2 DEF ResubEnds
  <2>. QED
    BY <2>1, <2>2, <2>3 DEF closeVars, connVars, callVars, streamVars, TypeOK, ConsumerInv
<1>3. CASE Established
    BY <1>3 DEF Established, Handshake, closeVars, connVars, callVars, streamVars, subVars,
       TypeOK, ConsumerInv
<1>. QED
    BY <1>1, <1>2, <1>3


\* The calls, as far as they touch streams.
LEMMA CallerTypes ==
  ASSUME TypeOK, ConsumerInv, PhaseInv, NEW a \in Calls, Caller(a) \/ CtxEnds(a)
  PROVE  TypeOK' /\ ConsumerInv'
<1>0. /\ Own(a) \in Flows
      /\ \A pc \in Phases : GoTo(a, pc) => call' \in [Calls -> Phases]
    BY OwnFlow DEF GoTo, TypeOK
<1>1. CASE CheckEp(a)
  <2>1. /\ call' \in [Calls -> Phases] /\ at' \in [Calls -> 0..MaxConns]
        /\ UNCHANGED <<notify, streamVars, owed>> /\ CallOnly
    BY <1>0, <1>1 DEF CheckEp, TypeOK, Phases
  <2>. QED
    BY <2>1 DEF CallOnly, loopVars, closeVars, connVars, streamVars, subVars, TypeOK, ConsumerInv
<1>2. CASE Wakes(a)
  <2>1. /\ call' \in [Calls -> Phases] /\ notify' \in {0, 1}
        /\ UNCHANGED <<streamVars, at, owed>> /\ CallOnly
    BY <1>0, <1>2 DEF Wakes, TypeOK, Phases
  <2>. QED
    BY <2>1 DEF CallOnly, loopVars, closeVars, connVars, streamVars, subVars, TypeOK, ConsumerInv
<1>3. CASE Registers(a)
  <2>1. NewFlow(Own(a), at[a]) /\ at[a] \in Conns
    BY <1>3 DEF Registers, PhaseInv, Phase, TypeOK, Conns
  <2>2. /\ flow' \in [Flows -> Flow] /\ table' \in [Conns -> SUBSET Flows]
        /\ nextID' \in [Conns -> Nat \ {0}]
    BY <1>0, <2>1, StartEffect
  <2>3. call' \in [Calls -> Phases] /\ UNCHANGED <<notify, at, owed>> /\ CallOnly
    BY <1>0, <1>3 DEF Registers, Phases
  <2>. QED
    BY <2>2, <2>3 DEF CallOnly, loopVars, closeVars, connVars, subVars, TypeOK, ConsumerInv
<1>4. CASE Sends(a)
  <2>1. /\ owed' \subseteq Flows /\ table' \in [Conns -> SUBSET Flows]
        /\ call' \in [Calls -> Phases]
    <3>1. CASE Alive(at[a])
      BY <1>0, <1>4, <3>1 DEF Sends, TypeOK, Phases
    <3>2. CASE ~Alive(at[a])
      BY <1>0, <1>4, <3>2 DEF Sends, TypeOK, Phases
    <3>. QED
      BY <3>1, <3>2
  <2>2. UNCHANGED <<notify, nextID, flow, at>> /\ CallOnly
    BY <1>4 DEF Sends
  <2>. QED
    BY <2>1, <2>2 DEF CallOnly, loopVars, closeVars, connVars, subVars, TypeOK, ConsumerInv
<1>5. CASE RequestAnswered(a)
  <2>1. Finish({Own(a)}, "ok") /\ UNCHANGED <<notify, nextID, at, owed>> /\ CallOnly
    BY <1>5 DEF RequestAnswered
  <2>2. call' \in [Calls -> Phases]
    BY <1>0, <1>5 DEF RequestAnswered, Phases
  <2>3. flow' \in [Flows -> Flow] /\ table' \in [Conns -> SUBSET Flows]
    BY <2>1, FinishEffect
  <2>. QED
    BY <2>1, <2>2, <2>3 DEF CallOnly, loopVars, closeVars, connVars, subVars, TypeOK, ConsumerInv
<1>6. CASE Subscribed(a)
  <2>1. /\ subF' \in [Subscriptions -> Flows \cup {None}] /\ ConsumerInv'
        /\ call' \in [Calls -> Phases]
    <3>1. /\ consumer' = [consumer EXCEPT ![Own(a)] = [pc |-> "top", f |-> None]]
          /\ subF' = [subF EXCEPT ![a] = Own(a)] /\ UNCHANGED resub /\ a \in Subscriptions
      BY <1>6 DEF Subscribed, loopVars
    <3>2. ConsumerInv'
      BY <1>0, <3>1, OwnFlow DEF ConsumerInv
    <3>. QED
      BY <1>0, <1>6, <3>1, <3>2 DEF Subscribed, TypeOK, Phases
  <2>2. UNCHANGED <<notify, streamVars, at, owed, dial, loopVars, closeVars, connVars, subs>>
    BY <1>6 DEF Subscribed
  <2>. QED
    BY <2>1, <2>2 DEF loopVars, closeVars, connVars, streamVars, TypeOK, ConsumerInv
<1>7. CASE Remembers(a)
  <2>1. call' \in [Calls -> Phases] /\ subs' = subs \cup {a}
    BY <1>0, <1>7 DEF Remembers, Phases
  <2>2. a \in Subscriptions
    BY <1>7 DEF Remembers, PhaseInv, Phase
  <2>3. UNCHANGED <<notify, streamVars, at, owed, dial, loopVars, closeVars, connVars, subVars>>
    BY <1>7 DEF Remembers
  <2>. QED
    BY <2>1, <2>2, <2>3
       DEF loopVars, closeVars, connVars, streamVars, subVars, TypeOK, ConsumerInv
<1>8. CASE CallFails(a)
  <2>1. /\ call' \in [Calls -> Phases] /\ UNCHANGED <<notify, streamVars, at, owed>> /\ CallOnly
    BY <1>0, <1>8 DEF CallFails, Phases
  <2>. QED
    BY <2>1 DEF CallOnly, loopVars, closeVars, connVars, streamVars, subVars, TypeOK, ConsumerInv
<1>9. CASE CtxEnds(a)
  <2>1. UNCHANGED <<notify, nextID, at, owed>> /\ CallOnly
    BY <1>9 DEF CtxEnds
  <2>2. call' \in [Calls -> Phases]
    BY <1>0, <1>9 DEF CtxEnds, Phases
  <2>3. flow' \in [Flows -> Flow] /\ table' \in [Conns -> SUBSET Flows]
    <3>1. CASE UNCHANGED <<flow, table>>
      BY <3>1 DEF TypeOK
    <3>2. CASE Finish({Own(a)}, "failed")
      BY <3>2, FinishEffect
    <3>. QED
      BY <1>9, <3>1, <3>2 DEF CtxEnds
  <2>. QED
    BY <2>1, <2>2, <2>3 DEF CallOnly, loopVars, closeVars, connVars, subVars, TypeOK, ConsumerInv
<1>. QED
    BY <1>1, <1>2, <1>3, <1>4, <1>5, <1>6, <1>7, <1>8, <1>9 DEF Caller


\* Consumers, Close and Dial.
LEMMA OtherTypes ==
  ASSUME TypeOK, ConsumerInv,
         \/ ConnDies \/ DialReturns \/ CloseStarts \/ Close
         \/ \E f \in Flows : Consume(f)
         \/ \E s \in Subscriptions : CloseSubscription(s)
         \/ \E f \in Flows, c \in Conns : Answer(c, f)
         \/ UNCHANGED vars
  PROVE  TypeOK' /\ ConsumerInv'
<1>1. CASE ConnDies
  <2>1. dead' = dead \cup {ep} /\ ep # 0
    BY <1>1 DEF ConnDies, Alive
  <2>2. ep \in Nat /\ dead \subseteq 1..ep
    BY DEF TypeOK
  <2>3. dead' \subseteq 1..ep
    BY <2>1, <2>2
  <2>. QED
    BY <1>1, <2>3 DEF ConnDies, loopVars, closeVars, callVars, streamVars, subVars, TypeOK,
        ConsumerInv
<1>2. CASE DialReturns \/ CloseStarts
  <2>1. /\ closed' \in BOOLEAN /\ closing' \in {closing, "closed"} /\ dial' \in {dial, "nil", "error"}
        /\ UNCHANGED <<loopVars, closeEp, connVars, notify, subs, streamVars, callVars, owed, subVars>>
    <3>1. CASE DialReturns
      BY <3>1 DEF DialReturns, closeVars, TypeOK
    <3>2. CASE CloseStarts
      BY <3>2 DEF CloseStarts
    <3>. QED
      BY <1>2, <3>1, <3>2
  <2>. QED
    BY <2>1 DEF loopVars, connVars, callVars, streamVars, subVars, TypeOK, ConsumerInv
<1>3. CASE CloseKills
  <2>1. dead' \subseteq 1..ep
    <3>1. ep \in Nat /\ dead \subseteq 1..ep
      BY DEF TypeOK
    <3>2. ep # 0 => ep \in 1..ep
      BY <3>1
    <3>3. dead' = IF ep = 0 THEN dead ELSE dead \cup {ep}
      BY <1>3 DEF CloseKills
    <3>. QED
      BY <3>1, <3>2, <3>3
  <2>. QED
    BY <1>3, <2>1 DEF CloseKills, loopVars, callVars, streamVars, subVars, TypeOK, ConsumerInv
<1>4. CASE CloseFails
  <2>1. flow' \in [Flows -> Flow] /\ table' \in [Conns -> SUBSET Flows]
    <3>1. CASE UNCHANGED <<flow, table>>
      BY <3>1 DEF TypeOK
    <3>2. CASE Finish(table[closeEp], "failed")
      BY <3>2, FinishEffect
    <3>. QED
      BY <1>4, <3>1, <3>2 DEF CloseFails
  <2>2. /\ dial' \in {dial, "ctx"} /\ closing' = "done"
        /\ UNCHANGED <<loopVars, closed, closeEp, connVars, notify, subs, nextID, callVars, owed,
                       subVars>>
    BY <1>4 DEF CloseFails
  <2>. QED
    BY <2>1, <2>2 DEF loopVars, connVars, callVars, subVars, TypeOK, ConsumerInv
<1>5. ASSUME NEW k \in Flows, Consume(k) PROVE TypeOK' /\ ConsumerInv'
  <2>1. PICK pc \in {"top", "select", "callback", "drain", "lastCallback", "exited"},
             f \in Flows \cup {None} : ConsumerIs(k, pc, f) /\ consumer[k].pc # "none"
    <3>1. consumer[k].f \in Flows \cup {None}
      BY DEF TypeOK
    <3>2. consumer[k].pc = "top" => subF[k[1]] \in Flows \cup {None}
      BY DEF TypeOK, ConsumerInv
    <3>. QED
      BY <1>5, <3>1, <3>2
         DEF Consume, ReadsF, TakesFrame, SeesDone, CallbackReturns, Drained
  <2>2. /\ consumer' = [consumer EXCEPT ![k] = [pc |-> pc, f |-> f]]
        /\ UNCHANGED <<dial, loopVars, closeVars, connVars, notify, subs, streamVars, callVars,
                       owed, subF>>
    BY <2>1 DEF ConsumerIs
  <2>3. ConsumerInv'
    BY <2>1, <2>2 DEF ConsumerInv, loopVars
  <2>. QED
    BY <2>2, <2>3 DEF loopVars, closeVars, connVars, streamVars, callVars, TypeOK, ConsumerInv
<1>6. ASSUME NEW s \in Subscriptions, CloseSubscription(s) PROVE TypeOK' /\ ConsumerInv'
  <2>1. Finish({subF[s]}, "ok") /\ UNCHANGED <<notify, nextID, at, owed>> /\ CallOnly
    BY <1>6 DEF CloseSubscription
  <2>2. call' \in [Calls -> Phases]
    BY <1>6 DEF CloseSubscription, GoTo, Phases, TypeOK
  <2>3. flow' \in [Flows -> Flow] /\ table' \in [Conns -> SUBSET Flows]
    BY <2>1, FinishEffect
  <2>. QED
    BY <2>1, <2>2, <2>3 DEF CallOnly, loopVars, closeVars, connVars, subVars, TypeOK, ConsumerInv
<1>7. ASSUME NEW f \in Flows, NEW c \in Conns, Answer(c, f) PROVE TypeOK' /\ ConsumerInv'
  <2>1. owed' = owed \ {f} /\ UNCHANGED <<notify, nextID, callVars>> /\ CallOnly
    BY <1>7 DEF Answer
  <2>2. flow' \in [Flows -> Flow] /\ table' \in [Conns -> SUBSET Flows]
    <3>1. CASE /\ flow' = [g \in Flows |-> IF g \in Lookup(c, f) THEN [flow[g] EXCEPT !.got = f]
                                                                ELSE flow[g]]
               /\ UNCHANGED table
      <4>1. \A g \in Flows : flow[g] \in Flow /\ [flow[g] EXCEPT !.got = f] \in Flow
        BY DEF TypeOK, Flow
      <4>. QED
        BY <3>1, <4>1 DEF TypeOK
    <3>2. CASE Finish(Lookup(c, f), "failed")
      BY <3>2, FinishEffect
    <3>. QED
      BY <1>7, <3>1, <3>2 DEF Answer
  <2>. QED
    BY <2>1, <2>2 DEF CallOnly, loopVars, closeVars, connVars, subVars, callVars, TypeOK,
        ConsumerInv
<1>8. CASE UNCHANGED vars
    BY <1>8 DEF vars, loopVars, closeVars, connVars, callVars, streamVars, subVars, TypeOK,
        ConsumerInv
<1>. QED
    BY <1>1, <1>2, <1>3, <1>4, <1>5, <1>6, <1>7, <1>8 DEF Close

\* Every step keeps the types.
LEMMA TypesPreserved ==
  ASSUME TypeOK, ConsumerInv, LoopInv, PhaseInv, [Next]_vars
  PROVE  TypeOK' /\ ConsumerInv'
BY LoopTypes, BindTypes, ResubTypes, CallerTypes, OtherTypes DEF Next, ConnectLoop


-----------------------------------------------------------------------------
(* connectLoop and the phases of the calls *)

\* The steps that leave connectLoop, its connections and Close alone.
Elsewhere == UNCHANGED <<loop, toResub, ep, session, sess, dead, closing, closeEp>>

\* The calls, the answers, the consumers and Dial leave connectLoop alone.
LEMMA StepsElsewhere ==
  ASSUME \/ DialReturns \/ UNCHANGED vars \/ ResubEnds
         \/ \E a \in Calls : Caller(a) \/ CtxEnds(a)
         \/ \E f \in Flows : Consume(f) \/ \E c \in Conns : Answer(c, f)
         \/ \E s \in Subscriptions : CloseSubscription(s)
  PROVE  Elsewhere
<1>1. CASE DialReturns \/ UNCHANGED vars \/ ResubEnds
    BY <1>1 DEF DialReturns, ResubEnds, Elsewhere, vars, loopVars, closeVars, connVars
<1>2. ASSUME NEW a \in Calls, Caller(a) \/ CtxEnds(a) PROVE Elsewhere
    BY <1>2 DEF Caller, CheckEp, Wakes, Registers, Sends, RequestAnswered, Subscribed, Remembers,
        CallFails, CtxEnds, CallOnly, Elsewhere, loopVars, closeVars, connVars
<1>3. ASSUME NEW f \in Flows, Consume(f) PROVE Elsewhere
    BY <1>3 DEF Consume, ReadsF, TakesFrame, SeesDone, CallbackReturns, Drained, ConsumerIs,
        Elsewhere, loopVars, closeVars, connVars
<1>4. ASSUME NEW f \in Flows, NEW c \in Conns, Answer(c, f) PROVE Elsewhere
    BY <1>4 DEF Answer, CallOnly, Elsewhere, loopVars, closeVars, connVars
<1>5. ASSUME NEW s \in Subscriptions, CloseSubscription(s) PROVE Elsewhere
    BY <1>5 DEF CloseSubscription, CallOnly, Elsewhere, loopVars, closeVars, connVars
<1>. QED
    BY <1>1, <1>2, <1>3, <1>4, <1>5

\* connectLoop makes a new connection only after the death of the one before.
LEMMA LoopPreserved ==
  ASSUME TypeOK, LoopInv, DeadInv, [Next]_vars
  PROVE  LoopInv' /\ DeadInv'
<1>0. ep \in Nat /\ closeEp \in Nat /\ MaxConns \in Nat
    BY ClientAssumption DEF TypeOK
<1>1. CASE Elsewhere
    BY <1>1 DEF Elsewhere, LoopInv, DeadInv
<1>2. CASE LoopTop \/ DialTCP \/ ConnectFails \/ Backoff
    BY <1>2 DEF LoopTop, DialTCP, ConnectFails, Backoff, Stop, LoopOnly, closeVars, connVars,
        LoopInv, DeadInv
<1>3. CASE ConnLost
    BY <1>3 DEF ConnLost, Alive, LoopOnly, closeVars, connVars, LoopInv, DeadInv
<1>4. CASE BindSession
  <2>1. PICK resumed \in BOOLEAN : Bind(resumed, TRUE, TRUE, NextOfOld)
    BY <1>4 DEF BindSession
  <2>2. /\ ep' = ep + 1 /\ loop = "connect" /\ loop' = "resub" /\ UNCHANGED <<dead, closeEp, closing>>
        /\ session' = (IF resumed THEN session ELSE ep + 1) /\ (resumed => session # 0)
        /\ sess' = [sess EXCEPT ![ep + 1] = session']
    BY <2>1 DEF Bind, closeVars
  <2>3. ep + 1 \in Conns /\ session \in Nat
    BY <1>0, <2>2 DEF LoopInv, TypeOK, Conns
  <2>4. sess'[ep'] = session' /\ session' # 0
    BY <1>0, <2>2, <2>3 DEF TypeOK
  <2>5. \A c \in Conns : c < ep + 1 => c < ep \/ c = ep
    BY <1>0 DEF Conns
  <2>. QED
    BY <1>0, <2>2, <2>3, <2>4, <2>5 DEF LoopInv, DeadInv, Conns
<1>5. ASSUME NEW s \in Subscriptions, ResubSend(s) PROVE LoopInv' /\ DeadInv'
    BY <1>5 DEF ResubSend, closeVars, connVars, LoopInv, DeadInv
<1>6. CASE Established
    BY <1>6 DEF Established, closeVars, connVars, LoopInv, DeadInv
<1>7. CASE ConnDies
    BY <1>7 DEF ConnDies, loopVars, closeVars, LoopInv, DeadInv
<1>8. CASE CloseStarts \/ CloseKills \/ CloseFails
    BY <1>0, <1>8 DEF CloseStarts, CloseKills, CloseFails, loopVars, connVars, LoopInv, DeadInv
<1>. QED
    BY <1>1, <1>2, <1>3, <1>4, <1>5, <1>6, <1>7, <1>8, StepsElsewhere
       DEF Next, ConnectLoop, Close



\* The steps that start no flow, and change the id of none.
Lasting ==
  \A f \in Flows : /\ flow'[f].id = flow[f].id
                   /\ flow'[f].state # "none" <=> flow[f].state # "none"

\* Flows are started by a call that registers and by subscribing again, by nothing else.
LEMMA LastingSteps ==
  ASSUME TypeOK, [Next]_vars
  PROVE  \/ Lasting
         \/ \E a \in Calls : Registers(a)
         \/ \E s \in Subscriptions : ResubSend(s) /\ Alive(ep)
<1>1. CASE UNCHANGED flow
    BY <1>1 DEF Lasting
<1>2. ASSUME NEW S, NEW r \in {"ok", "failed"}, Finish(S, r) PROVE Lasting
    BY <1>2, FinishEffect DEF Lasting
<1>3. CASE LoopTop \/ DialTCP \/ ConnectFails \/ Backoff \/ ResubEnds \/ Established \/ ConnLost
    BY <1>1, <1>3 DEF LoopTop, DialTCP, ConnectFails, Backoff, ResubEnds, Established, ConnLost,
        LoopOnly, streamVars
<1>4. CASE BindSession
  <2>1. PICK resumed \in BOOLEAN : Bind(resumed, TRUE, TRUE, NextOfOld)
    BY <1>4 DEF BindSession
  <2>2. CASE session # 0 /\ ~resumed
    <3>1. Finish(IF ep = 0 THEN {} ELSE table[ep], "failed")
      BY <2>1, <2>2 DEF Bind
    <3>. QED
      BY <1>2, <3>1
  <2>3. CASE ~(session # 0 /\ ~resumed)
    <3>1. PICK moved :
            flow' = [f \in Flows |-> IF f \in moved THEN [flow[f] EXCEPT !.ep = ep + 1] ELSE flow[f]]
      BY <2>1, <2>3 DEF Bind
    <3>2. ASSUME NEW f \in Flows
          PROVE  flow'[f].id = flow[f].id /\ flow'[f].state = flow[f].state
      <4>1. flow[f] \in Flow
        BY DEF TypeOK
      <4>2. flow'[f] = IF f \in moved THEN [flow[f] EXCEPT !.ep = ep + 1] ELSE flow[f]
        BY <3>1
      <4>. QED
        BY <4>1, <4>2 DEF Flow
    <3>. QED
      BY <3>2 DEF Lasting
  <2>. QED
    BY <2>2, <2>3
<1>5. ASSUME NEW s \in Subscriptions, ResubSend(s), ~Alive(ep) PROVE Lasting
  <2>1. UNCHANGED flow
    BY <1>5 DEF ResubSend
  <2>. QED
    BY <2>1 DEF Lasting
<1>6. CASE ConnDies \/ DialReturns \/ CloseStarts \/ CloseKills \/ UNCHANGED vars
    BY <1>1, <1>6 DEF ConnDies, DialReturns, CloseStarts, CloseKills, vars, streamVars
<1>7. CASE CloseFails
    BY <1>1, <1>2, <1>7 DEF CloseFails
<1>8. ASSUME NEW a \in Calls, Caller(a) \/ CtxEnds(a), ~Registers(a) PROVE Lasting
  <2>1. CASE CheckEp(a) \/ Wakes(a) \/ Sends(a) \/ Subscribed(a) \/ Remembers(a) \/ CallFails(a)
    <3>1. UNCHANGED flow
      BY <2>1 DEF CheckEp, Wakes, Sends, Subscribed, Remembers, CallFails, streamVars
    <3>. QED
      BY <3>1 DEF Lasting
  <2>2. CASE RequestAnswered(a)
    <3>1. Finish({Own(a)}, "ok")
      BY <2>2 DEF RequestAnswered
    <3>. QED
      BY <1>2, <3>1
  <2>3. CASE CtxEnds(a)
    <3>1. UNCHANGED flow \/ Finish({Own(a)}, "failed")
      BY <2>3 DEF CtxEnds
    <3>. QED
      BY <1>2, <3>1 DEF Lasting
  <2>. QED
    BY <1>8, <2>1, <2>2, <2>3 DEF Caller
<1>9. ASSUME NEW f \in Flows, NEW c \in Conns, Answer(c, f) PROVE Lasting
  <2>1. CASE flow' = [g \in Flows |-> IF g \in Lookup(c, f) THEN [flow[g] EXCEPT !.got = f]
                                                           ELSE flow[g]]
    <3>1. ASSUME NEW g \in Flows
          PROVE  flow'[g].id = flow[g].id /\ flow'[g].state = flow[g].state
      <4>1. flow[g] \in Flow
        BY DEF TypeOK
      <4>2. flow'[g] = IF g \in Lookup(c, f) THEN [flow[g] EXCEPT !.got = f] ELSE flow[g]
        BY <2>1
      <4>. QED
        BY <4>1, <4>2 DEF Flow
    <3>. QED
      BY <3>1 DEF Lasting
  <2>. QED
    BY <1>2, <1>9, <2>1 DEF Answer
<1>10. ASSUME NEW f \in Flows, Consume(f) PROVE Lasting
  <2>1. UNCHANGED flow
    BY <1>10 DEF Consume, ReadsF, TakesFrame, SeesDone, CallbackReturns, Drained, ConsumerIs,
        streamVars
  <2>. QED
    BY <2>1 DEF Lasting
<1>11. ASSUME NEW s \in Subscriptions, CloseSubscription(s) PROVE Lasting
    BY <1>2, <1>11 DEF CloseSubscription
<1>. QED
    BY <1>3, <1>4, <1>5, <1>6, <1>7, <1>8, <1>9, <1>10, <1>11 DEF Next, ConnectLoop, Close


\* A call moves by its own steps, and by the Close of its subscription.
LEMMA CallSteps ==
  ASSUME TypeOK, [Next]_vars, NEW b \in Calls
  PROVE  \/ Caller(b) \/ CtxEnds(b)
         \/ b \in Subscriptions /\ CloseSubscription(b)
         \/ call'[b] = call[b] /\ at'[b] = at[b]
<1>1. CASE \/ LoopTop \/ DialTCP \/ ConnectFails \/ Backoff \/ ResubEnds \/ Established
           \/ ConnLost \/ ConnDies \/ DialReturns \/ CloseStarts \/ CloseKills \/ CloseFails
           \/ UNCHANGED vars
    BY <1>1 DEF LoopTop, DialTCP, ConnectFails, Backoff, ResubEnds, Established, ConnLost,
        LoopOnly, ConnDies, DialReturns, CloseStarts, CloseKills, CloseFails, vars, callVars
<1>2. CASE BindSession
    BY <1>2 DEF BindSession, Bind, callVars
<1>3. ASSUME NEW s \in Subscriptions, ResubSend(s) PROVE UNCHANGED callVars
    BY <1>3 DEF ResubSend
<1>4. ASSUME NEW a \in Calls, Caller(a) \/ CtxEnds(a), a # b
      PROVE  call'[b] = call[b] /\ at'[b] = at[b]
    BY <1>4 DEF Caller, CheckEp, Wakes, Registers, Sends, RequestAnswered, Subscribed, Remembers,
        CallFails, CtxEnds, GoTo, TypeOK
<1>5. ASSUME NEW f \in Flows, NEW c \in Conns, Answer(c, f) PROVE UNCHANGED callVars
    BY <1>5 DEF Answer
<1>6. ASSUME NEW f \in Flows, Consume(f) PROVE UNCHANGED callVars
    BY <1>6 DEF Consume, ReadsF, TakesFrame, SeesDone, CallbackReturns, Drained, ConsumerIs
<1>7. ASSUME NEW s \in Subscriptions, CloseSubscription(s), s # b
      PROVE  call'[b] = call[b] /\ at'[b] = at[b]
    BY <1>7 DEF CloseSubscription, GoTo, TypeOK
<1>8. UNCHANGED callVars => call'[b] = call[b] /\ at'[b] = at[b]
    BY DEF callVars
<1>. QED
    BY <1>1, <1>2, <1>3, <1>4, <1>5, <1>6, <1>7, <1>8 DEF Next, ConnectLoop, Close

\* The current connection is the one before or a new one.
LEMMA ConnSteps ==
  ASSUME TypeOK, [Next]_vars
  PROVE  \/ UNCHANGED <<ep, session, sess>>
         \/ BindSession /\ ep' = ep + 1
<1>1. CASE Elsewhere
    BY <1>1 DEF Elsewhere
<1>2. CASE LoopTop \/ DialTCP \/ ConnectFails \/ Backoff \/ Established \/ ConnLost \/ ConnDies
    BY <1>2 DEF LoopTop, DialTCP, ConnectFails, Backoff, Established, ConnLost, LoopOnly, ConnDies,
        connVars
<1>3. CASE BindSession
    BY <1>3 DEF BindSession, Bind
<1>4. ASSUME NEW s \in Subscriptions, ResubSend(s) PROVE UNCHANGED <<ep, session, sess>>
    BY <1>4 DEF ResubSend, connVars
<1>5. CASE CloseStarts \/ CloseKills \/ CloseFails
    BY <1>5 DEF CloseStarts, CloseKills, CloseFails, connVars
<1>. QED
    BY <1>1, <1>2, <1>3, <1>4, <1>5, StepsElsewhere DEF Next, ConnectLoop, Close

\* What the phase of a call says about its flow stays true.
LEMMA PhasesOfCalls ==
  ASSUME TypeOK, PhaseInv, [Next]_vars, NEW b \in Calls
  PROVE  Phase(b)'
<1>0. ep \in Nat /\ (ep' = ep \/ ep' = ep + 1) /\ call[b] \in Phases /\ Own(b) \in Flows
      /\ Phase(b)
    BY ConnSteps, OwnFlow DEF TypeOK, PhaseInv
<1>1. CASE Registers(b)
  <2>1. NewFlow(Own(b), at[b]) /\ call' = [call EXCEPT ![b] = "registered"] /\ call[b] = "got"
    BY <1>1 DEF Registers, GoTo
  <2>2. at[b] \in Conns
    BY <1>0, <2>1 DEF Phase, TypeOK, Conns
  <2>3. flow'[Own(b)].state = "open"
    BY <1>0, <2>1, <2>2, StartEffect
  <2>4. call'[b] = "registered"
    BY <2>1 DEF TypeOK
  <2>. QED
    BY <2>3, <2>4 DEF Phase, Begun
<1>2. CASE ~Registers(b)
  <2>1. flow'[Own(b)].state # "none" <=> flow[Own(b)].state # "none"
    <3>1. CASE Lasting
      BY <1>0, <3>1 DEF Lasting
    <3>2. ASSUME NEW a \in Calls, Registers(a) PROVE flow'[Own(b)] = flow[Own(b)]
      <4>1. NewFlow(Own(a), at[a]) /\ at[a] \in Conns /\ Own(a) \in Flows /\ Own(a) # Own(b)
        BY <1>0, <1>2, <3>2, OwnFlow DEF Registers, PhaseInv, Phase, TypeOK, Conns
      <4>. QED
        BY <1>0, <4>1, StartEffect
    <3>3. ASSUME NEW s \in Subscriptions, ResubSend(s), Alive(ep)
          PROVE  flow'[Own(b)] = flow[Own(b)]
      <4>1. ep \in Conns
        BY <1>0, <3>3 DEF Alive, TypeOK, Conns
      <4>2. NewFlow(<<s, ep>>, ep) /\ <<s, ep>> \in Flows /\ <<s, ep>> # Own(b)
        BY <3>3, <4>1, ResubFlow, OwnFlow DEF ResubSend, Own, Conns
      <4>. QED
        BY <1>0, <4>1, <4>2, StartEffect
    <3>. QED
      BY <3>1, <3>2, <3>3, LastingSteps
  <2>2. CASE call'[b] = call[b] /\ at'[b] = at[b]
    <3>1. at[b] \in 1..ep => at[b] \in 1..ep'
      BY <1>0
    <3>. QED
      BY <1>0, <2>1, <2>2, <3>1 DEF Phase, Begun
  <2>3. CASE CheckEp(b)
    <3>1. /\ call[b] = "check" /\ call'[b] \in {"got", "blocked"}
          /\ call'[b] = "got" => Alive(ep) /\ at'[b] = ep
          /\ UNCHANGED ep
      BY <2>3 DEF CheckEp, GoTo, CallOnly, connVars, TypeOK
    <3>2. call'[b] = "got" => at'[b] \in 1..ep'
      BY <1>0, <3>1 DEF Alive
    <3>. QED
      BY <1>0, <2>1, <3>1, <3>2 DEF Phase, Begun
  <2>4. CASE Wakes(b)
    <3>1. call[b] = "blocked" /\ call'[b] \in {"check", "failed"}
      BY <2>4 DEF Wakes, GoTo, TypeOK
    <3>. QED
      BY <1>0, <2>1, <3>1 DEF Phase, Begun
  <2>5. CASE \/ Sends(b) \/ RequestAnswered(b) \/ Subscribed(b) \/ Remembers(b) \/ CallFails(b)
             \/ CtxEnds(b)
             \/ b \in Subscriptions /\ CloseSubscription(b)
    <3>1. /\ call'[b] \in {"waiting", "failed", "answered", "subscribed", "closed"}
          /\ call'[b] \in {"waiting", "answered", "subscribed", "closed"}
               => call[b] \in {"registered", "waiting", "subscribed", "answered"}
          /\ call'[b] = "subscribed" => b \in Subscriptions
      BY <2>5 DEF Sends, RequestAnswered, Subscribed, Remembers, CallFails, CtxEnds,
          CloseSubscription, GoTo, TypeOK
    <3>. QED
      BY <1>0, <2>1, <3>1 DEF Phase, Begun
  <2>. QED
    <3>1. \/ Caller(b) \/ CtxEnds(b)
          \/ b \in Subscriptions /\ CloseSubscription(b)
          \/ call'[b] = call[b] /\ at'[b] = at[b]
      BY CallSteps
    <3>. QED
      BY <1>2, <2>2, <2>3, <2>4, <2>5, <3>1 DEF Caller
<1>. QED
    BY <1>1, <1>2


-----------------------------------------------------------------------------
(* Stream ids *)

\* A flow that has begun stays with the connection it was sent on.
LEMMA SentStays ==
  ASSUME TypeOK, PhaseInv, [Next]_vars, NEW f \in Flows, Begun(f)
  PROVE  SentOn(f)' = SentOn(f)
<1>1. CASE f[2] = 0 /\ f[1] \in Calls /\ f = Own(f[1])
  <2> DEFINE b == f[1]
  <2>1. call[b] # "check"
    BY <1>1 DEF PhaseInv, Phase
  <2>2. CASE Caller(b) \/ CtxEnds(b)
    <3>1. at' = at
      BY <2>1, <2>2 DEF Caller, CheckEp, Wakes, Registers, Sends, RequestAnswered, Subscribed,
          Remembers, CallFails, CtxEnds
    <3>. QED
      BY <3>1 DEF SentOn
  <2>3. CASE b \in Subscriptions /\ CloseSubscription(b)
    BY <2>3 DEF CloseSubscription, SentOn
  <2>4. CASE at'[b] = at[b]
    BY <1>1, <2>4 DEF SentOn
  <2>. QED
    BY <1>1, <2>2, <2>3, <2>4, CallSteps
<1>2. CASE f[2] \in Conns
    BY <1>2 DEF SentOn, Conns
<1>. QED
    BY <1>1, <1>2, FlowParts

\* How ids are given: the counters only grow, and a flow that begins takes the number of
\* the endpoint it is sent on.
IdStep ==
  /\ ep' = ep \/ ep' = ep + 1
  /\ \A e \in 1..ep : nextID[e] <= nextID'[e]
  /\ \A f \in Flows : Begun(f) =>
       flow'[f].state # "none" /\ flow'[f].id = flow[f].id /\ SentOn(f)' = SentOn(f)
  /\ \A f \in Flows : flow'[f].state # "none" /\ ~Begun(f) =>
       /\ SentOn(f)' \in 1..ep /\ flow'[f].id = nextID[SentOn(f)']
       /\ nextID'[SentOn(f)'] = flow'[f].id + 1
  /\ \A f, g \in Flows : /\ flow'[f].state # "none" /\ ~Begun(f)
                         /\ flow'[g].state # "none" /\ ~Begun(g)
                         => f = g



\* The counters of the endpoints move with what is started, and with a new endpoint.
LEMMA CounterSteps ==
  ASSUME TypeOK, [Next]_vars
  PROVE  \/ nextID' = nextID
         \/ BindSession
         \/ \E a \in Calls : Registers(a)
         \/ \E s \in Subscriptions : ResubSend(s)
<1>1. CASE \/ LoopTop \/ DialTCP \/ ConnectFails \/ Backoff \/ ResubEnds \/ Established
           \/ ConnLost \/ ConnDies \/ DialReturns \/ CloseStarts \/ CloseKills \/ CloseFails
           \/ UNCHANGED vars
    BY <1>1 DEF LoopTop, DialTCP, ConnectFails, Backoff, ResubEnds, Established, ConnLost,
        LoopOnly, ConnDies, DialReturns, CloseStarts, CloseKills, CloseFails, vars, streamVars
<1>2. ASSUME NEW a \in Calls, Caller(a) \/ CtxEnds(a), ~Registers(a) PROVE nextID' = nextID
    BY <1>2 DEF Caller, CheckEp, Wakes, Sends, RequestAnswered, Subscribed, Remembers,
        CallFails, CtxEnds, streamVars
<1>3. ASSUME NEW f \in Flows, NEW c \in Conns, Answer(c, f) PROVE nextID' = nextID
    BY <1>3 DEF Answer
<1>4. ASSUME NEW f \in Flows, Consume(f) PROVE nextID' = nextID
    BY <1>4 DEF Consume, ReadsF, TakesFrame, SeesDone, CallbackReturns, Drained, ConsumerIs,
        streamVars
<1>5. ASSUME NEW s \in Subscriptions, CloseSubscription(s) PROVE nextID' = nextID
    BY <1>5 DEF CloseSubscription
<1>. QED
    BY <1>1, <1>2, <1>3, <1>4, <1>5 DEF Next, ConnectLoop, Close

\* Every step gives ids like that.
LEMMA IdSteps ==
  ASSUME TypeOK, LoopInv, PhaseInv, [Next]_vars
  PROVE  IdStep
<1>0. /\ ep \in Nat /\ nextID \in [Conns -> Nat \ {0}] /\ 1..ep \subseteq Conns
      /\ \A f \in Flows : Begun(f) => SentOn(f)' = SentOn(f)
  <2>1. ep \in Nat /\ nextID \in [Conns -> Nat \ {0}] /\ 1..ep \subseteq Conns
    BY ClientAssumption DEF TypeOK, Conns
  <2>. QED
    BY <2>1, SentStays
<1>1. ASSUME NEW h \in Flows, NEW c \in 1..ep, NewFlow(h, c), SentOn(h)' = c, UNCHANGED ep,
             ~Begun(h)
      PROVE  IdStep
  <2>1. c \in Conns
    BY <1>0
  <2>2. /\ \A e \in Conns : nextID'[e] = IF e = c THEN nextID[c] + 1 ELSE nextID[e]
        /\ flow'[h].id = nextID[c]
        /\ \A g \in Flows : g # h => flow'[g] = flow[g]
    BY <1>1, <2>1, StartEffect
  <2>3. \A e \in 1..ep : nextID[e] <= nextID'[e]
    BY <1>0, <2>1, <2>2
  <2>4. \A g \in Flows : Begun(g) => flow'[g] = flow[g]
    BY <1>1, <2>2
  <2>5. \A g \in Flows : flow'[g].state # "none" /\ ~Begun(g) => g = h
    BY <2>2 DEF Begun
  <2>6. nextID'[c] = flow'[h].id + 1
    BY <1>0, <2>1, <2>2
  <2>. QED
    BY <1>0, <1>1, <2>2, <2>3, <2>4, <2>5, <2>6 DEF IdStep, Begun
<1>2. ASSUME Lasting, ep' = ep \/ ep' = ep + 1, \A e \in 1..ep : nextID[e] <= nextID'[e]
      PROVE  IdStep
    BY <1>0, <1>2 DEF IdStep, Lasting, Begun
<1>3. ASSUME NEW a \in Calls, Registers(a) PROVE IdStep
  <2>1. NewFlow(Own(a), at[a]) /\ UNCHANGED <<at, ep>> /\ call[a] = "got"
    BY <1>3 DEF Registers, CallOnly, connVars
  <2>2. at[a] \in 1..ep /\ ~Begun(Own(a)) /\ Own(a) \in Flows /\ SentOn(Own(a))' = at[a]
    BY <2>1, OwnFlow DEF PhaseInv, Phase, SentOn
  <2>. QED
    BY <1>1, <2>1, <2>2
<1>4. ASSUME NEW s \in Subscriptions, ResubSend(s) PROVE IdStep
  <2>1. ep \in 1..ep /\ ep' = ep /\ s \in toResub
    BY <1>0, <1>4 DEF ResubSend, connVars, LoopInv
  <2>2. CASE Alive(ep)
    <3>1. ~Begun(<<s, ep>>) /\ <<s, ep>> \in Flows /\ SentOn(<<s, ep>>)' = ep
      BY <1>0, <1>4, <2>1, ResubFlow DEF PhaseInv, ResubSend, SentOn, Conns
    <3>2. NewFlow(<<s, ep>>, ep)
      BY <1>4, <2>2 DEF ResubSend
    <3>. QED
      BY <1>1, <2>1, <3>1, <3>2
  <2>3. CASE ~Alive(ep)
    <3>1. nextID' = [nextID EXCEPT ![ep] = @ + 1] /\ flow' = flow
      BY <1>4, <2>3 DEF ResubSend
    <3>2. \A e \in 1..ep : nextID[e] <= nextID'[e]
      BY <1>0, <3>1
    <3>. QED
      BY <1>2, <2>1, <3>1, <3>2 DEF Lasting
  <2>. QED
    BY <2>2, <2>3
<1>5. CASE BindSession
  <2>1. PICK resumed \in BOOLEAN : Bind(resumed, TRUE, TRUE, NextOfOld)
    BY <1>5 DEF BindSession
  <2>2. nextID' = [nextID EXCEPT ![ep + 1] = NextOfOld] /\ ep' = ep + 1
    BY <2>1 DEF Bind
  <2>3. \A e \in 1..ep : nextID[e] <= nextID'[e]
    BY <1>0, <2>2
  <2>4. Lasting
    <3>1. ASSUME NEW a \in Calls, Registers(a) PROVE FALSE
      BY <1>0, <2>2, <3>1 DEF Registers, CallOnly, connVars
    <3>2. ASSUME NEW s \in Subscriptions, ResubSend(s) PROVE FALSE
      BY <1>0, <2>2, <3>2 DEF ResubSend, connVars
    <3>. QED
      BY <3>1, <3>2, LastingSteps
  <2>. QED
    BY <1>2, <2>2, <2>3, <2>4
<1>6. CASE nextID' = nextID /\ Lasting
  <2>1. \A e \in 1..ep : nextID[e] <= nextID'[e]
    BY <1>0, <1>6
  <2>. QED
    BY <1>2, <1>6, <2>1, ConnSteps
<1>. QED
    BY <1>3, <1>4, <1>5, <1>6, CounterSteps, LastingSteps


\* An id that is kept apart on the endpoints up to d stays so.
LEMMA KeptStays ==
  ASSUME TypeOK, TypeOK', GivenInv, IdStep, NEW g \in Flows, NEW d \in Conns, Kept(g, d)
  PROVE  Kept(g, d)'
<1>0. /\ ep \in Nat /\ d \in Nat /\ flow[g].id \in Nat
      /\ \A e \in Conns : nextID[e] \in Nat /\ nextID'[e] \in Nat
  <2>1. flow[g] \in Flow /\ ep \in Nat
    BY DEF TypeOK
  <2>2. nextID \in [Conns -> Nat \ {0}] /\ nextID' \in [Conns -> Nat \ {0}]
    BY DEF TypeOK
  <2>. QED
    BY <2>1, <2>2 DEF Flow, Conns
<1>1. /\ flow'[g].state # "none" /\ flow'[g].id = flow[g].id /\ SentOn(g)' = SentOn(g)
      /\ SentOn(g) \in 1..ep /\ SentOn(g) <= d /\ d <= ep
    BY DEF IdStep, Kept, GivenInv
<1>2. d <= ep'
    BY <1>0, <1>1 DEF IdStep
<1>3. ASSUME NEW e \in SentOn(g)..d PROVE flow[g].id < nextID'[e]
  <2>1. e \in 1..ep /\ e \in Conns
    BY <1>0, <1>1, ClientAssumption DEF Conns
  <2>2. flow[g].id < nextID[e] /\ nextID[e] <= nextID'[e]
    BY <2>1 DEF Kept, IdStep
  <2>. QED
    BY <1>0, <2>1, <2>2
<1>4. ASSUME NEW f \in Flows, flow'[f].state # "none",
             SentOn(g) < SentOn(f)', SentOn(f)' <= d
      PROVE  flow[g].id < flow'[f].id
  <2>1. CASE Begun(f)
    BY <1>4, <2>1 DEF Kept, IdStep
  <2>2. CASE ~Begun(f)
    <3>1. SentOn(f)' \in 1..ep /\ flow'[f].id = nextID[SentOn(f)']
      BY <1>4, <2>2 DEF IdStep
    <3>2. SentOn(f)' \in SentOn(g)..d
      BY <1>0, <1>1, <1>4, <3>1
    <3>. QED
      BY <3>1, <3>2 DEF Kept
  <2>. QED
    BY <2>1, <2>2
<1>. QED
  <2>1. /\ \A e \in SentOn(g)'..d : flow'[g].id < nextID'[e]
        /\ \A f \in Flows : /\ flow'[f].state # "none" /\ SentOn(g)' < SentOn(f)'
                            /\ SentOn(f)' <= d
                            => flow'[g].id < flow'[f].id
    BY <1>1, <1>3, <1>4
  <2>. QED
    BY <1>1, <1>2, <2>1 DEF Kept, Begun

\* The flows that have begun have ids of their own after the step.
LEMMA GivenPreserved ==
  ASSUME TypeOK, TypeOK', GivenInv, IdStep
  PROVE  GivenInv'
<1>0. /\ ep \in Nat /\ (ep' = ep \/ ep' = ep + 1)
      /\ \A e \in 1..ep : nextID[e] \in Nat /\ nextID'[e] \in Nat
      /\ \A f \in Flows : flow[f].id \in Nat /\ flow'[f].id \in Nat
    BY ClientAssumption DEF TypeOK, Conns, Flow, IdStep
<1>1. ASSUME NEW f \in Flows, Begun(f)
      PROVE  /\ SentOn(f)' = SentOn(f) /\ SentOn(f) \in 1..ep
             /\ flow'[f].id = flow[f].id /\ flow[f].id < nextID[SentOn(f)]
             /\ nextID[SentOn(f)] <= nextID'[SentOn(f)]
    BY <1>1 DEF IdStep, GivenInv
<1>2. ASSUME NEW f \in Flows, ~Begun(f), flow'[f].state # "none"
      PROVE  /\ SentOn(f)' \in 1..ep /\ flow'[f].id = nextID[SentOn(f)']
             /\ nextID'[SentOn(f)'] = flow'[f].id + 1
    BY <1>2 DEF IdStep
<1>3. ASSUME NEW f \in Flows, flow'[f].state # "none"
      PROVE  SentOn(f)' \in 1..ep' /\ flow'[f].id < nextID'[SentOn(f)']
  <2>1. CASE Begun(f)
    BY <1>0, <1>1, <2>1
  <2>2. CASE ~Begun(f)
    BY <1>0, <1>2, <1>3, <2>2
  <2>. QED
    BY <2>1, <2>2
<1>4. ASSUME NEW f \in Flows, NEW g \in Flows, flow'[f].state # "none", flow'[g].state # "none",
             f # g, SentOn(f)' = SentOn(g)'
      PROVE  flow'[f].id # flow'[g].id
  <2>1. CASE Begun(f) /\ Begun(g)
    BY <1>1, <1>4, <2>1 DEF GivenInv
  <2>2. CASE Begun(f) /\ ~Begun(g)
    BY <1>0, <1>1, <1>2, <1>4, <2>2
  <2>3. CASE ~Begun(f) /\ Begun(g)
    BY <1>0, <1>1, <1>2, <1>4, <2>3
  <2>4. CASE ~Begun(f) /\ ~Begun(g)
    BY <1>4, <2>4 DEF IdStep
  <2>. QED
    BY <2>1, <2>2, <2>3, <2>4
<1>. QED
    BY <1>3, <1>4 DEF GivenInv, Begun

\* After a step: the id of a flow is kept apart on the endpoint that it was sent on.
LEMMA KeptWhereSent ==
  ASSUME TypeOK', GivenInv', NEW g \in Flows, flow'[g].state # "none"
  PROVE  Kept(g, SentOn(g))'
<1>0. /\ \A f \in Flows : flow'[f].state # "none" => SentOn(f)' \in 1..ep'
      /\ flow'[g].id < nextID'[SentOn(g)'] /\ ep' \in Nat
    BY DEF GivenInv, Begun, TypeOK
<1>1. SentOn(g)' \in 1..ep'
    BY <1>0
<1>2. \A e \in SentOn(g)'..SentOn(g)' : flow'[g].id < nextID'[e]
    BY <1>0, <1>1
<1>3. \A f \in Flows : flow'[f].state # "none" =>
        ~(SentOn(g)' < SentOn(f)' /\ SentOn(f)' <= SentOn(g)')
    BY <1>0, <1>1
<1>. QED
    BY <1>0, <1>1, <1>2, <1>3 DEF Kept, Begun

\* A table gets the flow that begins, and what moves from the table of the endpoint before.
LEMMA TableSteps ==
  ASSUME TypeOK, LoopInv, PhaseInv, [Next]_vars,
         NEW c \in Conns, NEW g \in table'[c]
  PROVE  \/ g \in table[c]
         \/ flow'[g].state # "none" /\ SentOn(g)' = c
         \/ BindSession /\ ep # 0 /\ c = ep + 1 /\ g \in table[ep]
<1>1. CASE table' = table
    BY <1>1
<1>2. ASSUME NEW S, NEW r \in {"ok", "failed"}, Finish(S, r) PROVE g \in table[c]
    BY <1>2, FinishEffect
<1>3. ASSUME NEW h \in Flows, NEW d \in Conns, NewFlow(h, d)
      PROVE  g \in table[c] \/ (g = h /\ c = d /\ flow'[g].state = "open")
    BY <1>3, StartEffect
<1>4. CASE \/ LoopTop \/ DialTCP \/ ConnectFails \/ Backoff \/ ResubEnds \/ Established
           \/ ConnLost \/ ConnDies \/ DialReturns \/ CloseStarts \/ CloseKills
           \/ UNCHANGED vars
    BY <1>1, <1>4 DEF LoopTop, DialTCP, ConnectFails, Backoff, ResubEnds, Established, ConnLost,
        LoopOnly, ConnDies, DialReturns, CloseStarts, CloseKills, vars, streamVars
<1>5. CASE CloseFails
    BY <1>1, <1>2, <1>5 DEF CloseFails
<1>6. ASSUME NEW a \in Calls, Registers(a)
      PROVE  \/ g \in table[c]
             \/ flow'[g].state # "none" /\ SentOn(g)' = c
  <2>1. NewFlow(Own(a), at[a]) /\ at' = at /\ at[a] \in Conns
    BY <1>6 DEF Registers, PhaseInv, Phase, TypeOK, Conns
  <2>2. Own(a) \in Flows /\ SentOn(Own(a))' = at[a]
    BY <2>1, OwnFlow DEF SentOn
  <2>. QED
    BY <1>3, <2>1, <2>2
<1>7. ASSUME NEW a \in Calls, Caller(a) \/ CtxEnds(a), ~Registers(a) PROVE g \in table[c]
  <2>1. CASE CheckEp(a) \/ Wakes(a) \/ Subscribed(a) \/ Remembers(a) \/ CallFails(a)
    BY <2>1 DEF CheckEp, Wakes, Subscribed, Remembers, CallFails, streamVars
  <2>2. CASE Sends(a)
    BY <2>2 DEF Sends, TypeOK
  <2>3. CASE RequestAnswered(a)
    <3>1. Finish({Own(a)}, "ok")
      BY <2>3 DEF RequestAnswered
    <3>. QED
      BY <1>2, <3>1
  <2>4. CASE CtxEnds(a)
    <3>1. table' = table \/ Finish({Own(a)}, "failed")
      BY <2>4 DEF CtxEnds
    <3>. QED
      BY <1>2, <3>1
  <2>. QED
    BY <1>7, <2>1, <2>2, <2>3, <2>4 DEF Caller
<1>8. ASSUME NEW s \in Subscriptions, ResubSend(s)
      PROVE  \/ g \in table[c]
             \/ flow'[g].state # "none" /\ SentOn(g)' = c
  <2>1. CASE Alive(ep)
    <3>1. NewFlow(<<s, ep>>, ep) /\ ep \in Conns
      BY <1>8, <2>1 DEF ResubSend, LoopInv, TypeOK, Conns
    <3>2. PICK h \in Flows : h = <<s, ep>>
      BY <3>1, ResubFlow
    <3>3. SentOn(h)' = ep
      BY <3>1, <3>2 DEF SentOn, Conns
    <3>4. g \in table[c] \/ (g = h /\ c = ep /\ flow'[g].state = "open")
      BY <1>3, <3>1, <3>2
    <3>. QED
      BY <3>3, <3>4
  <2>2. CASE ~Alive(ep)
    BY <1>8, <2>2 DEF ResubSend
  <2>. QED
    BY <2>1, <2>2
<1>9. CASE BindSession
  <2>1. PICK resumed \in BOOLEAN : Bind(resumed, TRUE, TRUE, NextOfOld)
    BY <1>9 DEF BindSession
  <2>2. CASE session # 0 /\ ~resumed
    <3>1. Finish(IF ep = 0 THEN {} ELSE table[ep], "failed")
      BY <2>1, <2>2 DEF Bind
    <3>. QED
      BY <1>2, <3>1
  <2>3. CASE ~(session # 0 /\ ~resumed)
    <3>1. PICK moved : /\ table' = [table EXCEPT ![ep + 1] = moved]
                       /\ moved \subseteq IF ep = 0 THEN {} ELSE table[ep]
      BY <2>1, <2>3 DEF Bind
    <3>. QED
      BY <1>9, <3>1 DEF TypeOK
  <2>. QED
    BY <2>2, <2>3
<1>10. ASSUME NEW f \in Flows, NEW d \in Conns, Answer(d, f) PROVE g \in table[c]
  <2>1. table' = table \/ Finish(Lookup(d, f), "failed")
    BY <1>10 DEF Answer
  <2>. QED
    BY <1>2, <2>1
<1>11. ASSUME NEW f \in Flows, Consume(f) PROVE g \in table[c]
    BY <1>11 DEF Consume, ReadsF, TakesFrame, SeesDone, CallbackReturns, Drained, ConsumerIs,
        streamVars
<1>12. ASSUME NEW s \in Subscriptions, CloseSubscription(s) PROVE g \in table[c]
  <2>1. Finish({subF[s]}, "ok")
    BY <1>12 DEF CloseSubscription
  <2>. QED
    BY <1>2, <2>1
<1>. QED
    BY <1>4, <1>5, <1>6, <1>7, <1>8, <1>9, <1>10, <1>11, <1>12 DEF Next, ConnectLoop, Close


\* An answer is owed to what was sent on the connection that is current.
LEMMA OwedSteps ==
  ASSUME TypeOK, LoopInv, DeadInv, PhaseInv, GivenInv, [Next]_vars, NEW g \in owed'
  PROVE  \/ g \in owed
         \/ g \in Flows /\ flow'[g].state # "none" /\ SentOn(g)' = ep'
<1>1. CASE \/ LoopTop \/ DialTCP \/ ConnectFails \/ Backoff \/ ResubEnds \/ Established
           \/ ConnLost \/ ConnDies \/ DialReturns \/ CloseStarts \/ CloseKills \/ CloseFails
           \/ UNCHANGED vars
    BY <1>1 DEF LoopTop, DialTCP, ConnectFails, Backoff, ResubEnds, Established, ConnLost,
        LoopOnly, ConnDies, DialReturns, CloseStarts, CloseKills, CloseFails, vars
<1>2. CASE BindSession
    BY <1>2 DEF BindSession, Bind
<1>3. ASSUME NEW s \in Subscriptions, ResubSend(s)
      PROVE  g \in owed \/ (g \in Flows /\ flow'[g].state # "none" /\ SentOn(g)' = ep')
  <2>1. CASE Alive(ep) /\ g \notin owed
    <3>1. NewFlow(<<s, ep>>, ep) /\ ep \in Conns /\ g = <<s, ep>> /\ ep' = ep
      BY <1>3, <2>1 DEF ResubSend, LoopInv, TypeOK, Conns, connVars
    <3>2. g \in Flows
      BY <3>1, ResubFlow
    <3>3. SentOn(g)' = ep
      BY <3>1 DEF SentOn, Conns
    <3>4. flow'[g].state = "open"
      BY <3>1, <3>2, StartEffect
    <3>. QED
      BY <3>1, <3>2, <3>3, <3>4
  <2>2. CASE ~Alive(ep)
    BY <1>3, <2>2 DEF ResubSend
  <2>. QED
    BY <2>1, <2>2
<1>4. ASSUME NEW a \in Calls, Sends(a)
      PROVE  g \in owed \/ (g \in Flows /\ flow'[g].state # "none" /\ SentOn(g)' = ep')
  <2>1. CASE Alive(at[a]) /\ g \notin owed
    <3>1. /\ g = Own(a) /\ call[a] = "registered" /\ flow' = flow /\ at' = at /\ ep' = ep
      BY <1>4, <2>1 DEF Sends, CallOnly, connVars
    <3>2. g \in Flows /\ Begun(g) /\ SentOn(g) = at[a] /\ SentOn(g)' = at[a]
      BY <3>1, OwnFlow DEF PhaseInv, Phase, SentOn
    <3>3. at[a] \in 1..ep /\ ep \in Nat
      BY <3>2 DEF GivenInv, TypeOK
    <3>4. at[a] = ep
      BY <2>1, <3>3, ClientAssumption DEF DeadInv, Alive, Conns, TypeOK
    <3>. QED
      BY <3>1, <3>2, <3>4 DEF Begun
  <2>2. CASE ~Alive(at[a])
    BY <1>4, <2>2 DEF Sends
  <2>. QED
    BY <2>1, <2>2 DEF Begun
<1>5. ASSUME NEW a \in Calls, Caller(a) \/ CtxEnds(a), ~Sends(a) PROVE owed' = owed
    BY <1>5 DEF Caller, CheckEp, Wakes, Registers, RequestAnswered, Subscribed, Remembers,
        CallFails, CtxEnds
<1>6. ASSUME NEW f \in Flows, NEW c \in Conns, Answer(c, f) PROVE g \in owed
    BY <1>6 DEF Answer
<1>7. ASSUME NEW f \in Flows, Consume(f) PROVE owed' = owed
    BY <1>7 DEF Consume, ReadsF, TakesFrame, SeesDone, CallbackReturns, Drained, ConsumerIs
<1>8. ASSUME NEW s \in Subscriptions, CloseSubscription(s) PROVE owed' = owed
    BY <1>8 DEF CloseSubscription
<1>. QED
    BY <1>1, <1>2, <1>3, <1>4, <1>5, <1>6, <1>7, <1>8 DEF Next, ConnectLoop, Close


\* A new endpoint d goes on with the counter of the one before, c: what was kept apart up
\* to that one is kept apart from what the new one gives.
LEMMA KeptMovesOn ==
  ASSUME TypeOK, TypeOK', LoopInv, GivenInv, IdStep, BindSession,
         NEW c \in Conns, NEW d \in Conns, c = ep, d = ep + 1,
         NEW g \in Flows, Kept(g, c)
  PROVE  Kept(g, d)'
<1>0. ep' = d /\ d = c + 1 /\ c \in Nat /\ nextID'[d] = nextID[c]
  <2>1. PICK resumed \in BOOLEAN : Bind(resumed, TRUE, TRUE, NextOfOld)
    BY DEF BindSession
  <2>2. ep # 0 /\ NextOfOld = nextID[ep]
    BY DEF NextOfOld, Conns
  <2>3. ep' = ep + 1 /\ nextID' = [nextID EXCEPT ![ep + 1] = nextID[ep]]
    BY <2>1, <2>2 DEF Bind
  <2>. QED
    BY <2>3 DEF TypeOK, Conns
<1>1. Kept(g, c)'
    BY KeptStays
<1>2. /\ flow'[g].state # "none" /\ flow'[g].id = flow[g].id /\ SentOn(g)' = SentOn(g)
      /\ SentOn(g) \in 1..c /\ flow[g].id < nextID[c]
    BY <1>0 DEF Kept, IdStep, GivenInv
<1>3. \A e \in SentOn(g)'..d : flow'[g].id < nextID'[e]
    BY <1>0, <1>1, <1>2 DEF Kept
<1>4. \A f \in Flows : flow'[f].state # "none" => SentOn(f)' \in 1..c
    BY DEF IdStep, GivenInv
<1>5. \A f \in Flows : flow'[f].state # "none" /\ SentOn(g)' < SentOn(f)' /\ SentOn(f)' <= d
        => flow'[g].id < flow'[f].id
    BY <1>0, <1>1, <1>4 DEF Kept, Begun
<1>6. SentOn(g)' <= d /\ d <= ep'
    BY <1>0, <1>2
<1>. QED
    BY <1>2, <1>3, <1>5, <1>6 DEF Kept, Begun

\* Every step keeps the ids apart.
LEMMA IdsPreserved ==
  ASSUME TypeOK, TypeOK', LoopInv, DeadInv, PhaseInv, IdInv, [Next]_vars
  PROVE  IdInv'
<1>1. IdStep /\ GivenInv'
    BY IdSteps, GivenPreserved DEF IdInv
<1>2. ASSUME NEW c \in Conns, NEW g \in table'[c] PROVE Kept(g, c)'
  <2>1. g \in Flows
    BY DEF TypeOK
  <2>2. CASE g \in table[c]
    BY <1>1, <2>1, <2>2, KeptStays DEF IdInv, KeptInv
  <2>3. CASE flow'[g].state # "none" /\ SentOn(g)' = c
    BY <1>1, <2>1, <2>3, KeptWhereSent
  <2>4. CASE BindSession /\ ep # 0 /\ c = ep + 1 /\ g \in table[ep]
    <3>1. PICK e \in Conns : e = ep
      BY <2>4 DEF TypeOK, Conns
    <3>2. Kept(g, e)
      BY <2>4, <3>1 DEF IdInv, KeptInv
    <3>. QED
      BY <1>1, <2>1, <2>4, <3>1, <3>2, KeptMovesOn DEF IdInv
  <2>. QED
    BY <2>2, <2>3, <2>4, TableSteps
<1>3. ASSUME NEW g \in owed' PROVE Kept(g, ep)'
  <2>1. g \in Flows
    BY DEF TypeOK
  <2>2. CASE g \in owed
    <3>1. PICK e \in Conns : e = ep
      BY <2>2 DEF IdInv, KeptInv, GivenInv, Kept, TypeOK, Conns
    <3>2. Kept(g, e)
      BY <2>2, <3>1 DEF IdInv, KeptInv
    <3>3. CASE ep' = ep
      <4>1. Kept(g, e)' /\ e = ep'
        BY <1>1, <2>1, <3>1, <3>2, <3>3, KeptStays DEF IdInv
      <4>. QED
        BY <4>1
    <3>4. CASE BindSession /\ ep' = ep + 1
      <4>1. PICK d \in Conns : d = ep + 1
        BY <3>4, ClientAssumption DEF TypeOK, Conns
      <4>2. Kept(g, d)' /\ d = ep'
        BY <1>1, <2>1, <3>1, <3>2, <3>4, <4>1, KeptMovesOn DEF IdInv
      <4>. QED
        BY <4>2
    <3>. QED
      BY <3>3, <3>4, ConnSteps
  <2>3. CASE flow'[g].state # "none" /\ SentOn(g)' = ep'
    BY <1>1, <2>1, <2>3, KeptWhereSent
  <2>. QED
    BY <2>2, <2>3, OwedSteps DEF IdInv
<1>. QED
    BY <1>1, <1>2, <1>3 DEF IdInv, KeptInv


\* Subscribing again on a new connection finds its flows not begun; a subscription that is
\* renewed is not renewed twice.
LEMMA ResubPhases ==
  ASSUME TypeOK, LoopInv, PhaseInv, GivenInv, [Next]_vars, loop' = "resub"
  PROVE  \A s \in toResub' : ~Begun(<<s, ep>>)'
<1>0. ep \in Nat /\ toResub \subseteq Subscriptions
    BY DEF TypeOK
<1> SUFFICES ASSUME NEW s \in toResub' PROVE flow'[<<s, ep'>>].state = "none"
    BY DEF Begun
<1>1. ASSUME loop = "resub", s \in toResub, ep' = ep, \A r \in Subscriptions : s = r => ~ResubSend(r)
      PROVE  flow'[<<s, ep'>>].state = "none"
  <2>1. ep \in Conns /\ flow[<<s, ep>>].state = "none" /\ <<s, ep>> \in Flows
    BY <1>0, <1>1, ResubFlow DEF PhaseInv, Begun, LoopInv, TypeOK, Conns
  <2>2. CASE Lasting
    BY <1>1, <2>1, <2>2 DEF Lasting
  <2>3. ASSUME NEW a \in Calls, Registers(a) PROVE flow'[<<s, ep>>] = flow[<<s, ep>>]
    <3>1. NewFlow(Own(a), at[a]) /\ at[a] \in Conns /\ Own(a) \in Flows
      BY <2>3, OwnFlow DEF Registers, PhaseInv, Phase, TypeOK, Conns
    <3>2. <<s, ep>> # Own(a)
      BY <2>1 DEF Own, Conns
    <3>. QED
      BY <2>1, <3>1, <3>2, StartEffect
  <2>4. ASSUME NEW r \in Subscriptions, ResubSend(r), Alive(ep)
        PROVE  flow'[<<s, ep>>] = flow[<<s, ep>>]
    <3>1. NewFlow(<<r, ep>>, ep) /\ <<r, ep>> \in Flows /\ <<s, ep>> # <<r, ep>>
      BY <1>1, <2>1, <2>4, ResubFlow DEF ResubSend
    <3>. QED
      BY <2>1, <3>1, StartEffect
  <2>. QED
    BY <1>1, <2>1, <2>2, <2>3, <2>4, LastingSteps
<1>2. CASE Elsewhere
  <2>1. \A r \in Subscriptions : ~(s = r /\ ResubSend(r))
    BY <1>2 DEF ResubSend, Elsewhere
  <2>. QED
    BY <1>1, <1>2, <2>1 DEF Elsewhere
<1>3. CASE LoopTop \/ DialTCP \/ ConnectFails \/ Backoff \/ Established \/ ConnLost
    BY <1>3 DEF LoopTop, DialTCP, ConnectFails, Backoff, Established, ConnLost, Stop
<1>4. CASE ConnDies \/ CloseStarts \/ CloseKills \/ CloseFails
  <2>1. UNCHANGED <<loop, toResub, ep>>
    BY <1>4 DEF ConnDies, CloseStarts, CloseKills, CloseFails, loopVars, connVars
  <2>2. \A r \in Subscriptions : ~(s = r /\ ResubSend(r))
    BY <2>1 DEF ResubSend
  <2>. QED
    BY <1>1, <2>1, <2>2
<1>5. ASSUME NEW r \in Subscriptions, ResubSend(r)
      PROVE  flow'[<<s, ep'>>].state = "none"
  <2>1. loop = "resub" /\ toResub' = toResub \ {r} /\ ep' = ep
    BY <1>5 DEF ResubSend, connVars
  <2>2. \A q \in Subscriptions : s = q => ~ResubSend(q)
    BY <2>1 DEF ResubSend
  <2>. QED
    BY <1>1, <2>1, <2>2
<1>6. CASE BindSession
  <2>1. PICK resumed \in BOOLEAN : Bind(resumed, TRUE, TRUE, NextOfOld)
    BY <1>6 DEF BindSession
  <2>2. ep' = ep + 1 /\ toResub' \subseteq subs /\ subs \subseteq Subscriptions /\ ep + 1 \in Conns
    BY <2>1, ClientAssumption DEF Bind, TypeOK, LoopInv, Conns
  <2>3. PICK f \in Flows : f = <<s, ep + 1>>
    BY <2>2, ResubFlow
  <2>4. SentOn(f) = ep + 1
    BY <2>2, <2>3, ResubFlow
  <2>5. ~Begun(f)
    BY <1>0, <2>4 DEF GivenInv
  <2>6. Lasting
    <3>1. ASSUME NEW a \in Calls, Registers(a) PROVE FALSE
      BY <1>0, <2>2, <3>1 DEF Registers, CallOnly, connVars
    <3>2. ASSUME NEW r \in Subscriptions, ResubSend(r) PROVE FALSE
      BY <1>0, <2>2, <3>2 DEF ResubSend, connVars
    <3>. QED
      BY <3>1, <3>2, LastingSteps
  <2>. QED
    BY <2>2, <2>3, <2>5, <2>6 DEF Lasting, Begun
<1>. QED
    BY <1>2, <1>3, <1>4, <1>5, <1>6, StepsElsewhere DEF Next, ConnectLoop, Close

\* Every step keeps the phases.
LEMMA PhasePreserved ==
  ASSUME TypeOK, LoopInv, PhaseInv, GivenInv, [Next]_vars
  PROVE  PhaseInv'
<1>1. \A b \in Calls : Phase(b)'
    BY PhasesOfCalls
<1>2. loop' = "resub" => \A s \in toResub' : ~Begun(<<s, ep>>)'
    BY ResubPhases
<1>. QED
    BY <1>1, <1>2 DEF PhaseInv


-----------------------------------------------------------------------------
(* Calls that wait *)

\* The flow of call a, if open after the step, was so before, is on the same endpoint and
\* in every table that had it.
Undisturbed(a) ==
  flow'[Own(a)].state = "open" =>
    /\ Open(Own(a)) /\ flow'[Own(a)].ep = flow[Own(a)].ep
    /\ \A d \in Conns : Own(a) \in table[d] => Own(a) \in table'[d]

\* The open flow of a call is disturbed by nothing but its own start, the end of its send
\* and the move to a new connection; in particular no new stream takes its place.
LEMMA UndisturbedSteps ==
  ASSUME TypeOK, LoopInv, PhaseInv, IdInv, [Next]_vars, NEW a \in Calls
  PROVE  \/ Undisturbed(a) \/ BindSession \/ Registers(a)
         \/ Sends(a) /\ ~Alive(at[a])
<1>0. Own(a) \in Flows /\ flow[Own(a)] \in Flow
    BY OwnFlow DEF TypeOK
<1>1. ASSUME flow' = flow, table' = table PROVE Undisturbed(a)
    BY <1>1 DEF Undisturbed, Open
<1>2. ASSUME NEW S, NEW r \in {"ok", "failed"}, Finish(S, r) PROVE Undisturbed(a)
    BY <1>0, <1>2, FinishEffect DEF Undisturbed, Open
<1>3. ASSUME NEW h \in Flows, NEW c \in Conns, NewFlow(h, c), h # Own(a) PROVE Undisturbed(a)
  <2>1. flow'[Own(a)] = flow[Own(a)]
    BY <1>0, <1>3, StartEffect
  <2>2. ASSUME NEW d \in Conns, Own(a) \in table[d] PROVE Own(a) \in table'[d]
    <3>1. CASE d # c
      BY <1>3, <2>2, <3>1, StartEffect
    <3>2. CASE d = c
      <4>1. flow[Own(a)].id \in Nat /\ nextID[c] \in Nat
        BY <1>0 DEF Flow, TypeOK
      <4>2. SentOn(Own(a)) \in 1..ep /\ SentOn(Own(a)) <= d /\ d \in Nat
        BY <1>0, <2>2 DEF IdInv, KeptInv, GivenInv, Kept, Conns
      <4>3. flow[Own(a)].id < nextID[c]
        BY <2>2, <3>2, <4>2 DEF IdInv, KeptInv, Kept
      <4>4. table'[c] = {g \in table[c] : flow[g].id # nextID[c]} \cup {h}
        BY <1>3, StartEffect
      <4>. QED
        BY <2>2, <3>2, <4>1, <4>3, <4>4
    <3>. QED
      BY <3>1, <3>2
  <2>. QED
    BY <2>1, <2>2 DEF Undisturbed, Open
<1>4. CASE \/ LoopTop \/ DialTCP \/ ConnectFails \/ Backoff \/ ResubEnds \/ Established
           \/ ConnLost \/ ConnDies \/ DialReturns \/ CloseStarts \/ CloseKills
           \/ UNCHANGED vars
  <2>1. flow' = flow /\ table' = table
    BY <1>4 DEF LoopTop, DialTCP, ConnectFails, Backoff, ResubEnds, Established, ConnLost,
        LoopOnly, ConnDies, DialReturns, CloseStarts, CloseKills, vars, streamVars
  <2>. QED
    BY <1>1, <2>1
<1>5. CASE CloseFails
  <2>1. (flow' = flow /\ table' = table) \/ Finish(table[closeEp], "failed")
    BY <1>5 DEF CloseFails
  <2>. QED
    BY <1>1, <1>2, <2>1
<1>6. ASSUME NEW b \in Calls, Registers(b), b # a PROVE Undisturbed(a)
  <2>1. NewFlow(Own(b), at[b]) /\ at[b] \in Conns /\ Own(b) \in Flows /\ Own(b) # Own(a)
    BY <1>6, OwnFlow DEF Registers, PhaseInv, Phase, TypeOK, Conns
  <2>. QED
    BY <1>3, <2>1
<1>7. ASSUME NEW b \in Calls, Sends(b), b # a \/ Alive(at[b]) PROVE Undisturbed(a)
  <2>1. flow' = flow
    BY <1>7 DEF Sends
  <2>2. CASE table' = table
    BY <1>1, <2>1, <2>2
  <2>3. CASE table' = [table EXCEPT ![at[b]] = @ \ {Own(b)}] /\ b # a
    <3>1. Own(b) # Own(a)
      BY <2>3 DEF Own
    <3>2. \A d \in Conns : Own(a) \in table[d] => Own(a) \in table'[d]
      BY <2>3, <3>1 DEF TypeOK
    <3>. QED
      BY <2>1, <3>2 DEF Undisturbed, Open
  <2>. QED
    BY <1>7, <2>2, <2>3 DEF Sends
<1>8. ASSUME NEW b \in Calls, Caller(b) \/ CtxEnds(b), ~Registers(b), ~Sends(b)
      PROVE  Undisturbed(a)
  <2>1. CASE CheckEp(b) \/ Wakes(b) \/ Subscribed(b) \/ Remembers(b) \/ CallFails(b)
    <3>1. flow' = flow /\ table' = table
      BY <2>1 DEF CheckEp, Wakes, Subscribed, Remembers, CallFails, streamVars
    <3>. QED
      BY <1>1, <3>1
  <2>2. CASE RequestAnswered(b)
    <3>1. Finish({Own(b)}, "ok")
      BY <2>2 DEF RequestAnswered
    <3>. QED
      BY <1>2, <3>1
  <2>3. CASE CtxEnds(b)
    <3>1. (flow' = flow /\ table' = table) \/ Finish({Own(b)}, "failed")
      BY <2>3 DEF CtxEnds
    <3>. QED
      BY <1>1, <1>2, <3>1
  <2>. QED
    BY <1>8, <2>1, <2>2, <2>3 DEF Caller
<1>9. ASSUME NEW s \in Subscriptions, ResubSend(s) PROVE Undisturbed(a)
  <2>1. CASE Alive(ep)
    <3>1. NewFlow(<<s, ep>>, ep) /\ ep \in Conns
      BY <1>9, <2>1 DEF ResubSend, LoopInv, TypeOK, Conns
    <3>2. <<s, ep>> \in Flows /\ <<s, ep>> # Own(a)
      BY <3>1, ResubFlow DEF Own, Conns
    <3>. QED
      BY <1>3, <3>1, <3>2
  <2>2. CASE ~Alive(ep)
    <3>1. flow' = flow /\ table' = table
      BY <1>9, <2>2 DEF ResubSend
    <3>. QED
      BY <1>1, <3>1
  <2>. QED
    BY <2>1, <2>2
<1>10. ASSUME NEW f \in Flows, NEW d \in Conns, Answer(d, f) PROVE Undisturbed(a)
  <2>1. CASE Finish(Lookup(d, f), "failed")
    BY <1>2, <2>1
  <2>2. CASE /\ flow' = [g \in Flows |-> IF g \in Lookup(d, f) THEN [flow[g] EXCEPT !.got = f]
                                                              ELSE flow[g]]
             /\ table' = table
    <3>1. flow'[Own(a)] \in {flow[Own(a)], [flow[Own(a)] EXCEPT !.got = f]}
      BY <1>0, <2>2
    <3>2. flow'[Own(a)].state = flow[Own(a)].state /\ flow'[Own(a)].ep = flow[Own(a)].ep
      BY <1>0, <3>1 DEF Flow
    <3>. QED
      BY <2>2, <3>2 DEF Undisturbed, Open
  <2>. QED
    BY <1>10, <2>1, <2>2 DEF Answer
<1>11. ASSUME NEW f \in Flows, Consume(f) PROVE Undisturbed(a)
  <2>1. flow' = flow /\ table' = table
    BY <1>11 DEF Consume, ReadsF, TakesFrame, SeesDone, CallbackReturns, Drained, ConsumerIs,
        streamVars
  <2>. QED
    BY <1>1, <2>1
<1>12. ASSUME NEW s \in Subscriptions, CloseSubscription(s) PROVE Undisturbed(a)
  <2>1. Finish({subF[s]}, "ok")
    BY <1>12 DEF CloseSubscription
  <2>. QED
    BY <1>2, <2>1
<1>. QED
    BY <1>4, <1>5, <1>6, <1>7, <1>8, <1>9, <1>10, <1>11, <1>12 DEF Next, ConnectLoop, Close


\* A call comes to wait by its send; Close is done when it has failed what it found.
LEMMA WaitingFrom ==
  ASSUME TypeOK, [Next]_vars, NEW a \in Calls
  PROVE  /\ call'[a] \in {"waiting", "registered"} =>
              \/ call[a] = call'[a] /\ at'[a] = at[a]
              \/ Sends(a) \/ Registers(a)
         /\ closing' = "done" => (closing = "done" /\ closeEp' = closeEp) \/ CloseFails
<1>1. ASSUME call'[a] \in {"waiting", "registered"}
      PROVE  \/ call[a] = call'[a] /\ at'[a] = at[a]
             \/ Sends(a) \/ Registers(a)
  <2>1. CASE Caller(a) \/ CtxEnds(a) \/ (a \in Subscriptions /\ CloseSubscription(a))
    BY <1>1, <2>1 DEF Caller, CheckEp, Wakes, RequestAnswered, Subscribed, Remembers, CallFails,
        CtxEnds, CloseSubscription, GoTo, TypeOK
  <2>. QED
    BY <2>1, CallSteps
<1>2. ASSUME closing' = "done"
      PROVE  (closing = "done" /\ closeEp' = closeEp) \/ CloseFails
  <2>1. CASE Elsewhere
    BY <1>2, <2>1 DEF Elsewhere
  <2>2. CASE \/ LoopTop \/ DialTCP \/ ConnectFails \/ Backoff \/ Established \/ ConnLost
             \/ ConnDies \/ CloseStarts \/ CloseKills \/ BindSession
             \/ \E s \in Subscriptions : ResubSend(s)
    BY <1>2, <2>2 DEF LoopTop, DialTCP, ConnectFails, Backoff, Established, ConnLost, LoopOnly,
        ConnDies, CloseStarts, CloseKills, BindSession, Bind, ResubSend, closeVars
  <2>. QED
    BY <2>1, <2>2, StepsElsewhere DEF Next, ConnectLoop, Close
<1>. QED
    BY <1>1, <1>2

\* The move to a new connection takes the open flows of the old endpoint along, or ends
\* them with the session.
LEMMA BindWaiting ==
  ASSUME TypeOK, LoopInv, PhaseInv, GivenInv, WaitingInv, BindSession,
         NEW a \in Calls, call[a] = "waiting", flow'[Own(a)].state = "open"
  PROVE  /\ flow'[Own(a)].ep = ep' /\ sess'[at'[a]] = session' /\ at'[a] = at[a]
         /\ \A d \in at'[a]..ep' : Own(a) \in table'[d]
         /\ Open(Own(a))
<1>1. PICK resumed \in BOOLEAN : Bind(resumed, TRUE, TRUE, NextOfOld)
    BY DEF BindSession
<1>2. /\ ep' = ep + 1 /\ ep + 1 \in Conns /\ ep \in Nat /\ at' = at
      /\ sess' = [sess EXCEPT ![ep + 1] = session']
      /\ session' = IF resumed THEN session ELSE ep + 1
    BY <1>1, ClientAssumption DEF Bind, LoopInv, TypeOK, Conns, callVars
<1>3. Own(a) \in Flows /\ flow[Own(a)] \in Flow /\ SentOn(Own(a)) = at[a]
    BY OwnFlow DEF TypeOK
<1>4. at[a] \in 1..ep /\ ep # 0 /\ ep \in at[a]..ep
  <2>1. Begun(Own(a))
    BY DEF PhaseInv, Phase
  <2>. QED
    BY <1>2, <1>3, <2>1 DEF GivenInv
<1>5. session # 0
    BY <1>4 DEF LoopInv
<1>6. CASE ~resumed
  <2>1. Finish(table[ep], "failed")
    BY <1>1, <1>4, <1>5, <1>6 DEF Bind
  <2>2. Open(Own(a)) /\ Own(a) \notin table[ep]
    BY <1>3, <2>1, FinishEffect DEF Open
  <2>. QED
    BY <1>4, <2>2 DEF WaitingInv
<1>7. CASE resumed
  <2> DEFINE moved == {f \in table[ep] : Open(f)}
  <2>1. /\ flow' = [f \in Flows |-> IF f \in moved THEN [flow[f] EXCEPT !.ep = ep + 1] ELSE flow[f]]
        /\ table' = [table EXCEPT ![ep + 1] = moved]
    <3>1. (IF ep = 0 THEN {} ELSE table[ep]) = table[ep]
      BY <1>4
    <3>2. /\ flow' = [f \in Flows |-> IF f \in {g \in table[ep] : Open(g) /\ TRUE /\ ~FALSE}
                                      THEN [flow[f] EXCEPT !.ep = ep + 1] ELSE flow[f]]
          /\ table' = [table EXCEPT ![ep + 1] = {g \in table[ep] : Open(g) /\ TRUE /\ ~FALSE}]
      BY <1>1, <1>7, <3>1 DEF Bind
    <3>. QED
      BY <3>2
  <2>2. flow'[Own(a)] \in {flow[Own(a)], [flow[Own(a)] EXCEPT !.ep = ep + 1]}
    BY <1>3, <2>1
  <2>3. Open(Own(a))
    BY <1>3, <2>2 DEF Open, Flow
  <2>4. /\ sess[at[a]] = session /\ \A d \in at[a]..ep : Own(a) \in table[d]
    BY <2>3 DEF WaitingInv
  <2>5. Own(a) \in moved
    BY <1>4, <2>3, <2>4
  <2>6. flow'[Own(a)].ep = ep + 1
    BY <1>2, <1>3, <2>1, <2>5 DEF Flow
  <2>7. sess'[at[a]] = session'
    BY <1>2, <1>4, <1>7, <2>4 DEF TypeOK, Conns
  <2>8. ASSUME NEW d \in at[a]..(ep + 1) PROVE Own(a) \in table'[d]
    <3>1. d \in Conns /\ (d = ep + 1 \/ d \in at[a]..ep)
      BY <1>2, <1>4, ClientAssumption DEF Conns
    <3>. QED
      BY <1>2, <2>1, <2>4, <2>5, <3>1 DEF TypeOK
  <2>. QED
    BY <1>2, <2>3, <2>6, <2>7, <2>8
<1>. QED
    BY <1>6, <1>7


\* Every step keeps what waits, and what is about to, where an answer can find it.
LEMMA WaitingPreserved ==
  ASSUME TypeOK, LoopInv, DeadInv, PhaseInv, IdInv, WaitingInv, RegisteredInv, [Next]_vars
  PROVE  WaitingInv' /\ RegisteredInv'
<1>0. ep \in Nat /\ closeEp \in Nat
    BY DEF TypeOK
<1>1. ASSUME NEW a \in Calls, Undisturbed(a), UNCHANGED <<ep, session, sess>>,
             at'[a] = at[a], at[a] \in 1..ep, flow'[Own(a)].state = "open",
             /\ flow[Own(a)].ep = ep /\ sess[at[a]] = session
             /\ \A d \in at[a]..ep : Own(a) \in table[d]
      PROVE  /\ flow'[Own(a)].ep = ep' /\ sess'[at'[a]] = session'
             /\ \A d \in at'[a]..ep' : Own(a) \in table'[d]
  <2>1. \A d \in at[a]..ep : d \in Conns
    BY <1>0, <1>1, ClientAssumption DEF TypeOK, Conns
  <2>. QED
    BY <1>1, <2>1 DEF Undisturbed
<1>2. ASSUME NEW a \in Calls, Begun(Own(a)) PROVE at[a] \in 1..ep
    BY <1>2, OwnFlow DEF IdInv, GivenInv
<1>3. ASSUME NEW a \in Calls, call'[a] = "waiting", flow'[Own(a)].state = "open"
      PROVE  /\ flow'[Own(a)].ep = ep' /\ sess'[at'[a]] = session'
             /\ \A d \in at'[a]..ep' : Own(a) \in table'[d]
             /\ closing' = "done" => closeEp' < at'[a]
  <2>1. CASE BindSession
    <3>1. call' = call /\ closing' = closing /\ closeEp' = closeEp
      BY <2>1 DEF BindSession, Bind, callVars, closeVars
    <3>2. call[a] = "waiting"
      BY <1>3, <3>1
    <3>3. /\ flow'[Own(a)].ep = ep' /\ sess'[at'[a]] = session' /\ at'[a] = at[a]
          /\ \A d \in at'[a]..ep' : Own(a) \in table'[d]
          /\ Open(Own(a))
      BY <1>3, <2>1, <3>2, BindWaiting DEF IdInv
    <3>. QED
      BY <3>1, <3>2, <3>3 DEF WaitingInv
  <2>2. CASE ~BindSession /\ call[a] = "waiting" /\ at'[a] = at[a]
    <3>1. UNCHANGED <<ep, session, sess>>
      BY <2>2, ConnSteps
    <3>2. Undisturbed(a)
      <4>1. ~Registers(a) /\ ~Sends(a)
        BY <2>2 DEF Registers, Sends
      <4>. QED
        BY <2>2, <4>1, UndisturbedSteps
    <3>3. Open(Own(a)) /\ at[a] \in 1..ep
      BY <1>2, <1>3, <3>2 DEF Undisturbed, Open, Begun
    <3>4. /\ flow[Own(a)].ep = ep /\ sess[at[a]] = session
          /\ \A d \in at[a]..ep : Own(a) \in table[d]
          /\ closing = "done" => closeEp < at[a]
      BY <2>2, <3>3 DEF WaitingInv
    <3>5. closing' = "done" => closeEp' < at'[a]
      <4>1. CASE closing = "done" /\ closeEp' = closeEp
        BY <2>2, <3>4, <4>1
      <4>2. CASE CloseFails
        <5>1. closeEp' = closeEp
          BY <4>2 DEF CloseFails
        <5>2. CASE closeEp < at[a]
          BY <2>2, <5>1, <5>2
        <5>3. CASE at[a] <= closeEp
          <6>1. closeEp \in at[a]..ep /\ closeEp # 0
            BY <1>0, <3>3, <5>3 DEF DeadInv
          <6>2. Finish(table[closeEp], "failed")
            BY <4>2, <6>1 DEF CloseFails
          <6>3. Own(a) \notin table[closeEp] /\ Own(a) \in Flows
            BY <1>3, <6>2, FinishEffect, OwnFlow
          <6>. QED
            BY <3>4, <6>1, <6>3
        <5>. QED
          BY <1>0, <3>3, <5>2, <5>3
      <4>. QED
        BY <4>1, <4>2, WaitingFrom
    <3>. QED
      BY <1>1, <1>3, <2>2, <3>1, <3>2, <3>3, <3>4, <3>5
  <2>3. CASE ~BindSession /\ Sends(a)
    <3>1. /\ call[a] = "registered" /\ Alive(at[a]) /\ at' = at /\ flow' = flow /\ table' = table
          /\ UNCHANGED <<ep, session, sess, closing, closeEp>>
      BY <1>3, <2>3 DEF Sends, GoTo, CallOnly, connVars, closeVars, TypeOK
    <3>2. Begun(Own(a)) /\ Open(Own(a)) /\ at[a] \in 1..ep
      BY <1>2, <1>3, <3>1 DEF Begun, Open
    <3>3. at[a] = ep
      BY <1>0, <3>1, <3>2, ClientAssumption DEF DeadInv, Alive, Conns, TypeOK
    <3>4. flow[Own(a)].ep = ep /\ Own(a) \in table[ep] /\ sess[ep] = session
      BY <3>1, <3>2, <3>3 DEF RegisteredInv, LoopInv
    <3>5. closing = "done" => closeEp < at[a]
      BY <1>0, <3>1, <3>2, <3>3 DEF DeadInv, Alive
    <3>. QED
      BY <1>0, <3>1, <3>3, <3>4, <3>5
  <2>4. \/ call[a] = "waiting" /\ at'[a] = at[a]
        \/ Sends(a)
    <3>1. ~Registers(a)
      BY <1>3 DEF Registers, GoTo, TypeOK
    <3>. QED
      BY <1>3, <3>1, WaitingFrom
  <2>. QED
    BY <2>1, <2>2, <2>3, <2>4
<1>4. ASSUME NEW a \in Calls, call'[a] = "registered", at'[a] = ep', flow'[Own(a)].state = "open"
      PROVE  flow'[Own(a)].ep = ep' /\ Own(a) \in table'[ep']
  <2>1. CASE Registers(a)
    <3>1. NewFlow(Own(a), at[a]) /\ at[a] \in Conns /\ at' = at /\ Own(a) \in Flows /\ ep' = ep
      BY <2>1, OwnFlow DEF Registers, PhaseInv, Phase, TypeOK, Conns, CallOnly, connVars
    <3>2. flow'[Own(a)].ep = at[a] /\ Own(a) \in table'[at[a]]
      BY <3>1, StartEffect
    <3>. QED
      BY <1>4, <3>1, <3>2
  <2>2. CASE call[a] = "registered" /\ at'[a] = at[a] /\ ~Registers(a)
    <3>1. Begun(Own(a)) /\ at[a] \in 1..ep
      BY <1>2, <2>2 DEF PhaseInv, Phase
    <3>2. UNCHANGED <<ep, session, sess>> /\ ~BindSession
      <4>1. BindSession => ep' = ep + 1
        BY DEF BindSession, Bind
      <4>. QED
        BY <1>0, <1>4, <2>2, <3>1, <4>1, ConnSteps
    <3>3. ~Sends(a)
      BY <1>4 DEF Sends, GoTo, TypeOK
    <3>4. Undisturbed(a)
      BY <2>2, <3>2, <3>3, UndisturbedSteps
    <3>5. Open(Own(a)) /\ flow[Own(a)].ep = ep /\ Own(a) \in table[ep] /\ ep \in Conns
      <4>1. Open(Own(a)) /\ at[a] = ep
        BY <1>4, <2>2, <3>2, <3>4 DEF Undisturbed
      <4>2. ep \in Conns
        BY <3>1, <4>1, ClientAssumption DEF TypeOK, Conns
      <4>. QED
        BY <2>2, <4>1, <4>2 DEF RegisteredInv
    <3>. QED
      BY <1>4, <3>2, <3>4, <3>5 DEF Undisturbed
  <2>3. ~Sends(a)
    BY <1>4 DEF Sends, GoTo, TypeOK
  <2>. QED
    BY <1>4, <2>1, <2>2, <2>3, WaitingFrom
<1>. QED
    BY <1>3, <1>4 DEF WaitingInv, RegisteredInv, Open


\* An answer is dispatched to the flow that it is for, or to none.
LEMMA AnswersPreserved ==
  ASSUME TypeOK, LoopInv, PhaseInv, IdInv, AnswersGoHome, [Next]_vars
  PROVE  AnswersGoHome'
<1> SUFFICES ASSUME NEW g \in Flows PROVE flow'[g].got \in {None, g}
    BY DEF AnswersGoHome
<1>0. flow[g].got \in {None, g} /\ flow[g] \in Flow
    BY DEF AnswersGoHome, TypeOK
<1>1. CASE flow' = flow
    BY <1>0, <1>1
<1>2. ASSUME NEW S, NEW r \in {"ok", "failed"}, Finish(S, r) PROVE flow'[g].got \in {None, g}
    BY <1>0, <1>2, FinishEffect
<1>3. ASSUME NEW h \in Flows, NEW c \in Conns, NewFlow(h, c) PROVE flow'[g].got \in {None, g}
    BY <1>0, <1>3, StartEffect
<1>4. ASSUME NEW c \in Conns, NEW f \in Flows, Answer(c, f), g \in Lookup(c, f) PROVE g = f
  <2>1. /\ g \in table[c] /\ flow[g].id = flow[f].id /\ f \in owed
        /\ SentOn(f) <= c /\ c <= ep /\ SentOn(f) \in Int
    <3>1. g \in table[c] /\ flow[g].id = flow[f].id /\ f \in owed /\ c \in SentOn(f)..ep
      BY <1>4 DEF Answer, Lookup
    <3>2. SentOn(f) \in 1..ep
      BY <3>1 DEF IdInv, KeptInv, Kept, GivenInv
    <3>. QED
      BY <3>1, <3>2
  <2>2. Kept(g, c) /\ Kept(f, ep)
    BY <2>1 DEF IdInv, KeptInv
  <2>3. Begun(f) /\ Begun(g) /\ SentOn(g) \in 1..ep /\ SentOn(f) \in 1..ep /\ SentOn(g) <= c
    BY <2>2 DEF Kept, IdInv, GivenInv
  <2>4. flow[f].id \in Nat /\ flow[g].id \in Nat /\ c \in Nat /\ ep \in Nat
    BY DEF TypeOK, Flow, Conns
  <2>5. ~(SentOn(g) < SentOn(f))
    BY <2>1, <2>2, <2>3, <2>4 DEF Kept
  <2>6. ~(SentOn(f) < SentOn(g))
    BY <2>1, <2>2, <2>3, <2>4 DEF Kept
  <2>7. SentOn(f) = SentOn(g)
    BY <2>3, <2>4, <2>5, <2>6
  <2>. QED
    BY <2>1, <2>3, <2>7 DEF IdInv, GivenInv
<1>5. CASE \/ LoopTop \/ DialTCP \/ ConnectFails \/ Backoff \/ ResubEnds \/ Established
           \/ ConnLost \/ ConnDies \/ DialReturns \/ CloseStarts \/ CloseKills
           \/ UNCHANGED vars
  <2>1. flow' = flow
    BY <1>5 DEF LoopTop, DialTCP, ConnectFails, Backoff, ResubEnds, Established, ConnLost,
        LoopOnly, ConnDies, DialReturns, CloseStarts, CloseKills, vars, streamVars
  <2>. QED
    BY <1>1, <2>1
<1>6. CASE CloseFails
  <2>1. flow' = flow \/ Finish(table[closeEp], "failed")
    BY <1>6 DEF CloseFails
  <2>. QED
    BY <1>1, <1>2, <2>1
<1>7. ASSUME NEW a \in Calls, Caller(a) \/ CtxEnds(a) PROVE flow'[g].got \in {None, g}
  <2>1. CASE CheckEp(a) \/ Wakes(a) \/ Sends(a) \/ Subscribed(a) \/ Remembers(a) \/ CallFails(a)
    <3>1. flow' = flow
      BY <2>1 DEF CheckEp, Wakes, Sends, Subscribed, Remembers, CallFails, streamVars
    <3>. QED
      BY <1>1, <3>1
  <2>2. CASE Registers(a)
    <3>1. NewFlow(Own(a), at[a]) /\ at[a] \in Conns /\ Own(a) \in Flows
      BY <2>2, OwnFlow DEF Registers, PhaseInv, Phase, TypeOK, Conns
    <3>. QED
      BY <1>3, <3>1
  <2>3. CASE RequestAnswered(a)
    <3>1. Finish({Own(a)}, "ok")
      BY <2>3 DEF RequestAnswered
    <3>. QED
      BY <1>2, <3>1
  <2>4. CASE CtxEnds(a)
    <3>1. flow' = flow \/ Finish({Own(a)}, "failed")
      BY <2>4 DEF CtxEnds
    <3>. QED
      BY <1>1, <1>2, <3>1
  <2>. QED
    BY <1>7, <2>1, <2>2, <2>3, <2>4 DEF Caller
<1>8. ASSUME NEW s \in Subscriptions, ResubSend(s) PROVE flow'[g].got \in {None, g}
  <2>1. CASE Alive(ep)
    <3>1. NewFlow(<<s, ep>>, ep) /\ ep \in Conns
      BY <1>8, <2>1 DEF ResubSend, LoopInv, TypeOK, Conns
    <3>2. <<s, ep>> \in Flows
      BY <3>1, ResubFlow
    <3>. QED
      BY <1>3, <3>1, <3>2
  <2>2. CASE ~Alive(ep)
    <3>1. flow' = flow
      BY <1>8, <2>2 DEF ResubSend
    <3>. QED
      BY <1>1, <3>1
  <2>. QED
    BY <2>1, <2>2
<1>9. CASE BindSession
  <2>1. PICK resumed \in BOOLEAN : Bind(resumed, TRUE, TRUE, NextOfOld)
    BY <1>9 DEF BindSession
  <2>2. CASE session # 0 /\ ~resumed
    <3>1. Finish(IF ep = 0 THEN {} ELSE table[ep], "failed")
      BY <2>1, <2>2 DEF Bind
    <3>. QED
      BY <1>2, <3>1
  <2>3. CASE ~(session # 0 /\ ~resumed)
    <3>1. PICK moved :
            flow' = [f \in Flows |-> IF f \in moved THEN [flow[f] EXCEPT !.ep = ep + 1] ELSE flow[f]]
      BY <2>1, <2>3 DEF Bind
    <3>2. flow'[g] \in {flow[g], [flow[g] EXCEPT !.ep = ep + 1]}
      BY <3>1
    <3>. QED
      BY <1>0, <3>2 DEF Flow
  <2>. QED
    BY <2>2, <2>3
<1>10. ASSUME NEW f \in Flows, NEW c \in Conns, Answer(c, f) PROVE flow'[g].got \in {None, g}
  <2>1. CASE Finish(Lookup(c, f), "failed")
    BY <1>2, <2>1
  <2>2. CASE flow' = [h \in Flows |-> IF h \in Lookup(c, f) THEN [flow[h] EXCEPT !.got = f]
                                                           ELSE flow[h]]
    <3>1. CASE g \in Lookup(c, f)
      <4>1. flow'[g] = [flow[g] EXCEPT !.got = f]
        BY <2>2, <3>1
      <4>2. g = f
        BY <1>4, <1>10, <3>1
      <4>. QED
        BY <1>0, <4>1, <4>2 DEF Flow
    <3>2. CASE g \notin Lookup(c, f)
      BY <1>0, <2>2, <3>2
    <3>. QED
      BY <3>1, <3>2
  <2>. QED
    BY <1>10, <2>1, <2>2 DEF Answer
<1>11. ASSUME NEW f \in Flows, Consume(f) PROVE flow'[g].got \in {None, g}
  <2>1. flow' = flow
    BY <1>11 DEF Consume, ReadsF, TakesFrame, SeesDone, CallbackReturns, Drained, ConsumerIs,
        streamVars
  <2>. QED
    BY <1>1, <2>1
<1>12. ASSUME NEW s \in Subscriptions, CloseSubscription(s) PROVE flow'[g].got \in {None, g}
  <2>1. Finish({subF[s]}, "ok")
    BY <1>12 DEF CloseSubscription
  <2>. QED
    BY <1>2, <2>1
<1>. QED
    BY <1>5, <1>6, <1>7, <1>8, <1>9, <1>10, <1>11, <1>12 DEF Next, ConnectLoop, Close

-----------------------------------------------------------------------------
(* The theorems *)

\* The initial state satisfies every part of the invariant.
LEMMA InitInv == Init => IInv
<1> SUFFICES ASSUME Init PROVE IInv
    OBVIOUS
<1>1. /\ flow = [f \in Flows |-> NoFlow] /\ table = [c \in Conns |-> {}]
      /\ call = [a \in Calls |-> "check"] /\ owed = {} /\ ep = 0 /\ loop = "top" /\ dead = {}
      /\ nextID = [c \in Conns |-> 1] /\ session = 0 /\ closeEp = 0 /\ closing = "no"
      /\ resub = None /\ consumer = [f \in Flows |-> [pc |-> "none", f |-> None]]
    BY DEF Init
<1>2. TypeOK
  <2>1. NoFlow \in Flow
    BY ClientAssumption DEF NoFlow, Flow
  <2>2. 0 \in 0..MaxConns
    BY ClientAssumption
  <2>3. /\ sess \in [Conns -> 0..MaxConns] /\ nextID \in [Conns -> Nat \ {0}]
        /\ table \in [Conns -> SUBSET Flows] /\ flow \in [Flows -> Flow]
        /\ call \in [Calls -> Phases] /\ at \in [Calls -> 0..MaxConns] /\ owed \subseteq Flows
        /\ subF \in [Subscriptions -> Flows \cup {None}]
        /\ \A k \in Flows : consumer[k].f \in Flows \cup {None}
    BY <2>1, <2>2 DEF Init, Phases
  <2>4. established \in BOOLEAN /\ closed \in BOOLEAN
    BY Zenon DEF Init
  <2>5. /\ dial \in {"waiting", "nil", "error", "ctx"} /\ handshake \in {"empty", "nil", "error"}
        /\ loop \in {"top", "dial", "connect", "resub", "serving", "backoff", "stopped"}
        /\ toResub \subseteq Subscriptions /\ resub \in Flows \cup {None}
        /\ closing \in {"no", "closed", "killed", "done"}
        /\ closeEp \in 0..MaxConns /\ ep \in 0..MaxConns /\ session \in 0..MaxConns
        /\ notify \in {0, 1} /\ subs \subseteq Subscriptions /\ dead \subseteq 1..ep
    BY <2>2 DEF Init
  <2>. QED
    BY <2>3, <2>4, <2>5, Zenon DEF TypeOK
<1>3. \A f \in Flows : ~Begun(f) /\ flow[f].got = None
    BY <1>1 DEF Begun, NoFlow
<1>4. ConsumerInv /\ LoopInv /\ DeadInv
    BY <1>1, ClientAssumption DEF ConsumerInv, LoopInv, DeadInv, Conns
<1>5. PhaseInv
    BY <1>1, <1>3, OwnFlow DEF PhaseInv, Phase
<1>6. IdInv
    BY <1>1, <1>3 DEF IdInv, GivenInv, KeptInv
<1>7. WaitingInv /\ RegisteredInv
    BY <1>1 DEF WaitingInv, RegisteredInv
<1>8. AnswersGoHome
    BY <1>3 DEF AnswersGoHome
<1>. QED
    BY <1>2, <1>4, <1>5, <1>6, <1>7, <1>8 DEF IInv

\* The invariant holds in every reachable state.
THEOREM ClientInvariant == Spec => []IInv
<1>1. IInv /\ [Next]_vars => IInv'
  <2> SUFFICES ASSUME IInv, [Next]_vars PROVE IInv'
    OBVIOUS
  <2>1. TypeOK /\ ConsumerInv /\ LoopInv /\ DeadInv /\ PhaseInv /\ IdInv /\ GivenInv
    BY DEF IInv, IdInv
  <2>2. TypeOK' /\ ConsumerInv'
    BY <2>1, TypesPreserved
  <2>3. LoopInv' /\ DeadInv' /\ PhaseInv'
    BY <2>1, LoopPreserved, PhasePreserved
  <2>4. IdInv'
    BY <2>1, <2>2, IdsPreserved
  <2>5. WaitingInv' /\ RegisteredInv' /\ AnswersGoHome'
    BY <2>1, WaitingPreserved, AnswersPreserved DEF IInv
  <2>. QED
    BY <2>2, <2>3, <2>4, <2>5 DEF IInv
<1>. QED
    BY <1>1, InitInv, PTL DEF Spec

\* Types: every variable of the client keeps its type.
THEOREM ClientTypes == Spec => []TypeOK
<1>. QED
    BY ClientInvariant, PTL DEF IInv

\* An answer reaches the call that asked for it: bindSession hands the id counter on, so
\* that late frames of an old connection meet no younger stream of the same number.
THEOREM AnswersSafety == Spec => []AnswersGoHome
<1>. QED
    BY ClientInvariant, PTL DEF IInv

\* A call that waits is on the current endpoint and in its table: bindSession takes along
\* what was sent, and what was registered too late on the old endpoint is never sent.
THEOREM WaitingSafety == Spec => []WaitingIsAddressable
<1>1. ASSUME IInv, NEW a \in Calls, call[a] = "waiting", Open(Own(a))
      PROVE  flow[Own(a)].ep = ep /\ Own(a) \in table[ep]
  <2>1. Begun(Own(a)) /\ Own(a) \in Flows /\ SentOn(Own(a)) = at[a] /\ ep \in Nat
    BY <1>1, OwnFlow DEF IInv, TypeOK, PhaseInv, Phase
  <2>2. ep \in at[a]..ep
    BY <1>1, <2>1 DEF IInv, IdInv, GivenInv
  <2>. QED
    BY <1>1, <2>2 DEF IInv, WaitingInv
<1>2. IInv => WaitingIsAddressable
    BY <1>1 DEF WaitingIsAddressable
<1>. QED
    BY <1>2, ClientInvariant, PTL

\* A call waits only for the session that is current: bindSession fails what a lost session
\* leaves behind.
THEOREM PendingSafety == Spec => []PendingBelongsToSession
<1>1. IInv => PendingBelongsToSession
    BY DEF IInv, WaitingInv, PendingBelongsToSession
<1>. QED
    BY <1>1, ClientInvariant, PTL

\* After Close nothing waits on the connection that it found or on an earlier one, though
\* connectLoop may have moved the flows on meanwhile.
THEOREM CloseSafety == Spec => []CloseEndsPending
<1>1. ASSUME IInv, closing = "done", NEW a \in Calls, call[a] = "waiting", at[a] <= closeEp,
             Open(Own(a))
      PROVE  FALSE
  <2>1. closeEp < at[a] /\ closeEp \in Nat /\ at[a] \in Nat
    BY <1>1 DEF IInv, WaitingInv, TypeOK
  <2>. QED
    BY <1>1, <2>1
<1>2. IInv => CloseEndsPending
    BY <1>1 DEF CloseEndsPending
<1>. QED
    BY <1>2, ClientInvariant, PTL


=============================================================================
