----------------------------- MODULE StreamsProof -----------------------------
(***************************************************************************)
(* SessionKnowsItsFlows for every number of streams, connections, frames   *)
(* and breaks.  What the proof needs of the types is that the functions    *)
(* have their domains: which streams a frame names does not matter to it.  *)
(***************************************************************************)
EXTENDS Streams, TLAPS

Domains ==
  /\ DOMAIN served = Streams /\ DOMAIN sep = Streams /\ DOMAIN late = Streams
  /\ DOMAIN table = Conns

\* The bound connection is the last one, and a bind under way has one more to use.
Connected ==
  /\ last \in Conns /\ bound \in {0, last}
  /\ resuming # "no" => last < MaxConns

IInv == Domains /\ Connected /\ SessionKnowsItsFlows

LEMMA InitEstablishes == Init => IInv
  BY StreamsAssumption DEF Init, IInv, Domains, Connected, SessionKnowsItsFlows, Conns, Streams

\* Steps that leave alone what bind and terminate go by.
LEMMA Unaffected ==
  ASSUME IInv, UNCHANGED <<served, sep, table, late, last, bound, resuming, moving>>
  PROVE  IInv'
  BY DEF IInv, Domains, Connected, SessionKnowsItsFlows

\* The end of a flow takes only its own entry away.
LEMMA DonePreserves ==
  ASSUME IInv, NEW s, Done(s), UNCHANGED <<sep, late, last, bound, resuming, moving>>
  PROVE  IInv'
<1>1. CASE served[s] = "open"
  BY <1>1 DEF Done, IInv, Domains, Connected, SessionKnowsItsFlows
<1>2. CASE served[s] # "open"
  BY <1>2, Unaffected DEF Done
<1> QED
  BY <1>1, <1>2

\* Registered on the endpoint of the last connection, before any bind looks, or late.
LEMMA RequestPreserves ==
  ASSUME IInv, NEW c \in Conns, Request(c)
  PROVE  IInv'
<1> DEFINE s == Head(up[c]).stream
<1>1. Register(c, s) /\ UNCHANGED sessionVars
  BY DEF Request
<1>2. Domains' /\ Connected'
  BY <1>1 DEF Register, sessionVars, IInv, Domains, Connected
<1>3. ASSUME NEW t \in Streams, served'[t] = "open", ~late'[t]
      PROVE  /\ t \in table'[last'] /\ sep'[t] = last'
             /\ resuming' = "moving" => t \in moving'
  <2>1. CASE t = s
    <3>1. c = last /\ resuming # "moving"
      BY <1>1, <1>3, <2>1 DEF Register, IInv, Domains
    <3> QED
      BY <1>1, <1>3, <2>1, <3>1 DEF Register, sessionVars, IInv, Domains
  <2>2. CASE t # s
    BY <1>1, <1>3, <2>2 DEF Register, sessionVars, IInv, Domains, SessionKnowsItsFlows
  <2> QED
    BY <2>1, <2>2
<1> QED
  BY <1>2, <1>3 DEF IInv, SessionKnowsItsFlows

LEMMA FlowEndsPreserves ==
  ASSUME IInv, NEW c \in Conns, FlowEnds(c)
  PROVE  IInv'
<1> DEFINE s == Head(up[c]).stream
<1>1. UNCHANGED <<sep, late, last, bound, resuming, moving>>
  BY DEF FlowEnds, sessionVars
<1>2. CASE s \in table[c]
  BY <1>1, <1>2, DonePreserves DEF FlowEnds
<1>3. CASE s \notin table[c]
  BY <1>1, <1>3, Unaffected DEF FlowEnds
<1> QED
  BY <1>2, <1>3

\* bind finds all of them on the last connection, be it bound or not.
LEMMA BindFindsFlowsPreserves ==
  ASSUME IInv, BindFindsFlows
  PROVE  IInv'
<1>1. Migrating = {s \in table[last] : served[s] = "open"}
  BY DEF Migrating, IInv, Connected
<1> QED
  BY <1>1 DEF BindFindsFlows, netVars, flowVars, IInv, Domains, Connected, SessionKnowsItsFlows

\* Those that were found are on the next connection, the others are done or late.
LEMMA BindPreserves ==
  ASSUME IInv, Bind
  PROVE  IInv'
<1> DEFINE c == last + 1
<1>1. c \in Conns
  BY StreamsAssumption DEF Bind, IInv, Connected, Conns
<1>2. /\ resuming = "moving" /\ resuming' = "no" /\ bound' = c /\ last' = c
      /\ sep' = [s \in Streams |-> IF s \in moving THEN c ELSE sep[s]]
      /\ table' = [table EXCEPT ![c] = moving]
      /\ UNCHANGED <<served, late>>
  BY DEF Bind
<1> QED
  BY <1>1, <1>2 DEF IInv, Domains, Connected, SessionKnowsItsFlows

\* A flow is taken from the tables only when it ends.
LEMMA TerminatePreserves ==
  ASSUME IInv, Terminate
  PROVE  IInv'
<1>1. /\ served' = [s \in Streams |-> IF s \in Expiring THEN "done" ELSE served[s]]
      /\ table' = [c \in Conns |-> {s \in table[c] : s \notin Expiring \/ sep[s] # c}]
      /\ UNCHANGED <<sep, late, last, bound, resuming, moving>>
  BY DEF Terminate
<1> QED
  BY <1>1 DEF IInv, Domains, Connected, SessionKnowsItsFlows

LEMMA NextPreserves == IInv /\ [Next]_vars => IInv'
<1> SUFFICES ASSUME IInv, [Next]_vars PROVE IInv'
  OBVIOUS
<1> USE DEF flowVars, sessionVars
<1>1. CASE ConnBreaks
  BY <1>1, Unaffected DEF ConnBreaks
<1>2. CASE ClientBind
  BY <1>2, Unaffected DEF ClientBind
<1>3. CASE Session
  <2>1. CASE ServerNotices
    BY <2>1, Unaffected DEF ServerNotices
  <2>2. CASE Unbind
    BY <2>2 DEF Unbind, IInv, Domains, Connected, SessionKnowsItsFlows
  <2>3. CASE DecideToResume
    BY <2>3 DEF DecideToResume, IInv, Domains, Connected, SessionKnowsItsFlows
  <2>4. CASE TimerFires \/ Drop
    BY <2>4, Unaffected DEF TimerFires, Drop
  <2> QED
    BY <1>3, <2>1, <2>2, <2>3, <2>4, BindFindsFlowsPreserves, BindPreserves, TerminatePreserves
    DEF Session
<1>4. ASSUME NEW s \in Streams, Client(s) PROVE IInv'
  BY <1>4, Unaffected DEF Client, Open, Cancel, CloseChannel, CloseSubscription,
    StartEnding, SendEnding, Read
<1>5. ASSUME NEW s \in Streams, Handler(s) PROVE IInv'
  <2>1. CASE Return(s)
    BY <2>1, DonePreserves DEF Return
  <2>2. CASE StartEmit(s) \/ TakeCredit(s)
    BY <2>2, Unaffected DEF StartEmit, TakeCredit
  <2>3. CASE SendFrame(s) \/ Panic(s)
    BY <2>3, Unaffected DEF SendFrame, Panic
  <2> QED
    BY <1>5, <2>1, <2>2, <2>3 DEF Handler
<1>6. ASSUME NEW c \in Conns, ClientRead(c) PROVE IInv'
  BY <1>6, Unaffected DEF ClientRead, ClientData, ClientEnd, ClientAck,
    ClientCalled
<1>7. ASSUME NEW c \in Conns, ServerRead(c) PROVE IInv'
  <2>1. CASE RequestRefused(c)
    BY <2>1, Unaffected DEF RequestRefused
  <2>2. CASE Credit(c)
    BY <2>2, Unaffected DEF Credit
  <2>3. CASE Subscribe(c) \/ Subscribed(c) \/ Unsubscribe(c)
    BY <2>3, Unaffected DEF Subscribe, Subscribed, Unsubscribe
  <2>4. CASE CallAnswered(c)
    BY <2>4, Unaffected DEF CallAnswered
  <2> QED
    BY <1>7, <2>1, <2>2, <2>3, <2>4, RequestPreserves, FlowEndsPreserves DEF ServerRead
<1>8. CASE Publish \/ PublishStops \/ \E s \in Streams : PublishTo(s)
  BY <1>8, Unaffected DEF Publish, PublishStops, PublishTo
<1>9. ASSUME NEW s \in Streams, Call(s) PROVE IInv'
  BY <1>9, Unaffected DEF Call, StartCall, RegisterCall, SendCall, CallCtxEnds, AnswerCall
<1>10. CASE OnDead
  BY <1>10, Unaffected DEF OnDead
<1>11. CASE UNCHANGED vars
  BY <1>11, Unaffected DEF vars
<1> QED
  BY <1>1, <1>2, <1>3, <1>4, <1>5, <1>6, <1>7, <1>8, <1>9,
     <1>10, <1>11 DEF Next

\* Whatever breaks, is taken over or resumed, bind and terminate find every open flow, but
\* for those an old read loop registered after bind had looked or any after terminate
\* (server.go:454-465 and 542-553).
THEOREM FlowsAreKnown == Spec => []SessionKnowsItsFlows
<1>1. IInv => SessionKnowsItsFlows
  BY DEF IInv
<1> QED
  BY <1>1, InitEstablishes, NextPreserves, PTL DEF Spec

=============================================================================
