# JsonStream in TLA+

JsonStream is a Go library for requests, streams, duplex channels and
subscriptions over one TCP connection, with sessions that survive the loss of
the connection and optional credit-based backpressure. This directory holds
TLA+ models of its concurrent core, TLC configurations that check them, and
TLAPS proofs about them. All paths below are relative to the repository root;
`PROJECT.json` maps every definition to its lines.

## The system

| part | state | operations | what is hard |
| --- | --- | --- | --- |
| server sessions (`server.go`) | per session: bound connection, retained frames and their bytes, overflow mark, retention timer, subscriptions; the store of sessions; `s.conns` | `handleConn` (handshake, resume, bind, CONNACK, end), `sendDown`, `bind`, `unbind`, `drop`, `terminate`, `Publish`, `Close` | takeover, replay before live frames, timer against resumption, `ss.mu` held across a blocking send |
| transport (`transport.go`) | `sendCh`, `dead`, credit gate | `send`, `sendCtx`, read and write loop, `kill` | a queue that fills up, the end of a connection against everything else |
| credit gate (`credit.go`) | tokens, a one-token alarm, closed | `take`, `add`, `close` | waiting outside of the lock, one alarm for many sleepers |
| flow (`flow.go`) | buffer of frames, done and error, endpoint, credit accounting | `deliver`, `finish`, `release`, `setEndpoint`, `Next`, `Receive`, `consume`, `Cancel`, `Close` | random choice between ready cases, drain at the end, moving between connections |
| endpoint (`endpoint.go`) | stream ids, flow table | `handleFrame`, `doRequest`, ..., `prepareRequest`, `runRequest` | late frames, reuse of ids, panics, half-close |
| client (`client.go`) | current endpoint, session id, subscriptions, alarm for waiting calls | `Dial`, `connectLoop`, `bindSession`, `resubscribeLocked`, `waitEp`, `Close`, the API | reconnection against calls, `Close`, renewal of subscriptions |
| handshake, configuration, codec, transformation (`handshake.go`, `config.go`, `frame.go`, `transform.go`) | the parameters each end runs a connection with | negotiation, encode and decode | two ends that disagree, sizes at the limits |
| routes, errors | maps under a lock, values | look-ups | |

The client's `connectLoop` dials and sends CONNECT; `handleConn` answers with
CONNACK on a new or a resumed session. From then on each side has a read and a
write loop per connection. Application calls make flows and put frames into
`sendCh`; the other side's read loop dispatches them (`handleFrame`) to flows
or handlers, and what handlers produce goes down through `sendDown`, which
keeps it in the session while no connection is bound. When a connection dies,
`onDead` and `handleConn` unbind it on the server, and `connectLoop` dials
again and moves its flows on the client.

What makes each part correct:

- *sessions*: one live connection at most; none that is bound begins to
  expire; frames accepted go down in order and once, and are lost only with a
  connection that ends or a queue that overflows; every session without a client
  ends.
- *credit gate*: what is taken and granted is what an abstract window allows; nobody sleeps through a grant or the
  close.
- *flow*: frames reach the application in order; the end comes after the rest;
  nobody waits on a finished flow; what was consumed is granted back.
- *from end to end*: every open flow is found by whoever has to move or end it;
  what one side ends, the other stops; the window is kept and refilled.
- *wire*: both ends run with the same parameters; a frame comes out as it went
  in, and none that both have to accept kills the connection.
- *client*: answers reach their calls; no call waits where no answer can come;
  `Close` and `Dial` end.

## Modules

| module | models | state and actions |
| --- | --- | --- |
| `Session` | one server session, its connections, `sendDown` | the fields of `serverSession`, `s.conns`, per connection the place of `handleConn`, death, `sendCh` and what was written. Each blocking call is a phase of its own; each critical section is one step. `mu` is a variable only where the code holds `ss.mu` across a blocking send (`bind`'s replay and `sendDown`) |
| `CreditWindow` | what a credit gate promises: tokens, open or closed | `Take`, `Grant`, `Close` |
| `CreditGate` | `credit.go` | the locked parts of `take`, `add`, `close` and, as separate steps, the receive from and the sends to `notify` |
| `Flow` | the receiving side of one stream | `flow`, the read loops of two connections, the reader. A read loop blocked in `deliver` stands in `sendq`, as in a Go channel |
| `Client` | `client.go`, with the parts of `endpoint.go` and `flow.go` it runs | the places of `connectLoop`, `Dial`, `Close`, of every call, and of every consumer goroutine |
| `Streams` | client, session and handlers together: requests, streams, channels, subscriptions with `Publish`, and calls of the server, over connections that break | the flows of both sides with their endpoints and tables, frames on their way in both directions, the gate as its number of tokens, the retained frames, the place of each handler. `Cancel` and `Close` are two steps (which endpoint, then the frame and the end), `bind` is two (the snapshot of flows, the rest under `ss.mu`), SUBSCRIBE is two (the entry, the SUBACK), `Publish` one for its snapshot and one per target, `Server.Request` one each for endpoint, registration and send |
| `Wire` | one connection: `Config.normalized`, CONNECT and CONNACK, `transform.go`, `frame.go` | the two configurations and what each end makes of them; blocks of bytes on the wire, by their sizes |
| `SessionProof`, `SessionQueueProof`, `CreditGateProof`, `FlowProof`, `ClientProof`, `StreamsProof`, `StreamsCreditProof`, `WireProof` | theorems about the module they are named for; `SessionQueueProof` about the session's frames, `StreamsCreditProof` about the types of `Streams` and its window | |
| `MCSession`, `MCCreditGate`, `MCFlow`, `MCClient`, `MCStreams`, `MCWire` | instances for TLC | |

Definitions that a comment calls a *mutation* are not part of the model: each
is a form of the next definition that a plausible bug would give it, and shows
that the properties notice (`mutants` in `PROJECT.json`).

How they fit together. `Streams` is the composition: it has the steps of the
session, the endpoint, the flows and the gate that meet across components, and
leaves to each of the others what happens inside. For a gate it uses the tokens
of `CreditWindow`, which `CreditGate` is proved to implement; the handshake of a
connection, `sendCh`, the retention limit, CONNACK that is not written and the
queue at `ss.mu` are in `Session`; the full buffer of a flow and its reader are
in `Flow`; ids, waiting calls and a session that was not resumed are in
`Client`. `Wire` is below all of them: that frames arrive as they were sent,
which the others assume, is its `DeliveredIsSent`.

Abstractions. A frame is its stream and a number; its size is a weight, in
`Session` only. One session is followed, since sessions share only the map
that finds them. A frame is either written to the socket or not; what the
network loses after that is outside of `Session` and is a cut-off suffix in
`Flow`. In `Client` the critical section of `bindSession` is one step: what
can run into it inside of a flow is in `Flow`. In `Streams` data flow
from the server to the client only (the other direction of a channel runs the
same code with the sides exchanged), a handler does nothing but emit, return or
panic, there is one topic and one `Publish` at a time, and `release` with its
CREDIT is one step; so is `terminate`, which takes its snapshot under `ss.mu`
and fails the flows after it: a flow registered in between is `late` either way.
In `Flow`, `finish` closes `doneCh` and leaves the table of the endpoint in one
step, since whoever looks a flow up asks it then whether it is done. `Wire` takes compression as a choice of sizes and encryption
as bytes added and a key that fits or not. A frame for a consumer
goroutine of `Client` may be in its buffer at any time, instead of being published step
by step.

## Runs

| run | bounds | shows |
| --- | --- | --- |
| `session_safety` | 3 connections, 2 streams (1 frame of weight 2, 2 of weight 1; all three frames over two connections, the two over three), `sendCh` of 1, retention of 3 | the nine safety properties of a session, with CONNACK lost or not |
| `session_live` | 2 connections, 1 stream of 2 frames, retention of 2: both fit, `sendCh` holds one; `Server.Close` at any time | a replay ends if it fits or its connection dies, also one that is blocked; blocked sends end; a session without a client ends |
| `session_replay_blocks` | the same without `Close` | **violated**: `bind` blocks for ever |
| `session_connack_lost` | 2 connections, CONNACK may fail | **violated**: the session stays bound to a closed connection |
| `credit_gate` | 3 senders, window 1, 3 grants | refinement of `CreditWindow`, not everybody sleeps |
| `credit_lost_wakeup` | the same, 1 grant | **violated**: `close` leaves senders blocked |
| `flow` | each kind of reader, 2 connections, 3 frames, buffer of 1, half window of 2 | order, holes, drain, credit, ends |
| `client` | 1 request, 1 subscription, 2 connections | ids, migration, expiry, `Close`, `Dial` |
| `client_lost_wakeup` | 2 requests, 2 connections | **violated**: a call waits beside a live connection |
| `client_two_callbacks` | 1 subscription, 2 connections | **violated**: two callbacks of one subscription at once |
| `streams` | one stream, subscription, request or call with two breaks, or a channel with one, over 2 connections; a stream beside a request, a channel or a subscription on one connection, all with a window of 1 and 1 frame and the last one per handler; two streams that go on, with 3 frames each and a window of 4, granted back by 2 | `bind` and `terminate` find every flow; the window is kept and refilled; what the client ends is over at the server, after a resumption too; nobody on the server outlives its session or connection |
| `wire` | 14 configurations per end, in pairs, either end sending 2 frames of sizes at the limits (metadata 3, payload 7) | the ends agree; frames come out as they went in; good frames kill nothing |

The violated properties quote the repository's own comments and documents
(`findings` in `PROJECT.json`).

Why the bounds suffice. Three connections are needed for a takeover of a
takeover and for an old connection's unbind after two newer ones came; a
fourth is like the second. Queues of one and two frames reach full, blocked,
overflowing and empty; the code compares lengths with capacities and nothing
else. Two frames of a stream show order, three a hole. A third connection of
the client would repeat the step from the first to the second: endpoints older
than the previous one are not read. Three senders allow one to be woken and
two to sleep, and two grants to meet one alarm. In `streams` a first break is
followed by a resumption or a takeover, and a second one by the end of the
session, on whose flows the first left its traces; flows of different streams
meet only in the gate and in the tables of one connection, so that two streams
are needed only where they share a window. A window of one makes every frame
wait for the grant of the one before. A window of four is the smallest that is
granted back in batches: two streams of three frames use it up while each of
them holds a credit back, which is half of it, and go on; there the streams are
neither cancelled nor refused and their handlers do not return (`StreamsGoOn`, a
constraint), since `WindowRefills` says nothing of streams that end. In
`session_safety` a constraint (`Bounded`) trades frames for connections: the
third connection repeats a takeover or resumes an interrupted replay, for which
two frames of a stream show order and loss. Three frames overflow the retention
queue, two of different streams fill it, and one fills `sendCh`. In
`wire` widths and limits are scaled down: the code compares with each of them
once, and there are sizes below, at and above every one.

`CHECK_DEADLOCK FALSE` is set where the system may stop: a session terminated,
a flow read to its end, a client closed. In the credit gate something can
always be called, so deadlock is checked there.

## Fairness

- Goroutines go on while they can: weak fairness of `handleConn`, `onDead`,
  the write loop, `drop`, `Close`, `connectLoop`, the read loop, and of senders
  inside `take`. Clients may stay away, connections may live for ever, and
  nobody has to send, grant or cancel anything.
- Timers expire (the retention timer, the backoff, dial and SUBACK timeouts),
  and a blocked write ends by its deadline: that is why the write loop is fair,
  until its connection is dead. From then on its `select` may take frames or
  leave, whichever it picks.
- Weak fairness of an action that takes `ss.mu` also stands for the queue of
  `sync.Mutex`, which starves nobody.
- Strong fairness once: the reader of a flow with frames or its end at hand
  gets them although its contexts keep expiring, since `select` picks at random
  among the ready cases.
- In `Streams` both sides' read loops, senders with a token, `bind`, `unbind`,
  `onDead`, `drop` and `terminate` go on, and a handler returns once its flow is
  done, as its context tells it to. Opening, emitting, cancelling, publishing,
  calling and reconnecting are up to their callers.
- The application reads on until the end of a flow, in `Flow` and `Streams`.
- The calls are fair only in `client_lost_wakeup` (`FairCallsSpec`), where the
  property is about them.

## Proofs

TLAPS checks every safety property of the passing runs, invariants and action
properties, for every number of connections, streams, calls, frames, senders and
grants and for every window, buffer and limit. The only assumptions are those of
the modules on their constants (`SessionAssumption`, `CreditAssumption`,
`FlowAssumption`, `ClientAssumption`, `StreamsAssumption`, `WireAssumption`).
Almost none of the properties is inductive by itself; below is what each
invariant adds and why.

- `SessionProof`: `TypeOK`, `SupersededAreDead`, `AddressableOnceAcknowledged`,
  `RetainedOnlyWhileUnbound` and the action properties `DropsBeginUnbound` and
  `DetachedOnlyDead`. The invariant
  `IInv` adds: while `bind` holds `ss.mu` the connection it replays to is the
  bound one (`ReplayHoldsMutex`); a sender that holds `ss.mu` has a connection
  (`HeldSendHasConn`); a connection on its way to unbind is dead
  (`UnbindingIsDead`), so that `unbind` never detaches a live one; nothing is
  written before a connection serves (`WrittenOnlyOnceServing`), and a write loop
  runs only where CONNACK was (`WritingWasAcknowledged`); a connection stays
  registered until it dies (`InConnsUntilDeath`); a timer runs only while no
  connection is bound (`TimerOnlyWhileUnbound`), which is why no drop begins
  then; a queue that overflowed is empty (`OverflowedIsEmpty`). That an
  acknowledged client is in the store needs a second invariant (`CreatorInv`),
  proved on top of the first: the connection that creates the session is alone
  with it until its CONNACK (`CreatorIsAlone`, `UnbornIsUntouched`), and while
  it lives no drop begins (`CreatorKeepsSession`). There is a lemma per
  action, and one per operator that several actions share (`ReplayRestEffect`,
  `KillMonotone`).
- `SessionQueueProof`: `OrderAcrossConnections`, `LostOnlyWithConnection` and
  `RetainedAccounting`. `FramesInv` says that only a connection that went
  through `bind` has frames (`OnlyBoundSend`); that every number up to the
  stream's last one was returned by `sendDown` (`NumbersReturned`); and that the
  numbers of a stream go up along each queue (`EachGoesUp`), from each
  connection to the next and from all of them to what is retained (`AllGoUp`).
  `LostOnlyWithConnection` is about a step, and its argument goes by steps
  (`LossOfStep`): for each action, every accepted frame that is written,
  on a connection or retained is still one of them, or the step is one of those
  that may lose it (`Permitted`).
  The byte count is compared with a set, the bytes of the queue (`QueueBytes`),
  whose cardinality each step changes by the weight of a frame (`BytesCounted`):
  a sum over a queue of any length would need induction.
- `CreditGateProof`: types and the alarm invariant `NoSleepingGate`, which are
  inductive together, and the refinement of `CreditWindow`, whose steps need the
  types.
- `FlowProof`: `TypeOK`, `OrderPerConnection`, `NoHoleWhileOpen`,
  `CompleteMeansAll` and `CreditAccounting`. A frame passes through the
  connection, the hands of its read loop, the queue of blocked read loops, the
  buffer and the reader. `OrderInv` says that along this way the frames of a
  connection go up, at every place at once, so that a step moves a frame from
  one to the next; `GapInv` that between two of them that are on the way none is
  missing while the flow is open, and on the connection that COMPLETE came
  through also afterwards. `ControlInv` adds that blocked read loops hold a
  frame each and leave when the flow ends, that an open flow is in the table of
  every connection it has moved to, and that nothing follows COMPLETE.
  `CreditInv` counts what is granted or pending against what was taken.
- `ClientProof`: `TypeOK`, `AnswersGoHome`, `WaitingIsAddressable`,
  `PendingBelongsToSession` and `CloseEndsPending`. Ids start again with every
  endpoint, and flows move: what keeps answers apart is that a flow that moved
  has an id below the counter of every endpoint it moved to (`Kept`), which
  `bindSession` sees to by carrying `nextID` over. `WaitingInv` puts a waiting
  call in the table of every endpoint since its own, which is why `Close`, which
  ends the calls of the endpoint it read, leaves none behind although
  `connectLoop` moves flows at the same time. `DeadInv` and `LoopInv` say that
  there is one connection at a time and whose session it has.
- `StreamsProof`: `SessionKnowsItsFlows`. The invariant adds that the bound
  connection, if any, is the last one and that a `bind` under way has one more
  to use (`Connected`), so that `ss.conn` and `ss.lastConn` lead to the same
  table, and the domains of the functions (`Domains`): which stream a frame
  names does not matter to the argument. Most steps leave alone what `bind` and
  `terminate` go by (`Unaffected`); there is a lemma for each step that does not.
- `StreamsCreditProof`: `TypeOK` and `WindowRespected`. The types need to know
  what a frame's type says of its stream (`UpFrames`, `DownFrames`), since a
  stream is emitted or published to and never both; that what a flow holds back
  stays below a batch is apart (`HeldBack`), as the window, and the batch with
  it, is a variable that never changes (`LoadStays`). For the window, `Past` says
  that nothing belongs to a connection that is yet to come, hence that until the
  first one dies it is the only one. Credit is the set `Owed` of its units, and
  for each kind of step a lemma maps the units after the step one to one into
  those before it: a token to the frame it was taken for (`TokenTaken`), the
  frame to the connection (`FrameSent`), to the client's buffer (`DownRead`), to
  what waits to be granted back or to the grant (`FrameRead`), and the grant to
  the gate (`UpRead`); all other steps only lose some (`NothingAdded`).
- `WireProof`: `EndsAgree`, `DeliveredIsSent` and `GoodFramesPass`. For the
  first the invariant says what each phase of the handshake knows of the one
  before (`Negotiated`); that the rounding of the heartbeat to milliseconds is
  tolerated is a lemma on division (`RoundingIsTolerated`). The others rest on
  `ReadsBack`, what `ReadFrame` makes of blocks that begin like the ones
  `AppendTo` wrote, whole or cut off anywhere, and on `OnWire`, which names an
  encoding and a position on the wire for each frame that is sent and not
  delivered. A dead connection has an excuse (`Excuse`): it was cut, a frame was
  too large, or the keys differ.

Only model-checked: the liveness properties (`WindowRefills`, `EndReachesServer`,
`DeathEndsWaiting` and those of the other runs under the fairness above), which
are out of the prover's reach as ENABLED and leads-to are. `WindowRespected` and
`RetainedAccounting` count units in a set and the replay of `bind` is a set of
permutations, where a fold over a queue of any length could not be reasoned
about without induction; TLC finds the same states with both forms.

## What the models brought up

The violated runs are listed above. These came up while modelling and are in the
models as the code has them; each is the reason for a condition in a property, or
for a hazard of `PROJECT.json`:

- Credit is granted back in batches of half a window, per stream. `k` open
  streams may hold back `k * (FlushAt - 1)` credits; once that is the whole
  window (four streams at a window of four) all senders wait for ever although
  everything was consumed. Hence the premise of `WindowRefills`. What is held
  back when a stream ends, and frames dropped with it, is never granted back.
- A PUBLISH takes no credit, though protocol.md:280 counts it among the frames
  that do, and is granted back all the same: a subscription opens the
  window of streams on its connection beyond what was negotiated.
  `WindowRespected` is stated without subscriptions.
- An `Emitter` asks the gate of the connection its request came on. After a
  resumption that gate is closed, the error is ignored, and the stream runs
  without backpressure, while protocol.md:284 has it take the credit of the
  new connection. `WindowRespected` is stated for a connection that carries
  nothing of an earlier one.
- A request whose context ends after a resumption sends CANCEL on the connection
  it began on, where it is lost (protocol.md:315 says that such a CANCEL takes
  effect at once); streams and channels ask for the current one.
  `EndReachesServer` says so for each kind.
- `Client.Subscribe` whose context ends before the SUBACK sends CANCEL, which
  means nothing to the server for a subscription: its entry stays, and later
  broadcasts reach the topic handler of the client, if it has one.
- A broadcast that took its snapshot before an UNSUBSCRIBE still sends to the
  closed subscription, with the same effect.
- On the client nothing ends the flow of a handler that serves a call of the
  server once its connection is gone (protocol.md:315 has it die with the
  connection): a handler that waits on such a channel waits for ever.
- `inbound` refuses a frame with the flag of a transformation that is not in
  effect; protocol.md:161 has the decoder go by the flags whatever was
  negotiated.
- A REQUEST that an old connection's read loop still has is registered where
  neither `bind` nor `terminate` looks again (`late` in `Streams`): its handler
  runs with nobody to end it.
- `Channel.Close` is a half-close by its comment (flow.go:297), by flow.go:241
  and by protocol.md:245: it says COMPLETE, and the caller receives on until the
  peer closes. The code finishes the whole flow (`complete`): what the peer
  still sends finds no flow, `Receive` returns `io.EOF` after what is in the
  buffer, and the peer finishes its flow at the COMPLETE as well
  (endpoint.go:156), so that its `Send` fails from then on. The models have
  it so (`LocalEnd` in `Flow`, `CloseChannel` in `Streams`). Of a channel,
  `EndReachesReader` is stated for the ends that come from the peer and for
  errors, not for the local `Close`; no run states the half-close.
- protocol.md:341 has the frames of a stream in strict order. On the client that
  is so per connection: a frame that the read loop of an old connection still
  holds can be delivered after frames of the new one. `OrderPerConnection` and
  `NoHoleWhileOpen` are stated per connection for that reason.
- The retention timer that has expired is not stopped by a resumption: its
  `drop` may remove and terminate a session that a client has resumed. That
  client was acknowledged, but the calls of the server do not find it, which
  the comment at server.go:301-305 excludes. `DropsBeginUnbound` says no more than
  that no drop begins while a connection is bound, and
  `AddressableOnceAcknowledged` excepts clients that resumed.
- protocol.md 8.3 allows for the last one or two frames to be lost with a
  connection. It is what `sendCh` holds (256) and the one in the write loop:
  `LostOnlyWithConnection` says where, not how many. Frames sent between
  `kill` and `unbind` are refused with `ErrClosed` instead of being retained, and
  handlers ignore that error.
- protocol.md:333 has the client clear its table of subscriptions when a
  resumption fails. `resubscribeLocked` renews all of them instead, the closed
  ones too. `Client` has what the code does; no run states the document's sentence.

## Not modelled, and the plan

Parts that are left, in order:

1. The client as responder: handlers of the server's streams and channels, and
   `Server.Stream` and `Server.Channel`, which differ from `Server.Request` only
   after the send. PUBLISH of a client and ONEWAY start a handler and keep no
   state.
2. The 32-bit wrap of stream ids (`allocID`), after two thousand million streams
   of one session.
3. Proofs: what is left of safety is the window of connections after the first
   one, which carries frames of an earlier one and for which no bound is stated
   yet.

Left out for good: the bytes that compression and encryption produce (library
calls on a payload the model does not look into), JSON encoding, logging, the
route table (a map under one lock: every operation is one critical section),
error values, and the example programs.
