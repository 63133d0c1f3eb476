--------------------------------- MODULE Wire ---------------------------------
(***************************************************************************)
(* One connection on the wire: the negotiation of CONNECT and CONNACK      *)
(* (handshake.go, handleConn, establish, bindSession), the transformation  *)
(* of payloads (transform.go) and the framing (frame.go), from the frame   *)
(* an end sends to the frame its peer dispatches.                          *)
(*                                                                         *)
(* Metadata and payloads are sizes: a payload is the size of its plaintext, *)
(* how it is wrapped, and the bytes that makes.  Bytes on the wire come in *)
(* the blocks appendTo writes; to read across their borders yields Garbage. *)
(* The two directions run the same code: one of the ends sends.            *)
(***************************************************************************)
EXTENDS Integers, Sequences, FiniteSetsExt, SequencesExt

CONSTANTS
  Configs,         \* configurations an application may start an end with
  Frames,          \* frames it may send: mode flags, sizes of metadata and plaintext
  MaxFrames,       \* bound of the model: frames sent
  Second, Millisecond, DefaultHeartbeat, \* durations, in ticks
  MetaLenBits,     \* width of the metadata length (16 in the code)
  MaxPayloadSize,  \* 16 MiB in the code
  MinCompressSize, \* minCompressSize: 64
  SealSize         \* what encryption adds: nonce and tag

MaxMetadataSize == 2^MetaLenBits - 1

ASSUME WireAssumption ==
  /\ Frames \subseteq [mode : SUBSET {"Stream", "Channel"}, meta : Nat, payload : Nat]
  /\ MaxFrames \in Nat
  /\ {Second, Millisecond, DefaultHeartbeat, MetaLenBits, MaxPayloadSize, SealSize,
      MinCompressSize} \subseteq Nat \ {0}
  /\ Second >= 2 * Millisecond
  /\ Configs \subseteq [compress : BOOLEAN, encrypt : BOOLEAN, key : STRING, credit : Int,
                        heartbeat : Int]

VARIABLES
  cli, srv,     \* the normalized configurations of Dial and NewServer
  phase,        \* connect: nothing sent; hello: CONNECT sent; accepted: the server is bound,
                \* CONNACK sent; open: the client is bound; refused
  hello,        \* the CONNECT or CONNACK that is on its way
  cliEff,       \* the configuration each end runs the connection with
  srvEff,
  sender,       \* the end that sends
  sent,         \* frames given to its write loop
  wire,         \* blocks on their way
  cut,          \* the network has lost a part of them
  dead,         \* an end has killed the connection for a frame
  delivered     \* frames the other end dispatched

vars == <<cli, srv, phase, hello, cliEff, srvEff, sender, sent, wire, cut, dead, delivered>>
handshakeVars == <<cli, srv, phase, hello, cliEff, srvEff, sender>>

-----------------------------------------------------------------------------
(* Configuration and negotiation *)

\* Config.normalized; the other durations only limit how long something is waited for
Normalized(cfg) ==
  LET heartbeat == IF cfg.heartbeat = 0 THEN DefaultHeartbeat ELSE cfg.heartbeat
  IN [cfg EXCEPT !.heartbeat = IF heartbeat < Second THEN Second ELSE heartbeat]

\* newTransformer fails for a key of another length, which an end with encryption checks first
Startable(cfg) == cfg.encrypt => cfg.key # "short"

\* Mutation of Effective: compression is on when one of the two asks for it.
EffectiveIfEither(cfg, c) ==
  [compress  |-> cfg.compress \/ c.compress,
   encrypt   |-> cfg.encrypt /\ c.encrypt,
   heartbeat |-> cfg.heartbeat \div Millisecond,
   credit    |-> IF cfg.credit > 0 /\ c.credit > 0
                 THEN IF cfg.credit < c.credit THEN cfg.credit ELSE c.credit
                 ELSE 0]

\* effectiveConnack
Effective(cfg, c) ==
  [compress  |-> cfg.compress /\ c.compress,
   encrypt   |-> cfg.encrypt /\ c.encrypt,
   heartbeat |-> cfg.heartbeat \div Millisecond,
   credit    |-> IF cfg.credit > 0 /\ c.credit > 0
                 THEN IF cfg.credit < c.credit THEN cfg.credit ELSE c.credit
                 ELSE 0]

NoHello == [compress |-> FALSE, encrypt |-> FALSE, heartbeat |-> 0, credit |-> 0]

Init ==
  /\ cli \in {Normalized(cfg) : cfg \in {c \in Configs : Startable(c)}}
  /\ srv \in {Normalized(cfg) : cfg \in {c \in Configs : Startable(c)}}
  /\ sender \in {"client", "server"}
  /\ phase = "connect" /\ hello = NoHello /\ cliEff = cli /\ srvEff = srv
  /\ sent = <<>> /\ wire = <<>> /\ cut = FALSE /\ dead = FALSE /\ delivered = <<>>

\* establish: CONNECT says what the client is configured for
Connect ==
  /\ phase = "connect"
  /\ phase' = "hello"
  /\ hello' = [compress |-> cli.compress, encrypt |-> cli.encrypt,
               heartbeat |-> cli.heartbeat \div Millisecond, credit |-> cli.credit]
  /\ UNCHANGED <<cli, srv, cliEff, srvEff, sender, sent, wire, cut, dead, delivered>>

\* handleConn refuses: the hook of OnAuth says so, or encryption is asked for in vain
Refuse ==
  /\ phase = "hello"
  /\ phase' = "refused"
  /\ UNCHANGED <<cli, srv, hello, cliEff, srvEff, sender, sent, wire, cut, dead, delivered>>

\* Mutation of Accept: the server goes on with what it is configured for.
AcceptAsConfigured ==
  /\ phase = "hello" /\ ~(srv.encrypt /\ ~hello.encrypt)
  /\ phase' = "accepted"
  /\ hello' = Effective(srv, hello) /\ srvEff' = srv
  /\ UNCHANGED <<cli, srv, cliEff, sender, sent, wire, cut, dead, delivered>>

\* handleConn accepts, answers with what is in effect, and runs its end with it
Accept ==
  /\ phase = "hello" /\ ~(srv.encrypt /\ ~hello.encrypt)
  /\ phase' = "accepted"
  /\ LET aj == Effective(srv, hello)
     IN /\ hello' = aj
        /\ srvEff' = [srv EXCEPT !.compress = aj.compress, !.encrypt = aj.encrypt,
                                 !.credit = aj.credit]
  /\ UNCHANGED <<cli, srv, cliEff, sender, sent, wire, cut, dead, delivered>>

\* bindSession
ClientBind ==
  /\ phase = "accepted"
  /\ phase' = "open"
  /\ cliEff' = [cli EXCEPT !.compress = hello.compress, !.encrypt = hello.encrypt,
                           !.credit = hello.credit,
                           !.heartbeat = IF hello.heartbeat > 0 THEN hello.heartbeat * Millisecond
                                         ELSE @]
  /\ UNCHANGED <<cli, srv, hello, srvEff, sender, sent, wire, cut, dead, delivered>>

-----------------------------------------------------------------------------
(* Payloads: transformer.outbound and inbound *)

Plain(n)  == [plain |-> n, size |-> n, deflated |-> FALSE, key |-> "none"]
Garbage   == [plain |-> -1, size |-> -1, deflated |-> FALSE, key |-> "none"]

\* What flate may make of n bytes: next to nothing, or a byte more than there was.
DeflatedSizes(n) == {1, n + 1}

\* the ways to transform a payload, with the flags each sets
Outbound(cfg, n) ==
  LET seal(p) == IF cfg.encrypt THEN [p EXCEPT !.size = @ + SealSize, !.key = cfg.key] ELSE p
  IN IF cfg.compress /\ n >= MinCompressSize
     THEN {seal([Plain(n) EXCEPT !.size = k, !.deflated = TRUE]) : k \in DeflatedSizes(n)}
     ELSE {seal(Plain(n))}

FlagsOf(p) == (IF p.deflated THEN {"Compressed"} ELSE {})
                \cup (IF p.key # "none" THEN {"Encrypted"} ELSE {})

\* A flag of what is not in effect, a wrong key and too large a plaintext are errors
InboundFails(cfg, flags, p) ==
  \/ "Encrypted" \in flags /\ (~cfg.encrypt \/ p.size < SealSize \/ p.key # cfg.key)
  \/ "Compressed" \in flags /\ (~cfg.compress \/ ~p.deflated \/ p.plain > MaxPayloadSize)

\* what is left once the layers that the flags name are taken off
Inbound(flags, p) ==
  IF p.deflated # ("Compressed" \in flags) \/ (p.key # "none") # ("Encrypted" \in flags)
  THEN Garbage ELSE Plain(p.plain)

-----------------------------------------------------------------------------
(* Frames: appendTo and ReadFrame *)

Block(what, size, value) == [what |-> what, size |-> size, value |-> value]

\* Mutation of TooLarge: the limit of the length field taken for 2^16.
TooLargeByOne(f) == f.meta > MaxMetadataSize + 1 \/ f.payload.size > MaxPayloadSize

TooLarge(f) == f.meta > MaxMetadataSize \/ f.payload.size > MaxPayloadSize

\* Metadata brings HasMeta with it, and HasMeta the length field
AppendTo(f) ==
  LET flags == f.flags \cup (IF f.meta > 0 THEN {"HasMeta"} ELSE {})
      metaLen == IF f.meta > MaxMetadataSize THEN MaxMetadataSize ELSE f.meta
      meta == IF f.meta > 0 THEN <<Block("meta", f.meta, Plain(f.meta))>> ELSE <<>>
      payload == IF f.payload.size > 0 THEN <<Block("payload", f.payload.size, f.payload)>> ELSE <<>>
  IN <<Block("header", 14, [flags |-> flags, len |-> f.payload.size])>>
       \o (IF "HasMeta" \in flags THEN <<Block("metaLen", 2, Plain(metaLen))>> \o meta ELSE <<>>)
       \o payload

\* io.ReadFull of n bytes: what they are, and what is left; short if there are too few
ReadFull(w, n) ==
  IF n = 0 THEN [short |-> FALSE, value |-> Plain(0), rest |-> w]
  ELSE IF w = <<>> THEN [short |-> TRUE, value |-> Garbage, rest |-> w]
  ELSE [short |-> FALSE, value |-> IF Head(w).size = n THEN Head(w).value ELSE Garbage,
        rest |-> Tail(w)]

\* ReadFrame: by the flags and lengths it finds
ReadFrame(w) ==
  LET head == Head(w).value
      hasMeta == "HasMeta" \in head.flags
      metaLen == ReadFull(Tail(w), IF hasMeta THEN 2 ELSE 0)
      meta == ReadFull(metaLen.rest, metaLen.value.plain)
      payload == ReadFull(meta.rest, head.len)
  IN IF Head(w).what # "header" THEN [short |-> FALSE, bad |-> TRUE]
     ELSE [short |-> metaLen.short \/ meta.short \/ payload.short,
           bad |-> head.len > MaxPayloadSize
                     \/ ~(head.flags \subseteq {"Compressed", "Encrypted", "HasMeta", "Stream", "Channel"}),
           flags |-> head.flags, meta |-> meta.value.plain, payload |-> payload.value,
           rest |-> payload.rest]

-----------------------------------------------------------------------------
(* The write loop of one end and the read loop of the other *)

SenderEff   == IF sender = "client" THEN cliEff ELSE srvEff
ReceiverEff == IF sender = "client" THEN srvEff ELSE cliEff

\* writeLoop and encodeFrame: a frame too large to encode kills the connection
Send ==
  /\ phase = "open" \/ (phase = "accepted" /\ sender = "server")
  /\ ~dead /\ ~cut /\ Len(sent) < MaxFrames
  /\ \E frame \in Frames : \E p \in Outbound(SenderEff, frame.payload) :
       LET f == [flags |-> frame.mode \cup FlagsOf(p), meta |-> frame.meta, payload |-> p]
       IN /\ sent' = Append(sent, frame)
          /\ IF TooLarge(f) THEN dead' = TRUE /\ UNCHANGED wire
             ELSE wire' = wire \o AppendTo(f) /\ UNCHANGED dead
  /\ UNCHANGED <<handshakeVars, cut, delivered>>

\* the network loses the rest
Cut ==
  /\ phase \in {"accepted", "open"} /\ ~cut
  /\ cut' = TRUE
  /\ \E k \in 0..Len(wire) : wire' = SubSeq(wire, 1, k)
  /\ UNCHANGED <<handshakeVars, sent, dead, delivered>>

\* readLoop: one frame, or the end of the connection for an error
Receive ==
  /\ phase = "open" \/ (phase = "accepted" /\ sender = "client")
  /\ ~dead /\ wire # <<>>
  /\ LET f == ReadFrame(wire)
     IN IF f.short \/ f.bad \/ InboundFails(ReceiverEff, f.flags, f.payload)
        THEN dead' = TRUE /\ UNCHANGED <<wire, delivered>>
        ELSE /\ wire' = f.rest /\ UNCHANGED dead
             /\ delivered' = Append(delivered,
                  [mode |-> f.flags \cap {"Stream", "Channel"}, meta |-> f.meta,
                   payload |-> Inbound(f.flags, f.payload).plain])
  /\ UNCHANGED <<handshakeVars, sent, cut>>

Next == Connect \/ Refuse \/ Accept \/ ClientBind \/ Send \/ Cut \/ Receive

Spec == Init /\ [][Next]_vars

-----------------------------------------------------------------------------

Idle(cfg) == cfg.heartbeat + cfg.heartbeat \div 2

\* protocol.md 6.1: whatever the two are configured for, once CONNACK is read both ends
\* run with the same compression, encryption and credit: compressed and encrypted just when
\* both asked for it, encrypted when the server demands it, and with no more credit than
\* either declared; and each pings before the other takes it for dead, the heartbeat being
\* rounded to milliseconds on the way.
EndsAgree ==
  phase = "open" =>
    /\ cliEff.compress = srvEff.compress /\ cliEff.encrypt = srvEff.encrypt
    /\ cliEff.credit = srvEff.credit
    /\ cliEff.compress = (cli.compress /\ srv.compress)
    /\ cliEff.encrypt = (cli.encrypt /\ srv.encrypt)
    /\ srv.encrypt => srvEff.encrypt
    /\ IF cli.credit > 0 /\ srv.credit > 0
       THEN cliEff.credit \in {cli.credit, srv.credit} /\ cliEff.credit <= cli.credit
              /\ cliEff.credit <= srv.credit
       ELSE cliEff.credit = 0
    /\ cliEff.heartbeat < Idle(srvEff) /\ srvEff.heartbeat < Idle(cliEff)

\* Frames come out as they went in and in order: the metadata, the mode and the plaintext
\* of each, whatever was negotiated, however its size compares with the limits, and though
\* the connection is cut within a frame.
DeliveredIsSent == IsPrefix(delivered, sent)

\* No connection is killed for a frame that both ends have to accept: with one key, and
\* within the limits after the worst that compression and encryption add to it.
GoodFramesPass ==
  /\ ~cut
  /\ cliEff.encrypt /\ srvEff.encrypt => cli.key = srv.key
  /\ \A i \in DOMAIN sent : /\ sent[i].meta <= MaxMetadataSize
                            /\ sent[i].payload + 1 + SealSize <= MaxPayloadSize
  => ~dead

=============================================================================
