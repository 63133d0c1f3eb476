------------------------------ MODULE WireProof ------------------------------
(***************************************************************************)
(* The connection on the wire, for all configurations, frames and limits:  *)
(* EndsAgree, which does not depend on what the frames carry afterwards,   *)
(* and then DeliveredIsSent and GoodFramesPass.  These rest on what        *)
(* ReadFrame makes of the blocks AppendTo writes (ReadsBack) and on an     *)
(* invariant that says where on the wire the blocks of each frame are that *)
(* is sent and not delivered (OnWire).                                     *)
(***************************************************************************)
EXTENDS Wire, SequenceTheorems, TLAPS

Configured == [compress : BOOLEAN, encrypt : BOOLEAN, key : STRING, credit : Int,
               heartbeat : Int]

\* what CONNECT says, and what each end makes of the answer
Asked == [compress |-> cli.compress, encrypt |-> cli.encrypt,
          heartbeat |-> cli.heartbeat \div Millisecond, credit |-> cli.credit]

ServerTakes(aj) == [srv EXCEPT !.compress = aj.compress, !.encrypt = aj.encrypt,
                               !.credit = aj.credit]

ClientTakes(aj) ==
  [cli EXCEPT !.compress = aj.compress, !.encrypt = aj.encrypt, !.credit = aj.credit,
              !.heartbeat = IF aj.heartbeat > 0 THEN aj.heartbeat * Millisecond ELSE @]

\* The configurations are normalized; each phase knows what the ones before it have made.
Normal(cfg) == cfg \in Configured /\ cfg.heartbeat >= Second

Negotiated ==
  /\ phase = "hello" => hello = Asked
  /\ phase \in {"accepted", "open"} =>
       /\ hello = Effective(srv, Asked) /\ srvEff = ServerTakes(hello)
       /\ srv.encrypt => cli.encrypt
  /\ phase = "open" => cliEff = ClientTakes(hello)

IInv == Normal(cli) /\ Normal(srv) /\ Negotiated

\* A configuration is normal once it is normalized.
LEMMA NormalizedIsNormal ==
  ASSUME NEW cfg \in Configs
  PROVE  Normal(Normalized(cfg))
  BY WireAssumption DEF Normal, Normalized, Configured

\* The configurations are normalized before anything is sent.
LEMMA InitEstablishes == Init => IInv
<1> SUFFICES ASSUME Init PROVE IInv
  OBVIOUS
<1>1. Normal(cli) /\ Normal(srv)
  BY NormalizedIsNormal DEF Init
<1> QED
  BY <1>1 DEF Init, IInv, Negotiated

\* Every step keeps what the phases know of each other.
LEMMA NextPreserves == IInv /\ [Next]_vars => IInv'
<1> SUFFICES ASSUME IInv, [Next]_vars PROVE IInv'
  OBVIOUS
<1> USE DEF IInv, Negotiated, Asked, ServerTakes, ClientTakes, Normal
<1>1. CASE Connect
  BY <1>1 DEF Connect
<1>2. CASE Refuse
  BY <1>2 DEF Refuse
<1>3. CASE Accept
  <2>1. UNCHANGED <<cli, srv>> /\ phase' = "accepted"
    BY <1>3 DEF Accept
  <2>2. hello' = Effective(srv, Asked) /\ srvEff' = ServerTakes(hello')
    BY <1>3 DEF Accept
  <2>3. srv.encrypt => cli.encrypt
    BY <1>3 DEF Accept
  <2> QED
    BY <2>1, <2>2, <2>3 DEF Effective
<1>4. CASE ClientBind
  <2>1. UNCHANGED <<cli, srv, hello, srvEff>> /\ phase = "accepted" /\ phase' = "open"
    BY <1>4 DEF ClientBind
  <2>2. cliEff' = ClientTakes(hello)
    BY <1>4 DEF ClientBind
  <2> QED
    BY <2>1, <2>2 DEF Effective
<1>5. CASE Send \/ Cut \/ Receive
  <2>1. UNCHANGED handshakeVars
    BY <1>5 DEF Send, Cut, Receive
  <2> QED
    BY <2>1 DEF handshakeVars, Effective
<1>6. CASE UNCHANGED vars
  BY <1>6 DEF vars, Effective
<1> QED
  BY <1>1, <1>2, <1>3, <1>4, <1>5, <1>6 DEF Next

\* An interval of at least two milliseconds, rounded down to whole ones, is within half of
\* itself of what it was, and the other way round.
LEMMA RoundingIsTolerated ==
  ASSUME NEW h \in Nat, NEW m \in Nat \ {0}, h >= 2 * m
  PROVE  LET r == (h \div m) * m
         IN h \div m > 0 /\ r \in Nat /\ r < h + h \div 2 /\ h < r + r \div 2
<1> DEFINE q == h \div m
           r == q * m
<1>1. q \in Nat /\ r \in Nat /\ r <= h /\ h < r + m
  OBVIOUS
<1>2. q >= 2
  OBVIOUS
<1>3. r >= 2 * m
  BY <1>1, <1>2
<1>4. r \div 2 >= m /\ h \div 2 >= 1
  BY <1>1, <1>3
<1> QED
  BY <1>1, <1>2, <1>4

\* Once CONNACK is read both ends run with the same parameters, compressed and encrypted just
\* when both asked for it, and ping in time for each other, whatever they were configured for
\* (handshake.go:51, client.go:328).
THEOREM AgreementSafety == Spec => []EndsAgree
<1>1. ASSUME IInv PROVE EndsAgree
  <2> SUFFICES ASSUME phase = "open" PROVE EndsAgree
    BY DEF EndsAgree
  <2>1. /\ cli \in Configured /\ srv \in Configured
        /\ srv.heartbeat \in Nat /\ srv.heartbeat >= 2 * Millisecond
        /\ Millisecond \in Nat \ {0}
    BY <1>1, WireAssumption DEF IInv, Normal, Configured
  <2>2. /\ hello = Effective(srv, Asked) /\ srvEff = ServerTakes(hello)
        /\ cliEff = ClientTakes(hello)
        /\ srv.encrypt => cli.encrypt
    BY <1>1 DEF IInv, Negotiated
  <2>3. /\ srvEff.compress = hello.compress /\ srvEff.encrypt = hello.encrypt
        /\ srvEff.credit = hello.credit /\ srvEff.heartbeat = srv.heartbeat
    BY <2>1, <2>2 DEF Configured, ServerTakes
  <2>4. /\ cliEff.compress = hello.compress /\ cliEff.encrypt = hello.encrypt
        /\ cliEff.credit = hello.credit
        /\ cliEff.heartbeat = IF hello.heartbeat > 0 THEN hello.heartbeat * Millisecond
                              ELSE cli.heartbeat
    BY <2>1, <2>2 DEF Configured, ClientTakes
  <2>5. /\ hello.encrypt = (srv.encrypt /\ cli.encrypt)
        /\ hello.compress = (srv.compress /\ cli.compress)
        /\ hello.heartbeat = srv.heartbeat \div Millisecond
        /\ hello.credit = IF srv.credit > 0 /\ cli.credit > 0
                          THEN IF srv.credit < cli.credit THEN srv.credit ELSE cli.credit
                          ELSE 0
    BY <2>2 DEF Effective, Asked
  <2>6. cliEff.heartbeat < Idle(srvEff) /\ srvEff.heartbeat < Idle(cliEff)
    BY <2>1, <2>3, <2>4, <2>5, RoundingIsTolerated DEF Idle
  <2>7. IF cli.credit > 0 /\ srv.credit > 0
        THEN cliEff.credit \in {cli.credit, srv.credit} /\ cliEff.credit <= cli.credit
               /\ cliEff.credit <= srv.credit
        ELSE cliEff.credit = 0
    BY <2>1, <2>4, <2>5 DEF Configured
  <2>8. srv.encrypt => srvEff.encrypt
    BY <2>2, <2>3, <2>5
  <2>9. /\ cliEff.compress = (cli.compress /\ srv.compress)
        /\ cliEff.encrypt = (cli.encrypt /\ srv.encrypt)
    BY <2>4, <2>5, Zenon
  <2> QED
    BY <2>3, <2>4, <2>6, <2>7, <2>8, <2>9 DEF EndsAgree
<1> QED
  BY <1>1, InitEstablishes, NextPreserves, PTL DEF Spec

-----------------------------------------------------------------------------
(* What a payload and a frame become *)

Payloads == [plain : Int, size : Int, deflated : BOOLEAN, key : STRING \cup {"none"}]
Headers  == [flags : SUBSET {"Compressed", "Encrypted", "HasMeta", "Stream", "Channel"}, len : Nat]
Blocks   == [what : {"header", "metaLen", "meta", "payload"}, size : Nat,
             value : Payloads \cup Headers]

\* A frame as encodeFrame hands it to appendTo.
Encoded(frame, p) ==
  [flags |-> frame.mode \cup FlagsOf(p), meta |-> frame.meta, payload |-> p]

\* What appendTo is given, and the header it makes of it.
Encodings == [flags : SUBSET {"Compressed", "Encrypted", "Stream", "Channel"}, meta : Nat,
              payload : {p \in Payloads : p.size \in Nat}]

HeaderOf(f) ==
  Block("header", 14, [flags |-> f.flags \cup (IF f.meta > 0 THEN {"HasMeta"} ELSE {}),
                       len   |-> f.payload.size])

\* what seal makes of a payload
Sealed(cfg, q) == IF cfg.encrypt THEN [q EXCEPT !.size = @ + SealSize, !.key = cfg.key] ELSE q

\* The longest metadata have a length.
LEMMA MaxMeta == MaxMetadataSize \in Int
BY WireAssumption DEF MaxMetadataSize

\* Encryption adds its overhead and the key, and never takes a byte.
LEMMA SealedPayload ==
  ASSUME NEW cfg \in Configured, NEW q \in Payloads, q.size \in Nat, q.key = "none"
  PROVE  LET p == Sealed(cfg, q)
         IN
         /\ p \in Payloads /\ p.plain = q.plain /\ p.deflated = q.deflated
         /\ p.size \in Nat /\ p.size >= q.size /\ p.size <= q.size + SealSize
         /\ p.key # "none" => cfg.encrypt /\ p.key = cfg.key /\ p.size >= SealSize
         /\ p.size = 0 => p = q
<1> DEFINE p == Sealed(cfg, q)
<1>1. SealSize \in Nat \ {0} /\ cfg.key \in STRING /\ cfg.encrypt \in BOOLEAN
  BY WireAssumption DEF Configured
<1>2. CASE cfg.encrypt
  <2>1. p = [q EXCEPT !.size = @ + SealSize, !.key = cfg.key]
    BY <1>2 DEF Sealed
  <2> DEFINE grown == [q EXCEPT !.size = @ + SealSize]
  <2>2. grown \in Payloads /\ p = [grown EXCEPT !.key = cfg.key]
    BY <1>1, <2>1 DEF Payloads
  <2>3. grown.plain = q.plain /\ grown.size = q.size + SealSize /\ grown.deflated = q.deflated
    BY DEF Payloads
  <2> HIDE DEF grown
  <2>4. p \in Payloads
    BY <1>1, <2>2 DEF Payloads
  <2>5. /\ p.plain = grown.plain /\ p.size = grown.size /\ p.deflated = grown.deflated
        /\ p.key = cfg.key
    BY <2>2 DEF Payloads
  <2> QED
    BY <1>1, <1>2, <2>3, <2>4, <2>5
<1>3. CASE ~cfg.encrypt
  BY <1>1, <1>3 DEF Sealed
<1> QED
  BY <1>2, <1>3

\* What outbound makes of n bytes: no more than one byte and the overhead are added, nothing
\* is done that is not in effect, and only an empty plaintext makes an empty payload.
LEMMA OutboundPayload ==
  ASSUME NEW cfg \in Configured, NEW n \in Nat, NEW p \in Outbound(cfg, n)
  PROVE  /\ p \in Payloads /\ p.plain = n /\ p.size \in Nat /\ p.size <= n + 1 + SealSize
         /\ p.deflated => cfg.compress /\ p.size > 0
         /\ p.key # "none" => cfg.encrypt /\ p.key = cfg.key /\ p.size >= SealSize
         /\ p.size = 0 => p = Plain(0)
<1>1. SealSize \in Nat \ {0}
  BY WireAssumption
<1>2. CASE cfg.compress /\ n >= MinCompressSize
  <2>1. PICK k \in {1, n + 1} :
          p = IF cfg.encrypt
              THEN [[Plain(n) EXCEPT !.size = k, !.deflated = TRUE]
                      EXCEPT !.size = @ + SealSize, !.key = cfg.key]
              ELSE [Plain(n) EXCEPT !.size = k, !.deflated = TRUE]
    BY <1>2 DEF Outbound, DeflatedSizes
  <2> DEFINE q == [Plain(n) EXCEPT !.size = k, !.deflated = TRUE]
  <2>2. q \in Payloads
    <3> DEFINE sized == [Plain(n) EXCEPT !.size = k]
    <3>1. Plain(n) \in Payloads
      BY DEF Plain, Payloads
    <3>2. sized \in Payloads
      BY <3>1 DEF Payloads
    <3>3. q = [sized EXCEPT !.deflated = TRUE]
      OBVIOUS
    <3> HIDE DEF sized, q
    <3> QED
      BY <3>2, <3>3 DEF Payloads
  <2>3. q.size = k /\ q.key = "none" /\ q.plain = n /\ q.deflated = TRUE /\ k \in Nat
    BY DEF Plain
  <2>4. p = Sealed(cfg, q)
    BY <2>1 DEF Sealed
  <2> HIDE DEF q
  <2>5. /\ p \in Payloads /\ p.plain = q.plain /\ p.deflated = q.deflated
        /\ p.size \in Nat /\ p.size >= q.size /\ p.size <= q.size + SealSize
        /\ p.key # "none" => cfg.encrypt /\ p.key = cfg.key /\ p.size >= SealSize
    BY <2>2, <2>3, <2>4, SealedPayload
  <2> QED
    BY <1>1, <1>2, <2>2, <2>3, <2>5
<1>3. CASE ~(cfg.compress /\ n >= MinCompressSize)
  <2>1. p = Sealed(cfg, Plain(n))
    BY <1>3 DEF Outbound, Sealed
  <2>2. /\ Plain(n) \in Payloads /\ Plain(n).size = n /\ Plain(n).key = "none"
        /\ Plain(n).plain = n /\ ~Plain(n).deflated
    BY DEF Plain, Payloads
  <2>3. /\ p \in Payloads /\ p.plain = n /\ ~p.deflated
        /\ p.size \in Nat /\ p.size >= n /\ p.size <= n + SealSize
        /\ p.key # "none" => cfg.encrypt /\ p.key = cfg.key /\ p.size >= SealSize
        /\ p.size = 0 => p = Plain(n)
    BY <2>1, <2>2, SealedPayload
  <2>4. p.size = 0 => n = 0
    BY <2>3
  <2> QED
    BY <1>1, <2>3, <2>4
<1> QED
  BY <1>2, <1>3

\* s is a, then b, then c
Joins(s, a, b, c) ==
  /\ Len(s) = Len(a) + Len(b) + Len(c)
  /\ \A i \in 1..Len(a) : s[i] = a[i]
  /\ \A i \in 1..Len(b) : s[Len(a) + i] = b[i]
  /\ \A i \in 1..Len(c) : s[Len(a) + Len(b) + i] = c[i]

\* The elements of three sequences in a row.
LEMMA ThreeParts ==
  ASSUME NEW S, NEW a \in Seq(S), NEW b \in Seq(S), NEW c \in Seq(S)
  PROVE  (a \o b) \o c \in Seq(S) /\ Joins((a \o b) \o c, a, b, c)
<1>1. /\ a \o b \in Seq(S) /\ Len(a \o b) = Len(a) + Len(b)
      /\ \A i \in 1..(Len(a) + Len(b)) :
           (a \o b)[i] = IF i <= Len(a) THEN a[i] ELSE b[i - Len(a)]
  BY ConcatProperties
<1>2. /\ (a \o b) \o c \in Seq(S) /\ Len((a \o b) \o c) = Len(a \o b) + Len(c)
      /\ \A i \in 1..(Len(a \o b) + Len(c)) :
           ((a \o b) \o c)[i] = IF i <= Len(a \o b) THEN (a \o b)[i] ELSE c[i - Len(a \o b)]
  BY <1>1, ConcatProperties
<1>3. Len(a) \in Nat /\ Len(b) \in Nat /\ Len(c) \in Nat
  BY LenProperties
<1> QED
  BY <1>1, <1>2, <1>3 DEF Joins

\* appendTo: the header, the metadata with their length if there are any, and the payload.
LEMMA AppendedBlocks ==
  ASSUME NEW f \in Encodings, ~TooLarge(f)
  PROVE  /\ AppendTo(f) \in Seq(Blocks)
         /\ Len(AppendTo(f)) = 1 + (IF f.meta > 0 THEN 2 ELSE 0)
                                 + (IF f.payload.size > 0 THEN 1 ELSE 0)
         /\ AppendTo(f)[1] = HeaderOf(f)
         /\ f.meta > 0 => /\ AppendTo(f)[2] = Block("metaLen", 2, Plain(f.meta))
                          /\ AppendTo(f)[3] = Block("meta", f.meta, Plain(f.meta))
         /\ f.payload.size > 0 =>
              AppendTo(f)[IF f.meta > 0 THEN 4 ELSE 2]
                = Block("payload", f.payload.size, f.payload)
<1> DEFINE a == <<HeaderOf(f)>>
           length == <<Block("metaLen", 2, Plain(f.meta))>>
           meta == <<Block("meta", f.meta, Plain(f.meta))>>
           b == IF f.meta > 0 THEN length \o meta ELSE <<>>
           c == IF f.payload.size > 0 THEN <<Block("payload", f.payload.size, f.payload)>>
                ELSE <<>>
<1>1. /\ f.flags \subseteq {"Compressed", "Encrypted", "Stream", "Channel"}
      /\ "HasMeta" \notin f.flags /\ f.meta \in Nat
      /\ f.payload \in Payloads /\ f.payload.size \in Nat /\ ~(f.meta > MaxMetadataSize)
  BY DEF Encodings, TooLarge
<1>2. AppendTo(f) = (a \o b) \o c
  BY <1>1 DEF AppendTo, HeaderOf
<1>3. Plain(f.meta) \in Payloads
  BY <1>1 DEF Plain, Payloads
<1>4. HeaderOf(f) \in Blocks
  BY <1>1 DEF HeaderOf, Block, Blocks, Headers
<1>5. /\ Block("metaLen", 2, Plain(f.meta)) \in Blocks
      /\ Block("meta", f.meta, Plain(f.meta)) \in Blocks
      /\ Block("payload", f.payload.size, f.payload) \in Blocks
  BY <1>1, <1>3 DEF Block, Blocks
<1>6. a \in Seq(Blocks) /\ Len(a) = 1 /\ a[1] = HeaderOf(f)
  BY <1>4
<1>7. /\ c \in Seq(Blocks) /\ Len(c) = IF f.payload.size > 0 THEN 1 ELSE 0
      /\ f.payload.size > 0 => c[1] = Block("payload", f.payload.size, f.payload)
  BY <1>5
<1>8. /\ b \in Seq(Blocks) /\ Len(b) = IF f.meta > 0 THEN 2 ELSE 0
      /\ f.meta > 0 => /\ b[1] = Block("metaLen", 2, Plain(f.meta))
                       /\ b[2] = Block("meta", f.meta, Plain(f.meta))
  <2>1. /\ length \in Seq(Blocks) /\ meta \in Seq(Blocks) /\ Len(length) = 1 /\ Len(meta) = 1
        /\ length[1] = Block("metaLen", 2, Plain(f.meta))
        /\ meta[1] = Block("meta", f.meta, Plain(f.meta))
    BY <1>5
  <2> HIDE DEF length, meta
  <2>2. /\ length \o meta \in Seq(Blocks) /\ Len(length \o meta) = 2
        /\ (length \o meta)[1] = length[1] /\ (length \o meta)[2] = meta[1]
    <3>1. \A s, t \in Seq(Blocks) :
            /\ s \o t \in Seq(Blocks) /\ Len(s \o t) = Len(s) + Len(t)
            /\ \A i \in 1..(Len(s) + Len(t)) :
                 (s \o t)[i] = IF i <= Len(s) THEN s[i] ELSE t[i - Len(s)]
      BY ConcatProperties
    <3> QED
      BY ONLY <2>1, <3>1
  <2> QED
    BY <2>1, <2>2
<1> HIDE DEF a, b, c
<1>9. (a \o b) \o c \in Seq(Blocks) /\ Joins((a \o b) \o c, a, b, c)
  <2>1. a \in Seq(Blocks) /\ b \in Seq(Blocks) /\ c \in Seq(Blocks)
    BY <1>6, <1>7, <1>8
  <2>2. \A s, t, u \in Seq(Blocks) :
          (s \o t) \o u \in Seq(Blocks) /\ Joins((s \o t) \o u, s, t, u)
    BY ThreeParts
  <2> QED
    BY ONLY <2>1, <2>2
<1> QED
  BY <1>1, <1>2, <1>6, <1>7, <1>8, <1>9 DEF Joins

\* s is what is left of w after k blocks
Dropped(s, w, k) ==
  /\ s \in Seq(Blocks) /\ Len(s) = Len(w) - k
  /\ \A j \in 1..Len(s) : s[j] = w[j + k]

\* One block more is read.
LEMMA TailDrops ==
  ASSUME NEW w \in Seq(Blocks), NEW s, NEW k \in Nat, Dropped(s, w, k), s # <<>>
  PROVE  /\ Dropped(Tail(s), w, k + 1) /\ s[1] = w[k + 1] /\ Head(s) = s[1]
         /\ Len(w) >= k + 1
<1>1. s \in Seq(Blocks) /\ Len(s) = Len(w) - k /\ \A j \in 1..Len(s) : s[j] = w[j + k]
  BY DEF Dropped
<1>2. Len(s) \in Nat \ {0} /\ Len(w) \in Nat /\ Head(s) = s[1]
  BY <1>1, EmptySeq, LenProperties
<1>3. /\ Tail(s) \in Seq(Blocks) /\ Len(Tail(s)) = Len(s) - 1
      /\ \A i \in 1..Len(Tail(s)) : Tail(s)[i] = s[i + 1]
  BY <1>1, HeadTailProperties
<1> QED
  BY <1>1, <1>2, <1>3 DEF Dropped

\* What reading up to the k-th block of w comes to, the last one being of the value v.
Outcome(r, w, k, v) ==
  \/ Len(w) < k /\ r.short = TRUE
  \/ Len(w) >= k /\ r.short = FALSE /\ r.value = v /\ Dropped(r.rest, w, k)

\* io.ReadFull of a whole block reads it, or finds nothing.
LEMMA ReadsBlock ==
  ASSUME NEW w \in Seq(Blocks), NEW s, NEW k \in Nat, Dropped(s, w, k),
         NEW n \in Nat, n > 0, NEW v, NEW what, Len(w) > k => w[k + 1] = Block(what, n, v)
  PROVE  Outcome(ReadFull(s, n), w, k + 1, v)
<1>1. CASE s = <<>>
  <2>1. ReadFull(s, n) = [short |-> TRUE, value |-> Garbage, rest |-> s]
    BY <1>1 DEF ReadFull
  <2>2. Len(w) < k + 1
    BY <1>1, LenProperties, EmptySeq DEF Dropped
  <2>3. ReadFull(s, n).short = TRUE
    BY <2>1
  <2> QED
    BY <2>2, <2>3 DEF Outcome
<1>2. CASE s # <<>>
  <2>1. Dropped(Tail(s), w, k + 1) /\ Head(s) = w[k + 1] /\ Len(w) >= k + 1
    BY <1>2, TailDrops
  <2>2. Head(s) = Block(what, n, v)
    BY <2>1, LenProperties
  <2>3. Head(s).size = n /\ Head(s).value = v
    BY <2>2 DEF Block
  <2>4. ReadFull(s, n) = [short |-> FALSE, value |-> v, rest |-> Tail(s)]
    <3>1. n # 0 /\ s # <<>> /\ Head(s).size = n /\ Head(s).value = v
      BY <1>2, <2>3
    <3> QED
      BY ONLY <3>1 DEF ReadFull
  <2>5. /\ ReadFull(s, n).short = FALSE /\ ReadFull(s, n).value = v
        /\ ReadFull(s, n).rest = Tail(s)
    BY <2>4
  <2> QED
    BY <2>1, <2>5 DEF Outcome
<1> QED
  BY <1>1, <1>2

\* io.ReadFull of nothing is never short.
LEMMA ReadsNothing ==
  ASSUME NEW w \in Seq(Blocks), NEW s, NEW k \in Nat, Dropped(s, w, k)
  PROVE  Outcome(ReadFull(s, 0), w, k, Plain(0))
<1>1. /\ ReadFull(s, 0).short = FALSE /\ ReadFull(s, 0).value = Plain(0)
      /\ ReadFull(s, 0).rest = s
  BY DEF ReadFull
<1>2. Len(w) >= k
  BY LenProperties DEF Dropped
<1> QED
  BY <1>1, <1>2 DEF Outcome

\* The reader is at a place where the blocks of f begin.
Begins(f, w) ==
  /\ f \in Encodings /\ ~TooLarge(f)
  /\ f.payload.size = 0 => f.payload = Plain(0)
  /\ w \in Seq(Blocks) /\ w # <<>>
  /\ \A j \in 1..Len(AppendTo(f)) : j <= Len(w) => w[j] = AppendTo(f)[j]

MetaBlocks(f) == IF f.meta > 0 THEN 2 ELSE 0

\* Which blocks those are.
LEMMA BlocksThere ==
  ASSUME NEW f, NEW w, Begins(f, w)
  PROVE  /\ Head(w) = HeaderOf(f) /\ Dropped(Tail(w), w, 1) /\ Len(w) \in Nat \ {0}
         /\ Len(AppendTo(f)) = 1 + MetaBlocks(f) + (IF f.payload.size > 0 THEN 1 ELSE 0)
         /\ f.meta > 0 =>
              /\ Len(w) > 1 => w[2] = Block("metaLen", 2, Plain(f.meta))
              /\ Len(w) > 2 => w[3] = Block("meta", f.meta, Plain(f.meta))
         /\ f.payload.size > 0 /\ Len(w) > 1 + MetaBlocks(f) =>
              w[1 + MetaBlocks(f) + 1] = Block("payload", f.payload.size, f.payload)
<1>1. /\ f \in Encodings /\ ~TooLarge(f) /\ f.meta \in Nat /\ f.payload.size \in Nat
      /\ w \in Seq(Blocks) /\ w # <<>> /\ Len(w) \in Nat \ {0}
  BY LenProperties, EmptySeq DEF Begins, Encodings
<1>2. /\ Len(AppendTo(f)) = 1 + (IF f.meta > 0 THEN 2 ELSE 0)
                              + (IF f.payload.size > 0 THEN 1 ELSE 0)
      /\ AppendTo(f)[1] = HeaderOf(f)
      /\ f.meta > 0 => /\ AppendTo(f)[2] = Block("metaLen", 2, Plain(f.meta))
                       /\ AppendTo(f)[3] = Block("meta", f.meta, Plain(f.meta))
      /\ f.payload.size > 0 =>
           AppendTo(f)[IF f.meta > 0 THEN 4 ELSE 2]
             = Block("payload", f.payload.size, f.payload)
  BY <1>1, AppendedBlocks
<1> DEFINE A == AppendTo(f)
<1>3. \A j \in 1..Len(A) : j <= Len(w) => w[j] = A[j]
  BY DEF Begins
<1>4. Dropped(w, w, 0)
  BY <1>1 DEF Dropped
<1>5. Dropped(Tail(w), w, 1) /\ Head(w) = w[1]
  <2>1. Dropped(Tail(w), w, 0 + 1) /\ Head(w) = w[0 + 1]
    BY <1>1, <1>4, TailDrops
  <2> QED
    BY <2>1
<1> HIDE DEF A
<1> QED
  BY <1>1, <1>2, <1>3, <1>5 DEF MetaBlocks, A

\* the length of the metadata and the metadata, if there are any
LEMMA ReadsMeta ==
  ASSUME NEW f, NEW w, Begins(f, w),
         NEW length, length = ReadFull(Tail(w), IF f.meta > 0 THEN 2 ELSE 0),
         NEW meta, meta = ReadFull(length.rest, length.value.plain)
  PROVE  \/ Len(w) < 1 + MetaBlocks(f) /\ (length.short = TRUE \/ meta.short = TRUE)
         \/ /\ length.short = FALSE
            /\ Outcome(meta, w, 1 + MetaBlocks(f), Plain(f.meta))
            /\ Len(w) >= 1 + MetaBlocks(f)
<1>1. f.meta \in Nat /\ w \in Seq(Blocks) /\ Len(w) \in Nat \ {0} /\ Dropped(Tail(w), w, 1)
  BY BlocksThere DEF Begins, Encodings
<1>2. \A n : Plain(n).plain = n
  BY DEF Plain
<1>3. CASE f.meta > 0
  <2>1. /\ Len(w) > 1 => w[1 + 1] = Block("metaLen", 2, Plain(f.meta))
        /\ Len(w) > 1 + 1 => w[(1 + 1) + 1] = Block("meta", f.meta, Plain(f.meta))
    BY <1>1, <1>3, BlocksThere
  <2>2. Outcome(length, w, 1 + 1, Plain(f.meta))
    <3>1. Outcome(ReadFull(Tail(w), 2), w, 1 + 1, Plain(f.meta))
      BY <1>1, <2>1, ReadsBlock
    <3> QED
      BY <1>3, <3>1
  <2>3. CASE Len(w) < 1 + 1
    BY <1>1, <1>3, <2>2, <2>3 DEF Outcome, MetaBlocks
  <2>4. CASE Len(w) >= 1 + 1
    <3>1. length.short = FALSE /\ length.value = Plain(f.meta) /\ Dropped(length.rest, w, 1 + 1)
      BY <1>1, <2>2, <2>4 DEF Outcome
    <3>2. meta = ReadFull(length.rest, f.meta)
      BY <1>2, <3>1
    <3>3. Outcome(ReadFull(length.rest, f.meta), w, (1 + 1) + 1, Plain(f.meta))
      <4>1. /\ Dropped(length.rest, w, 2) /\ w \in Seq(Blocks) /\ f.meta \in Nat /\ f.meta > 0
            /\ Len(w) > 2 => w[2 + 1] = Block("meta", f.meta, Plain(f.meta))
        BY <1>1, <1>3, <2>1, <3>1
      <4>2. Outcome(ReadFull(length.rest, f.meta), w, 2 + 1, Plain(f.meta))
        BY ONLY <4>1, ReadsBlock
      <4> QED
        BY <4>2
    <3>4. Outcome(meta, w, 3, Plain(f.meta)) /\ 1 + MetaBlocks(f) = 3
      BY <1>3, <3>2, <3>3 DEF MetaBlocks
    <3> QED
      BY <1>1, <3>1, <3>4 DEF Outcome
  <2> QED
    <3>1. Len(w) < 1 + 1 \/ Len(w) >= 1 + 1
      BY <1>1
    <3> QED
      BY <2>3, <2>4, <3>1, Zenon
<1>4. CASE f.meta = 0
  <2>1. length = ReadFull(Tail(w), 0) /\ 1 + MetaBlocks(f) = 1
    BY <1>4 DEF MetaBlocks
  <2>2. Outcome(length, w, 1, Plain(0))
    BY <1>1, <2>1, ReadsNothing
  <2>3. length.short = FALSE /\ length.value = Plain(0) /\ Dropped(length.rest, w, 1)
    BY <1>1, <2>2 DEF Outcome
  <2>4. meta = ReadFull(length.rest, 0)
    BY <1>2, <2>3
  <2>5. Outcome(meta, w, 1, Plain(0))
    BY <1>1, <2>3, <2>4, ReadsNothing
  <2> QED
    BY <1>1, <1>4, <2>1, <2>3, <2>5
<1> QED
  <2>1. f.meta > 0 \/ f.meta = 0
    BY <1>1
  <2> QED
    BY <1>3, <1>4, <2>1, Zenon

\* What ReadFrame finds where the blocks of f begin.
LEMMA ReadsBack ==
  ASSUME NEW f, NEW w, Begins(f, w)
  PROVE  /\ ReadFrame(w).bad = FALSE
         /\ \/ Len(w) < Len(AppendTo(f)) /\ ReadFrame(w).short = TRUE
            \/ /\ Len(w) >= Len(AppendTo(f)) /\ ReadFrame(w).short = FALSE
               /\ ReadFrame(w).flags = HeaderOf(f).value.flags
               /\ ReadFrame(w).meta = f.meta /\ ReadFrame(w).payload = f.payload
               /\ Dropped(ReadFrame(w).rest, w, Len(AppendTo(f)))
<1> DEFINE k == 1 + MetaBlocks(f)
<1>1. PICK head : head = Head(w).value
  OBVIOUS
<1>2. PICK length : length = ReadFull(Tail(w), IF "HasMeta" \in head.flags THEN 2 ELSE 0)
  OBVIOUS
<1>3. PICK meta : meta = ReadFull(length.rest, length.value.plain)
  OBVIOUS
<1>4. PICK payload : payload = ReadFull(meta.rest, head.len)
  OBVIOUS
<1>5. /\ f.flags \subseteq {"Compressed", "Encrypted", "Stream", "Channel"}
      /\ f.meta \in Nat /\ f.payload.size \in Nat /\ f.payload.size <= MaxPayloadSize
      /\ MaxPayloadSize \in Nat /\ w \in Seq(Blocks) /\ k \in Nat
      /\ f.payload.size = 0 => f.payload = Plain(0)
  BY WireAssumption DEF Begins, Encodings, TooLarge, MetaBlocks
<1>6. /\ Len(w) \in Nat
      /\ Len(AppendTo(f)) = k + (IF f.payload.size > 0 THEN 1 ELSE 0)
      /\ f.payload.size > 0 /\ Len(w) > k =>
           w[k + 1] = Block("payload", f.payload.size, f.payload)
  BY BlocksThere
<1>7. /\ Head(w).what = "header" /\ head.len = f.payload.size
      /\ head.flags = f.flags \cup (IF f.meta > 0 THEN {"HasMeta"} ELSE {})
      /\ head.flags = HeaderOf(f).value.flags
  <2>1. Head(w) = HeaderOf(f)
    BY BlocksThere
  <2> QED
    BY <1>1, <2>1 DEF HeaderOf, Block
<1>8. ("HasMeta" \in head.flags) <=> f.meta > 0
  BY <1>5, <1>7
<1> DEFINE known == head.flags \subseteq {"Compressed", "Encrypted", "HasMeta", "Stream", "Channel"}
<1>9. /\ ReadFrame(w).short = (length.short \/ meta.short \/ payload.short)
      /\ ReadFrame(w).bad = (head.len > MaxPayloadSize \/ ~known)
      /\ ReadFrame(w).flags = head.flags /\ ReadFrame(w).meta = meta.value.plain
      /\ ReadFrame(w).payload = payload.value /\ ReadFrame(w).rest = payload.rest
  <2>1. ReadFrame(w) =
          [short |-> length.short \/ meta.short \/ payload.short,
           bad |-> head.len > MaxPayloadSize \/ ~known,
           flags |-> head.flags, meta |-> meta.value.plain, payload |-> payload.value,
           rest |-> payload.rest]
    BY <1>1, <1>2, <1>3, <1>4, <1>7 DEF ReadFrame
  <2> QED
    BY <2>1
<1>10. ReadFrame(w).bad = FALSE
  <2>1. known /\ ~(head.len > MaxPayloadSize)
    BY <1>5, <1>7
  <2> HIDE DEF known
  <2> QED
    BY <1>9, <2>1
<1>11. \/ Len(w) < k /\ (length.short = TRUE \/ meta.short = TRUE)
       \/ length.short = FALSE /\ Outcome(meta, w, k, Plain(f.meta)) /\ Len(w) >= k
  <2>1. length = ReadFull(Tail(w), IF f.meta > 0 THEN 2 ELSE 0)
    BY <1>2, <1>8
  <2> QED
    BY <1>3, <2>1, ReadsMeta
<1> HIDE DEF k
<1>12. CASE Len(w) < k
  <2>1. length.short = TRUE \/ meta.short = TRUE
    BY <1>5, <1>6, <1>11, <1>12
  <2>2. ReadFrame(w).short = TRUE
    BY <1>9, <2>1
  <2>3. Len(w) < Len(AppendTo(f))
    BY <1>5, <1>6, <1>12
  <2> QED
    BY <1>10, <2>2, <2>3
<1>13. CASE Len(w) >= k
  <2>1. length.short = FALSE /\ Outcome(meta, w, k, Plain(f.meta))
    BY <1>5, <1>6, <1>11, <1>13
  <2>2. meta.short = FALSE /\ meta.value.plain = f.meta /\ Dropped(meta.rest, w, k)
    <3>1. meta.short = FALSE /\ meta.value = Plain(f.meta) /\ Dropped(meta.rest, w, k)
      BY <1>5, <1>6, <1>13, <2>1 DEF Outcome
    <3> QED
      BY <3>1 DEF Plain
  <2>3. Outcome(payload, w, Len(AppendTo(f)), f.payload)
    <3>1. CASE f.payload.size > 0
      <4>1. Outcome(ReadFull(meta.rest, f.payload.size), w, k + 1, f.payload)
        BY <1>5, <1>6, <2>2, <3>1, ReadsBlock
      <4> QED
        BY <1>4, <1>6, <1>7, <3>1, <4>1
    <3>2. CASE f.payload.size = 0
      <4>1. Outcome(ReadFull(meta.rest, 0), w, k, Plain(0))
        BY <1>5, <2>2, ReadsNothing
      <4>2. Len(AppendTo(f)) = k
        BY <1>5, <1>6, <3>2
      <4> QED
        BY <1>4, <1>5, <1>7, <3>2, <4>1, <4>2
    <3> QED
      BY <1>5, <3>1, <3>2
  <2>4. CASE Len(w) < Len(AppendTo(f))
    <3>1. payload.short = TRUE
      BY <1>5, <1>6, <2>3, <2>4 DEF Outcome
    <3>2. ReadFrame(w).short = TRUE
      BY <1>9, <3>1
    <3> QED
      BY <1>10, <2>4, <3>2
  <2>5. CASE Len(w) >= Len(AppendTo(f))
    <3>1. /\ payload.short = FALSE /\ payload.value = f.payload
          /\ Dropped(payload.rest, w, Len(AppendTo(f)))
      BY <1>5, <1>6, <2>3, <2>5 DEF Outcome
    <3>2. ReadFrame(w).short = FALSE
      BY <1>9, <2>1, <2>2, <3>1
    <3> QED
      BY <1>7, <1>9, <1>10, <2>2, <2>5, <3>1, <3>2
  <2> QED
    <3>1. Len(w) < Len(AppendTo(f)) \/ Len(w) >= Len(AppendTo(f))
      BY <1>5, <1>6
    <3> QED
      BY <2>4, <2>5, <3>1, Zenon
<1> QED
  <2>1. Len(w) < k \/ Len(w) >= k
    BY <1>5, <1>6
  <2> QED
    BY <1>12, <1>13, <2>1, Zenon

-----------------------------------------------------------------------------
(* The frames on the wire *)

\* e is one way of encoding frame at an end that runs with eff.
Carries(e, frame, eff) == \E p \in Outbound(eff, frame.payload) : e = Encoded(frame, p)

\* A frame can be recovered from any of its encodings, whose flags tell what was done to it.
LEMMA CarriedFrame ==
  ASSUME NEW frame \in Frames, NEW eff \in Configured, NEW e, Carries(e, frame, eff)
  PROVE  /\ e \in Encodings /\ e.meta = frame.meta /\ e.payload.plain = frame.payload
         /\ e.payload.size <= frame.payload + 1 + SealSize
         /\ e.payload.size = 0 => e.payload = Plain(0)
         /\ HeaderOf(e).value.flags \cap {"Stream", "Channel"} = frame.mode
         /\ "Compressed" \in HeaderOf(e).value.flags <=> e.payload.deflated
         /\ "Encrypted" \in HeaderOf(e).value.flags <=> e.payload.key # "none"
         /\ e.payload.deflated => eff.compress
         /\ e.payload.key # "none" =>
              eff.encrypt /\ e.payload.key = eff.key /\ e.payload.size >= SealSize
<1>1. /\ frame.mode \subseteq {"Stream", "Channel"} /\ frame.meta \in Nat
      /\ frame.payload \in Nat
  BY WireAssumption
<1>2. PICK p \in Outbound(eff, frame.payload) : e = Encoded(frame, p)
  BY DEF Carries
<1>3. /\ p \in Payloads /\ p.plain = frame.payload /\ p.size \in Nat
      /\ p.size <= frame.payload + 1 + SealSize
      /\ p.deflated => eff.compress /\ p.size > 0
      /\ p.key # "none" => eff.encrypt /\ p.key = eff.key /\ p.size >= SealSize
      /\ p.size = 0 => p = Plain(0)
  BY <1>1, OutboundPayload
<1>4. /\ e.flags = frame.mode \cup FlagsOf(p) /\ e.meta = frame.meta /\ e.payload = p
      /\ e = [flags |-> frame.mode \cup FlagsOf(p), meta |-> frame.meta, payload |-> p]
  BY <1>2 DEF Encoded
<1>5. /\ FlagsOf(p) \subseteq {"Compressed", "Encrypted"}
      /\ "Compressed" \in FlagsOf(p) <=> p.deflated
      /\ "Encrypted" \in FlagsOf(p) <=> p.key # "none"
  BY DEF FlagsOf
<1>6. e \in Encodings
  <2>1. frame.mode \cup FlagsOf(p) \subseteq {"Compressed", "Encrypted", "Stream", "Channel"}
    BY <1>1, <1>5
  <2> QED
    BY <1>1, <1>3, <1>4, <2>1 DEF Encodings
<1>7. HeaderOf(e).value.flags =
        (frame.mode \cup FlagsOf(p)) \cup (IF e.meta > 0 THEN {"HasMeta"} ELSE {})
  BY <1>4 DEF HeaderOf, Block
<1>8. /\ HeaderOf(e).value.flags \cap {"Stream", "Channel"} = frame.mode
      /\ "Compressed" \in HeaderOf(e).value.flags <=> "Compressed" \in FlagsOf(p)
      /\ "Encrypted" \in HeaderOf(e).value.flags <=> "Encrypted" \in FlagsOf(p)
  BY <1>1, <1>5, <1>7
<1> QED
  BY <1>3, <1>4, <1>5, <1>6, <1>8

\* The blocks of k encodings, one after the other, are what w is the beginning of.
Laid(enc, pos, k, w) ==
  /\ w \in Seq(Blocks)
  /\ \A i \in 1..k : enc[i] \in Encodings /\ ~TooLarge(enc[i])
  /\ pos[1] = 0 /\ pos[k + 1] \in Int /\ Len(w) <= pos[k + 1]
  /\ \A i \in 1..k :
       /\ pos[i] \in Int /\ pos[i + 1] = pos[i] + Len(AppendTo(enc[i]))
       /\ pos[i + 1] <= pos[k + 1]
       /\ \A j \in 1..Len(AppendTo(enc[i])) :
            pos[i] + j \in 1..Len(w) => w[pos[i] + j] = AppendTo(enc[i])[j]

\* An empty wire carries no frames.
LEMMA LaidStart ==
  Laid(<<>>, [i \in {1} |-> 0], 0, <<>>)
BY EmptySeq DEF Laid

\* What is left of a wire that is cut is laid out as it was.
LEMMA LaidCut ==
  ASSUME NEW enc, NEW pos, NEW k \in Nat, NEW w, Laid(enc, pos, k, w), NEW n \in 0..Len(w)
  PROVE  Laid(enc, pos, k, SubSeq(w, 1, n))
<1>1. w \in Seq(Blocks) /\ Len(w) \in Nat
  BY LenProperties DEF Laid
<1>2. \A i \in 1..n : w[i] \in Blocks
  BY <1>1, ElementOfSeq
<1>3. /\ SubSeq(w, 1, n) \in Seq(Blocks) /\ Len(SubSeq(w, 1, n)) = n
      /\ \A i \in 1..n : SubSeq(w, 1, n)[i] = w[i]
  <2>1. /\ SubSeq(w, 1, n) \in Seq(Blocks)
        /\ Len(SubSeq(w, 1, n)) = IF 1 <= n THEN n - 1 + 1 ELSE 0
        /\ \A i \in 1..(n - 1 + 1) : SubSeq(w, 1, n)[i] = w[1 + i - 1]
    BY <1>1, <1>2, SubSeqProperties
  <2> QED
    BY <1>1, <2>1
<1>4. /\ \A i \in 1..k : enc[i] \in Encodings /\ ~TooLarge(enc[i])
      /\ pos[1] = 0 /\ pos[k + 1] \in Int /\ Len(w) <= pos[k + 1]
      /\ \A i \in 1..k :
           /\ pos[i] \in Int /\ pos[i + 1] = pos[i] + Len(AppendTo(enc[i]))
           /\ pos[i + 1] <= pos[k + 1]
           /\ \A j \in 1..Len(AppendTo(enc[i])) :
                pos[i] + j \in 1..Len(w) => w[pos[i] + j] = AppendTo(enc[i])[j]
  BY DEF Laid
<1>5. ASSUME NEW i \in 1..k, NEW j \in 1..Len(AppendTo(enc[i])),
             pos[i] + j \in 1..Len(SubSeq(w, 1, n))
      PROVE  SubSeq(w, 1, n)[pos[i] + j] = AppendTo(enc[i])[j]
  <2>1. PICK m : m = pos[i] + j
    OBVIOUS
  <2>2. m \in 1..n /\ m \in 1..Len(w)
    BY <1>1, <1>3, <1>5, <2>1
  <2> QED
    BY <1>3, <1>4, <2>1, <2>2
<1>6. PICK v : v = SubSeq(w, 1, n)
  OBVIOUS
<1>7. v \in Seq(Blocks) /\ Len(v) <= pos[k + 1]
  BY <1>1, <1>3, <1>4, <1>6
<1>8. \A i \in 1..k : \A j \in 1..Len(AppendTo(enc[i])) :
        pos[i] + j \in 1..Len(v) => v[pos[i] + j] = AppendTo(enc[i])[j]
  BY <1>5, <1>6
<1>9. Laid(enc, pos, k, v)
  BY ONLY <1>4, <1>7, <1>8 DEF Laid
<1> QED
  BY <1>6, <1>9

\* w is laid out for the k encodings of enc, and e behind them.
LaidWith(enc, k, w, e) ==
  \E enc1, pos1 : /\ Laid(enc1, pos1, k + 1, w) /\ Len(w) = pos1[(k + 1) + 1]
                  /\ \A i \in 1..k : enc1[i] = enc[i]
                  /\ enc1[k + 1] = e

\* A frame is written behind those on the wire.
LEMMA LaidAppend ==
  ASSUME NEW enc, NEW pos, NEW k \in Nat, NEW w, Laid(enc, pos, k, w), Len(w) = pos[k + 1],
         NEW e \in Encodings, ~TooLarge(e)
  PROVE  LaidWith(enc, k, w \o AppendTo(e), e)
<1> DEFINE A == AppendTo(e)
           enc1 == [i \in 1..(k + 1) |-> IF i <= k THEN enc[i] ELSE e]
           pos1 == [i \in 1..(k + 2) |-> IF i <= k + 1 THEN pos[i]
                                         ELSE pos[k + 1] + Len(AppendTo(e))]
           w1 == w \o A
<1>1. w \in Seq(Blocks) /\ Len(w) \in Nat /\ A \in Seq(Blocks) /\ Len(A) \in Nat
  BY AppendedBlocks, LenProperties DEF Laid
<1>2. /\ w1 \in Seq(Blocks) /\ Len(w1) = Len(w) + Len(A)
      /\ \A i \in 1..(Len(w) + Len(A)) : w1[i] = IF i <= Len(w) THEN w[i] ELSE A[i - Len(w)]
  <2>1. \A s, t \in Seq(Blocks) :
          /\ s \o t \in Seq(Blocks) /\ Len(s \o t) = Len(s) + Len(t)
          /\ \A i \in 1..(Len(s) + Len(t)) :
               (s \o t)[i] = IF i <= Len(s) THEN s[i] ELSE t[i - Len(s)]
    BY ConcatProperties
  <2> HIDE DEF A
  <2> QED
    BY ONLY <1>1, <2>1 DEF w1
<1>3. /\ \A i \in 1..k : enc1[i] = enc[i]
      /\ enc1[k + 1] = e
  OBVIOUS
<1>4. /\ \A i \in 1..(k + 1) : pos1[i] = pos[i]
      /\ pos1[k + 2] = Len(w) + Len(A)
  OBVIOUS
<1>5. /\ \A i \in 1..k : enc[i] \in Encodings /\ ~TooLarge(enc[i])
      /\ pos[1] = 0
      /\ \A i \in 1..k :
           /\ pos[i] \in Int /\ pos[i + 1] = pos[i] + Len(AppendTo(enc[i]))
           /\ pos[i + 1] <= Len(w)
           /\ \A j \in 1..Len(AppendTo(enc[i])) :
                pos[i] + j \in 1..Len(w) => w[pos[i] + j] = AppendTo(enc[i])[j]
  BY DEF Laid
<1> HIDE DEF enc1, pos1, w1
<1>6. ASSUME NEW i \in 1..k
      PROVE  /\ enc1[i] \in Encodings /\ ~TooLarge(enc1[i]) /\ pos1[i] \in Int
             /\ pos1[i + 1] = pos1[i] + Len(AppendTo(enc1[i]))
             /\ pos1[i + 1] <= Len(w) + Len(A)
             /\ \A j \in 1..Len(AppendTo(enc1[i])) :
                  pos1[i] + j \in 1..Len(w1) => w1[pos1[i] + j] = AppendTo(enc1[i])[j]
  <2>1. i \in 1..(k + 1) /\ i + 1 \in 1..(k + 1)
    OBVIOUS
  <2>2. enc1[i] = enc[i] /\ pos1[i] = pos[i] /\ pos1[i + 1] = pos[i + 1]
    BY <1>3, <1>4, <2>1
  <2>3. /\ pos[i] \in Int /\ pos[i + 1] = pos[i] + Len(AppendTo(enc[i]))
        /\ pos[i + 1] <= Len(w) /\ enc[i] \in Encodings /\ ~TooLarge(enc[i])
        /\ \A j \in 1..Len(AppendTo(enc[i])) :
             pos[i] + j \in 1..Len(w) => w[pos[i] + j] = AppendTo(enc[i])[j]
    BY <1>5
  <2>4. Len(AppendTo(enc[i])) \in Nat
    BY <2>3, AppendedBlocks, LenProperties
  <2>5. ASSUME NEW j \in 1..Len(AppendTo(enc[i])), pos[i] + j \in 1..Len(w1)
        PROVE  w1[pos[i] + j] = AppendTo(enc[i])[j]
    <3>1. pos[i] + j <= Len(w) /\ pos[i] + j \in 1..Len(w)
      BY <1>1, <1>2, <2>3, <2>4, <2>5
    <3>2. w1[pos[i] + j] = w[pos[i] + j]
      <4>1. PICK m : m = pos[i] + j
        OBVIOUS
      <4>2. m \in 1..(Len(w) + Len(A)) /\ m <= Len(w)
        BY <1>1, <3>1, <4>1
      <4>3. w1[m] = w[m]
        BY <1>2, <4>2
      <4> QED
        BY <4>1, <4>3
    <3> QED
      BY <2>3, <3>1, <3>2
  <2> QED
    BY <1>1, <2>2, <2>3, <2>5
<1>7. /\ enc1[k + 1] \in Encodings /\ ~TooLarge(enc1[k + 1]) /\ pos1[k + 1] \in Int
      /\ pos1[k + 2] = pos1[k + 1] + Len(AppendTo(enc1[k + 1]))
      /\ \A j \in 1..Len(AppendTo(enc1[k + 1])) :
           pos1[k + 1] + j \in 1..Len(w1) => w1[pos1[k + 1] + j] = AppendTo(enc1[k + 1])[j]
  <2>1. pos1[k + 1] = Len(w)
    BY <1>4
  <2>2. ASSUME NEW j \in 1..Len(A) PROVE w1[Len(w) + j] = A[j]
    <3>1. PICK m : m = Len(w) + j
      OBVIOUS
    <3>2. m \in 1..(Len(w) + Len(A)) /\ ~(m <= Len(w)) /\ m - Len(w) = j
      BY <1>1, <3>1
    <3>3. w1[m] = A[m - Len(w)]
      BY <1>2, <3>2
    <3> QED
      BY <3>1, <3>2, <3>3
  <2> QED
    BY <1>1, <1>3, <1>4, <2>1, <2>2
<1>8. ASSUME NEW i \in 1..(k + 1)
      PROVE  /\ enc1[i] \in Encodings /\ ~TooLarge(enc1[i]) /\ pos1[i] \in Int
             /\ pos1[i + 1] = pos1[i] + Len(AppendTo(enc1[i]))
             /\ pos1[i + 1] <= Len(w) + Len(A)
             /\ \A j \in 1..Len(AppendTo(enc1[i])) :
                  pos1[i] + j \in 1..Len(w1) => w1[pos1[i] + j] = AppendTo(enc1[i])[j]
  <2>1. i \in 1..k \/ i = k + 1
    OBVIOUS
  <2>2. (k + 1) + 1 = k + 2 /\ pos1[k + 2] <= Len(w) + Len(A)
    BY <1>1, <1>4
  <2> QED
    BY <1>6, <1>7, <2>1, <2>2
<1>9. pos1[1] = 0 /\ (k + 1) + 1 = k + 2 /\ pos1[k + 2] \in Int /\ Len(w1) = pos1[k + 2]
  <2>1. 1 \in 1..(k + 1)
    OBVIOUS
  <2>2. pos1[1] = pos[1]
    BY <1>4, <2>1
  <2> QED
    BY <1>1, <1>2, <1>4, <1>5, <2>2
<1>10. Laid(enc1, pos1, k + 1, w1)
  BY <1>1, <1>2, <1>4, <1>8, <1>9 DEF Laid
<1>11. LaidWith(enc, k, w1, e)
  BY <1>3, <1>9, <1>10 DEF LaidWith
<1> QED
  BY <1>11 DEF w1

\* The reader of w is at the blocks of the first encoding, and behind it at the others.
LEMMA LaidRead ==
  ASSUME NEW enc, NEW pos, NEW k \in Nat, NEW w, Laid(enc, pos, k, w), w # <<>>
  PROVE  /\ k > 0 /\ enc[1] \in Encodings /\ Len(AppendTo(enc[1])) <= pos[k + 1]
         /\ (enc[1].payload.size = 0 => enc[1].payload = Plain(0)) => Begins(enc[1], w)
<1>1. w \in Seq(Blocks) /\ Len(w) \in Nat \ {0}
  BY LenProperties, EmptySeq DEF Laid
<1>2. k > 0
  BY <1>1 DEF Laid
<1>3. /\ enc[1] \in Encodings /\ ~TooLarge(enc[1]) /\ pos[1] = 0 /\ pos[1 + 1] <= pos[k + 1]
      /\ pos[1 + 1] = pos[1] + Len(AppendTo(enc[1]))
      /\ \A j \in 1..Len(AppendTo(enc[1])) :
           pos[1] + j \in 1..Len(w) => w[pos[1] + j] = AppendTo(enc[1])[j]
  <2>1. 1 \in 1..k
    BY <1>2
  <2> QED
    BY <2>1 DEF Laid
<1>4. Len(AppendTo(enc[1])) \in Nat
  BY <1>3, AppendedBlocks, LenProperties
<1>5. \A j \in 1..Len(AppendTo(enc[1])) : j <= Len(w) => w[j] = AppendTo(enc[1])[j]
  BY <1>1, <1>3, <1>4
<1> QED
  BY <1>1, <1>2, <1>3, <1>4, <1>5 DEF Begins

\* w is laid out, all of it if whole, for the k encodings of enc without the first.
LaidWithout(enc, k, w, whole) ==
  \E enc1, pos1 : /\ Laid(enc1, pos1, k - 1, w)
                  /\ whole => Len(w) = pos1[(k - 1) + 1]
                  /\ \A i \in 1..(k - 1) : enc1[i] = enc[i + 1]

\* Once the first frame is read the wire is laid out for the others.
LEMMA LaidRest ==
  ASSUME NEW enc, NEW pos, NEW k \in Nat, k > 0, NEW w, Laid(enc, pos, k, w),
         NEW r, Dropped(r, w, Len(AppendTo(enc[1])))
  PROVE  LaidWithout(enc, k, r, Len(w) = pos[k + 1])
<1> DEFINE enc1 == [i \in 1..(k - 1) |-> enc[i + 1]]
           L == Len(AppendTo(enc[1]))
           pos1 == [i \in 1..k |-> pos[i + 1] - L]
<1>1. w \in Seq(Blocks) /\ Len(w) \in Nat
  BY LenProperties DEF Laid
<1>2. /\ \A i \in 1..k : enc[i] \in Encodings /\ ~TooLarge(enc[i])
      /\ pos[1] = 0 /\ pos[k + 1] \in Int /\ Len(w) <= pos[k + 1]
      /\ \A i \in 1..k :
           /\ pos[i] \in Int /\ pos[i + 1] = pos[i] + Len(AppendTo(enc[i]))
           /\ pos[i + 1] <= pos[k + 1]
           /\ \A j \in 1..Len(AppendTo(enc[i])) :
                pos[i] + j \in 1..Len(w) => w[pos[i] + j] = AppendTo(enc[i])[j]
  BY DEF Laid
<1>3. 1 \in 1..k
  OBVIOUS
<1>4. L \in Nat
  BY <1>2, <1>3, AppendedBlocks, LenProperties
<1> HIDE DEF L
<1>5. r \in Seq(Blocks) /\ Len(r) = Len(w) - L /\ \A j \in 1..Len(r) : r[j] = w[j + L]
  BY DEF Dropped, L
<1>6. /\ \A i \in 1..(k - 1) : enc1[i] = enc[i + 1]
      /\ \A i \in 1..k : pos1[i] = pos[i + 1] - L
  OBVIOUS
<1> HIDE DEF enc1, pos1
<1>7. ASSUME NEW i \in 1..(k - 1)
      PROVE  /\ enc1[i] \in Encodings /\ ~TooLarge(enc1[i]) /\ pos1[i] \in Int
             /\ pos1[i + 1] = pos1[i] + Len(AppendTo(enc1[i]))
             /\ pos1[i + 1] <= pos[k + 1] - L
             /\ \A j \in 1..Len(AppendTo(enc1[i])) :
                  pos1[i] + j \in 1..Len(r) => r[pos1[i] + j] = AppendTo(enc1[i])[j]
  <2>1. i \in 1..k /\ i + 1 \in 1..k
    OBVIOUS
  <2>2. /\ enc1[i] = enc[i + 1] /\ pos1[i] = pos[i + 1] - L
        /\ pos1[i + 1] = pos[(i + 1) + 1] - L
    BY <1>6, <2>1
  <2>3. /\ pos[i + 1] \in Int
        /\ pos[(i + 1) + 1] = pos[i + 1] + Len(AppendTo(enc[i + 1]))
        /\ pos[(i + 1) + 1] <= pos[k + 1]
        /\ enc[i + 1] \in Encodings /\ ~TooLarge(enc[i + 1])
        /\ \A j \in 1..Len(AppendTo(enc[i + 1])) :
             pos[i + 1] + j \in 1..Len(w) =>
               w[pos[i + 1] + j] = AppendTo(enc[i + 1])[j]
    BY <1>2, <2>1
  <2>4. Len(AppendTo(enc[i + 1])) \in Nat
    BY <2>3, AppendedBlocks, LenProperties
  <2>5. ASSUME NEW j \in 1..Len(AppendTo(enc[i + 1])), pos1[i] + j \in 1..Len(r)
        PROVE  r[pos1[i] + j] = AppendTo(enc[i + 1])[j]
    <3>1. pos[i + 1] + j \in 1..Len(w) /\ (pos1[i] + j) + L = pos[i + 1] + j
      <4>1. PICK m : m = pos1[i] + j
        OBVIOUS
      <4>2. m \in 1..Len(r) /\ Len(r) = Len(w) - L /\ m + L = pos[i + 1] + j
        <5>1. m \in 1..Len(r) /\ Len(r) = Len(w) - L
          BY <1>5, <2>5, <4>1
        <5>2. j \in Int /\ L \in Int /\ pos[i + 1] \in Int /\ pos1[i] = pos[i + 1] - L
          BY <1>4, <2>2, <2>3, <2>4
        <5>3. m + L = pos[i + 1] + j
          BY ONLY <4>1, <5>2
        <5> QED
          BY <5>1, <5>3
      <4>3. m + L \in 1..Len(w)
        BY <1>1, <1>4, <1>5, <4>2
      <4> QED
        BY <4>1, <4>2, <4>3
    <3>2. r[pos1[i] + j] = w[(pos1[i] + j) + L]
      BY <1>5, <2>5
    <3> QED
      BY <2>3, <3>1, <3>2
  <2>6. pos1[i + 1] = pos1[i] + Len(AppendTo(enc[i + 1])) /\ pos1[i + 1] <= pos[k + 1] - L
    BY <1>2, <1>4, <2>2, <2>3, <2>4
  <2>7. pos1[i] \in Int
    BY <1>4, <2>2, <2>3
  <2> QED
    BY <2>2, <2>3, <2>5, <2>6, <2>7
<1>8. /\ pos1[1] = 0 /\ (k - 1) + 1 = k /\ pos1[k] = pos[k + 1] - L /\ pos1[k] \in Int
      /\ Len(r) <= pos1[k]
      /\ Len(w) = pos[k + 1] => Len(r) = pos1[k]
  <2>1. pos[1 + 1] = pos[1] + L /\ pos[1] = 0
    BY <1>2, <1>3 DEF L
  <2>2. k \in 1..k /\ pos1[1] = pos[1 + 1] - L /\ pos1[k] = pos[k + 1] - L
    BY <1>3, <1>6
  <2> QED
    BY <1>1, <1>2, <1>4, <1>5, <2>1, <2>2
<1>9. Laid(enc1, pos1, k - 1, r)
  BY <1>5, <1>7, <1>8 DEF Laid
<1> QED
  BY <1>6, <1>8, <1>9 DEF LaidWithout

-----------------------------------------------------------------------------
(* The invariant *)

\* Nothing has been sent where the sender may not send yet.
Quiet ==
  ~(phase = "open" \/ (phase = "accepted" /\ sender = "server")) =>
    sent = <<>> /\ wire = <<>> /\ delivered = <<>> /\ ~dead

InFlight == Len(sent) - Len(delivered)

\* What is on the wire is the frames that are sent and not delivered, each encoded the way
\* its sender runs; all of it, if the network has not lost the rest.
OnWire ==
  ~dead => \E enc, pos :
             /\ Laid(enc, pos, InFlight, wire)
             /\ ~cut => Len(wire) = pos[InFlight + 1]
             /\ \A i \in 1..InFlight : Carries(enc[i], sent[Len(delivered) + i], SenderEff)

Prefix ==
  /\ Len(delivered) <= Len(sent)
  /\ \A i \in 1..Len(delivered) : delivered[i] = sent[i]

\* What an end may kill the connection for.
Excuse ==
  \/ cut
  \/ \E i \in DOMAIN sent : \/ sent[i].meta > MaxMetadataSize
                            \/ sent[i].payload + 1 + SealSize > MaxPayloadSize
  \/ phase = "open" /\ cliEff.encrypt /\ srvEff.encrypt /\ cli.key # srv.key

WireTypes ==
  /\ sent \in Seq(Frames) /\ delivered \in Seq(Frames) /\ wire \in Seq(Blocks)
  /\ cliEff \in Configured /\ srvEff \in Configured /\ sender \in {"client", "server"}

WInv ==
  /\ WireTypes /\ Quiet /\ OnWire /\ Prefix
  /\ dead => Excuse

\* Once the connection is open its ends differ in nothing but their keys.
LEMMA EndsMatch ==
  ASSUME IInv, phase = "open"
  PROVE  /\ cliEff.compress = srvEff.compress /\ cliEff.encrypt = srvEff.encrypt
         /\ cliEff.key = cli.key /\ srvEff.key = srv.key
<1>1. /\ cli \in Configured /\ srv \in Configured
      /\ srvEff = ServerTakes(hello) /\ cliEff = ClientTakes(hello)
  BY DEF IInv, Normal, Negotiated
<1>2. /\ srvEff.compress = hello.compress /\ srvEff.encrypt = hello.encrypt
      /\ srvEff.key = srv.key
  BY <1>1 DEF Configured, ServerTakes
<1>3. /\ cliEff.compress = hello.compress /\ cliEff.encrypt = hello.encrypt
      /\ cliEff.key = cli.key
  BY <1>1 DEF Configured, ClientTakes
<1> QED
  BY <1>2, <1>3

\* What the ends make of CONNECT and CONNACK are configurations.
LEMMA TakenIsConfigured ==
  ASSUME IInv, WireTypes, Accept \/ ClientBind
  PROVE  cliEff' \in Configured /\ srvEff' \in Configured
<1>1. /\ cli \in Configured /\ srv \in Configured /\ cliEff \in Configured /\ srvEff \in Configured
      /\ Millisecond \in Int
  BY WireAssumption DEF IInv, Normal, WireTypes
<1>2. ASSUME NEW c \in Configured, NEW compress \in BOOLEAN, NEW encrypt \in BOOLEAN,
             NEW credit \in Int
      PROVE  [c EXCEPT !.compress = compress, !.encrypt = encrypt, !.credit = credit]
               \in Configured
  <2>1. PICK c1 : c1 = [c EXCEPT !.compress = compress]
    OBVIOUS
  <2>2. c1 \in Configured
    BY <2>1 DEF Configured
  <2>3. PICK c2 : c2 = [c1 EXCEPT !.encrypt = encrypt]
    OBVIOUS
  <2>4. c2 \in Configured
    BY <2>2, <2>3 DEF Configured
  <2>5. PICK c3 : c3 = [c2 EXCEPT !.credit = credit]
    OBVIOUS
  <2>6. c3 \in Configured
    BY <2>4, <2>5 DEF Configured
  <2>7. [c EXCEPT !.compress = compress, !.encrypt = encrypt, !.credit = credit]
          = [[[c EXCEPT !.compress = compress] EXCEPT !.encrypt = encrypt] EXCEPT !.credit = credit]
    OBVIOUS
  <2> QED
    BY <2>1, <2>3, <2>5, <2>6, <2>7
<1>3. phase \in {"hello", "accepted"}
  BY DEF Accept, ClientBind
<1>4. Asked.compress \in BOOLEAN /\ Asked.encrypt \in BOOLEAN /\ Asked.credit \in Int
  BY <1>1 DEF Asked, Configured
<1>5. PICK aj : aj = Effective(srv, Asked)
  OBVIOUS
<1>6. /\ aj.compress \in BOOLEAN /\ aj.encrypt \in BOOLEAN /\ aj.credit \in Int
      /\ aj.heartbeat = srv.heartbeat \div Millisecond
  BY <1>1, <1>4, <1>5 DEF Effective, Configured
<1>7. CASE Accept
  <2>1. /\ cliEff' = cliEff
        /\ srvEff' = [srv EXCEPT !.compress = aj.compress, !.encrypt = aj.encrypt,
                                 !.credit = aj.credit]
    BY <1>5, <1>7 DEF Accept, IInv, Negotiated
  <2> QED
    BY <1>1, <1>2, <1>6, <2>1
<1>8. CASE ClientBind
  <2>1. /\ srvEff' = srvEff /\ hello = aj
    BY <1>5, <1>8 DEF ClientBind, IInv, Negotiated
  <2>2. PICK h : h = IF aj.heartbeat > 0 THEN aj.heartbeat * Millisecond ELSE cli.heartbeat
    OBVIOUS
  <2>3. cliEff' = [cli EXCEPT !.compress = aj.compress, !.encrypt = aj.encrypt,
                              !.credit = aj.credit, !.heartbeat = h]
    BY <1>8, <2>1, <2>2 DEF ClientBind
  <2>4. h \in Int
    <3>1. srv.heartbeat \in Int /\ cli.heartbeat \in Int /\ Millisecond \in Nat \ {0}
      BY <1>1, WireAssumption DEF Configured
    <3>2. aj.heartbeat \in Int
      BY <1>6, <3>1
    <3> QED
      BY <2>2, <3>1, <3>2
  <2>5. PICK c : c = [cli EXCEPT !.compress = aj.compress, !.encrypt = aj.encrypt,
                                 !.credit = aj.credit]
    OBVIOUS
  <2>6. c \in Configured /\ cliEff' = [c EXCEPT !.heartbeat = h]
    BY <1>1, <1>2, <1>6, <2>3, <2>5
  <2> QED
    BY <1>1, <2>1, <2>4, <2>6 DEF Configured
<1> QED
  BY <1>7, <1>8

\* The wire before anything is sent.
LEMMA EmptyWire ==
  ASSUME NEW eff
  PROVE  \E enc, pos : /\ Laid(enc, pos, 0, <<>>) /\ Len(<<>>) = pos[0 + 1]
                       /\ \A i \in 1..0 : Carries(enc[i], <<>>[Len(<<>>) + i], eff)
<1> DEFINE pos == [i \in {1} |-> 0]
<1>1. Laid(<<>>, pos, 0, <<>>)
  BY LaidStart
<1>2. Len(<<>>) = pos[0 + 1]
  OBVIOUS
<1>3. \A i \in 1..0 : Carries(<<>>[i], <<>>[Len(<<>>) + i], eff)
  OBVIOUS
<1> HIDE DEF pos
<1> QED
  BY <1>1, <1>2, <1>3

\* The invariant holds initially.
LEMMA InitOnWire == Init /\ IInv => WInv
<1> SUFFICES ASSUME Init, IInv PROVE WInv
  OBVIOUS
<1>1. WireTypes
  BY EmptySeq DEF Init, IInv, Normal, WireTypes
<1>2. Quiet /\ ~dead /\ sent = <<>> /\ delivered = <<>> /\ wire = <<>>
  BY DEF Init, Quiet
<1>3. InFlight = 0 /\ Prefix
  BY <1>2, EmptySeq DEF InFlight, Prefix
<1>4. OnWire
  <2>1. PICK enc, pos : /\ Laid(enc, pos, 0, <<>>) /\ Len(<<>>) = pos[0 + 1]
                        /\ \A i \in 1..0 : Carries(enc[i], <<>>[Len(<<>>) + i], SenderEff)
    BY EmptyWire
  <2> QED
    BY <1>2, <1>3, <2>1 DEF OnWire
<1> QED
  BY <1>1, <1>2, <1>3, <1>4 DEF WInv

\* The handshake has no frame on the wire whose encoding it could make unreadable.
LEMMA HandshakeKeeps ==
  ASSUME IInv, WInv, Connect \/ Refuse \/ Accept \/ ClientBind
  PROVE  WInv'
<1>1. UNCHANGED <<sent, wire, delivered, cut, dead, sender, cli, srv>> /\ phase # "open"
  BY DEF Connect, Refuse, Accept, ClientBind
<1>2. WireTypes /\ Quiet /\ OnWire /\ Prefix /\ (dead => Excuse)
  BY DEF WInv
<1>3. WireTypes'
  <2>1. cliEff' \in Configured /\ srvEff' \in Configured
    <3>1. CASE Connect \/ Refuse
      BY <1>2, <3>1 DEF Connect, Refuse, WireTypes
    <3>2. CASE Accept \/ ClientBind
      BY <1>2, <3>2, TakenIsConfigured
    <3> QED
      BY <3>1, <3>2
  <2> QED
    BY <1>1, <1>2, <2>1 DEF WireTypes
<1>4. Prefix'
  BY <1>1, <1>2 DEF Prefix
<1>5. dead' => Excuse'
  BY <1>1, <1>2 DEF Excuse
<1>6. CASE phase = "accepted" /\ sender = "server"
  <2>1. ClientBind /\ phase' = "open" /\ SenderEff' = SenderEff
    BY <1>1, <1>6 DEF Connect, Refuse, Accept, ClientBind, SenderEff
  <2>2. Quiet' /\ OnWire'
    BY <1>1, <1>2, <2>1 DEF Quiet, OnWire, InFlight
  <2> QED
    BY <1>3, <1>4, <1>5, <2>2 DEF WInv
<1>7. CASE ~(phase = "accepted" /\ sender = "server")
  <2>1. sent = <<>> /\ wire = <<>> /\ delivered = <<>> /\ ~dead
    BY <1>1, <1>2, <1>7 DEF Quiet
  <2>2. Quiet'
    BY <1>1, <2>1 DEF Quiet
  <2>3. OnWire'
    <3>1. PICK enc, pos : /\ Laid(enc, pos, 0, <<>>) /\ Len(<<>>) = pos[0 + 1]
                          /\ \A i \in 1..0 : Carries(enc[i], <<>>[Len(<<>>) + i], SenderEff')
      BY EmptyWire
    <3>2. InFlight' = 0 /\ sent' = <<>> /\ delivered' = <<>> /\ wire' = <<>>
      BY <1>1, <2>1, EmptySeq DEF InFlight
    <3> QED
      BY <3>1, <3>2 DEF OnWire
  <2> QED
    BY <1>3, <1>4, <1>5, <2>2, <2>3 DEF WInv
<1> QED
  BY <1>6, <1>7

\* The network may lose the end of what is on the wire.
LEMMA CutKeeps ==
  ASSUME WInv, Cut
  PROVE  WInv'
<1>1. WireTypes /\ Quiet /\ OnWire /\ Prefix
  BY DEF WInv
<1>2. /\ UNCHANGED <<cli, srv, phase, cliEff, srvEff, sender, sent, dead, delivered>>
      /\ cut' = TRUE
  BY DEF Cut, handshakeVars
<1>3. PICK k \in 0..Len(wire) : wire' = SubSeq(wire, 1, k)
  BY DEF Cut
<1>4. wire' \in Seq(Blocks) /\ (wire = <<>> => wire' = <<>>)
  <2>1. wire \in Seq(Blocks) /\ Len(wire) \in Nat
    BY <1>1, LenProperties DEF WireTypes
  <2>2. \A i \in 1..k : wire[i] \in Blocks
    BY <2>1, ElementOfSeq
  <2>3. wire' \in Seq(Blocks)
    BY <1>3, <2>2, SubSeqProperties
  <2>4. wire = <<>> => wire' = <<>>
    BY <1>3, <2>1, SubSeqEmpty, EmptySeq
  <2> QED
    BY <2>3, <2>4
<1>5. WireTypes' /\ Quiet' /\ Prefix'
  BY <1>1, <1>2, <1>4 DEF WireTypes, Quiet, Prefix
<1>6. OnWire'
  <2> SUFFICES ASSUME ~dead' PROVE OnWire'
    BY DEF OnWire
  <2>1. PICK enc, pos :
          /\ Laid(enc, pos, InFlight, wire)
          /\ \A i \in 1..InFlight : Carries(enc[i], sent[Len(delivered) + i], SenderEff)
    BY <1>1, <1>2 DEF OnWire
  <2>2. InFlight \in Nat
    BY <1>1, LenProperties DEF InFlight, WireTypes, Prefix
  <2>3. Laid(enc, pos, InFlight, wire')
    BY <1>3, <2>1, <2>2, LaidCut
  <2>4. InFlight' = InFlight /\ SenderEff' = SenderEff
    BY <1>2 DEF InFlight, SenderEff
  <2> QED
    BY <1>2, <2>1, <2>3, <2>4 DEF OnWire
<1>7. Excuse'
  BY <1>2 DEF Excuse
<1> QED
  BY <1>5, <1>6, <1>7 DEF WInv

\* A frame is written whole, or kills the connection for its size.
LEMMA SendKeeps ==
  ASSUME WInv, Send
  PROVE  WInv'
<1>1. WireTypes /\ Quiet /\ OnWire /\ Prefix
  BY DEF WInv
<1>2. /\ UNCHANGED <<cli, srv, phase, cliEff, srvEff, sender, cut, delivered>>
      /\ ~dead /\ ~cut /\ (phase = "open" \/ (phase = "accepted" /\ sender = "server"))
  BY DEF Send, handshakeVars
<1>0. PICK frame \in Frames : \E p \in Outbound(SenderEff, frame.payload) :
        /\ sent' = Append(sent, frame)
        /\ IF TooLarge(Encoded(frame, p)) THEN dead' = TRUE /\ UNCHANGED wire
           ELSE wire' = wire \o AppendTo(Encoded(frame, p)) /\ UNCHANGED dead
  BY DEF Send, Encoded
<1>3. PICK p \in Outbound(SenderEff, frame.payload) :
        /\ sent' = Append(sent, frame)
        /\ IF TooLarge(Encoded(frame, p)) THEN dead' = TRUE /\ UNCHANGED wire
           ELSE wire' = wire \o AppendTo(Encoded(frame, p)) /\ UNCHANGED dead
  BY <1>0
<1> DEFINE e == Encoded(frame, p)
           n == Len(sent)
           d == Len(delivered)
<1>4. SenderEff \in Configured /\ SenderEff' = SenderEff /\ Carries(e, frame, SenderEff)
  <2>1. SenderEff \in Configured /\ SenderEff' = SenderEff
    BY <1>1, <1>2 DEF SenderEff, WireTypes
  <2> QED
    BY <1>3, <2>1 DEF Carries
<1>5. /\ e \in Encodings /\ e.meta = frame.meta
      /\ e.payload.size <= frame.payload + 1 + SealSize /\ e.payload.size \in Nat
  BY <1>4, CarriedFrame DEF Encodings
<1> HIDE DEF e
<1>6. /\ sent' \in Seq(Frames) /\ Len(sent') = n + 1 /\ sent'[n + 1] = frame
      /\ \A i \in 1..n : sent'[i] = sent[i]
      /\ n \in Nat /\ d \in Nat /\ d <= n /\ DOMAIN sent' = 1..(n + 1)
  <2>1. sent \in Seq(Frames) /\ delivered \in Seq(Frames) /\ d <= n
    BY <1>1 DEF WireTypes, Prefix
  <2>2. /\ sent' \in Seq(Frames) /\ Len(sent') = n + 1 /\ sent'[n + 1] = frame
        /\ \A i \in 1..n : sent'[i] = sent[i]
    BY <1>3, <2>1, AppendProperties
  <2> QED
    BY <2>1, <2>2, LenProperties
<1>7. Quiet'
  BY <1>2 DEF Quiet
<1>8. Prefix'
  <2>1. \A i \in 1..d : sent'[i] = sent[i] /\ delivered[i] = sent[i]
    BY <1>1, <1>6 DEF Prefix
  <2> QED
    BY <1>2, <1>6, <2>1 DEF Prefix
<1>9. CASE TooLarge(e)
  <2>1. dead' = TRUE /\ wire' = wire
    BY <1>3, <1>9 DEF e
  <2>2. WireTypes' /\ OnWire'
    BY <1>1, <1>2, <1>6, <2>1 DEF WireTypes, OnWire
  <2>3. frame.meta > MaxMetadataSize \/ frame.payload + 1 + SealSize > MaxPayloadSize
    <3>1. /\ MaxPayloadSize \in Int /\ SealSize \in Int /\ frame.payload \in Int
          /\ e.meta > MaxMetadataSize \/ e.payload.size > MaxPayloadSize
      BY <1>9, WireAssumption DEF TooLarge
    <3> QED
      BY <1>5, <3>1
  <2>4. Excuse'
    <3>1. n + 1 \in DOMAIN sent' /\ sent'[n + 1] = frame
      BY <1>6
    <3> QED
      BY <2>3, <3>1 DEF Excuse
  <2> QED
    BY <1>7, <1>8, <2>2, <2>4 DEF WInv
<1>10. CASE ~TooLarge(e)
  <2>1. dead' = dead /\ wire' = wire \o AppendTo(e)
    BY <1>3, <1>10 DEF e
  <2>2. PICK enc, pos :
          /\ Laid(enc, pos, InFlight, wire) /\ Len(wire) = pos[InFlight + 1]
          /\ \A i \in 1..InFlight : Carries(enc[i], sent[Len(delivered) + i], SenderEff)
    BY <1>1, <1>2 DEF OnWire
  <2>3. InFlight \in Nat /\ InFlight' = InFlight + 1 /\ InFlight = n - d
    BY <1>2, <1>6 DEF InFlight
  <2>4. PICK enc1, pos1 :
          /\ Laid(enc1, pos1, InFlight + 1, wire') /\ Len(wire') = pos1[(InFlight + 1) + 1]
          /\ \A i \in 1..InFlight : enc1[i] = enc[i]
          /\ enc1[InFlight + 1] = e
    <3>1. PICK k : k = InFlight
      OBVIOUS
    <3>2. k \in Nat /\ Laid(enc, pos, k, wire) /\ Len(wire) = pos[k + 1]
      BY <2>2, <2>3, <3>1
    <3>3. LaidWith(enc, k, wire \o AppendTo(e), e)
      <4>1. e \in Encodings /\ ~TooLarge(e)
        BY <1>5, <1>10
      <4> QED
        BY ONLY <3>2, <4>1, LaidAppend
    <3> QED
      BY <2>1, <3>1, <3>3 DEF LaidWith
  <2>6. ASSUME NEW i \in 1..(InFlight + 1)
        PROVE  Carries(enc1[i], sent'[d + i], SenderEff)
    <3>1. CASE i \in 1..InFlight
      <4>1. enc1[i] = enc[i] /\ d + i \in 1..n
        BY <1>6, <2>3, <2>4, <3>1
      <4>2. sent'[d + i] = sent[d + i]
        BY <1>6, <4>1
      <4> QED
        BY <2>2, <3>1, <4>1, <4>2
    <3>2. CASE i = InFlight + 1
      <4>1. d + i = n + 1
        BY <1>6, <2>3, <3>2
      <4> QED
        BY <1>4, <1>6, <2>4, <3>2, <4>1
    <3> QED
      BY <2>3, <3>1, <3>2
  <2>7. OnWire'
    <3>2. \E en, po :
            /\ Laid(en, po, InFlight + 1, wire')
            /\ Len(wire') = po[(InFlight + 1) + 1]
            /\ \A i \in 1..(InFlight + 1) : Carries(en[i], sent'[d + i], SenderEff)
      BY <2>4, <2>6
    <3> QED
      BY <1>2, <1>4, <2>3, <3>2 DEF OnWire
  <2>8. wire' \in Seq(Blocks)
    BY <2>4 DEF Laid
  <2>9. WireTypes' /\ ~dead'
    BY <1>1, <1>2, <1>6, <2>1, <2>8 DEF WireTypes
  <2> QED
    BY <1>7, <1>8, <2>7, <2>9 DEF WInv
<1> QED
  BY <1>9, <1>10

\* The receiver is at the blocks of the frame that is to be delivered next.
LEMMA NextFrame ==
  ASSUME IInv, WInv, Receive
  PROVE  \E enc, pos :
           /\ Laid(enc, pos, InFlight, wire)
           /\ ~cut => Len(wire) = pos[InFlight + 1]
           /\ \A i \in 1..InFlight : Carries(enc[i], sent[Len(delivered) + i], SenderEff)
           /\ InFlight \in Nat \ {0} /\ sent[Len(delivered) + 1] \in Frames
           /\ Carries(enc[1], sent[Len(delivered) + 1], SenderEff)
           /\ Begins(enc[1], wire) /\ Len(AppendTo(enc[1])) <= pos[InFlight + 1]
<1>1. WireTypes /\ OnWire /\ Prefix /\ ~dead /\ wire # <<>>
  BY DEF WInv, Receive
<1>2. PICK enc, pos :
        /\ Laid(enc, pos, InFlight, wire)
        /\ ~cut => Len(wire) = pos[InFlight + 1]
        /\ \A i \in 1..InFlight : Carries(enc[i], sent[Len(delivered) + i], SenderEff)
  BY <1>1 DEF OnWire
<1>3. /\ Len(sent) \in Nat /\ Len(delivered) \in Nat /\ Len(delivered) <= Len(sent)
      /\ SenderEff \in Configured /\ sent \in Seq(Frames)
  BY <1>1, LenProperties DEF WireTypes, Prefix, SenderEff
<1>4. PICK k : k = InFlight
  OBVIOUS
<1>5. k \in Nat /\ Laid(enc, pos, k, wire)
  BY <1>2, <1>3, <1>4 DEF InFlight
<1>6. /\ k > 0 /\ enc[1] \in Encodings /\ Len(AppendTo(enc[1])) <= pos[k + 1]
      /\ (enc[1].payload.size = 0 => enc[1].payload = Plain(0)) => Begins(enc[1], wire)
  BY <1>1, <1>5, LaidRead
<1>7. 1 \in 1..k /\ Len(delivered) + 1 \in 1..Len(sent)
  BY <1>3, <1>4, <1>5, <1>6 DEF InFlight
<1>8. sent[Len(delivered) + 1] \in Frames /\ Carries(enc[1], sent[Len(delivered) + 1], SenderEff)
  BY <1>2, <1>3, <1>4, <1>7, ElementOfSeq
<1>9. enc[1].payload.size = 0 => enc[1].payload = Plain(0)
  BY <1>3, <1>8, CarriedFrame
<1>10. InFlight \in Nat \ {0} /\ Len(AppendTo(enc[1])) <= pos[InFlight + 1]
  BY <1>4, <1>5, <1>6
<1> QED
  BY <1>2, <1>6, <1>8, <1>9, <1>10

\* The first frame on the wire is delivered as it was sent, or there is an excuse.
LEMMA ReceiveKeeps ==
  ASSUME IInv, WInv, Receive
  PROVE  WInv'
<1>1. WireTypes /\ Prefix /\ ~dead /\ wire # <<>> /\ Quiet
  BY DEF WInv, Receive
<1>2. /\ UNCHANGED <<cli, srv, phase, cliEff, srvEff, sender, cut, sent>>
      /\ phase = "open" \/ (phase = "accepted" /\ sender = "client")
  BY DEF Receive, handshakeVars
<1>3. PICK enc, pos :
        /\ Laid(enc, pos, InFlight, wire)
        /\ ~cut => Len(wire) = pos[InFlight + 1]
        /\ \A i \in 1..InFlight : Carries(enc[i], sent[Len(delivered) + i], SenderEff)
        /\ InFlight \in Nat \ {0} /\ sent[Len(delivered) + 1] \in Frames
        /\ Carries(enc[1], sent[Len(delivered) + 1], SenderEff)
        /\ Begins(enc[1], wire) /\ Len(AppendTo(enc[1])) <= pos[InFlight + 1]
  BY NextFrame
<1>4. PICK e : e = enc[1]
  OBVIOUS
<1>5. PICK frame : frame = sent[Len(delivered) + 1]
  OBVIOUS
<1>6. PICK f : f = ReadFrame(wire)
  OBVIOUS
<1>7. phase = "open"
  BY <1>1, <1>2 DEF Quiet
<1>8. /\ cliEff \in Configured /\ srvEff \in Configured /\ sender \in {"client", "server"}
      /\ SenderEff \in Configured /\ ReceiverEff \in Configured
      /\ SenderEff.compress = ReceiverEff.compress /\ SenderEff.encrypt = ReceiverEff.encrypt
      /\ SenderEff.key # ReceiverEff.key => cli.key # srv.key
      /\ SenderEff.encrypt => cliEff.encrypt /\ srvEff.encrypt
  BY <1>1, <1>7, EndsMatch DEF WireTypes, SenderEff, ReceiverEff
<1>9. /\ e \in Encodings /\ e.meta = frame.meta /\ e.payload.plain = frame.payload
      /\ HeaderOf(e).value.flags \cap {"Stream", "Channel"} = frame.mode
      /\ "Compressed" \in HeaderOf(e).value.flags <=> e.payload.deflated
      /\ "Encrypted" \in HeaderOf(e).value.flags <=> e.payload.key # "none"
      /\ e.payload.deflated => SenderEff.compress
      /\ e.payload.key # "none" =>
           SenderEff.encrypt /\ e.payload.key = SenderEff.key /\ e.payload.size >= SealSize
  BY <1>3, <1>4, <1>5, <1>8, CarriedFrame
<1>10. /\ f.bad = FALSE
       /\ \/ Len(wire) < Len(AppendTo(e)) /\ f.short = TRUE
          \/ /\ Len(wire) >= Len(AppendTo(e)) /\ f.short = FALSE
             /\ f.flags = HeaderOf(e).value.flags
             /\ f.meta = e.meta /\ f.payload = e.payload
             /\ Dropped(f.rest, wire, Len(AppendTo(e)))
  BY <1>3, <1>4, <1>6, ReadsBack
<1>11. /\ Len(wire) \in Nat /\ Len(AppendTo(e)) \in Nat /\ Len(sent) \in Nat
       /\ Len(delivered) \in Nat /\ DOMAIN sent = 1..Len(sent)
       /\ Len(delivered) + 1 \in 1..Len(sent) /\ Len(delivered) <= Len(sent)
  <2>1. /\ Len(wire) \in Nat /\ Len(sent) \in Nat /\ Len(delivered) \in Nat
        /\ DOMAIN sent = 1..Len(sent)
    BY <1>1, LenProperties DEF WireTypes
  <2>2. Len(AppendTo(e)) \in Nat
    BY <1>3, <1>4, AppendedBlocks, LenProperties DEF Begins
  <2> QED
    BY <1>1, <1>3, <2>1, <2>2 DEF InFlight, Prefix
<1>12. frame \in [mode : SUBSET {"Stream", "Channel"}, meta : Nat, payload : Nat]
  BY <1>3, <1>5, WireAssumption
<1>13. CASE f.short \/ f.bad \/ InboundFails(ReceiverEff, f.flags, f.payload)
  <2>1. dead' = TRUE /\ wire' = wire /\ delivered' = delivered
    BY <1>6, <1>13 DEF Receive
  <2>2. WireTypes' /\ Quiet' /\ OnWire' /\ Prefix'
    BY <1>1, <1>2, <1>7, <2>1 DEF WireTypes, Quiet, OnWire, Prefix
  <2>3. Excuse
    <3>1. CASE f.short
      <4>1. Len(wire) < Len(AppendTo(e))
        BY <1>10, <1>11, <3>1
      <4>2. Len(AppendTo(e)) <= pos[InFlight + 1] /\ (~cut => Len(wire) = pos[InFlight + 1])
        BY <1>3, <1>4
      <4>3. pos[InFlight + 1] \in Int
        BY <1>3 DEF Laid
      <4>4. cut
        BY <1>11, <4>1, <4>2, <4>3
      <4> QED
        BY <4>4 DEF Excuse
    <3>2. CASE ~f.short /\ InboundFails(ReceiverEff, f.flags, f.payload)
      <4>1. f.flags = HeaderOf(e).value.flags /\ f.payload = e.payload
        BY <1>10, <3>2
      <4>2. CASE "Encrypted" \in f.flags
                   /\ (\/ ~ReceiverEff.encrypt \/ f.payload.size < SealSize
                       \/ f.payload.key # ReceiverEff.key)
        <5>1. /\ SenderEff.encrypt /\ e.payload.key = SenderEff.key
              /\ e.payload.size >= SealSize /\ e.payload.size \in Nat /\ SealSize \in Nat
          BY <1>9, <4>1, <4>2, WireAssumption DEF Encodings
        <5>2. ReceiverEff.encrypt /\ ~(f.payload.size < SealSize)
          BY <1>8, <4>1, <5>1
        <5>3. e.payload.key # ReceiverEff.key
          BY <4>1, <4>2, <5>2
        <5>4. cliEff.encrypt /\ srvEff.encrypt /\ cli.key # srv.key
          BY <1>8, <5>1, <5>3
        <5> QED
          BY <1>7, <5>4 DEF Excuse
      <4>3. CASE "Compressed" \in f.flags
                   /\ (\/ ~ReceiverEff.compress \/ ~f.payload.deflated
                       \/ f.payload.plain > MaxPayloadSize)
        <5>1. e.payload.deflated /\ SenderEff.compress
          BY <1>9, <4>1, <4>3
        <5>2. f.payload.plain > MaxPayloadSize
          BY <1>8, <4>1, <4>3, <5>1
        <5>3. frame.payload + 1 + SealSize > MaxPayloadSize
          <6>1. /\ frame.payload \in Nat /\ SealSize \in Nat /\ MaxPayloadSize \in Nat
                /\ frame.payload > MaxPayloadSize
            BY <1>9, <1>12, <4>1, <5>2, WireAssumption
          <6> QED
            BY ONLY <6>1
        <5> QED
          BY <1>5, <1>11, <5>3 DEF Excuse
      <4> QED
        BY <3>2, <4>2, <4>3 DEF InboundFails
    <3> QED
      BY <1>10, <1>13, <3>1, <3>2
  <2>4. Excuse'
    BY <1>2, <2>3 DEF Excuse
  <2> QED
    BY <2>2, <2>4 DEF WInv
<1>14. CASE ~(f.short \/ f.bad \/ InboundFails(ReceiverEff, f.flags, f.payload))
  <2>1. /\ wire' = f.rest /\ dead' = dead
        /\ delivered' = Append(delivered,
             [mode |-> f.flags \cap {"Stream", "Channel"}, meta |-> f.meta,
              payload |-> Inbound(f.flags, f.payload).plain])
    BY <1>6, <1>14 DEF Receive
  <2>2. /\ f.flags = HeaderOf(e).value.flags /\ f.meta = e.meta /\ f.payload = e.payload
        /\ Dropped(f.rest, wire, Len(AppendTo(e)))
    BY <1>10, <1>14
  <2>3. Inbound(f.flags, f.payload).plain = frame.payload
    <3>1. f.payload.deflated <=> "Compressed" \in f.flags
      BY <1>9, <2>2
    <3>2. f.payload.key # "none" <=> "Encrypted" \in f.flags
      BY <1>9, <2>2
    <3>3. f.payload.deflated \in BOOLEAN
      BY <1>9, <2>2 DEF Encodings, Payloads
    <3>4. Inbound(f.flags, f.payload) = Plain(f.payload.plain)
      BY <3>1, <3>2, <3>3 DEF Inbound
    <3> QED
      BY <1>9, <2>2, <3>4 DEF Plain
  <2>4. delivered' = Append(delivered, frame)
    <3>1. frame = [mode |-> frame.mode, meta |-> frame.meta, payload |-> frame.payload]
      BY <1>12
    <3> QED
      BY <1>9, <2>1, <2>2, <2>3, <3>1
  <2>5. /\ delivered' \in Seq(Frames) /\ Len(delivered') = Len(delivered) + 1
        /\ \A i \in 1..Len(delivered) : delivered'[i] = delivered[i]
        /\ delivered'[Len(delivered) + 1] = frame
    <3>1. delivered \in Seq(Frames) /\ frame \in Frames
      BY <1>1, <1>3, <1>5 DEF WireTypes
    <3> QED
      BY <2>4, <3>1, AppendProperties
  <2>6. wire' \in Seq(Blocks)
    BY <2>1, <2>2 DEF Dropped
  <2>7. WireTypes' /\ Quiet'
    BY <1>1, <1>2, <1>7, <2>5, <2>6 DEF WireTypes, Quiet
  <2>8. Prefix'
    <3>1. ASSUME NEW i \in 1..(Len(delivered) + 1) PROVE delivered'[i] = sent[i]
      <4>1. i \in 1..Len(delivered) \/ i = Len(delivered) + 1
        BY <1>11
      <4> QED
        BY <1>1, <1>5, <2>5, <4>1 DEF Prefix
    <3> QED
      BY <1>2, <1>11, <2>5, <3>1 DEF Prefix
  <2>9. OnWire'
    <3>1. PICK k : k = InFlight
      OBVIOUS
    <3>2. /\ k \in Nat /\ k > 0 /\ Laid(enc, pos, k, wire)
          /\ Dropped(f.rest, wire, Len(AppendTo(enc[1])))
      BY <1>3, <1>4, <2>2, <3>1
    <3>3. LaidWithout(enc, k, f.rest, Len(wire) = pos[k + 1])
      BY ONLY <3>2, LaidRest
    <3>4. PICK enc1, pos1 : /\ Laid(enc1, pos1, k - 1, wire')
                            /\ Len(wire) = pos[k + 1] => Len(wire') = pos1[(k - 1) + 1]
                            /\ \A i \in 1..(k - 1) : enc1[i] = enc[i + 1]
      BY <2>1, <3>3 DEF LaidWithout
    <3>5. InFlight' = k - 1
      BY <1>2, <1>11, <2>5, <3>1 DEF InFlight
    <3>6. SenderEff' = SenderEff
      BY <1>2 DEF SenderEff
    <3>7. ASSUME NEW i \in 1..(k - 1)
          PROVE  Carries(enc1[i], sent[(Len(delivered) + 1) + i], SenderEff)
      <4>1. i + 1 \in 1..k /\ Len(delivered) + (i + 1) = (Len(delivered) + 1) + i
        BY <1>11, <3>2
      <4>2. Carries(enc[i + 1], sent[Len(delivered) + (i + 1)], SenderEff)
        BY <1>3, <3>1, <4>1
      <4> QED
        BY <3>4, <4>1, <4>2
    <3>8. ~cut' => Len(wire') = pos1[(k - 1) + 1]
      BY <1>2, <1>3, <3>1, <3>4
    <3> QED
      BY <1>2, <2>5, <3>4, <3>5, <3>6, <3>7, <3>8 DEF OnWire
  <2>10. ~dead'
    BY <1>1, <2>1
  <2> QED
    BY <2>7, <2>8, <2>9, <2>10 DEF WInv
<1> QED
  BY <1>13, <1>14

\* The invariant of the frames on their way, in what the handshake has made of the ends.
THEOREM WireInvariant == Spec => [](IInv /\ WInv)
<1>1. Init => IInv /\ WInv
  BY InitEstablishes, InitOnWire
<1>2. IInv /\ WInv /\ [Next]_vars => (IInv /\ WInv)'
  <2> SUFFICES ASSUME IInv, WInv, [Next]_vars PROVE WInv'
    BY NextPreserves
  <2>1. CASE Connect \/ Refuse \/ Accept \/ ClientBind
    BY <2>1, HandshakeKeeps
  <2>2. CASE Send
    BY <2>2, SendKeeps
  <2>3. CASE Cut
    BY <2>3, CutKeeps
  <2>4. CASE Receive
    BY <2>4, ReceiveKeeps
  <2>5. CASE UNCHANGED vars
    BY <2>5 DEF vars, WInv, WireTypes, Quiet, OnWire, InFlight, SenderEff, Prefix, Excuse
  <2> QED
    BY <2>1, <2>2, <2>3, <2>4, <2>5 DEF Next
<1> QED
  BY <1>1, <1>2, PTL DEF Spec

\* What is delivered is what was sent, in order.
THEOREM DeliverySafety == Spec => []DeliveredIsSent
<1>1. ASSUME WInv PROVE DeliveredIsSent
  <2>1. /\ sent \in Seq(Frames) /\ delivered \in Seq(Frames) /\ Len(delivered) <= Len(sent)
        /\ \A i \in 1..Len(delivered) : delivered[i] = sent[i]
    BY <1>1 DEF WInv, WireTypes, Prefix
  <2>2. Len(sent) \in Nat /\ Len(delivered) \in Nat
    BY <2>1, LenProperties
  <2> DEFINE n == Len(delivered)
  <2>3. ASSUME NEW s \in Seq(Frames), n <= Len(s)
        PROVE  /\ SubSeq(s, 1, n) \in Seq(Frames) /\ Len(SubSeq(s, 1, n)) = n
               /\ \A i \in 1..n : SubSeq(s, 1, n)[i] = s[i]
    <3>1. \A i \in 1..n : s[i] \in Frames
      BY <2>2, <2>3, ElementOfSeq, LenProperties
    <3>2. /\ SubSeq(s, 1, n) \in Seq(Frames)
          /\ Len(SubSeq(s, 1, n)) = IF 1 <= n THEN n - 1 + 1 ELSE 0
          /\ \A i \in 1..(n - 1 + 1) : SubSeq(s, 1, n)[i] = s[1 + i - 1]
      BY <2>2, <3>1, SubSeqProperties
    <3> QED
      BY <2>2, <3>2
  <2>4. SubSeq(delivered, 1, n) = SubSeq(sent, 1, n)
    <3>1. PICK a : a = SubSeq(delivered, 1, n)
      OBVIOUS
    <3>2. PICK b : b = SubSeq(sent, 1, n)
      OBVIOUS
    <3>3. /\ a \in Seq(Frames) /\ b \in Seq(Frames) /\ Len(a) = Len(b)
          /\ \A i \in 1..Len(a) : a[i] = b[i]
      BY <2>1, <2>2, <2>3, <3>1, <3>2
    <3>4. a = b
      BY ONLY <3>3, SeqEqual
    <3> QED
      BY <3>1, <3>2, <3>4
  <2> QED
    BY <2>1, <2>4 DEF DeliveredIsSent, IsPrefix
<1> QED
  BY <1>1, WireInvariant, PTL

\* A connection is not killed for frames that its ends have to accept.
THEOREM AcceptanceSafety == Spec => []GoodFramesPass
<1>1. ASSUME WInv PROVE GoodFramesPass
  <2> SUFFICES ASSUME ~cut, cliEff.encrypt /\ srvEff.encrypt => cli.key = srv.key,
                      \A i \in DOMAIN sent :
                        /\ sent[i].meta <= MaxMetadataSize
                        /\ sent[i].payload + 1 + SealSize <= MaxPayloadSize
               PROVE  ~dead
    BY DEF GoodFramesPass
  <2>1. \A i \in DOMAIN sent : sent[i].meta \in Nat /\ sent[i].payload \in Nat
    BY <1>1, WireAssumption, LenProperties, ElementOfSeq DEF WInv, WireTypes
  <2>2. MaxMetadataSize \in Int /\ SealSize \in Int /\ MaxPayloadSize \in Int
    BY MaxMeta, WireAssumption
  <2>3. ~Excuse
    BY <2>1, <2>2 DEF Excuse
  <2> QED
    BY <1>1, <2>3 DEF WInv
<1> QED
  BY <1>1, WireInvariant, PTL

=============================================================================
