-------------------------- MODULE SessionQueueProof --------------------------
(***************************************************************************)
(* Proofs about the frames of Session, for any set of connections and      *)
(* streams, any weights and capacities: what is sent is in its order and   *)
(* once, across any number of connections, an accepted frame is lost only  *)
(* in the ways LostOnlyWithConnection lists, and the byte count that       *)
(* decides about overflow is the weight of what is retained.               *)
(***************************************************************************)
EXTENDS SessionProof, FiniteSetTheorems

\* handleConn has not reached bind; it has, with a session
Early == {"idle", "handshake", "elsewhere", "decided", "registered"}
Late  == {"replaying", "bound", "serving", "unbinding", "closed"}

\* the connection that is bound went through bind, and no other has a frame before that
OnlyBoundSend ==
  /\ conn # Nil => pc[conn] \in Late
  /\ \A c \in Conns : pc[c] \in Early => sendCh[c] = <<>>

Below(A, B)  == \A a \in A, b \in B : a < b
GoesUp(s, q) == \A i, j \in DOMAIN q : i < j /\ q[i].sid = s /\ q[j].sid = s => q[i].n < q[j].n
Returned(s)  == 1..Len(returned[s])

\* a queue holds the frames of its stream, and no number is ahead of what sendDown returned
NumbersReturned ==
  \A s \in Streams :
    /\ \A i \in DOMAIN retained[s] : retained[s][i].sid = s
    /\ Numbers(s, retained[s]) \subseteq Returned(s)
    /\ \A c \in Conns : Numbers(s, Taken(c)) \subseteq Returned(s)

\* on every connection, and in the queue, the frames of a stream go up
EachGoesUp ==
  \A s \in Streams : GoesUp(s, retained[s]) /\ \A c \in Conns : GoesUp(s, Taken(c))

\* between them, too; the bound connection has the newest
AllGoUp ==
  \A s \in Streams :
    /\ \A c, d \in Conns : c # d =>
         \/ Below(Numbers(s, Taken(c)), Numbers(s, Taken(d)))
         \/ Below(Numbers(s, Taken(d)), Numbers(s, Taken(c)))
    /\ \A c, d \in Conns : c # d /\ d = conn => Below(Numbers(s, Taken(c)), Numbers(s, Taken(d)))
    /\ \A c \in Conns : Below(Numbers(s, Taken(c)), Numbers(s, retained[s]))

FramesInv ==
  /\ OnlyBoundSend
  /\ NumbersReturned
  /\ EachGoesUp
  /\ AllGoUp

\* the bytes of the queue are finitely many, and counted
BytesCounted ==
  IsFiniteSet(QueueBytes) /\ (mu # "bind" => retainedBytes = Cardinality(QueueBytes))

-----------------------------------------------------------------------------
(* Lemmas about Numbers, GoesUp and Below *)

Item == Frame \cup {CONNACK}

\* A frame's stream is one of the session's, CONNACK's is none.
LEMMA ItemFields ==
  \A x \in Item : x.n \in Nat /\ (x = CONNACK \/ (x \in Frame /\ x.sid \in Streams /\ x.n # 0))
BY DEF Item, Frame, CONNACK

\* CONNACK belongs to no stream.
LEMMA ConnackOfNoStream == \A s \in Streams : CONNACK.sid # s
BY SessionAssumption DEF CONNACK

\* The numbers of a queue are those of its elements.
LEMMA NumbersMember ==
  ASSUME NEW q, NEW s, NEW n
  PROVE  n \in Numbers(s, q) <=> \E i \in DOMAIN q : q[i].sid = s /\ q[i].n = n
BY DEF Numbers

\* Appending a frame adds its number, to its stream.
LEMMA NumbersAppend ==
  ASSUME NEW S, NEW q \in Seq(S), NEW x \in S, NEW s
  PROVE  Numbers(s, Append(q, x)) = Numbers(s, q) \cup {y.n : y \in {z \in {x} : z.sid = s}}
<1> DEFINE a == Append(q, x)
<1>1. /\ Len(q) \in Nat /\ DOMAIN q = 1..Len(q) /\ DOMAIN a = 1..(Len(q) + 1)
      /\ a[Len(q) + 1] = x /\ \A i \in DOMAIN q : a[i] = q[i]
    OBVIOUS
<1>2. \A i \in DOMAIN a : i \in DOMAIN q \/ i = Len(q) + 1
    BY <1>1
<1>3. DOMAIN q \subseteq DOMAIN a /\ Len(q) + 1 \in DOMAIN a
    BY <1>1
<1> HIDE DEF a
<1>. QED
    BY <1>1, <1>2, <1>3 DEF Numbers, a

\* ... and keeps the order if it is newer than those of its stream.
LEMMA GoesUpAppend ==
  ASSUME NEW S, NEW q \in Seq(S), NEW x \in S, NEW s, GoesUp(s, q),
         x.sid = s => \A n \in Numbers(s, q) : n < x.n
  PROVE  GoesUp(s, Append(q, x))
<1> DEFINE a == Append(q, x)
<1>1. /\ Len(q) \in Nat /\ DOMAIN q = 1..Len(q) /\ DOMAIN a = 1..(Len(q) + 1)
      /\ a[Len(q) + 1] = x /\ \A i \in DOMAIN q : a[i] = q[i]
    OBVIOUS
<1>2. SUFFICES ASSUME NEW i \in DOMAIN a, NEW j \in DOMAIN a, i < j, a[i].sid = s, a[j].sid = s
               PROVE  a[i].n < a[j].n
    BY DEF GoesUp
<1>3. i \in DOMAIN q /\ a[i] = q[i]
    BY <1>1, <1>2
<1>4. CASE j \in DOMAIN q
    BY <1>1, <1>2, <1>3, <1>4 DEF GoesUp
<1>5. CASE j = Len(q) + 1
  <2>1. a[i].n \in Numbers(s, q)
    BY <1>2, <1>3, NumbersMember
  <2>. QED
    BY <1>1, <1>2, <1>5, <2>1
<1>. QED
    BY <1>1, <1>4, <1>5

\* The head of a queue is the first of its stream, the tail the rest in its order.
LEMMA HeadAndTail ==
  ASSUME NEW S, NEW q \in Seq(S), q # <<>>, NEW s, GoesUp(s, q)
  PROVE  /\ GoesUp(s, Tail(q))
         /\ Numbers(s, q) = Numbers(s, Tail(q)) \cup {y.n : y \in {z \in {Head(q)} : z.sid = s}}
         /\ Head(q).sid = s => \A n \in Numbers(s, Tail(q)) : Head(q).n < n
<1> DEFINE t == Tail(q)
<1>1. /\ Len(q) \in Nat \ {0} /\ DOMAIN q = 1..Len(q) /\ DOMAIN t = 1..(Len(q) - 1)
      /\ q[1] = Head(q) /\ \A i \in DOMAIN t : t[i] = q[i + 1]
    OBVIOUS
<1>2. \A i \in DOMAIN t : i + 1 \in DOMAIN q /\ 1 < i + 1
    BY <1>1
<1>3. \A i \in DOMAIN q : i = 1 \/ (i - 1 \in DOMAIN t /\ t[i - 1] = q[i])
  <2>1. ASSUME NEW i \in DOMAIN q, i # 1 PROVE i - 1 \in DOMAIN t /\ t[i - 1] = q[i]
    <3>1. i - 1 \in DOMAIN t /\ (i - 1) + 1 = i
      BY <1>1, <2>1
    <3>. QED
      BY <1>1, <3>1
  <2>. QED
    BY <2>1
<1>4. 1 \in DOMAIN q
    BY <1>1
<1> HIDE DEF t
<1>5. GoesUp(s, t)
  <2>1. SUFFICES ASSUME NEW i \in DOMAIN t, NEW j \in DOMAIN t, i < j, t[i].sid = s, t[j].sid = s
                 PROVE  t[i].n < t[j].n
    BY DEF GoesUp
  <2>2. i + 1 < j + 1
    BY <1>1, <2>1
  <2>. QED
    BY <1>1, <1>2, <2>1, <2>2 DEF GoesUp
<1>6. Numbers(s, q) = Numbers(s, t) \cup {y.n : y \in {z \in {Head(q)} : z.sid = s}}
  <2>1. ASSUME NEW n \in Numbers(s, q)
        PROVE  n \in Numbers(s, t) \/ (Head(q).sid = s /\ n = Head(q).n)
    BY <1>1, <1>3, NumbersMember
  <2>2. ASSUME NEW n \in Numbers(s, t) PROVE n \in Numbers(s, q)
    BY <1>1, <1>2, NumbersMember
  <2>3. Head(q).sid = s => Head(q).n \in Numbers(s, q)
    BY <1>1, <1>4, NumbersMember
  <2>. QED
    BY <2>1, <2>2, <2>3
<1>7. ASSUME Head(q).sid = s, NEW n \in Numbers(s, t) PROVE Head(q).n < n
    BY <1>1, <1>2, <1>4, <1>7, NumbersMember DEF GoesUp
<1>. QED
    BY <1>5, <1>6, <1>7 DEF t

\* The empty queue has no numbers.
LEMMA NumbersEmpty == \A s : Numbers(s, <<>>) = {} /\ GoesUp(s, <<>>)
BY DEF Numbers, GoesUp

\* Putting CONNACK in front changes no stream.
LEMMA ConnackInFront ==
  ASSUME NEW q \in Seq(Item), NEW s \in Streams
  PROVE  /\ Numbers(s, <<CONNACK>> \o q) = Numbers(s, q)
         /\ GoesUp(s, q) => GoesUp(s, <<CONNACK>> \o q)
<1> DEFINE a == <<CONNACK>> \o q
<1>1. /\ Len(q) \in Nat /\ DOMAIN q = 1..Len(q) /\ DOMAIN a = 1..(Len(q) + 1)
      /\ a[1] = CONNACK /\ \A i \in DOMAIN q : i + 1 \in DOMAIN a /\ a[i + 1] = q[i]
    BY DEF Item
<1>2. \A i \in DOMAIN a : i = 1 \/ (i - 1 \in DOMAIN q /\ a[i] = q[i - 1])
  <2>1. ASSUME NEW i \in DOMAIN a, i # 1 PROVE i - 1 \in DOMAIN q /\ a[i] = q[i - 1]
    <3>1. i - 1 \in DOMAIN q /\ (i - 1) + 1 = i
      BY <1>1, <2>1
    <3>. QED
      BY <1>1, <3>1
  <2>. QED
    BY <2>1
<1> HIDE DEF a
<1>3. a[1].sid # s
    BY <1>1, ConnackOfNoStream
<1>4. ASSUME NEW n PROVE n \in Numbers(s, a) <=> n \in Numbers(s, q)
  <2>1. (\E i \in DOMAIN a : a[i].sid = s /\ a[i].n = n)
          => \E i \in DOMAIN q : q[i].sid = s /\ q[i].n = n
    BY <1>2, <1>3
  <2>2. (\E i \in DOMAIN q : q[i].sid = s /\ q[i].n = n)
          => \E i \in DOMAIN a : a[i].sid = s /\ a[i].n = n
    BY <1>1
  <2>. QED
    BY <2>1, <2>2, NumbersMember
<1>5. Numbers(s, a) = Numbers(s, q)
    BY <1>4 DEF Numbers
<1>6. ASSUME GoesUp(s, q) PROVE GoesUp(s, a)
  <2>1. SUFFICES ASSUME NEW i \in DOMAIN a, NEW j \in DOMAIN a, i < j, a[i].sid = s, a[j].sid = s
                 PROVE  a[i].n < a[j].n
    BY DEF GoesUp
  <2>2. i \in Nat /\ j \in Nat /\ i # 1 /\ j # 1
    BY <1>1, <1>3, <2>1
  <2>3. i - 1 < j - 1
    BY <2>1, <2>2
  <2>. QED
    BY <1>2, <1>6, <2>1, <2>2, <2>3 DEF GoesUp
<1>. QED
    BY <1>5, <1>6 DEF a

\* What is put into sendCh comes last of what line and sendCh hold.
LEMMA ConcatAppend ==
  ASSUME NEW S, NEW a \in Seq(S), NEW b \in Seq(S), NEW x \in S
  PROVE  a \o Append(b, x) = Append(a \o b, x)
OBVIOUS

\* The write loop, which moves the head of sendCh to line, changes nothing in sequence.
LEMMA ConcatMove ==
  ASSUME NEW S, NEW a \in Seq(S), NEW b \in Seq(S), b # <<>>
  PROVE  Append(a, Head(b)) \o Tail(b) = a \o b
OBVIOUS

\* A failed write, which takes the head of sendCh, keeps the order of the rest.
LEMMA ConcatDrop ==
  ASSUME NEW S, NEW a \in Seq(S), NEW b \in Seq(S), b # <<>>, NEW s
  PROVE  /\ Numbers(s, a \o Tail(b)) \subseteq Numbers(s, a \o b)
         /\ GoesUp(s, a \o b) => GoesUp(s, a \o Tail(b))
<1> DEFINE q    == a \o b
           t    == a \o Tail(b)
           f(i) == IF i <= Len(a) THEN i ELSE i + 1
<1>1. /\ Len(a) \in Nat /\ Len(b) \in Nat \ {0}
      /\ DOMAIN q = 1..(Len(a) + Len(b)) /\ DOMAIN t = 1..(Len(a) + Len(b) - 1)
      /\ \A i \in DOMAIN t : f(i) \in DOMAIN q /\ t[i] = q[f(i)]
    OBVIOUS
<1>2. \A i, j \in DOMAIN t : i < j => f(i) < f(j)
    BY <1>1
<1> HIDE DEF q, t, f
<1>3. Numbers(s, t) \subseteq Numbers(s, q)
    BY <1>1, NumbersMember
<1>4. GoesUp(s, q) => GoesUp(s, t)
    BY <1>1, <1>2 DEF GoesUp
<1>. QED
    BY <1>3, <1>4 DEF q, t

\* What a connection has taken over is a sequence of frames and CONNACK.
LEMMA TakenType ==
  ASSUME TypeOK
  PROVE  \A c \in Conns : /\ Taken(c) \in Seq(Item)
                          /\ line[c] \in Seq(Item) /\ sendCh[c] \in Seq(Item)
<1> SUFFICES ASSUME NEW c \in Conns
             PROVE  /\ Taken(c) \in Seq(Item)
                    /\ line[c] \in Seq(Item) /\ sendCh[c] \in Seq(Item)
    OBVIOUS
<1>1. line[c] \in Seq(Frame \cup {CONNACK}) /\ sendCh[c] \in Seq(Frame)
    BY DEF TypeOK
<1>2. line[c] \in Seq(Item) /\ sendCh[c] \in Seq(Item)
    BY <1>1 DEF Item
<1>. QED
    BY <1>2 DEF Taken

\* A frame put into sendCh of c is the last one c has taken over.
LEMMA TakenGrows ==
  ASSUME TypeOK, NEW c \in Conns, NEW x \in Frame, UNCHANGED line,
         sendCh' = [sendCh EXCEPT ![c] = Append(@, x)]
  PROVE  /\ \A d \in Conns \ {c} : Taken(d)' = Taken(d)
         /\ \A s \in Streams \ {x.sid} : Numbers(s, Taken(c))' = Numbers(s, Taken(c))
         /\ Numbers(x.sid, Taken(c))' = Numbers(x.sid, Taken(c)) \cup {x.n}
         /\ \A s \in Streams :
              /\ GoesUp(s, Taken(c))
              /\ x.sid = s => \A n \in Numbers(s, Taken(c)) : n < x.n
              => GoesUp(s, Taken(c))'
<1>1. /\ Taken(c) \in Seq(Item) /\ line[c] \in Seq(Item) /\ sendCh[c] \in Seq(Item)
      /\ x \in Item
    BY TakenType DEF Item
<1>2. sendCh'[c] = Append(sendCh[c], x) /\ \A d \in Conns \ {c} : sendCh'[d] = sendCh[d]
    BY DEF TypeOK
<1>3. Taken(c)' = Append(Taken(c), x)
  <2>1. \A a, b \in Seq(Item) : a \o Append(b, x) = Append(a \o b, x)
    BY <1>1, ConcatAppend
  <2>2. Taken(c)' = line[c] \o sendCh'[c]
    BY DEF Taken
  <2>. QED
    BY <1>1, <1>2, <2>1, <2>2 DEF Taken
<1>4. \A d \in Conns \ {c} : Taken(d)' = Taken(d)
    BY <1>2 DEF Taken
<1>5. ASSUME NEW s
      PROVE  Numbers(s, Taken(c))' = Numbers(s, Taken(c)) \cup {y.n : y \in {z \in {x} : z.sid = s}}
  <2>1. Numbers(s, Append(Taken(c), x))
          = Numbers(s, Taken(c)) \cup {y.n : y \in {z \in {x} : z.sid = s}}
    BY <1>1, NumbersAppend
  <2>2. Numbers(s, Taken(c))' = Numbers(s, Append(Taken(c), x))
    BY <1>3 DEF Numbers
  <2>. QED
    BY <2>1, <2>2
<1>6. ASSUME NEW s \in Streams, GoesUp(s, Taken(c)),
             x.sid = s => \A n \in Numbers(s, Taken(c)) : n < x.n
      PROVE  GoesUp(s, Taken(c))'
  <2>1. GoesUp(s, Append(Taken(c), x))
    BY <1>1, <1>6, GoesUpAppend
  <2>. QED
    BY <1>3, <2>1 DEF GoesUp
<1>7. Numbers(x.sid, Taken(c))' = Numbers(x.sid, Taken(c)) \cup {x.n}
    BY <1>5
<1>8. \A s \in Streams \ {x.sid} : Numbers(s, Taken(c))' = Numbers(s, Taken(c))
    BY <1>5
<1>. QED
    BY <1>4, <1>6, <1>7, <1>8

-----------------------------------------------------------------------------
(* The parts about frames, under steps of one kind *)

OrderInv == NumbersReturned /\ EachGoesUp /\ AllGoUp

\* Returned(s) grows by the next frame's number, which is newer than all others.
LEMMA NextIsNewest ==
  ASSUME TypeOK, NumbersReturned, NEW s \in Streams
  PROVE  /\ NextFrame(s) \in Frame /\ NextFrame(s).sid = s
         /\ \A c \in Conns : \A n \in Numbers(s, Taken(c)) : n < NextFrame(s).n
         /\ \A n \in Numbers(s, retained[s]) : n < NextFrame(s).n
<1>1. Len(returned[s]) \in Nat
    BY DEF TypeOK
<1>2. \A n \in Returned(s) : n < NextFrame(s).n
    BY <1>1 DEF Returned, NextFrame
<1>3. NextFrame(s) \in Frame /\ NextFrame(s).sid = s
    BY <1>1 DEF NextFrame, Frame
<1>. QED
    BY <1>2, <1>3 DEF NumbersReturned

\* What Returns does to the numbers returned.
LEMMA ReturnsGrows ==
  ASSUME TypeOK, NEW s \in Streams, NEW result, Returns(s, result)
  PROVE  /\ \A t \in Streams : Returned(t) \subseteq Returned(t)'
         /\ NextFrame(s).n \in Returned(s)'
         /\ \A t \in Streams : \A n \in DOMAIN returned'[t] :
              \/ n \in DOMAIN returned[t] /\ returned'[t][n] = returned[t][n]
              \/ t = s /\ n = NextFrame(s).n /\ returned'[t][n] = result
<1>1. \A t \in Streams : returned'[t] = IF t = s THEN Append(returned[s], result) ELSE returned[t]
    BY DEF Returns, TypeOK
<1>2. returned[s] \in Seq({"nil", "error"}) /\ NextFrame(s).n = Len(returned[s]) + 1
    BY DEF TypeOK, NextFrame
<1>3. /\ Len(returned[s]) \in Nat /\ DOMAIN returned[s] = 1..Len(returned[s])
      /\ Len(returned'[s]) = Len(returned[s]) + 1
      /\ DOMAIN returned'[s] = 1..(Len(returned[s]) + 1)
      /\ returned'[s][Len(returned[s]) + 1] = result
      /\ \A n \in DOMAIN returned[s] : returned'[s][n] = returned[s][n]
  <2> DEFINE q == returned[s]
  <2>1. /\ Len(q) \in Nat /\ DOMAIN q = 1..Len(q) /\ Len(Append(q, result)) = Len(q) + 1
        /\ DOMAIN Append(q, result) = 1..(Len(q) + 1) /\ Append(q, result)[Len(q) + 1] = result
        /\ \A n \in DOMAIN q : Append(q, result)[n] = q[n]
    <3>1. q \in Seq({"nil", "error"} \cup {result}) /\ result \in {"nil", "error"} \cup {result}
      BY <1>2
    <3> HIDE DEF q
    <3>. QED
      BY <3>1
  <2>. QED
    BY <1>1, <2>1
<1>4. Returned(s) \subseteq Returned(s)' /\ NextFrame(s).n \in Returned(s)'
    BY <1>2, <1>3 DEF Returned
<1>5. \A t \in Streams \ {s} : Returned(t)' = Returned(t)
    BY <1>1 DEF Returned
<1>6. \A n \in DOMAIN returned'[s] : n \in DOMAIN returned[s] \/ n = NextFrame(s).n
    BY <1>2, <1>3
<1>7. ASSUME NEW t \in Streams, NEW n \in DOMAIN returned'[t]
      PROVE  \/ n \in DOMAIN returned[t] /\ returned'[t][n] = returned[t][n]
             \/ t = s /\ n = NextFrame(s).n /\ returned'[t][n] = result
  <2>1. CASE t = s
    BY <1>2, <1>3, <1>6, <1>7, <2>1
  <2>2. CASE t # s
    BY <1>1, <1>7, <2>2
  <2>. QED
    BY <2>1, <2>2
<1>. QED
    BY <1>4, <1>5, <1>7

\* The order survives a step that only takes frames away, whichever connection is bound then, as
\* long as that one has the newest frames.
LEMMA OrderKept ==
  ASSUME OrderInv, UNCHANGED retained,
         \A s \in Streams : Returned(s) \subseteq Returned(s)',
         \A s \in Streams, c \in Conns :
           /\ Numbers(s, Taken(c))' \subseteq Numbers(s, Taken(c))
           /\ GoesUp(s, Taken(c)) => GoesUp(s, Taken(c))',
         \A s \in Streams : \A c, d \in Conns :
           c # d /\ d = conn' => Below(Numbers(s, Taken(c)), Numbers(s, Taken(d)))
  PROVE  OrderInv'
<1>1. \A s \in Streams : /\ Numbers(s, retained[s])' = Numbers(s, retained[s])
                         /\ GoesUp(s, retained[s])' = GoesUp(s, retained[s])
    BY DEF Numbers, GoesUp
<1>2. NumbersReturned'
    BY <1>1 DEF OrderInv, NumbersReturned
<1>3. EachGoesUp'
    BY <1>1 DEF OrderInv, EachGoesUp
<1>4. ASSUME NEW s \in Streams, NEW c \in Conns, NEW d \in Conns, c # d, d = conn'
      PROVE  Below(Numbers(s, Taken(c))', Numbers(s, Taken(d))')
  <2>1. Below(Numbers(s, Taken(c)), Numbers(s, Taken(d)))
    BY <1>4
  <2>. QED
    BY <2>1 DEF Below
<1>5. AllGoUp'
    BY <1>1, <1>4 DEF OrderInv, AllGoUp, Below
<1>. QED
    BY <1>2, <1>3, <1>5 DEF OrderInv

\* A step that moves no frame and accepts none keeps the order.
LEMMA QuietFrames ==
  ASSUME OrderInv, conn' \in {conn, Nil},
         UNCHANGED <<retained, sendCh, line, returned>>
  PROVE  OrderInv'
<1>1. \A s \in Streams : /\ Returned(s)' = Returned(s)
                         /\ Numbers(s, retained[s])' = Numbers(s, retained[s])
    BY DEF Returned, Numbers
<1>2. \A s \in Streams, c \in Conns : /\ Numbers(s, Taken(c))' = Numbers(s, Taken(c))
                                      /\ GoesUp(s, Taken(c))' = GoesUp(s, Taken(c))
    BY DEF Taken, Numbers, GoesUp
<1>3. ASSUME NEW s \in Streams, NEW c \in Conns, NEW d \in Conns, c # d, d = conn'
      PROVE  Below(Numbers(s, Taken(c)), Numbers(s, Taken(d)))
  <2>1. CASE conn' = conn
    BY <1>3, <2>1 DEF OrderInv, AllGoUp
  <2>2. CASE conn' = Nil
    BY <1>3, <2>2, SessionAssumption
  <2>. QED
    BY <2>1, <2>2
<1>. QED
    BY <1>1, <1>2, <1>3, OrderKept

\* A refused send moves no frame.
LEMMA RefusedFrames ==
  ASSUME TypeOK, OrderInv, NEW s \in Streams, Returns(s, "error"),
         UNCHANGED <<conn, retained, sendCh, line>>
  PROVE  OrderInv'
<1>2. \A t \in Streams, c \in Conns : /\ Numbers(t, Taken(c))' = Numbers(t, Taken(c))
                                      /\ GoesUp(t, Taken(c))' = GoesUp(t, Taken(c))
    BY DEF Taken, Numbers, GoesUp
<1>3. \A t \in Streams : Returned(t) \subseteq Returned(t)'
    BY ReturnsGrows
<1>4. \A t \in Streams : \A c, d \in Conns :
        c # d /\ d = conn' => Below(Numbers(t, Taken(c)), Numbers(t, Taken(d)))
    BY DEF OrderInv, AllGoUp
<1>. QED
    BY <1>2, <1>3, <1>4, OrderKept

\* A frame sent to the bound connection is the newest of its stream, and nothing is retained.
LEMMA SentFrames ==
  ASSUME IInv, OrderInv, NEW s \in Streams, conn \in Conns, mu # "bind",
         Returns(s, "nil"), sendCh' = [sendCh EXCEPT ![conn] = Append(@, NextFrame(s))],
         UNCHANGED <<conn, retained, line>>
  PROVE  OrderInv'
<1> DEFINE x == NextFrame(s)
<1>1. TypeOK /\ NumbersReturned /\ EachGoesUp /\ AllGoUp
    BY DEF IInv, OrderInv
<1>2. /\ x \in Frame /\ x.sid = s
      /\ \A c \in Conns : \A n \in Numbers(s, Taken(c)) : n < x.n
    BY <1>1, NextIsNewest
<1>3. \A t \in Streams : retained[t] = <<>> /\ retained'[t] = <<>>
    BY SessionAssumption DEF IInv, RetainedOnlyWhileUnbound
<1>4. /\ \A t \in Streams : Returned(t) \subseteq Returned(t)'
      /\ x.n \in Returned(s)'
      /\ \A t \in Streams : \A n \in DOMAIN returned'[t] :
              \/ n \in DOMAIN returned[t] /\ returned'[t][n] = returned[t][n]
              \/ t = s /\ n = x.n /\ returned'[t][n] = "nil"
    BY <1>1, ReturnsGrows
<1> HIDE DEF x
<1>5. PICK b \in Conns : b = conn
    OBVIOUS
<1>6. sendCh' = [sendCh EXCEPT ![b] = Append(@, x)]
    BY <1>5 DEF x
<1>7. /\ \A d \in Conns \ {b} : Taken(d)' = Taken(d)
      /\ \A t \in Streams \ {s} : Numbers(t, Taken(b))' = Numbers(t, Taken(b))
      /\ Numbers(s, Taken(b))' = Numbers(s, Taken(b)) \cup {x.n}
      /\ \A t \in Streams : /\ GoesUp(t, Taken(b))
                            /\ s = t => \A n \in Numbers(t, Taken(b)) : n < x.n
                            => GoesUp(t, Taken(b))'
    BY <1>1, <1>2, <1>6, TakenGrows
<1>8. \A d \in Conns \ {b}, t \in Streams : /\ Numbers(t, Taken(d))' = Numbers(t, Taken(d))
                                            /\ GoesUp(t, Taken(d))' = GoesUp(t, Taken(d))
    BY <1>7 DEF Numbers, GoesUp
<1>9. \A t \in Streams : Numbers(t, retained[t])' = {} /\ GoesUp(t, retained[t])'
    BY <1>3, NumbersEmpty DEF Numbers, GoesUp
<1>10. NumbersReturned'
  <2>1. ASSUME NEW t \in Streams, NEW c \in Conns PROVE Numbers(t, Taken(c))' \subseteq Returned(t)'
    <3>1. Numbers(t, Taken(c)) \subseteq Returned(t)
      BY <1>1 DEF NumbersReturned
    <3>2. Numbers(t, Taken(c))' \subseteq Numbers(t, Taken(c)) \cup (IF t = s THEN {x.n} ELSE {})
      BY <1>7, <1>8
    <3>. QED
      BY <3>1, <3>2, <1>4
  <2>2. ASSUME NEW t \in Streams PROVE \A i \in DOMAIN retained'[t] : retained'[t][i].sid = t
    BY <1>3
  <2>. QED
    BY <1>9, <2>1, <2>2 DEF NumbersReturned
<1>11. EachGoesUp'
  <2>1. ASSUME NEW t \in Streams, NEW c \in Conns PROVE GoesUp(t, Taken(c))'
    <3>1. GoesUp(t, Taken(c))
      BY <1>1 DEF EachGoesUp
    <3>2. CASE c = b
      BY <1>2, <1>7, <3>1, <3>2
    <3>3. CASE c # b
      BY <1>8, <3>1, <3>3
    <3>. QED
      BY <3>2, <3>3
  <2>. QED
    BY <1>9, <2>1 DEF EachGoesUp
<1>12. AllGoUp'
  <2>1. ASSUME NEW t \in Streams, NEW c \in Conns \ {b}
        PROVE  Below(Numbers(t, Taken(c))', Numbers(t, Taken(b))')
    <3>1. Below(Numbers(t, Taken(c)), Numbers(t, Taken(b)))
      BY <1>1, <1>5 DEF AllGoUp
    <3>2. CASE t = s
      BY <1>2, <1>7, <1>8, <3>1, <3>2 DEF Below
    <3>3. CASE t # s
      BY <1>7, <1>8, <3>1, <3>3
    <3>. QED
      BY <3>2, <3>3
  <2>2. ASSUME NEW t \in Streams, NEW c \in Conns, NEW d \in Conns, c # d
        PROVE  \/ Below(Numbers(t, Taken(c))', Numbers(t, Taken(d))')
               \/ Below(Numbers(t, Taken(d))', Numbers(t, Taken(c))')
    <3>1. CASE c # b /\ d # b
      <4>1. \/ Below(Numbers(t, Taken(c)), Numbers(t, Taken(d)))
            \/ Below(Numbers(t, Taken(d)), Numbers(t, Taken(c)))
        BY <1>1, <2>2 DEF AllGoUp
      <4>. QED
        BY <1>8, <3>1, <4>1
    <3>. QED
      BY <2>1, <2>2, <3>1
  <2>3. \A t \in Streams, c \in Conns : Below(Numbers(t, Taken(c))', Numbers(t, retained[t])')
    BY <1>9 DEF Below
  <2>4. conn' = b
    BY <1>5
  <2>5. ASSUME NEW t \in Streams, NEW c \in Conns, NEW d \in Conns, c # d, d = conn'
        PROVE  Below(Numbers(t, Taken(c))', Numbers(t, Taken(d))')
    BY <2>1, <2>4, <2>5
  <2>. QED
    BY <2>2, <2>3, <2>5 DEF AllGoUp, Below
<1>. QED
    BY <1>10, <1>11, <1>12 DEF OrderInv

\* What the replay of a frame does to the queue: the oldest of its stream leaves it.
LEMMA ReplayTakesHead ==
  ASSUME IInv, OrderInv, NEW p \in Streams, retained[p] # <<>>,
         retained' = [retained EXCEPT ![p] = Tail(@)]
  PROVE  /\ Head(retained[p]) \in Frame /\ Head(retained[p]).sid = p
         /\ \A n \in Numbers(p, retained[p])' : Head(retained[p]).n < n
         /\ Numbers(p, retained[p]) = Numbers(p, retained[p])' \cup {Head(retained[p]).n}
         /\ \A s \in Streams \ {p} : Numbers(s, retained[s])' = Numbers(s, retained[s])
         /\ \A s \in Streams : /\ GoesUp(s, retained[s])'
                               /\ \A i \in DOMAIN retained'[s] : retained'[s][i].sid = s
<1> DEFINE q == retained[p]
           x == Head(q)
<1>1. /\ q \in Seq(Frame) /\ q # <<>> /\ retained'[p] = Tail(q)
      /\ \A s \in Streams \ {p} : retained'[s] = retained[s]
    BY DEF IInv, TypeOK
<1>2. \A s \in Streams : /\ \A i \in DOMAIN retained[s] : retained[s][i].sid = s
                         /\ GoesUp(s, retained[s])
    BY DEF OrderInv, NumbersReturned, EachGoesUp
<1>3. /\ Len(q) \in Nat \ {0} /\ DOMAIN q = 1..Len(q) /\ DOMAIN Tail(q) = 1..(Len(q) - 1)
      /\ q[1] = x /\ \A i \in DOMAIN Tail(q) : Tail(q)[i] = q[i + 1]
    BY <1>1
<1>4. x \in Frame /\ x.sid = p
    BY <1>1, <1>2, <1>3
<1>5. \A i \in DOMAIN Tail(q) : Tail(q)[i].sid = p
  <2>1. \A i \in DOMAIN Tail(q) : i + 1 \in DOMAIN q
    BY <1>3
  <2>. QED
    BY <1>2, <1>3, <2>1
<1>6. /\ GoesUp(p, Tail(q))
      /\ Numbers(p, q) = Numbers(p, Tail(q)) \cup {y.n : y \in {z \in {x} : z.sid = p}}
      /\ x.sid = p => \A n \in Numbers(p, Tail(q)) : x.n < n
  <2>1. GoesUp(p, q)
    BY <1>2
  <2>. QED
    BY <1>1, <2>1, HeadAndTail
<1> HIDE DEF q, x
<1>7. Numbers(p, retained[p])' = Numbers(p, Tail(q)) /\ GoesUp(p, retained[p])'
    BY <1>1, <1>6 DEF Numbers, GoesUp
<1>8. \A s \in Streams \ {p} : /\ Numbers(s, retained[s])' = Numbers(s, retained[s])
                               /\ GoesUp(s, retained[s])' = GoesUp(s, retained[s])
    BY <1>1 DEF Numbers, GoesUp
<1>9. Numbers(p, q) = Numbers(p, retained[p])' \cup {x.n}
    BY <1>4, <1>6, <1>7
<1>10. \A n \in Numbers(p, retained[p])' : x.n < n
    BY <1>4, <1>6, <1>7
<1>11. \A s \in Streams : \A i \in DOMAIN retained'[s] : retained'[s][i].sid = s
    BY <1>1, <1>2, <1>5
<1>12. \A s \in Streams : GoesUp(s, retained[s])'
    BY <1>2, <1>7, <1>8
<1>. QED
    BY <1>4, <1>8, <1>9, <1>10, <1>11, <1>12 DEF q, x

\* A replayed frame is newer than what any connection has, and older than what is left.
LEMMA ReplayedFrames ==
  ASSUME IInv, OrderInv, NEW b \in Conns, b = conn, NEW p \in Streams,
         retained[p] # <<>>, retained' = [retained EXCEPT ![p] = Tail(@)],
         sendCh' = [sendCh EXCEPT ![b] = Append(@, Head(retained[p]))],
         UNCHANGED <<conn, line, returned>>
  PROVE  OrderInv'
<1> DEFINE x == Head(retained[p])
<1>1. TypeOK /\ NumbersReturned /\ EachGoesUp /\ AllGoUp
    BY DEF IInv, OrderInv
<1>2. /\ x \in Frame /\ x.sid = p
      /\ \A n \in Numbers(p, retained[p])' : x.n < n
      /\ Numbers(p, retained[p]) = Numbers(p, retained[p])' \cup {x.n}
      /\ \A s \in Streams \ {p} : Numbers(s, retained[s])' = Numbers(s, retained[s])
      /\ \A s \in Streams : /\ GoesUp(s, retained[s])'
                            /\ \A i \in DOMAIN retained'[s] : retained'[s][i].sid = s
    BY ReplayTakesHead
<1>3. sendCh' = [sendCh EXCEPT ![b] = Append(@, x)]
    OBVIOUS
<1> HIDE DEF x
<1>4. \A c \in Conns : \A n \in Numbers(p, Taken(c)) : n < x.n
  <2>1. x.n \in Numbers(p, retained[p])
    BY <1>2
  <2>. QED
    BY <1>1, <2>1 DEF AllGoUp, Below
<1>5. /\ \A d \in Conns \ {b} : Taken(d)' = Taken(d)
      /\ \A t \in Streams \ {p} : Numbers(t, Taken(b))' = Numbers(t, Taken(b))
      /\ Numbers(p, Taken(b))' = Numbers(p, Taken(b)) \cup {x.n}
      /\ \A t \in Streams : /\ GoesUp(t, Taken(b))
                            /\ p = t => \A n \in Numbers(t, Taken(b)) : n < x.n
                            => GoesUp(t, Taken(b))'
    BY <1>1, <1>2, <1>3, TakenGrows
<1>6. \A d \in Conns \ {b}, t \in Streams : /\ Numbers(t, Taken(d))' = Numbers(t, Taken(d))
                                            /\ GoesUp(t, Taken(d))' = GoesUp(t, Taken(d))
    BY <1>5 DEF Numbers, GoesUp
<1>7. \A t \in Streams : Returned(t)' = Returned(t)
    BY DEF Returned
<1>8. \A t \in Streams : Numbers(t, retained[t])' \subseteq Numbers(t, retained[t])
    BY <1>2
<1>9. NumbersReturned'
  <2>1. \A t \in Streams : Numbers(t, retained[t])' \subseteq Returned(t)'
    BY <1>1, <1>7, <1>8 DEF NumbersReturned
  <2>2. ASSUME NEW t \in Streams, NEW c \in Conns PROVE Numbers(t, Taken(c))' \subseteq Returned(t)'
    <3>1. Numbers(t, Taken(c)) \subseteq Returned(t) /\ x.n \in Returned(p)
      BY <1>1, <1>2 DEF NumbersReturned
    <3>2. Numbers(t, Taken(c))' \subseteq Numbers(t, Taken(c)) \cup (IF t = p THEN {x.n} ELSE {})
      BY <1>5, <1>6
    <3>. QED
      BY <3>1, <3>2, <1>7
  <2>. QED
    BY <1>2, <2>1, <2>2 DEF NumbersReturned
<1>10. EachGoesUp'
  <2>1. ASSUME NEW t \in Streams, NEW c \in Conns PROVE GoesUp(t, Taken(c))'
    <3>1. GoesUp(t, Taken(c))
      BY <1>1 DEF EachGoesUp
    <3>2. CASE c = b
      BY <1>4, <1>5, <3>1, <3>2
    <3>3. CASE c # b
      BY <1>6, <3>1, <3>3
    <3>. QED
      BY <3>2, <3>3
  <2>. QED
    BY <1>2, <2>1 DEF EachGoesUp
<1>11. AllGoUp'
  <2>1. ASSUME NEW t \in Streams, NEW c \in Conns \ {b}
        PROVE  Below(Numbers(t, Taken(c))', Numbers(t, Taken(b))')
    <3>1. Below(Numbers(t, Taken(c)), Numbers(t, Taken(b)))
      BY <1>1 DEF AllGoUp
    <3>2. CASE t = p
      BY <1>4, <1>5, <1>6, <3>1, <3>2 DEF Below
    <3>3. CASE t # p
      BY <1>5, <1>6, <3>1, <3>3
    <3>. QED
      BY <3>2, <3>3
  <2>2. ASSUME NEW t \in Streams, NEW c \in Conns, NEW d \in Conns, c # d
        PROVE  \/ Below(Numbers(t, Taken(c))', Numbers(t, Taken(d))')
               \/ Below(Numbers(t, Taken(d))', Numbers(t, Taken(c))')
    <3>1. CASE c # b /\ d # b
      <4>1. \/ Below(Numbers(t, Taken(c)), Numbers(t, Taken(d)))
            \/ Below(Numbers(t, Taken(d)), Numbers(t, Taken(c)))
        BY <1>1, <2>2 DEF AllGoUp
      <4>. QED
        BY <1>6, <3>1, <4>1
    <3>. QED
      BY <2>1, <2>2, <3>1
  <2>3. ASSUME NEW t \in Streams, NEW c \in Conns
        PROVE  Below(Numbers(t, Taken(c))', Numbers(t, retained[t])')
    <3>1. Below(Numbers(t, Taken(c)), Numbers(t, retained[t])')
      BY <1>1, <1>8 DEF AllGoUp, Below
    <3>2. CASE t = p
      <4>1. Numbers(t, Taken(c))' \subseteq Numbers(t, Taken(c)) \cup {x.n}
        BY <1>5, <1>6, <3>2
      <4>. QED
        BY <1>2, <3>1, <3>2, <4>1 DEF Below
    <3>3. CASE t # p
      BY <1>5, <1>6, <3>1, <3>3
    <3>. QED
      BY <3>2, <3>3
  <2>4. ASSUME NEW t \in Streams, NEW c \in Conns, NEW d \in Conns, c # d, d = conn'
        PROVE  Below(Numbers(t, Taken(c))', Numbers(t, Taken(d))')
    BY <2>1, <2>4
  <2>. QED
    BY <2>2, <2>3, <2>4 DEF AllGoUp, Below
<1>. QED
    BY <1>9, <1>10, <1>11 DEF OrderInv

\* A replay into a dead transport loses the frame; the order of the rest stands.
LEMMA LostFrames ==
  ASSUME IInv, OrderInv, NEW p \in Streams,
         retained[p] # <<>>, retained' = [retained EXCEPT ![p] = Tail(@)],
         UNCHANGED <<conn, sendCh, line, returned>>
  PROVE  OrderInv'
<1>1. /\ \A s \in Streams : Numbers(s, retained[s])' \subseteq Numbers(s, retained[s])
      /\ \A s \in Streams : /\ GoesUp(s, retained[s])'
                            /\ \A i \in DOMAIN retained'[s] : retained'[s][i].sid = s
    BY ReplayTakesHead
<1>2. \A s \in Streams, c \in Conns : /\ Numbers(s, Taken(c))' = Numbers(s, Taken(c))
                                      /\ GoesUp(s, Taken(c))' = GoesUp(s, Taken(c))
    BY DEF Taken, Numbers, GoesUp
<1>3. \A s \in Streams : Returned(s)' = Returned(s)
    BY DEF Returned
<1>4. NumbersReturned'
    BY <1>1, <1>2, <1>3 DEF OrderInv, NumbersReturned
<1>5. EachGoesUp'
    BY <1>1, <1>2 DEF OrderInv, EachGoesUp
<1>6. ASSUME NEW s \in Streams, NEW c \in Conns
      PROVE  Below(Numbers(s, Taken(c))', Numbers(s, retained[s])')
    BY <1>1, <1>2 DEF OrderInv, AllGoUp, Below
<1>7. AllGoUp'
    BY <1>2, <1>6 DEF OrderInv, AllGoUp, Below
<1>. QED
    BY <1>4, <1>5, <1>7 DEF OrderInv

\* A retained frame is the newest of its stream, and kept; an overflow drops the queue.
LEMMA RetainedFrames ==
  ASSUME IInv, OrderInv, NEW s \in Streams, SendRetained(s)
  PROVE  OrderInv'
<1> DEFINE x == NextFrame(s)
<1>1. TypeOK /\ NumbersReturned /\ EachGoesUp /\ AllGoUp
    BY DEF IInv, OrderInv
<1>2. Returns(s, "nil") /\ conn = Nil /\ UNCHANGED <<conn, connVars, server>>
    BY DEF SendRetained, RetainIf
<1>3. /\ \A t \in Streams : Returned(t) \subseteq Returned(t)'
      /\ x.n \in Returned(s)'
      /\ \A t \in Streams : \A n \in DOMAIN returned'[t] :
              \/ n \in DOMAIN returned[t] /\ returned'[t][n] = returned[t][n]
              \/ t = s /\ n = x.n /\ returned'[t][n] = "nil"
    BY <1>1, <1>2, ReturnsGrows
<1>4. \A t \in Streams, c \in Conns : /\ Numbers(t, Taken(c))' = Numbers(t, Taken(c))
                                      /\ GoesUp(t, Taken(c))' = GoesUp(t, Taken(c))
    BY <1>2 DEF Taken, Numbers, GoesUp, connVars
<1>5. \A c \in Conns : c # conn'
    BY <1>2, SessionAssumption
<1>6. \/ UNCHANGED <<retained, overflowed>> /\ overflowed
      \/ overflowed' = TRUE /\ retained' = [t \in Streams |-> <<>>]
      \/ UNCHANGED overflowed /\ retained' = [retained EXCEPT ![s] = Append(@, x)]
    BY DEF SendRetained, RetainIf
<1>7. /\ x \in Frame /\ x.sid = s
      /\ \A c \in Conns : \A n \in Numbers(s, Taken(c)) : n < x.n
      /\ \A n \in Numbers(s, retained[s]) : n < x.n
    BY <1>1, NextIsNewest
<1> HIDE DEF x
<1>8. CASE UNCHANGED <<retained, overflowed>> /\ overflowed
  <2>1. \A t \in Streams : \A c, d \in Conns :
          c # d /\ d = conn' => Below(Numbers(t, Taken(c)), Numbers(t, Taken(d)))
    BY <1>5
  <2>. QED
    BY <1>3, <1>4, <1>8, <2>1, OrderKept
<1>9. CASE overflowed' = TRUE /\ retained' = [t \in Streams |-> <<>>]
  <2>1. \A t \in Streams : /\ Numbers(t, retained[t])' = {} /\ GoesUp(t, retained[t])'
                           /\ DOMAIN retained'[t] = {}
    BY <1>9 DEF Numbers, GoesUp
  <2>2. NumbersReturned'
    BY <1>1, <1>3, <1>4, <2>1 DEF NumbersReturned
  <2>3. EachGoesUp'
    BY <1>1, <1>4, <2>1 DEF EachGoesUp
  <2>4. AllGoUp'
    BY <1>1, <1>4, <1>5, <2>1 DEF AllGoUp, Below
  <2>. QED
    BY <2>2, <2>3, <2>4 DEF OrderInv
<1>10. CASE UNCHANGED overflowed /\ retained' = [retained EXCEPT ![s] = Append(@, x)]
  <2>1. /\ retained'[s] = Append(retained[s], x) /\ retained[s] \in Seq(Frame)
        /\ \A t \in Streams \ {s} : retained'[t] = retained[t]
    BY <1>1, <1>10 DEF TypeOK
  <2>2. \A t \in Streams \ {s} : /\ Numbers(t, retained[t])' = Numbers(t, retained[t])
                                 /\ GoesUp(t, retained[t])' = GoesUp(t, retained[t])
    BY <2>1 DEF Numbers, GoesUp
  <2>3. Numbers(s, retained[s])' = Numbers(s, retained[s]) \cup {x.n}
    <3>1. Numbers(s, Append(retained[s], x))
            = Numbers(s, retained[s]) \cup {y.n : y \in {z \in {x} : z.sid = s}}
      BY <1>7, <2>1, NumbersAppend
    <3>2. Numbers(s, Append(retained[s], x)) = Numbers(s, retained[s]) \cup {x.n}
      BY <1>7, <3>1
    <3>. QED
      BY <2>1, <3>2 DEF Numbers
  <2>4. GoesUp(s, retained[s])'
    <3>1. GoesUp(s, retained[s])
      BY <1>1 DEF EachGoesUp
    <3>2. GoesUp(s, Append(retained[s], x))
      BY <1>7, <2>1, <3>1, GoesUpAppend
    <3>. QED
      BY <2>1, <3>2 DEF GoesUp
  <2>5. ASSUME NEW t \in Streams PROVE \A i \in DOMAIN retained'[t] : retained'[t][i].sid = t
    <3>1. \A i \in DOMAIN retained[t] : retained[t][i].sid = t
      BY <1>1 DEF NumbersReturned
    <3>2. CASE t = s
      <4>1. \A i \in DOMAIN Append(retained[s], x) :
              \/ i \in DOMAIN retained[s] /\ Append(retained[s], x)[i] = retained[s][i]
              \/ Append(retained[s], x)[i] = x
        BY <1>7, <2>1
      <4>. QED
        BY <1>7, <2>1, <3>1, <3>2, <4>1
    <3>. QED
      BY <2>1, <3>1, <3>2
  <2>6. NumbersReturned'
    <3>1. ASSUME NEW t \in Streams PROVE Numbers(t, retained[t])' \subseteq Returned(t)'
      <4>1. Numbers(t, retained[t]) \subseteq Returned(t)'
        BY <1>1, <1>3 DEF NumbersReturned
      <4>. QED
        BY <1>3, <2>2, <2>3, <4>1
    <3>2. ASSUME NEW t \in Streams, NEW c \in Conns
          PROVE  Numbers(t, Taken(c))' \subseteq Returned(t)'
      BY <1>1, <1>3, <1>4 DEF NumbersReturned
    <3>. QED
      BY <2>5, <3>1, <3>2 DEF NumbersReturned
  <2>7. EachGoesUp'
    BY <1>1, <1>4, <2>2, <2>4 DEF EachGoesUp
  <2>8. ASSUME NEW t \in Streams, NEW c \in Conns
        PROVE  Below(Numbers(t, Taken(c))', Numbers(t, retained[t])')
    <3>1. Below(Numbers(t, Taken(c)), Numbers(t, retained[t]))
      BY <1>1 DEF AllGoUp
    <3>2. CASE t = s
      BY <1>4, <1>7, <2>3, <3>1, <3>2 DEF Below
    <3>3. CASE t # s
      BY <1>4, <2>2, <3>1, <3>3
    <3>. QED
      BY <3>2, <3>3
  <2>9. AllGoUp'
    BY <1>1, <1>4, <1>5, <2>8 DEF AllGoUp, Below
  <2>. QED
    BY <2>6, <2>7, <2>9 DEF OrderInv
<1>. QED
    BY <1>6, <1>8, <1>9, <1>10

-----------------------------------------------------------------------------
(* The steps *)

\* bind moves no frame, and finds its connection without any.
LEMMA BindFrames ==
  ASSUME IInv, FramesInv, NEW b \in Conns, Bind(b) PROVE OrderInv'
<1>1. /\ pc[b] = "registered" /\ conn' = b
      /\ UNCHANGED <<retained, overflowed, sendCh, line, returned>>
    BY DEF Bind, Rebind
<1>2. Taken(b) = <<>>
  <2>1. sendCh[b] = <<>> /\ line[b] = <<>>
    BY <1>1 DEF FramesInv, OnlyBoundSend, Early, IInv, WrittenOnlyOnceServing
  <2>. QED
    BY <2>1 DEF Taken
<1>3. \A s \in Streams : Numbers(s, retained[s])' = Numbers(s, retained[s])
                         /\ Returned(s)' = Returned(s)
    BY <1>1 DEF Numbers, Returned
<1>4. \A s \in Streams, c \in Conns : /\ Numbers(s, Taken(c))' = Numbers(s, Taken(c))
                                      /\ GoesUp(s, Taken(c))' = GoesUp(s, Taken(c))
    BY <1>1 DEF Taken, Numbers, GoesUp
<1>5. \A s \in Streams : \A c, d \in Conns :
        c # d /\ d = conn' => Below(Numbers(s, Taken(c)), Numbers(s, Taken(d)))
    BY <1>1, <1>2, NumbersEmpty DEF Below
<1>. QED
    BY <1>1, <1>3, <1>4, <1>5, OrderKept DEF FramesInv, OrderInv

\* Writing, of CONNACK or of a frame out of sendCh, moves no frame of a stream; a failed
\* write takes one out.
LEMMA WriteFrames ==
  ASSUME IInv, OrderInv, NEW b \in Conns,
         Acknowledge(b) \/ WriteLoop(b)
  PROVE  OrderInv'
<1>1. UNCHANGED <<conn, retained, returned>>
    BY DEF Acknowledge, WriteLoop, Writes, WriteFails, TakesFrame, sessionVars
<1>2. /\ line[b] \in Seq(Item) /\ sendCh[b] \in Seq(Item)
      /\ \A c \in Conns \ {b} : line'[c] = line[c] /\ sendCh'[c] = sendCh[c]
    BY TakenType DEF IInv, TypeOK, Acknowledge, WriteLoop, Writes, WriteFails, TakesFrame
<1>3. ASSUME NEW s \in Streams
      PROVE  /\ Numbers(s, Taken(b))' \subseteq Numbers(s, Taken(b))
             /\ GoesUp(s, Taken(b)) => GoesUp(s, Taken(b))'
  <2>1. CASE Acknowledge(b)
    <3>1. line[b] = <<>> /\ line'[b] = Append(line[b], CONNACK) /\ sendCh'[b] = sendCh[b]
      BY <2>1 DEF Acknowledge, IInv, TypeOK, WrittenOnlyOnceServing
    <3>2. Taken(b) = sendCh[b] /\ Taken(b)' = <<CONNACK>> \o sendCh[b]
      <4>1. Append(line[b], CONNACK) = <<CONNACK>> /\ <<>> \o sendCh[b] = sendCh[b]
        BY <1>2, <3>1
      <4>. QED
        BY <3>1, <4>1 DEF Taken
    <3>3. /\ Numbers(s, <<CONNACK>> \o sendCh[b]) = Numbers(s, sendCh[b])
          /\ GoesUp(s, sendCh[b]) => GoesUp(s, <<CONNACK>> \o sendCh[b])
      BY <1>2, ConnackInFront
    <3>4. /\ Numbers(s, Taken(b))' = Numbers(s, <<CONNACK>> \o sendCh[b])
          /\ Numbers(s, Taken(b)) = Numbers(s, sendCh[b])
          /\ GoesUp(s, Taken(b))' = GoesUp(s, <<CONNACK>> \o sendCh[b])
          /\ GoesUp(s, Taken(b)) = GoesUp(s, sendCh[b])
      BY <3>2 DEF Numbers, GoesUp
    <3>. QED
      BY <3>3, <3>4
  <2>2. CASE Writes(b)
    <3>1. /\ sendCh[b] # <<>> /\ line'[b] = Append(line[b], Head(sendCh[b]))
          /\ sendCh'[b] = Tail(sendCh[b])
      BY <2>2 DEF Writes, TakesFrame, IInv, TypeOK
    <3>2. Append(line[b], Head(sendCh[b])) \o Tail(sendCh[b]) = line[b] \o sendCh[b]
      BY <1>2, <3>1, ConcatMove
    <3>3. Taken(b)' = Taken(b)
      BY <3>1, <3>2 DEF Taken
    <3>. QED
      BY <3>3 DEF Numbers, GoesUp
  <2>3. CASE WriteFails(b)
    <3>1. sendCh[b] # <<>> /\ line'[b] = line[b] /\ sendCh'[b] = Tail(sendCh[b])
      BY <2>3 DEF WriteFails, TakesFrame, IInv, TypeOK
    <3>2. /\ Numbers(s, line[b] \o Tail(sendCh[b])) \subseteq Numbers(s, line[b] \o sendCh[b])
          /\ GoesUp(s, line[b] \o sendCh[b]) => GoesUp(s, line[b] \o Tail(sendCh[b]))
      BY <1>2, <3>1, ConcatDrop
    <3>3. Taken(b) = line[b] \o sendCh[b] /\ Taken(b)' = line[b] \o Tail(sendCh[b])
      BY <3>1 DEF Taken
    <3>. QED
      BY <3>2, <3>3 DEF Numbers, GoesUp
  <2>. QED
    BY <2>1, <2>2, <2>3 DEF WriteLoop
<1>4. \A c \in Conns \ {b} : Taken(c)' = Taken(c)
    BY <1>2 DEF Taken
<1>5. \A s \in Streams, c \in Conns : /\ Numbers(s, Taken(c))' \subseteq Numbers(s, Taken(c))
                                      /\ GoesUp(s, Taken(c)) => GoesUp(s, Taken(c))'
  <2>1. ASSUME NEW s \in Streams, NEW c \in Conns \ {b}
        PROVE  /\ Numbers(s, Taken(c))' = Numbers(s, Taken(c))
               /\ GoesUp(s, Taken(c))' = GoesUp(s, Taken(c))
    BY <1>4 DEF Numbers, GoesUp
  <2>. QED
    BY <1>3, <2>1
<1>6. \A s \in Streams : Numbers(s, retained[s])' = Numbers(s, retained[s])
                         /\ Returned(s)' = Returned(s)
    BY <1>1 DEF Numbers, Returned
<1>7. \A s \in Streams : \A c, d \in Conns :
        c # d /\ d = conn' => Below(Numbers(s, Taken(c)), Numbers(s, Taken(d)))
    BY <1>1 DEF OrderInv, AllGoUp
<1>. QED
    BY <1>1, <1>5, <1>6, <1>7, OrderKept

\* The control part is inductive: a step moves handleConn on, unbinds or fills the bound
\* connection's queue.
LEMMA ControlStep == ASSUME IInv, OnlyBoundSend, Next PROVE OnlyBoundSend'
<1> USE SessionAssumption DEF OnlyBoundSend, Early, Late
<1>1. /\ conn \in Conns \cup {Nil} /\ pc \in [Conns -> Phases]
      /\ sendCh \in [Conns -> Seq(Frame)] /\ TypeOK
    BY DEF IInv, TypeOK
<1>2. ASSUME NEW c \in Conns, NEW phase \in {"handshake", "closed", "decided", "elsewhere",
                                             "registered", "serving", "unbinding"},
             GoTo(c, phase), phase \in Late \/ (pc[c] \in Early /\ conn # c),
             pc[c] \in Late \/ sendCh[c] = <<>>,
             UNCHANGED sendCh, conn' \in {conn, Nil}
      PROVE  OnlyBoundSend'
    BY <1>1, <1>2 DEF GoTo
<1>3. ASSUME NEW c \in Conns, Bind(c) PROVE OnlyBoundSend'
  <2>1. ReplayRest(c, retained) /\ conn' = c /\ UNCHANGED sendCh
    BY <1>3 DEF Bind, Rebind
  <2>2. (\A d \in Conns \ {c} : pc'[d] = pc[d]) /\ pc'[c] \in {"bound", "replaying"}
    BY <1>1, <2>1, ReplayRestEffect DEF TypeOK
  <2>. QED
    BY <2>1, <2>2
<1>4. ASSUME NEW c \in Conns, ReplayFrame(c) PROVE OnlyBoundSend'
  <2>1. PICK q : Replay(c, q)
    BY <1>4 DEF ReplayFrame, ReplayToQueue
  <2>2. /\ pc[c] = "replaying" /\ \A d \in Conns \ {c} : sendCh'[d] = sendCh[d]
        /\ ReplayRest(c, [retained EXCEPT ![at] = Tail(@)])
        /\ UNCHANGED conn
    BY <1>1, <2>1 DEF Replay
  <2>3. (\A d \in Conns \ {c} : pc'[d] = pc[d]) /\ pc'[c] \in {"bound", "replaying"}
    BY <1>1, <2>2 DEF ReplayRest, GoTo
  <2>. QED
    BY <1>1, <2>2, <2>3
<1>5. ASSUME UNCHANGED <<pc, sendCh>>, conn' \in {conn, Nil} PROVE OnlyBoundSend'
    BY <1>1, <1>5
<1>6. ASSUME NEW q, UNCHANGED <<pc, conn>>, conn \in Conns,
             sendCh' = [sendCh EXCEPT ![conn] = q]
      PROVE  OnlyBoundSend'
    BY <1>1, <1>6
<1>7. ASSUME NEW c \in Conns, Accept(c) \/ RejectHandshake(c) \/ CreateSession(c)
      PROVE  OnlyBoundSend'
    BY <1>1, <1>2, <1>7 DEF Accept, RejectHandshake, CreateSession, sessionVars
<1>8. ASSUME NEW c \in Conns, ResumeSession(c) \/ Register(c) PROVE OnlyBoundSend'
    BY <1>1, <1>2, <1>8 DEF ResumeSession, Register, sessionVars
<1>9. ASSUME NEW c \in Conns, Acknowledge(c) \/ AcknowledgeFails(c) PROVE OnlyBoundSend'
    BY <1>1, <1>2, <1>9 DEF Acknowledge, AcknowledgeFails, sessionVars
<1>10. ASSUME NEW c \in Conns, Deregister(c) \/ HandleConnUnbinds(c) PROVE OnlyBoundSend'
    BY <1>1, <1>2, <1>10 DEF Deregister, HandleConnUnbinds, Unbind, sessionVars
<1>11. ASSUME NEW c \in Conns, OnDead(c) \/ ConnFails(c) \/ CloseKills(c) PROVE OnlyBoundSend'
    BY <1>5, <1>11 DEF OnDead, Unbind, ConnFails, CloseKills, sessionVars
<1>12. ASSUME NEW c \in Conns, WriteLoop(c) PROVE OnlyBoundSend'
  <2>1. /\ pc[c] \in Late /\ \A d \in Conns \ {c} : sendCh'[d] = sendCh[d]
        /\ UNCHANGED <<conn, pc>>
    BY <1>1, <1>12
       DEF WriteLoop, Writes, WriteFails, TakesFrame, sessionVars, IInv, WritingWasAcknowledged,
           WrittenOnlyOnceServing
  <2>. QED
    BY <1>1, <2>1
<1>13. CASE TimerExpires \/ DropSession \/ Terminate
    BY <1>5, <1>13 DEF TimerExpires, DropSession, Terminate, connVars
<1>14. CASE CloseServer \/ CloseReturns
    BY <1>5, <1>14 DEF CloseServer, CloseReturns, sessionVars, connVars
<1>15. CASE SendUnblocks \/ SendCancelled
  <2>1. PICK q, result : HeldSendEnds(q, result)
    BY <1>15 DEF SendUnblocks, SendGetsRoom, SendCancelled
  <2>. QED
    BY <1>6, <2>1 DEF HeldSendEnds, IInv, HeldSendHasConn
<1>16. ASSUME NEW s \in Streams, SendToConn(s) PROVE OnlyBoundSend'
  <2>1. conn \in Conns /\ UNCHANGED <<pc, conn>>
    BY <1>1, <1>16 DEF SendToConn
  <2>2. sendCh' = [sendCh EXCEPT ![conn] = Append(@, NextFrame(s))] \/ UNCHANGED sendCh
    BY <1>16 DEF SendToConn
  <2>3. CASE sendCh' = [sendCh EXCEPT ![conn] = Append(@, NextFrame(s))]
    BY <1>6, <2>1, <2>3
  <2>4. CASE UNCHANGED sendCh
    BY <1>5, <2>1, <2>4
  <2>. QED
    BY <2>2, <2>3, <2>4
<1>17. ASSUME NEW s \in Streams, SendRefused(s) \/ SendRetained(s) PROVE OnlyBoundSend'
    BY <1>5, <1>17 DEF SendRefused, SendRetained, RetainIf, sessionVars, connVars
<1> QED
    BY <1>3, <1>4, <1>7, <1>8, <1>9, <1>10, <1>11, <1>12, <1>13, <1>14, <1>15, <1>16, <1>17
       DEF Next, HandleConn, DropCall, CloseCall, SendDown

\* The order of the frames is inductive: one step per action.
LEMMA FramesStep ==
  ASSUME IInv, FramesInv, [Next]_vars PROVE OrderInv'
<1>1. /\ TypeOK /\ OrderInv
      /\ conn \in Conns \cup {Nil} /\ sendCh \in [Conns -> Seq(Frame)]
    BY DEF IInv, TypeOK, FramesInv, OrderInv
<1>2. ASSUME conn' \in {conn, Nil}, UNCHANGED <<retained, sendCh, line, returned>>
      PROVE  OrderInv'
    BY <1>1, <1>2, QuietFrames
<1>3. ASSUME NEW c \in Conns, Bind(c) PROVE OrderInv'
    BY <1>3, BindFrames
<1>4. ASSUME NEW c \in Conns, Acknowledge(c) \/ WriteLoop(c)
      PROVE  OrderInv'
    BY <1>1, <1>4, WriteFrames
<1>5. ASSUME NEW c \in Conns, ReplayFrame(c) PROVE OrderInv'
  <2>1. pc[c] = "replaying"
    BY <1>5 DEF ReplayFrame, ReplayToQueue, Replay
  <2>2. PICK p \in Streams : p = at /\ conn = c /\ retained[p] # <<>>
    BY <2>1 DEF IInv, ReplayHoldsMutex
  <2>3. retained' = [retained EXCEPT ![p] = Tail(@)]
    BY <1>5, <2>2 DEF ReplayFrame, ReplayToQueue, Replay
  <2>4. UNCHANGED <<conn, line, returned>>
    BY <1>5 DEF ReplayFrame, ReplayToQueue, Replay
  <2>5. CASE ReplayToQueue(c)
    <3>1. sendCh' = [sendCh EXCEPT ![c] = Append(@, Head(retained[p]))]
      BY <1>1, <2>2, <2>5 DEF ReplayToQueue, Replay
    <3>. QED
      BY <1>1, <2>2, <2>3, <2>4, <3>1, ReplayedFrames
  <2>6. CASE Dead(c) /\ Replay(c, sendCh[c])
    <3>1. UNCHANGED sendCh
      BY <1>1, <2>6 DEF Replay
    <3>. QED
      BY <1>1, <2>2, <2>3, <2>4, <3>1, LostFrames
  <2>. QED
    BY <1>5, <2>5, <2>6 DEF ReplayFrame
<1>6. ASSUME NEW q, NEW result, HeldSendEnds(q, result)
      PROVE  /\ conn \in Conns /\ at \in Streams /\ mu = "sendDown"
             /\ sendCh' = [sendCh EXCEPT ![conn] = q] /\ Returns(at, result)
             /\ UNCHANGED <<conn, retained, line>>
    BY <1>6 DEF HeldSendEnds, IInv, HeldSendHasConn
<1>7. CASE HeldSendEnds(sendCh[conn], "error")
  <2>1. /\ at \in Streams /\ Returns(at, "error")
        /\ sendCh' = [sendCh EXCEPT ![conn] = sendCh[conn]]
        /\ UNCHANGED <<conn, retained, line>>
    BY <1>6, <1>7
  <2>2. UNCHANGED sendCh
    BY <1>1, <2>1
  <2>. QED
    BY <1>1, <2>1, <2>2, RefusedFrames
<1>8. CASE HeldSendEnds(Append(sendCh[conn], NextFrame(at)), "nil")
  <2>1. /\ conn \in Conns /\ at \in Streams /\ mu # "bind" /\ Returns(at, "nil")
        /\ sendCh' = [sendCh EXCEPT ![conn] = Append(sendCh[conn], NextFrame(at))]
        /\ UNCHANGED <<conn, retained, line>>
    BY <1>6, <1>8
  <2>2. sendCh' = [sendCh EXCEPT ![conn] = Append(@, NextFrame(at))]
    BY <2>1
  <2>. QED
    BY <1>1, <2>1, <2>2, SentFrames
<1>9. CASE SendUnblocks \/ SendCancelled
    BY <1>7, <1>8, <1>9 DEF SendUnblocks, SendGetsRoom, SendCancelled
<1>10. ASSUME NEW s \in Streams, SendToConn(s) PROVE OrderInv'
  <2>1. /\ conn \in Conns /\ mu # "bind"
        /\ UNCHANGED <<conn, retained, line>>
    BY <1>1, <1>10 DEF SendToConn, Calls
  <2>2. CASE sendCh' = [sendCh EXCEPT ![conn] = Append(@, NextFrame(s))] /\ Returns(s, "nil")
    BY <1>1, <2>1, <2>2, SentFrames
  <2>3. CASE UNCHANGED <<sendCh, returned>>
    BY <1>2, <2>1, <2>3
  <2>. QED
    BY <1>10, <2>2, <2>3 DEF SendToConn
<1>11. ASSUME NEW s \in Streams, SendRefused(s) PROVE OrderInv'
  <2>1. Returns(s, "error") /\ UNCHANGED <<conn, retained, sendCh, line>>
    BY <1>11 DEF SendRefused, sessionVars, connVars
  <2>. QED
    BY <1>1, <2>1, RefusedFrames
<1>12. ASSUME NEW s \in Streams, SendRetained(s) PROVE OrderInv'
    BY <1>1, <1>12, RetainedFrames
<1>13. ASSUME NEW c \in Conns,
              \/ Accept(c) \/ RejectHandshake(c) \/ CreateSession(c) \/ ResumeSession(c)
              \/ Register(c) \/ AcknowledgeFails(c) \/ Deregister(c) \/ HandleConnUnbinds(c)
              \/ OnDead(c) \/ ConnFails(c) \/ CloseKills(c)
       PROVE  OrderInv'
    BY <1>2, <1>13
       DEF Accept, RejectHandshake, CreateSession, ResumeSession, Register, AcknowledgeFails,
           Deregister, HandleConnUnbinds, OnDead, ConnFails, CloseKills, Unbind, sessionVars
<1>14. CASE \/ TimerExpires \/ DropSession \/ Terminate \/ CloseServer \/ CloseReturns
            \/ UNCHANGED vars
    BY <1>2, <1>14
       DEF TimerExpires, DropSession, Terminate, CloseServer, CloseReturns, sessionVars, connVars,
           vars
<1>. QED
    BY <1>3, <1>4, <1>5, <1>9, <1>10, <1>11, <1>12, <1>13, <1>14
       DEF Next, HandleConn, DropCall, CloseCall, SendDown

-----------------------------------------------------------------------------
(* What is lost *)

\* the ways in which LostOnlyWithConnection lets a step lose frame n of stream s
Permitted(s, n) ==
  \/ \E c \in Conns : ~Gone(c) /\ Gone(c)' /\ n \in Numbers(s, sendCh[c])
  \/ n \notin Accepted(s) /\ Gone(conn) /\ (mu = "sendDown" \/ ~Dead(conn))
  \/ mu = "bind" /\ Dead(conn)

NoOtherLoss == \A s \in Streams : \A n \in Lost(s)' \ Lost(s) : Permitted(s, n)

\* The head of a queue and its tail have all its numbers.
LEMMA HeadOrTail ==
  ASSUME NEW S, NEW q \in Seq(S), q # <<>>, NEW s, NEW n \in Numbers(s, q)
  PROVE  n \in Numbers(s, Tail(q)) \/ (Head(q).sid = s /\ n = Head(q).n)
<1>1. PICK i \in DOMAIN q : q[i].sid = s /\ q[i].n = n
    BY NumbersMember
<1>2. CASE i = 1
  <2>1. q[1] = Head(q)
    OBVIOUS
  <2>. QED
    BY <1>1, <1>2, <2>1
<1>3. CASE i # 1
  <2>1. /\ Len(q) \in Nat \ {0} /\ i \in 1..Len(q) /\ DOMAIN Tail(q) = 1..(Len(q) - 1)
        /\ \A j \in DOMAIN Tail(q) : Tail(q)[j] = q[j + 1]
    BY <1>1
  <2>2. i - 1 \in DOMAIN Tail(q) /\ (i - 1) + 1 = i
    BY <1>3, <2>1
  <2>3. Tail(q)[i - 1] = q[i]
    BY <2>1, <2>2
  <2>4. \E j \in DOMAIN Tail(q) : Tail(q)[j].sid = s /\ Tail(q)[j].n = n
    BY <1>1, <2>2, <2>3
  <2>5. n \in Numbers(s, Tail(q))
    BY <2>4 DEF Numbers
  <2>. QED
    BY <2>5
<1>. QED
    BY <1>2, <1>3

\* A step loses nothing unasked if what is retained, written and, on the connections that
\* it leaves in service, queued stays somewhere, and what it accepts is safe.
LEMMA LossStep ==
  ASSUME \A s \in Streams : \A n \in Numbers(s, retained[s]) : Safe(s, n)' \/ Permitted(s, n),
         \A s \in Streams, c \in Conns : Numbers(s, line[c]) \subseteq Numbers(s, line[c])',
         \A s \in Streams, c \in Conns : \A n \in Numbers(s, sendCh[c]) :
           Gone(c)' \/ n \in Numbers(s, sendCh[c])' \/ n \in Numbers(s, line[c])',
         \A s \in Streams : \A n \in Accepted(s)' :
           n \in Accepted(s) \/ Safe(s, n)' \/ Permitted(s, n)
  PROVE  NoOtherLoss
<1> SUFFICES ASSUME NEW s \in Streams, NEW n, n \in Lost(s)', n \notin Lost(s)
             PROVE  Permitted(s, n)
    BY DEF NoOtherLoss
<1>1. n \in Accepted(s)' /\ ~Safe(s, n)'
    BY DEF Lost
<1>2. CASE n \notin Accepted(s)
    BY <1>1, <1>2
<1>3. CASE n \in Accepted(s)
  <2>1. Safe(s, n)
    BY <1>3 DEF Lost
  <2>2. CASE n \in Numbers(s, retained[s])
    BY <1>1, <2>2
  <2>3. ASSUME NEW c \in Conns, n \in Numbers(s, line[c]) PROVE FALSE
    <3>1. n \in Numbers(s, line[c])'
      BY <2>3
    <3>. QED
      BY <1>1, <3>1 DEF Safe
  <2>4. ASSUME NEW c \in Conns, ~Gone(c), n \in Numbers(s, sendCh[c]) PROVE Permitted(s, n)
    <3>1. Gone(c)' \/ n \in Numbers(s, sendCh[c])' \/ n \in Numbers(s, line[c])'
      BY <2>4
    <3>2. Gone(c)'
      BY <1>1, <3>1 DEF Safe
    <3>. QED
      BY <2>4, <3>2 DEF Permitted
  <2>. QED
    BY <2>1, <2>2, <2>3, <2>4 DEF Safe
<1>. QED
    BY <1>2, <1>3

\* A step that moves no frame and answers no sendDown can only end a connection.
LEMMA QuietLoss ==
  ASSUME UNCHANGED <<retained, line, sendCh, returned>> PROVE NoOtherLoss
<1>1. \A s \in Streams, c \in Conns : /\ Numbers(s, line[c])' = Numbers(s, line[c])
                                      /\ Numbers(s, sendCh[c])' = Numbers(s, sendCh[c])
    BY DEF Numbers
<1>2. \A s \in Streams : Numbers(s, retained[s])' = Numbers(s, retained[s])
    BY DEF Numbers
<1>3. \A s \in Streams : Accepted(s)' = Accepted(s)
    BY DEF Accepted
<1>. QED
    BY <1>1, <1>2, <1>3, LossStep DEF Safe

\* What a send that returns nil accepts is its own frame only, an error nothing.
LEMMA AcceptedGrows ==
  ASSUME TypeOK, NEW s \in Streams, NEW result, Returns(s, result)
  PROVE  /\ \A t \in Streams : \A n \in Accepted(t)' :
              n \in Accepted(t) \/ (t = s /\ n = NextFrame(s).n /\ result = "nil")
         /\ NextFrame(s).n \notin Accepted(s)
<1>1. \A t \in Streams : \A n \in DOMAIN returned'[t] :
        \/ n \in DOMAIN returned[t] /\ returned'[t][n] = returned[t][n]
        \/ t = s /\ n = NextFrame(s).n /\ returned'[t][n] = result
    BY ReturnsGrows
<1>2. NextFrame(s).n = Len(returned[s]) + 1 /\ Len(returned[s]) \in Nat
      /\ DOMAIN returned[s] = 1..Len(returned[s])
    BY DEF TypeOK, NextFrame
<1>3. NextFrame(s).n \notin DOMAIN returned[s]
    BY <1>2
<1>4. ASSUME NEW t \in Streams, NEW n \in Accepted(t)'
      PROVE  n \in Accepted(t) \/ (t = s /\ n = NextFrame(s).n /\ result = "nil")
  <2>1. n \in DOMAIN returned'[t] /\ returned'[t][n] = "nil"
    BY <1>4 DEF Accepted
  <2>. QED
    BY <1>1, <2>1 DEF Accepted
<1>. QED
    BY <1>3, <1>4 DEF Accepted

\* A refused send accepts nothing.
LEMMA RefusedLoss ==
  ASSUME TypeOK, NEW s \in Streams, Returns(s, "error"), UNCHANGED <<retained, line, sendCh>>
  PROVE  NoOtherLoss
<1>1. \A t \in Streams, c \in Conns : /\ Numbers(t, line[c])' = Numbers(t, line[c])
                                      /\ Numbers(t, sendCh[c])' = Numbers(t, sendCh[c])
    BY DEF Numbers
<1>2. \A t \in Streams : Numbers(t, retained[t])' = Numbers(t, retained[t])
    BY DEF Numbers
<1>3. \A t \in Streams : \A n \in Accepted(t)' : n \in Accepted(t)
    BY AcceptedGrows
<1>. QED
    BY <1>1, <1>2, <1>3, LossStep DEF Safe

\* The numbers in sendCh of b when x is put there.
LEMMA QueueGrows ==
  ASSUME TypeOK, NEW b \in Conns, NEW x \in Frame, sendCh' = [sendCh EXCEPT ![b] = Append(@, x)]
  PROVE  /\ \A s \in Streams, c \in Conns : Numbers(s, sendCh[c]) \subseteq Numbers(s, sendCh[c])'
         /\ x.n \in Numbers(x.sid, sendCh[b])'
<1>1. sendCh[b] \in Seq(Frame) /\ sendCh'[b] = Append(sendCh[b], x)
      /\ \A c \in Conns \ {b} : sendCh'[c] = sendCh[c]
    BY DEF TypeOK
<1>2. \A s : Numbers(s, Append(sendCh[b], x))
               = Numbers(s, sendCh[b]) \cup {y.n : y \in {z \in {x} : z.sid = s}}
    BY <1>1, NumbersAppend
<1>3. \A s : Numbers(s, sendCh[b])' = Numbers(s, Append(sendCh[b], x))
    BY <1>1 DEF Numbers
<1>4. \A c \in Conns \ {b} : \A s : Numbers(s, sendCh[c])' = Numbers(s, sendCh[c])
    BY <1>1 DEF Numbers
<1>5. ASSUME NEW s \in Streams, NEW c \in Conns
      PROVE  Numbers(s, sendCh[c]) \subseteq Numbers(s, sendCh[c])'
  <2>1. CASE c = b
    BY <1>2, <1>3, <2>1
  <2>2. CASE c # b
    BY <1>4, <2>2
  <2>. QED
    BY <2>1, <2>2
<1>6. x.n \in Numbers(x.sid, sendCh[b])'
    BY <1>2, <1>3
<1>. QED
    BY <1>5, <1>6

\* The next frame of a stream is a frame of it.
LEMMA NextFrameType ==
  ASSUME TypeOK, NEW s \in Streams PROVE NextFrame(s) \in Frame /\ NextFrame(s).sid = s
<1>1. Len(returned[s]) \in Nat
    BY DEF TypeOK
<1>. QED
    BY <1>1 DEF NextFrame, Frame

\* A frame that sendDown puts into sendCh is safe there, or the connection was gone and
\* sendDown, blocked or not yet acknowledged, could not tell.
LEMMA SentLoss ==
  ASSUME IInv, NEW s \in Streams, conn \in Conns, mu = "sendDown" \/ ~Dead(conn),
         Returns(s, "nil"), sendCh' = [sendCh EXCEPT ![conn] = Append(@, NextFrame(s))],
         UNCHANGED <<conn, retained, line, pc, death>>
  PROVE  NoOtherLoss
<1>1. TypeOK
    BY DEF IInv
<1>2. PICK x \in Frame : x = NextFrame(s) /\ x.sid = s
    BY <1>1, NextFrameType
<1>3. /\ \A t \in Streams : \A n \in Accepted(t)' : n \in Accepted(t) \/ (t = s /\ n = x.n)
      /\ x.n \notin Accepted(s)
    BY <1>1, <1>2, AcceptedGrows
<1>4. PICK b \in Conns : b = conn
    OBVIOUS
<1>5. sendCh' = [sendCh EXCEPT ![b] = Append(@, x)]
    BY <1>2, <1>4
<1>6. /\ \A t \in Streams, c \in Conns : Numbers(t, sendCh[c]) \subseteq Numbers(t, sendCh[c])'
      /\ x.n \in Numbers(s, sendCh[b])'
    BY <1>1, <1>2, <1>5, QueueGrows
<1>7. \A t \in Streams, c \in Conns : Numbers(t, line[c])' = Numbers(t, line[c])
    BY DEF Numbers
<1>8. \A t \in Streams : Numbers(t, retained[t])' = Numbers(t, retained[t])
    BY DEF Numbers
<1>9. Safe(s, x.n)' \/ Permitted(s, x.n)
  <2>1. Gone(b)' = Gone(b)
    BY DEF Gone, Dead
  <2>2. CASE Gone(b)
    BY <1>3, <1>4, <2>2 DEF Permitted
  <2>3. CASE ~Gone(b)
    BY <1>6, <2>1, <2>3 DEF Safe
  <2>. QED
    BY <2>2, <2>3
<1>10. \A t \in Streams : \A n \in Numbers(t, retained[t]) : Safe(t, n)'
    BY <1>8 DEF Safe
<1>11. \A t \in Streams, c \in Conns : \A n \in Numbers(t, sendCh[c]) : n \in Numbers(t, sendCh[c])'
    BY <1>6
<1>12. \A t \in Streams : \A n \in Accepted(t)' :
         n \in Accepted(t) \/ Safe(t, n)' \/ Permitted(t, n)
    BY <1>3, <1>9
<1>. QED
    BY <1>7, <1>10, <1>11, <1>12, LossStep

\* A retained frame is safe, unless the queue overflows.
LEMMA RetainedLoss ==
  ASSUME IInv, NEW s \in Streams, SendRetained(s), ~overflowed' PROVE NoOtherLoss
<1>1. TypeOK
    BY DEF IInv
<1>2. PICK x \in Frame : x = NextFrame(s) /\ x.sid = s
    BY <1>1, NextFrameType
<1>3. /\ Returns(s, "nil") /\ UNCHANGED <<sendCh, line>>
      /\ retained' = [retained EXCEPT ![s] = Append(@, x)]
    BY <1>2 DEF SendRetained, RetainIf, connVars
<1>4. \A t \in Streams : \A n \in Accepted(t)' : n \in Accepted(t) \/ (t = s /\ n = x.n)
    BY <1>1, <1>2, <1>3, AcceptedGrows
<1>5. /\ retained'[s] = Append(retained[s], x) /\ retained[s] \in Seq(Frame)
      /\ \A t \in Streams \ {s} : retained'[t] = retained[t]
    BY <1>1, <1>3 DEF TypeOK
<1>6. \A t \in Streams : Numbers(t, retained[t]) \subseteq Numbers(t, retained[t])'
  <2>1. Numbers(s, Append(retained[s], x))
          = Numbers(s, retained[s]) \cup {y.n : y \in {z \in {x} : z.sid = s}}
    BY <1>2, <1>5, NumbersAppend
  <2>2. Numbers(s, retained[s])' = Numbers(s, Append(retained[s], x))
    BY <1>5 DEF Numbers
  <2>3. \A t \in Streams \ {s} : Numbers(t, retained[t])' = Numbers(t, retained[t])
    BY <1>5 DEF Numbers
  <2>. QED
    BY <2>1, <2>2, <2>3
<1>7. x.n \in Numbers(s, retained[s])'
  <2>1. Numbers(s, Append(retained[s], x))
          = Numbers(s, retained[s]) \cup {y.n : y \in {z \in {x} : z.sid = s}}
    BY <1>2, <1>5, NumbersAppend
  <2>2. Numbers(s, retained[s])' = Numbers(s, Append(retained[s], x))
    BY <1>5 DEF Numbers
  <2>. QED
    BY <1>2, <2>1, <2>2
<1>8. \A t \in Streams, c \in Conns : /\ Numbers(t, line[c])' = Numbers(t, line[c])
                                      /\ Numbers(t, sendCh[c])' = Numbers(t, sendCh[c])
    BY <1>3 DEF Numbers
<1>9. \A t \in Streams : \A n \in Numbers(t, retained[t]) : Safe(t, n)'
    BY <1>6 DEF Safe
<1>10. Safe(s, x.n)'
    BY <1>7 DEF Safe
<1>11. \A t \in Streams : \A n \in Accepted(t)' : n \in Accepted(t) \/ Safe(t, n)'
    BY <1>4, <1>10
<1>. QED
    BY <1>8, <1>9, <1>11, LossStep

\* A replayed frame is in sendCh of a connection that lives, or was replayed to a dead one.
LEMMA ReplayedLoss ==
  ASSUME IInv, OrderInv, NEW b \in Conns, ReplayFrame(b) PROVE NoOtherLoss
<1>1. TypeOK /\ pc[b] = "replaying" /\ mu = "bind" /\ conn = b
    BY DEF IInv, ReplayHoldsMutex, ReplayFrame, ReplayToQueue, Replay
<1>2. PICK p \in Streams : p = at /\ retained[p] # <<>>
    BY <1>1 DEF IInv, ReplayHoldsMutex
<1>3. retained' = [retained EXCEPT ![p] = Tail(@)] /\ UNCHANGED <<line, returned, death>>
    BY <1>2 DEF ReplayFrame, ReplayToQueue, Replay
<1>4. \A t \in Streams, c \in Conns : Numbers(t, line[c])' = Numbers(t, line[c])
    BY <1>3 DEF Numbers
<1>5. \A t \in Streams : Accepted(t)' = Accepted(t)
    BY <1>3 DEF Accepted
<1>6. CASE ReplayToQueue(b)
  <2>0. PICK x : x = Head(retained[p])
    OBVIOUS
  <2>1. sendCh' = [sendCh EXCEPT ![b] = Append(@, x)] /\ ~Dead(b)
    BY <1>1, <1>2, <1>6, <2>0 DEF ReplayToQueue, Replay, TypeOK
  <2>2. /\ x \in Frame /\ x.sid = p
        /\ Numbers(p, retained[p]) = Numbers(p, retained[p])' \cup {x.n}
        /\ \A s \in Streams \ {p} : Numbers(s, retained[s])' = Numbers(s, retained[s])
    BY <1>2, <1>3, <2>0, ReplayTakesHead
  <2>3. /\ \A t \in Streams, c \in Conns : Numbers(t, sendCh[c]) \subseteq Numbers(t, sendCh[c])'
        /\ x.n \in Numbers(p, sendCh[b])'
    BY <1>1, <2>1, <2>2, QueueGrows
  <2>4. ~Gone(b)'
    <3>1. pc'[b] \in {"bound", "replaying"}
      BY <1>1, <1>6 DEF ReplayToQueue, Replay, ReplayRest, GoTo, TypeOK
    <3>. QED
      BY <1>3, <2>1, <3>1 DEF Gone, Dead
  <2>5. Safe(p, x.n)'
    BY <2>3, <2>4 DEF Safe
  <2>6. ASSUME NEW t \in Streams, NEW n \in Numbers(t, retained[t]) PROVE Safe(t, n)'
    <3>1. n \in Numbers(t, retained[t])' \/ (t = p /\ n = x.n)
      BY <2>2, <2>6
    <3>2. n \in Numbers(t, retained[t])' => Safe(t, n)'
      BY DEF Safe
    <3>. QED
      BY <2>5, <3>1, <3>2
  <2>7. \A t \in Streams, c \in Conns : \A n \in Numbers(t, sendCh[c]) : n \in Numbers(t, sendCh[c])'
    BY <2>3
  <2>. QED
    BY <1>4, <1>5, <2>6, <2>7, LossStep
<1>7. CASE Dead(b) /\ Replay(b, sendCh[b])
  <2>1. sendCh' = sendCh
    BY <1>1, <1>7 DEF Replay, TypeOK
  <2>2. \A s \in Streams : \A n : Permitted(s, n)
    BY <1>1, <1>7 DEF Permitted
  <2>. QED
    BY <2>2 DEF NoOtherLoss
<1>. QED
    BY <1>6, <1>7 DEF ReplayFrame

\* Writing moves a frame from sendCh to line; a write that fails ends the connection.
LEMMA WriteLoss ==
  ASSUME IInv, NEW b \in Conns, Acknowledge(b) \/ WriteLoop(b) PROVE NoOtherLoss
<1>1. UNCHANGED <<retained, returned>>
    BY DEF Acknowledge, WriteLoop, Writes, WriteFails, TakesFrame, sessionVars
<1>2. /\ TypeOK /\ line[b] \in Seq(Item) /\ sendCh[b] \in Seq(Item)
      /\ \A c \in Conns \ {b} : line'[c] = line[c] /\ sendCh'[c] = sendCh[c]
    BY TakenType DEF IInv, TypeOK, Acknowledge, WriteLoop, Writes, WriteFails, TakesFrame
<1>3. ASSUME NEW s \in Streams
      PROVE  /\ Numbers(s, line[b]) \subseteq Numbers(s, line[b])'
             /\ \A n \in Numbers(s, sendCh[b]) :
                  Gone(b)' \/ n \in Numbers(s, sendCh[b])' \/ n \in Numbers(s, line[b])'
  <2>1. CASE Acknowledge(b)
    <3>1. line'[b] = Append(line[b], CONNACK) /\ sendCh'[b] = sendCh[b] /\ CONNACK \in Item
      BY <1>2, <2>1 DEF Acknowledge, TypeOK, Item
    <3>2. Numbers(s, line[b]) \subseteq Numbers(s, Append(line[b], CONNACK))
      BY <1>2, <3>1, NumbersAppend
    <3>. QED
      BY <3>1, <3>2 DEF Numbers
  <2>2. CASE Writes(b)
    <3> DEFINE x == Head(sendCh[b])
    <3>1. /\ sendCh[b] # <<>> /\ line'[b] = Append(line[b], x) /\ sendCh'[b] = Tail(sendCh[b])
          /\ x \in Item
      BY <1>2, <2>2 DEF Writes, TakesFrame, TypeOK
    <3>2. \A n \in Numbers(s, sendCh[b]) : n \in Numbers(s, Tail(sendCh[b])) \/ (x.sid = s /\ n = x.n)
      BY <1>2, <3>1, HeadOrTail
    <3> HIDE DEF x
    <3>3. Numbers(s, Append(line[b], x))
            = Numbers(s, line[b]) \cup {y.n : y \in {z \in {x} : z.sid = s}}
      BY <1>2, <3>1, NumbersAppend
    <3>4. /\ Numbers(s, line[b])' = Numbers(s, Append(line[b], x))
          /\ Numbers(s, sendCh[b])' = Numbers(s, Tail(sendCh[b]))
      BY <3>1 DEF Numbers
    <3>. QED
      BY <3>2, <3>3, <3>4
  <2>3. CASE WriteFails(b)
    <3>1. line'[b] = line[b] /\ Gone(b)'
      BY <1>2, <2>3 DEF WriteFails, Kill, Gone, Dead, TypeOK
    <3>2. Numbers(s, line[b])' = Numbers(s, line[b])
      BY <3>1 DEF Numbers
    <3>. QED
      BY <3>1, <3>2
  <2>. QED
    BY <2>1, <2>2, <2>3 DEF WriteLoop
<1>4. \A c \in Conns \ {b}, s \in Streams : /\ Numbers(s, line[c])' = Numbers(s, line[c])
                                            /\ Numbers(s, sendCh[c])' = Numbers(s, sendCh[c])
    BY <1>2 DEF Numbers
<1>5. \A s \in Streams : Numbers(s, retained[s])' = Numbers(s, retained[s])
    BY <1>1 DEF Numbers
<1>6. \A s \in Streams : Accepted(s)' = Accepted(s)
    BY <1>1 DEF Accepted
<1>7. \A s \in Streams : \A n \in Numbers(s, retained[s]) : Safe(s, n)'
    BY <1>5 DEF Safe
<1>8. \A s \in Streams, c \in Conns :
        /\ Numbers(s, line[c]) \subseteq Numbers(s, line[c])'
        /\ \A n \in Numbers(s, sendCh[c]) :
             Gone(c)' \/ n \in Numbers(s, sendCh[c])' \/ n \in Numbers(s, line[c])'
    BY <1>3, <1>4
<1>. QED
    BY <1>6, <1>7, <1>8, LossStep

\* No step loses a frame in another way: one step per action.
LEMMA LossOfStep ==
  ASSUME IInv, OrderInv, [Next]_vars, ~overflowed' PROVE NoOtherLoss
<1>1. TypeOK /\ conn \in Conns \cup {Nil} /\ sendCh \in [Conns -> Seq(Frame)]
    BY DEF IInv, TypeOK
<1>2. ASSUME NEW c \in Conns, Bind(c) PROVE NoOtherLoss
    BY <1>2, QuietLoss DEF Bind, Rebind
<1>3. ASSUME NEW c \in Conns, Acknowledge(c) \/ WriteLoop(c) PROVE NoOtherLoss
    BY <1>3, WriteLoss
<1>4. ASSUME NEW c \in Conns, ReplayFrame(c) PROVE NoOtherLoss
    BY <1>4, ReplayedLoss
<1>5. ASSUME NEW q, NEW result, HeldSendEnds(q, result)
      PROVE  /\ conn \in Conns /\ at \in Streams /\ mu = "sendDown"
             /\ sendCh' = [sendCh EXCEPT ![conn] = q] /\ Returns(at, result)
             /\ UNCHANGED <<conn, retained, line, pc, death>>
    BY <1>5 DEF HeldSendEnds, IInv, HeldSendHasConn
<1>6. CASE HeldSendEnds(sendCh[conn], "error")
  <2>1. sendCh' = sendCh
    BY <1>1, <1>5, <1>6
  <2>. QED
    BY <1>1, <1>5, <1>6, <2>1, RefusedLoss
<1>7. CASE HeldSendEnds(Append(sendCh[conn], NextFrame(at)), "nil")
    BY <1>5, <1>7, SentLoss
<1>8. CASE SendUnblocks \/ SendCancelled
    BY <1>6, <1>7, <1>8 DEF SendUnblocks, SendGetsRoom, SendCancelled
<1>9. ASSUME NEW s \in Streams, SendToConn(s) PROVE NoOtherLoss
  <2>1. conn \in Conns /\ ~Dead(conn) /\ UNCHANGED <<conn, retained, line, pc, death>>
    BY <1>1, <1>9 DEF SendToConn
  <2>2. CASE sendCh' = [sendCh EXCEPT ![conn] = Append(@, NextFrame(s))] /\ Returns(s, "nil")
    BY <2>1, <2>2, SentLoss
  <2>3. CASE UNCHANGED <<sendCh, returned>>
    BY <2>1, <2>3, QuietLoss
  <2>. QED
    BY <1>9, <2>2, <2>3 DEF SendToConn
<1>10. ASSUME NEW s \in Streams, SendRefused(s) PROVE NoOtherLoss
    BY <1>1, <1>10, RefusedLoss DEF SendRefused, sessionVars, connVars
<1>11. ASSUME NEW s \in Streams, SendRetained(s) PROVE NoOtherLoss
    BY <1>11, RetainedLoss
<1>12. ASSUME NEW c \in Conns,
              \/ Accept(c) \/ RejectHandshake(c) \/ CreateSession(c) \/ ResumeSession(c)
              \/ Register(c) \/ AcknowledgeFails(c) \/ Deregister(c) \/ HandleConnUnbinds(c)
              \/ OnDead(c) \/ ConnFails(c) \/ CloseKills(c)
       PROVE  NoOtherLoss
    BY <1>12, QuietLoss
       DEF Accept, RejectHandshake, CreateSession, ResumeSession, Register, AcknowledgeFails,
           Deregister, HandleConnUnbinds, OnDead, ConnFails, CloseKills, Unbind, sessionVars
<1>13. CASE \/ TimerExpires \/ DropSession \/ Terminate \/ CloseServer \/ CloseReturns
            \/ UNCHANGED vars
    BY <1>13, QuietLoss
       DEF TimerExpires, DropSession, Terminate, CloseServer, CloseReturns, sessionVars, connVars,
           vars
<1>. QED
    BY <1>2, <1>3, <1>4, <1>8, <1>9, <1>10, <1>11, <1>12, <1>13
       DEF Next, HandleConn, DropCall, CloseCall, SendDown

-----------------------------------------------------------------------------
(* The byte count *)

\* the bytes of the frames with indices D in the queue of s
Bytes(s, D) == ({s} \X D) \X (1..FrameBytes[s])

\* One more frame adds its bytes, none of which was there.
LEMMA BytesOfOneMore ==
  ASSUME NEW s \in Streams, NEW D, NEW k, k \notin D
  PROVE  /\ Bytes(s, D \cup {k}) = Bytes(s, D) \cup Bytes(s, {k})
         /\ \A t \in Streams : \A E : (t = s => E = D) => Bytes(t, E) \cap Bytes(s, {k}) = {}
         /\ IsFiniteSet(Bytes(s, {k})) /\ Cardinality(Bytes(s, {k})) = FrameBytes[s]
<1>1. Bytes(s, D \cup {k}) = Bytes(s, D) \cup Bytes(s, {k})
    BY DEF Bytes
<1>2. \A t \in Streams : \A E : (t = s => E = D) => Bytes(t, E) \cap Bytes(s, {k}) = {}
    BY DEF Bytes
<1>3. IsFiniteSet(Bytes(s, {k})) /\ Cardinality(Bytes(s, {k})) = FrameBytes[s]
  <2>1. FrameBytes[s] \in Nat \ {0}
    BY SessionAssumption
  <2>2. IsFiniteSet(1..FrameBytes[s]) /\ Cardinality(1..FrameBytes[s]) = FrameBytes[s]
    BY <2>1, FS_Interval
  <2>3. {s} \X {k} = {<<s, k>>}
    OBVIOUS
  <2>4. IsFiniteSet({s} \X {k}) /\ Cardinality({s} \X {k}) = 1
    BY <2>3, FS_Singleton
  <2>5. /\ IsFiniteSet(Bytes(s, {k}))
        /\ Cardinality(Bytes(s, {k})) = Cardinality({s} \X {k}) * Cardinality(1..FrameBytes[s])
    BY <2>2, <2>4, FS_Product DEF Bytes
  <2>. QED
    BY <2>1, <2>2, <2>4, <2>5
<1>. QED
    BY <1>1, <1>2, <1>3

\* An empty queue has no bytes.
LEMMA BytesOfNone ==
  (\A s \in Streams : DOMAIN retained[s] = {}) => QueueBytes = {}
BY DEF QueueBytes

\* SendRetained counts the bytes it adds, and those an overflow drops.
LEMMA RetainCounts ==
  ASSUME TypeOK, BytesCounted, NEW s \in Streams, SendRetained(s) PROVE BytesCounted'
<1>1. /\ IsFiniteSet(QueueBytes) /\ retainedBytes = Cardinality(QueueBytes)
      /\ UNCHANGED mu
    BY DEF BytesCounted, SendRetained, RetainIf, Calls
<1>2. \/ UNCHANGED <<retained, retainedBytes>>
      \/ retained' = [t \in Streams |-> <<>>] /\ retainedBytes' = 0
      \/ /\ retained' = [retained EXCEPT ![s] = Append(@, NextFrame(s))]
         /\ retainedBytes' = retainedBytes + FrameBytes[s]
    BY DEF SendRetained, RetainIf
<1>3. CASE UNCHANGED <<retained, retainedBytes>>
    BY <1>1, <1>3 DEF BytesCounted, QueueBytes
<1>4. CASE retained' = [t \in Streams |-> <<>>] /\ retainedBytes' = 0
  <2>1. QueueBytes' = {}
    BY <1>4 DEF QueueBytes
  <2>. QED
    BY <1>4, <2>1, FS_EmptySet DEF BytesCounted
<1>5. CASE /\ retained' = [retained EXCEPT ![s] = Append(@, NextFrame(s))]
           /\ retainedBytes' = retainedBytes + FrameBytes[s]
  <2> DEFINE k == Len(retained[s]) + 1
             new == Bytes(s, {k})
  <2>1. /\ retained[s] \in Seq(Frame) /\ NextFrame(s) \in Frame
        /\ retained'[s] = Append(retained[s], NextFrame(s))
        /\ \A t \in Streams \ {s} : retained'[t] = retained[t]
    BY <1>5, ReturnsType DEF TypeOK, SendRetained, RetainIf
  <2>2. /\ DOMAIN retained'[s] = DOMAIN retained[s] \cup {k} /\ k \notin DOMAIN retained[s]
        /\ \A t \in Streams \ {s} : DOMAIN retained'[t] = DOMAIN retained[t]
    BY <2>1
  <2> HIDE DEF k
  <2>3. /\ Bytes(s, DOMAIN retained'[s]) = Bytes(s, DOMAIN retained[s]) \cup new
        /\ \A t \in Streams : Bytes(t, DOMAIN retained[t]) \cap new = {}
        /\ IsFiniteSet(new) /\ Cardinality(new) = FrameBytes[s]
    <3> DEFINE D == DOMAIN retained[s]
    <3>1. DOMAIN retained'[s] = D \cup {k} /\ k \notin D
      BY <2>2
    <3> HIDE DEF D
    <3>2. /\ Bytes(s, D \cup {k}) = Bytes(s, D) \cup Bytes(s, {k})
          /\ \A t \in Streams : \A E : (t = s => E = D) => Bytes(t, E) \cap Bytes(s, {k}) = {}
          /\ IsFiniteSet(Bytes(s, {k})) /\ Cardinality(Bytes(s, {k})) = FrameBytes[s]
      BY <3>1, BytesOfOneMore
    <3>3. \A t \in Streams : t = s => DOMAIN retained[t] = D
      BY DEF D
    <3>4. \A t \in Streams : Bytes(t, DOMAIN retained[t]) \cap Bytes(s, {k}) = {}
      BY <3>2, <3>3
    <3>5. Bytes(s, DOMAIN retained'[s]) = Bytes(s, D) \cup Bytes(s, {k})
      BY <3>1, <3>2
    <3>. QED
      BY <3>2, <3>4, <3>5 DEF D
  <2>4. /\ QueueBytes = UNION {Bytes(t, DOMAIN retained[t]) : t \in Streams}
        /\ QueueBytes' = UNION {Bytes(t, DOMAIN retained'[t]) : t \in Streams}
    BY DEF QueueBytes, Bytes
  <2> HIDE DEF new
  <2>5. QueueBytes' = QueueBytes \cup new /\ QueueBytes \cap new = {}
    <3>1. \A t \in Streams \ {s} : Bytes(t, DOMAIN retained'[t]) = Bytes(t, DOMAIN retained[t])
      BY <2>2
    <3>2. \A y : y \in QueueBytes' <=> \E t \in Streams : y \in Bytes(t, DOMAIN retained'[t])
      BY <2>4
    <3>3. \A y : y \in QueueBytes <=> \E t \in Streams : y \in Bytes(t, DOMAIN retained[t])
      BY <2>4
    <3>4. \A y : y \in QueueBytes' <=> y \in QueueBytes \/ y \in new
      BY <2>3, <3>1, <3>2, <3>3
    <3>5. \A y \in QueueBytes : y \notin new
      BY <2>3, <3>3
    <3>. QED
      BY <3>4, <3>5
  <2>6. /\ IsFiniteSet(QueueBytes')
        /\ Cardinality(QueueBytes') = Cardinality(QueueBytes) + FrameBytes[s]
    <3>1. /\ IsFiniteSet(QueueBytes \cup new)
          /\ Cardinality(QueueBytes \cup new)
               = Cardinality(QueueBytes) + Cardinality(new) - Cardinality(QueueBytes \cap new)
      BY <1>1, <2>3, FS_Union
    <3>2. Cardinality(QueueBytes) \in Nat /\ FrameBytes[s] \in Nat /\ Cardinality({}) = 0
      BY <1>1, SessionAssumption, FS_EmptySet, FS_CardinalityType
    <3>3. Cardinality(QueueBytes \cap new) = 0
      BY <2>5, <3>2
    <3>4. Cardinality(QueueBytes \cup new) = Cardinality(QueueBytes) + FrameBytes[s]
      BY <2>3, <3>1, <3>2, <3>3
    <3>5. QueueBytes' = QueueBytes \cup new
      BY <2>5
    <3> HIDE DEF QueueBytes
    <3>. QED
      BY <3>1, <3>4, <3>5
  <2>. QED
    BY <1>1, <1>5, <2>6 DEF BytesCounted
<1>. QED
    BY <1>2, <1>3, <1>4, <1>5

\* A step of bind's loop counts nothing while it holds ss.mu, and nothing is left after it.
LEMMA ReplayRestCounts ==
  ASSUME BytesCounted, NEW c \in Conns, NEW r, ReplayRest(c, r), retained' = r,
         IsFiniteSet(QueueBytes')
  PROVE  BytesCounted'
<1>1. CASE \A s \in Streams : r[s] = <<>>
  <2>1. retainedBytes' = 0
    BY <1>1 DEF ReplayRest
  <2>2. QueueBytes' = {}
    BY <1>1 DEF QueueBytes
  <2>. QED
    BY <2>1, <2>2, FS_EmptySet DEF BytesCounted
<1>2. CASE ~(\A s \in Streams : r[s] = <<>>)
  <2>1. mu' = "bind"
    BY <1>2 DEF ReplayRest
  <2>. QED
    BY <2>1 DEF BytesCounted
<1>. QED
    BY <1>1, <1>2

\* The count is inductive: only SendRetained and bind touch it or the queue.
LEMMA BytesStep == ASSUME IInv, BytesCounted, [Next]_vars PROVE BytesCounted'
<1>1. TypeOK /\ IsFiniteSet(QueueBytes)
    BY DEF IInv, BytesCounted
<1>2. ASSUME UNCHANGED <<retained, retainedBytes>>, mu = "bind" => mu' = "bind"
      PROVE  BytesCounted'
    BY <1>2 DEF BytesCounted, QueueBytes
<1>3. ASSUME NEW c \in Conns, Bind(c) PROVE BytesCounted'
  <2>1. ReplayRest(c, retained) /\ retained' = retained
    BY <1>3 DEF Bind, Rebind
  <2>2. IsFiniteSet(QueueBytes')
    BY <1>1, <2>1 DEF QueueBytes
  <2>. QED
    BY <2>1, <2>2, ReplayRestCounts
<1>4. ASSUME NEW c \in Conns, ReplayFrame(c) PROVE BytesCounted'
  <2> DEFINE r == [retained EXCEPT ![at] = Tail(@)]
  <2>1. /\ ReplayRest(c, r) /\ retained' = r /\ at \in Streams /\ retained[at] # <<>>
    BY <1>4 DEF ReplayFrame, ReplayToQueue, Replay, IInv, ReplayHoldsMutex
  <2>2. \A s \in Streams : DOMAIN retained'[s] \subseteq DOMAIN retained[s]
    <3>1. /\ retained[at] \in Seq(Frame)
          /\ \A s \in Streams :
               retained'[s] = IF s = at THEN Tail(retained[at]) ELSE retained[s]
      BY <1>1, <2>1 DEF TypeOK
    <3>2. DOMAIN Tail(retained[at]) \subseteq DOMAIN retained[at]
      BY <2>1, <3>1
    <3>. QED
      BY <3>1, <3>2
  <2>3. QueueBytes' \subseteq QueueBytes
    BY <2>2 DEF QueueBytes
  <2>4. IsFiniteSet(QueueBytes')
    BY <1>1, <2>3, FS_Subset
  <2> HIDE DEF r
  <2>. QED
    BY <2>1, <2>4, ReplayRestCounts
<1>5. ASSUME NEW s \in Streams, SendRetained(s) PROVE BytesCounted'
    BY <1>1, <1>5, RetainCounts
<1>6. CASE SendUnblocks \/ SendCancelled
    BY <1>2, <1>6 DEF SendUnblocks, SendGetsRoom, SendCancelled, HeldSendEnds
<1>7. ASSUME NEW s \in Streams, SendToConn(s) \/ SendRefused(s) PROVE BytesCounted'
    BY <1>2, <1>7 DEF SendToConn, SendRefused, Calls, sessionVars
<1>8. ASSUME NEW c \in Conns,
             \/ Accept(c) \/ RejectHandshake(c) \/ CreateSession(c) \/ ResumeSession(c)
             \/ Register(c) \/ Acknowledge(c) \/ AcknowledgeFails(c) \/ Deregister(c)
             \/ HandleConnUnbinds(c) \/ OnDead(c) \/ ConnFails(c) \/ CloseKills(c) \/ WriteLoop(c)
      PROVE  BytesCounted'
    BY <1>2, <1>8
       DEF Accept, RejectHandshake, CreateSession, ResumeSession, Register, Acknowledge,
           AcknowledgeFails, Deregister, HandleConnUnbinds, OnDead, ConnFails, CloseKills,
           WriteLoop, Writes, WriteFails, TakesFrame, Unbind, sessionVars
<1>9. CASE \/ TimerExpires \/ DropSession \/ Terminate \/ CloseServer \/ CloseReturns
           \/ UNCHANGED vars
    BY <1>2, <1>9
       DEF TimerExpires, DropSession, Terminate, CloseServer, CloseReturns, sessionVars, vars
<1>. QED
    BY <1>3, <1>4, <1>5, <1>6, <1>7, <1>8, <1>9
       DEF Next, HandleConn, DropCall, CloseCall, SendDown

-----------------------------------------------------------------------------
(* The theorems *)

\* Nothing is sent, retained or dead at first.
LEMMA InitFrames == Init => FramesInv /\ BytesCounted
<1> SUFFICES ASSUME Init PROVE FramesInv /\ BytesCounted
    OBVIOUS
<1>1. /\ \A c \in Conns : Taken(c) = <<>>
      /\ \A s \in Streams : retained[s] = <<>> /\ returned[s] = <<>>
  <2>1. \A c \in Conns : line[c] = <<>> /\ sendCh[c] = <<>>
    BY DEF Init
  <2>. QED
    BY <2>1 DEF Init, Taken
<1>2. /\ \A c \in Conns : \A s \in Streams : Numbers(s, Taken(c)) = {} /\ GoesUp(s, Taken(c))
      /\ \A s \in Streams : Numbers(s, retained[s]) = {} /\ GoesUp(s, retained[s])
    BY <1>1, NumbersEmpty
<1>3. OnlyBoundSend
    BY SessionAssumption DEF Init, OnlyBoundSend
<1>4. NumbersReturned /\ EachGoesUp /\ AllGoUp
    BY <1>1, <1>2 DEF NumbersReturned, EachGoesUp, AllGoUp, Below
<1>6. BytesCounted
  <2>1. QueueBytes = {}
    BY <1>1, BytesOfNone
  <2>. QED
    BY <2>1, FS_EmptySet DEF BytesCounted, Init
<1>. QED
    BY <1>3, <1>4, <1>6 DEF FramesInv

\* The invariants of the frames and of the byte count are preserved by every step.
LEMMA QueueStep ==
  IInv /\ FramesInv /\ BytesCounted /\ [Next]_vars => FramesInv' /\ BytesCounted'
<1> SUFFICES ASSUME IInv, FramesInv, BytesCounted, [Next]_vars PROVE FramesInv' /\ BytesCounted'
    OBVIOUS
<1>1. OrderInv'
    BY FramesStep
<1>2. OnlyBoundSend'
  <2>1. CASE Next
    BY <2>1, ControlStep DEF FramesInv
  <2>2. CASE UNCHANGED vars
    BY <2>2 DEF vars, sessionVars, connVars, FramesInv, OnlyBoundSend
  <2>. QED
    BY <2>1, <2>2
<1>3. BytesCounted'
    BY BytesStep
<1>. QED
    BY <1>1, <1>2, <1>3 DEF FramesInv, OrderInv

\* On top of IInv, the order of the frames and the byte count hold throughout.
THEOREM QueueInvariant == Spec => [](FramesInv /\ BytesCounted)
<1>. QED
    BY InitFrames, QueueStep, SessionInvariant, PTL DEF Spec

\* Replay before live traffic, and no frame twice, over any number of resumptions: on each
\* connection the frames of a stream go up, of two connections one has only older frames, and
\* what is retained is newer than all of them.
THEOREM OrderSafety == Spec => []OrderAcrossConnections
<1>1. FramesInv => OrderAcrossConnections
    BY DEF FramesInv, EachGoesUp, AllGoUp, GoesUp, Below, OrderAcrossConnections
<1>. QED
    BY <1>1, QueueInvariant, PTL

\* A frame that sendDown accepted, unless the queue overflows, is lost only with the
\* connection in whose sendCh it was, to one that sendDown could not know to be gone, or in
\* the replay to a connection that was killed.
THEOREM LossSafety == Spec => LostOnlyWithConnection
<1>1. IInv /\ FramesInv /\ [Next]_vars =>
        [~overflowed' => \A s \in Streams : \A n \in Lost(s)' \ Lost(s) :
           \/ \E c \in Conns : ~Gone(c) /\ Gone(c)' /\ n \in Numbers(s, sendCh[c])
           \/ n \notin Accepted(s) /\ Gone(conn) /\ (mu = "sendDown" \/ ~Dead(conn))
           \/ mu = "bind" /\ Dead(conn)]_vars
    BY LossOfStep DEF FramesInv, OrderInv, NoOtherLoss, Permitted
<1>. QED
    BY <1>1, SessionInvariant, QueueInvariant, PTL DEF Spec, LostOnlyWithConnection

\* The byte count that decides about overflow is the weight of the queue, and an overflowed
\* session keeps nothing.
THEOREM AccountingSafety == Spec => []RetainedAccounting
<1>1. IInv /\ BytesCounted => RetainedAccounting
    BY DEF IInv, OverflowedIsEmpty, BytesCounted, RetainedAccounting
<1>. QED
    BY <1>1, QueueInvariant, SessionInvariant, PTL

=============================================================================
