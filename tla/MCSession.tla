----------------------------- MODULE MCSession -----------------------------
(* Session on small instances: two kinds of frames, of different weight. *)
EXTENDS Session, TLC

CONSTANTS c1, c2, c3, reply, topic

MCConns3     == {c1, c2, c3}
MCConns2     == {c1, c2}
MCStreams    == {reply, topic}
MCTopic      == {topic}
MCFrameBytes == [s \in Streams |-> IF s = reply THEN 2 ELSE 1]
MCMaxFrames  == [s \in Streams |-> IF s = reply THEN 1 ELSE 2]

Symmetry == Permutations(MCConns3)

\* A bound: with three connections two frames are sent, of one stream, with two three.
Bounded ==
  Cardinality({c \in Conns : pc[c] # "idle"}) = 3 => returned[reply] = <<>>

=============================================================================
