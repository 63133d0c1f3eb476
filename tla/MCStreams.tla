------------------------------ MODULE MCStreams ------------------------------
(* Streams on small instances. *)
EXTENDS Streams

Load(k, b, w, f) == [kind |-> k, breaks |-> b, window |-> w, frames |-> f]

\* one stream or call that sees one or two connections break, two streams that share the one
\* credit of a connection that lives, and two that share a window that is refilled in batches
MCWorkloads ==
  {Load(<<k, "none">>, 2, 1, 1) : k \in {"request", "stream", "subscription", "call"}}
    \cup {Load(<<"channel", "none">>, 1, 1, 1)}
    \cup {Load(<<k, "stream">>, 0, 1, 1) : k \in {"request", "channel", "subscription"}}
    \cup {Load(<<"stream", "stream">>, 0, 4, 3)}

\* Those two are neither cancelled nor refused, and their handlers do not return.
StreamsGoOn ==
  window > 1 => \A s \in Streams : /\ call[s] \in {"none", "open"} /\ ending[s] = "none"
                                   /\ handler[s] \notin {"returned", "panicked"}

=============================================================================
