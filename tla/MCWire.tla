------------------------------- MODULE MCWire -------------------------------
(* Wire on small instances. *)
EXTENDS Wire

Cfg(compress, encrypt, key, credit, heartbeat) ==
  [compress |-> compress, encrypt |-> encrypt, key |-> key, credit |-> credit,
   heartbeat |-> heartbeat]

\* Every way to transform with one key, another one and one too short; and, in the clear,
\* credits and heartbeats around their bounds.
MCConfigs ==
  {Cfg(compress, encrypt, "k1", 0, 0) : compress, encrypt \in BOOLEAN}
    \cup {Cfg(FALSE, encrypt, key, 0, 0) : encrypt \in BOOLEAN, key \in {"k2", "short"}}
    \cup {Cfg(FALSE, FALSE, "none", c, 7) : c \in {-1, 1, 2}}
    \cup {Cfg(FALSE, FALSE, "none", 2, h) : h \in {-1, 1, 5}}

\* sizes at and next to the limits of the configuration: plaintexts with no metadata, and
\* metadata with a plaintext that may be compressed
MCFrames ==
  [mode : {{}}, meta : {0}, payload : {0, 1, 5, 7, 8}]
    \cup [mode : {{"Stream"}}, meta : {1, 3, 4}, payload : {2, 4}]

=============================================================================
