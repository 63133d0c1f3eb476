------------------------------- MODULE MCFlow -------------------------------
(* Flow on small instances. *)
EXTENDS Flow

MCKinds == {"stream", "channel", "subscription"}

=============================================================================
