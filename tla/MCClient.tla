------------------------------ MODULE MCClient ------------------------------
(* Client on small instances. *)
EXTENDS Client

CONSTANTS r1, r2, s1

MCRequest       == {r1}
MCRequests      == {r1, r2}
MCSubscriptions == {s1}
MCNone          == {}

=============================================================================
