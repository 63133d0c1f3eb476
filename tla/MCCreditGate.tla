---------------------------- MODULE MCCreditGate ----------------------------
(* CreditGate with three senders and grants of all the kinds add tells apart. *)
EXTENDS CreditGate, TLC

CONSTANTS t1, t2, t3

MCTakers == {t1, t2, t3}
MCGrants == {-1, 0, 1, 2}

=============================================================================
