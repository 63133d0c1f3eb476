---------------------------- MODULE CreditWindow ----------------------------
(***************************************************************************)
(* What the credit gate promises its callers: a window of tokens.  A token *)
(* is taken only from an open window that has one, grants add to it, and   *)
(* closing is final.                                                       *)
(***************************************************************************)
EXTENDS Integers

CONSTANT Window   \* tokens the window opens with

VARIABLES tokens, open

Init == tokens = Window /\ open = TRUE

Take == open /\ tokens > 0 /\ tokens' = tokens - 1 /\ UNCHANGED open

Grant == tokens' > tokens /\ UNCHANGED open

Close == open /\ open' = FALSE /\ UNCHANGED tokens

Next == Take \/ Grant \/ Close

Spec == Init /\ [][Next]_<<tokens, open>>

=============================================================================
