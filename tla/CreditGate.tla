----------------------------- MODULE CreditGate -----------------------------
(***************************************************************************)
(* The credit gate of one connection (credit.go): senders take a token per *)
(* frame (Emitter.Emit, Channel.Send), the read loop adds what CREDIT      *)
(* frames grant, kill closes.  The counter is under g.mu, so every         *)
(* critical section is one step; waiting and waking go through the channel *)
(* g.notify, of capacity 1, outside of the lock.                           *)
(***************************************************************************)
EXTENDS Integers

CONSTANTS
  Takers,      \* goroutines that send under backpressure
  Window,      \* negotiated initial window
  Grants,      \* the values of n that CREDIT frames carry
  MaxGrants    \* bound of the model: CREDIT frames received

ASSUME CreditAssumption ==
  Takers # {} /\ Window \in Nat \ {0} /\ Grants \subseteq Int /\ MaxGrants \in Nat

VARIABLES
  n,           \* g.n
  notify,      \* a token is in g.notify
  closed,      \* g.closed
  taker,       \* out of take, at its check, or in its select
  adder,       \* the read loop: out of add, or between its unlock and its send to notify
  closer,      \* kill: the same for close
  grants       \* CREDIT frames handled so far

vars == <<n, notify, closed, taker, adder, closer, grants>>

Init ==
  /\ n = Window /\ notify = FALSE /\ closed = FALSE
  /\ taker = [t \in Takers |-> "out"] /\ adder = "out" /\ closer = "out"
  /\ grants = 0

GoTo(t, place) == taker' = [taker EXCEPT ![t] = place]

Call(t) ==
  /\ taker[t] = "out"
  /\ GoTo(t, "check")
  /\ UNCHANGED <<n, notify, closed, adder, closer, grants>>

\* Mutation of Check: the count is taken without looking at it.
CheckBlindly(t) ==
  /\ taker[t] = "check"
  /\ n' = n - 1 /\ GoTo(t, "out")
  /\ UNCHANGED <<notify, closed, adder, closer, grants>>

\* one pass of the loop of take, under g.mu: closed, a token, or on to the select
Check(t) ==
  /\ taker[t] = "check"
  /\ IF ~closed /\ n > 0
     THEN n' = n - 1 /\ GoTo(t, "out")
     ELSE GoTo(t, IF closed THEN "out" ELSE "select") /\ UNCHANGED n
  /\ UNCHANGED <<notify, closed, adder, closer, grants>>

Wake(t) ==
  /\ taker[t] = "select" /\ notify
  /\ notify' = FALSE
  /\ GoTo(t, "check")
  /\ UNCHANGED <<n, closed, adder, closer, grants>>

CtxEnds(t) ==
  /\ taker[t] = "select"
  /\ GoTo(t, "out")
  /\ UNCHANGED <<n, notify, closed, adder, closer, grants>>

\* the locked part of add, for one CREDIT frame; no effect unless k is positive
Add(k) ==
  /\ adder = "out" /\ grants < MaxGrants
  /\ grants' = grants + 1
  /\ IF k > 0
     THEN /\ n' = n + k
          /\ adder' = IF closed THEN "out" ELSE "notify"
     ELSE UNCHANGED <<n, adder>>
  /\ UNCHANGED <<notify, closed, taker, closer>>

\* Mutation of AddNotifies: nobody is told.
AddForgets ==
  /\ adder = "notify" /\ adder' = "out"
  /\ UNCHANGED <<n, notify, closed, taker, closer, grants>>

AddNotifies ==
  /\ adder = "notify"
  /\ adder' = "out" /\ notify' = TRUE
  /\ UNCHANGED <<n, closed, taker, closer, grants>>

Close ==
  /\ ~closed
  /\ closed' = TRUE /\ closer' = "notify"
  /\ UNCHANGED <<n, notify, taker, adder, grants>>

\* Mutation of CloseNotifies: nobody is told.
CloseForgets ==
  /\ closer = "notify" /\ closer' = "out"
  /\ UNCHANGED <<n, notify, closed, taker, adder, grants>>

CloseNotifies ==
  /\ closer = "notify"
  /\ closer' = "out" /\ notify' = TRUE
  /\ UNCHANGED <<n, closed, taker, adder, grants>>

Next ==
  \/ \E t \in Takers : Call(t) \/ Check(t) \/ Wake(t) \/ CtxEnds(t)
  \/ \E k \in Grants : Add(k)
  \/ AddNotifies \/ Close \/ CloseNotifies

Spec == Init /\ [][Next]_vars

\* A goroutine inside take, add or close goes on while it can; no CREDIT, no call
\* and no end of a ctx has to come.
Fairness ==
  /\ \A t \in Takers : WF_vars(Check(t)) /\ WF_vars(Wake(t))
  /\ WF_vars(AddNotifies) /\ WF_vars(CloseNotifies)

FairSpec == Spec /\ Fairness

-----------------------------------------------------------------------------

TypeOK ==
  /\ n \in Nat /\ notify \in BOOLEAN /\ closed \in BOOLEAN
  /\ taker \in [Takers -> {"out", "check", "select"}]
  /\ adder \in {"out", "notify"} /\ closer \in {"out", "notify"}
  /\ grants \in Nat

\* The gate is a window of tokens, closed for good by close.
window == INSTANCE CreditWindow WITH tokens <- n, open <- ~closed
IsWindow == window!Spec

\* Tokens, or the end of the connection, never meet senders that all sleep: the
\* alarm is set, or add or close is about to set it, although g.notify holds one
\* alarm only and drops the others.
AllAsleep == \A t \in Takers : taker[t] = "select"

NoSleepingGate ==
  AllAsleep /\ (n > 0 \/ closed) => notify \/ adder = "notify" \/ closer = "notify"

\* So somebody goes on: a grant, or close, gets at least one sender out of the select.
SomebodyWakes == AllAsleep /\ (n > 0 \/ closed) ~> ~AllAsleep

\* The comment on take: it blocks until tokens are added, the ctx ends or the
\* connection is closed; so once it is closed nobody stays in the select.
CloseReleasesEveryTaker ==
  \A t \in Takers : closed ~> taker[t] # "select"

=============================================================================
