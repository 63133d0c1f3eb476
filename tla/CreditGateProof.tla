-------------------------- MODULE CreditGateProof --------------------------
(***************************************************************************)
(* Proofs about CreditGate, for any set of senders, window and grants.     *)
(***************************************************************************)
EXTENDS CreditGate, TLAPS

\* The types and the alarm together are inductive.
IInv == TypeOK /\ NoSleepingGate

\* One step per action; each disturbs the alarm by what it does to n, closed or the place
\* of one sender.
LEMMA StepInv == IInv /\ [Next]_vars => IInv'
<1> SUFFICES ASSUME IInv, [Next]_vars PROVE IInv'
    OBVIOUS
<1> USE CreditAssumption DEF IInv, TypeOK, NoSleepingGate, AllAsleep, GoTo
<1>1. ASSUME NEW t \in Takers, Call(t) PROVE IInv'
    BY <1>1 DEF Call
<1>2. ASSUME NEW t \in Takers, Check(t) PROVE IInv'
  <2>1. CASE ~closed /\ n > 0
    BY <1>2, <2>1 DEF Check
  <2>2. CASE closed
    BY <1>2, <2>2 DEF Check
  <2>3. CASE ~closed /\ ~(n > 0)
    BY <1>2, <2>3 DEF Check
  <2>. QED
    BY <2>1, <2>2, <2>3
<1>3. ASSUME NEW t \in Takers, Wake(t) PROVE IInv'
    BY <1>3 DEF Wake
<1>4. ASSUME NEW t \in Takers, CtxEnds(t) PROVE IInv'
    BY <1>4 DEF CtxEnds
<1>5. ASSUME NEW k \in Grants, Add(k) PROVE IInv'
  <2>1. CASE k > 0 /\ closed
    BY <1>5, <2>1 DEF Add
  <2>2. CASE k > 0 /\ ~closed
    BY <1>5, <2>2 DEF Add
  <2>3. CASE ~(k > 0)
    BY <1>5, <2>3 DEF Add
  <2>. QED
    BY <2>1, <2>2, <2>3
<1>6. ASSUME AddNotifies PROVE IInv'
    BY <1>6 DEF AddNotifies
<1>7. ASSUME Close PROVE IInv'
    BY <1>7 DEF Close
<1>8. ASSUME CloseNotifies PROVE IInv'
    BY <1>8 DEF CloseNotifies
<1>9. CASE UNCHANGED vars
    BY <1>9 DEF vars
<1>. QED
    BY <1>1, <1>2, <1>3, <1>4, <1>5, <1>6, <1>7, <1>8, <1>9 DEF Next

\* The invariant holds throughout.
LEMMA GateInvariant == Spec => []IInv
<1>1. Init => IInv
  <2> SUFFICES ASSUME Init PROVE IInv
    OBVIOUS
  <2>1. TypeOK
    BY CreditAssumption DEF Init, TypeOK
  <2>2. ~AllAsleep
    BY CreditAssumption DEF Init, AllAsleep
  <2>. QED
    BY <2>1, <2>2 DEF IInv, NoSleepingGate
<1>. QED
    BY <1>1, StepInv, PTL DEF Spec

\* The count of tokens never goes below zero, however senders compete for the last one
\* (credit.go:49).
THEOREM GateTypes == Spec => []TypeOK
<1>1. IInv => TypeOK
    BY DEF IInv
<1>. QED
    BY <1>1, GateInvariant, PTL

\* The one-place alarm of the gate is enough for one sender to wake, however many sleep
\* and however grants and close race.
THEOREM AlarmSafety == Spec => []NoSleepingGate
<1>1. IInv => NoSleepingGate
    BY DEF IInv
<1>. QED
    BY <1>1, GateInvariant, PTL

\* The gate implements the window of tokens.
THEOREM GateImplementsWindow == Spec => IsWindow
<1>1. Init => window!Init
    BY DEF Init, window!Init
<1>2. IInv /\ [Next]_vars => [window!Next]_<<n, ~closed>>
  <2> SUFFICES ASSUME IInv, [Next]_vars, ~(UNCHANGED <<n, ~closed>>) PROVE window!Next
    OBVIOUS
  <2> USE DEF window!Next, window!Take, window!Grant, window!Close, IInv, TypeOK
  <2>1. ASSUME NEW t \in Takers, Check(t) PROVE window!Next
    BY <2>1 DEF Check
  <2>2. ASSUME NEW k \in Grants, Add(k) PROVE window!Next
    BY <2>2, CreditAssumption DEF Add
  <2>3. CASE Close
    BY <2>3 DEF Close
  <2>. QED
    BY <2>1, <2>2, <2>3
       DEF Next, vars, Call, Wake, CtxEnds, AddNotifies, CloseNotifies
<1>. QED
    BY <1>1, <1>2, GateInvariant, PTL DEF Spec, IsWindow, window!Spec

=============================================================================
