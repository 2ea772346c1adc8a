---------------------------- MODULE HandoffProof ----------------------------
(* The promise of Handoff is sound: an AP is home to one thread. *)
EXTENDS Handoff, TLAPS

\* For any threads, APs and contexts: an AP has one thread, and none while it still has
\* a destroyed one (switch_to_ap loads only an AP in S_READY or S_SLEEP).
THEOREM HomesExclusive == Distinct => (Spec => [](TypeOK /\ OneThreadPerAp))
<1> SUFFICES ASSUME Distinct PROVE Spec => [](TypeOK /\ OneThreadPerAp)
  OBVIOUS
<1>1. Init => TypeOK /\ OneThreadPerAp
  BY DEF Init, TypeOK, OneThreadPerAp, Distinct
<1>2. TypeOK /\ OneThreadPerAp /\ [Next]_vars => (TypeOK /\ OneThreadPerAp)'
  <2> SUFFICES ASSUME TypeOK, OneThreadPerAp, [Next]_vars PROVE (TypeOK /\ OneThreadPerAp)'
    OBVIOUS
  <2> USE DEF TypeOK, OneThreadPerAp, Distinct
  <2>1. ASSUME NEW t \in Thread, Create(t) PROVE (TypeOK /\ OneThreadPerAp)'
    BY <2>1 DEF Create
  <2>2. ASSUME NEW t \in Thread, Work(t) PROVE (TypeOK /\ OneThreadPerAp)'
    BY <2>2 DEF Work, After
  <2>3. ASSUME NEW t \in Thread, NEW a \in Ap, Fly(t, a) PROVE (TypeOK /\ OneThreadPerAp)'
    BY <2>3 DEF Fly
  <2>4. ASSUME NEW t \in Thread, Land(t) PROVE (TypeOK /\ OneThreadPerAp)'
    BY <2>4 DEF Land
  <2>5. ASSUME NEW t \in Thread, Destroy(t) PROVE (TypeOK /\ OneThreadPerAp)'
    BY <2>5 DEF Destroy
  <2>6. ASSUME NEW a \in Ap, Clear(a) PROVE (TypeOK /\ OneThreadPerAp)'
    BY <2>6 DEF Clear
  <2>7. CASE UNCHANGED vars
    BY <2>7 DEF vars
  <2> QED
    BY <2>1, <2>2, <2>3, <2>4, <2>5, <2>6, <2>7 DEF Next
<1> QED
  BY <1>1, <1>2, PTL DEF Spec

=============================================================================
