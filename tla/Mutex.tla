------------------------------- MODULE Mutex -------------------------------
(***************************************************************************)
(* What a critical section promises: one thread holds it at a time, as     *)
(* often as it entered it.                                                 *)
(***************************************************************************)
EXTENDS Naturals

CONSTANT Thread

VARIABLE depth   \* how often a thread has entered and not left

MutexInit == depth = [t \in Thread |-> 0]

Acquire(t) ==
    /\ \A u \in Thread \ {t} : depth[u] = 0
    /\ depth' = [depth EXCEPT ![t] = @ + 1]

Release(t) ==
    /\ depth[t] > 0
    /\ depth' = [depth EXCEPT ![t] = @ - 1]

MutexNext == \E t \in Thread : Acquire(t) \/ Release(t)

MutexSpec == MutexInit /\ [][MutexNext]_depth

=============================================================================
