------------------------------ MODULE Handoff ------------------------------
(***************************************************************************)
(* What the driver promises a program: each of its threads has one         *)
(* context, at home on one processor, and the computation of the thread is *)
(* a chain of steps on that context.  Moving the thread changes its home   *)
(* and nothing else.  A processor whose thread was destroyed is no home    *)
(* for another one until it has noticed.                                   *)
(***************************************************************************)
EXTENDS Naturals

CONSTANTS
    Thread,   \* threads
    Ap,       \* application processors
    Context,  \* contexts of a computation
    Computes, \* <<c, d>>: the program goes from context c to context d
    Bsp,      \* the bootstrap processor
    Nowhere   \* the home and the context of a thread that does not exist

\* Bsp and Nowhere are no APs and not the same, Nowhere is no context.
Distinct == Bsp \notin Ap /\ Nowhere \notin Ap \cup {Bsp} /\ Nowhere \notin Context

VARIABLES
    home,     \* where thread t is
    ctx,      \* how far thread t has come
    tainted   \* APs that still have a destroyed thread

vars == <<home, ctx, tainted>>

Init ==
    /\ home = [t \in Thread |-> Nowhere]
    /\ ctx = [t \in Thread |-> Nowhere]
    /\ tainted = {}

\* A thread starts on the BSP.
Create(t) ==
    /\ home[t] = Nowhere
    /\ home' = [home EXCEPT ![t] = Bsp]
    /\ \E c \in Context : ctx' = [ctx EXCEPT ![t] = c]
    /\ UNCHANGED tainted

After(c) == {d \in Context : <<c, d>> \in Computes}

\* It computes: one step of its program from where it was.
Work(t) ==
    /\ home[t] # Nowhere
    /\ \E c \in After(ctx[t]) : ctx' = [ctx EXCEPT ![t] = c]
    /\ UNCHANGED <<home, tainted>>

\* fly() or an automatic move.
Fly(t, a) ==
    /\ home[t] = Bsp
    /\ a \notin tainted /\ \A u \in Thread : home[u] # a
    /\ home' = [home EXCEPT ![t] = a]
    /\ UNCHANGED <<ctx, tainted>>

\* land() or a system call.
Land(t) ==
    /\ home[t] \in Ap
    /\ home' = [home EXCEPT ![t] = Bsp]
    /\ UNCHANGED <<ctx, tainted>>

\* The thread ends where it is.
Destroy(t) ==
    /\ home[t] # Nowhere
    /\ home' = [home EXCEPT ![t] = Nowhere]
    /\ ctx' = [ctx EXCEPT ![t] = Nowhere]
    /\ tainted' = tainted \cup ({home[t]} \cap Ap)

\* The AP of a destroyed thread has noticed.
Clear(a) ==
    /\ a \in tainted
    /\ tainted' = tainted \ {a}
    /\ UNCHANGED <<home, ctx>>

Next ==
    \/ \E t \in Thread :
          \/ Create(t) \/ Work(t) \/ Land(t) \/ Destroy(t)
          \/ \E a \in Ap : Fly(t, a)
    \/ \E a \in Ap : Clear(a)

Spec == Init /\ [][Next]_vars

-----------------------------------------------------------------------------

TypeOK ==
    /\ home \in [Thread -> Ap \cup {Bsp, Nowhere}]
    /\ ctx \in [Thread -> Context \cup {Nowhere}]
    /\ tainted \subseteq Ap

\* An AP is home to at most one thread, and to none while it is tainted
\* (switch_to_ap loads an AP in S_READY or S_SLEEP only).
OneThreadPerAp ==
    \A t \in Thread : home[t] \in Ap =>
        /\ home[t] \notin tainted
        /\ \A u \in Thread \ {t} : home[u] # home[t]

=============================================================================
