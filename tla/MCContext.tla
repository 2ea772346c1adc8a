----------------------------- MODULE MCContext -----------------------------
(* What an AP takes over of a thread, on small instances: the registers (Fpu) and *)
(* the instructions and pages (Trap); and the time it has for it (Clock).  The    *)
(* three share no variable: a behaviour is one of them, while the others rest in  *)
(* one of their initial states.                                                   *)
EXTENDS Fpu, Trap, Clock

CONSTANTS t1, t2, w1

Threads  == {t1, t2, w1}
Saved    == {t1, t2}

Machine(avx, win95, lazy, versions) ==
    [avx |-> avx, win95 |-> win95, lazy |-> lazy, versions |-> versions]
\* With and without AVX, Windows 95 and later; one whose Windows switches the FPU
\* when it is used.
Machines == { Machine(avx, win95, FALSE, 2) : avx, win95 \in BOOLEAN }
                \cup { Machine(TRUE, FALSE, TRUE, 1) }

\* One thread calls fly() and land(), the other has a breakpoint, a division by 0 and a
\* debug exception.
TwoPrograms == { <<FlyOp, Use("heap"), Trap(13), LandOp>>, <<Plain, Int3, Use("heap"), Trap(0), Trap(1)>> }

\* CPUID says nothing, a rate in MHz, or the ratio to a crystal.
SmallClocks ==
    { [freq |-> 1, eax |-> 0, ebx |-> 0, ecx |-> 0, mhz |-> 0, start |-> 0],
      [freq |-> 2, eax |-> 0, ebx |-> 0, ecx |-> 0, mhz |-> 0, start |-> 13],
      [freq |-> 2, eax |-> 1, ebx |-> 0, ecx |-> 0, mhz |-> 1, start |-> 13],
      [freq |-> 2, eax |-> 1, ebx |-> 2, ecx |-> 2, mhz |-> 0, start |-> 0],
      [freq |-> 3, eax |-> 8, ebx |-> 6, ecx |-> 8, mhz |-> 0, start |-> 5] }

FpuRests   == FpuInit /\ sys = Machine(FALSE, FALSE, FALSE, 2)
TrapRests  == TrapInit /\ act = t1 /\ prog[t1] = prog[t2] /\ prog[t1][1] = FlyOp
ClockRests == ClockInit /\ clock.freq = 1

\* A bound: where Windows switches late, the thread without a record does not compute.
OnlySaved == sys.lazy => work'[w1] = 0

\* The types of all three.
ContextTypeOK == FpuTypeOK /\ TrapTypeOK /\ ClockTypeOK

ContextSpec ==
    /\ \/ FpuInit  /\ TrapRests /\ ClockRests
       \/ FpuRests /\ TrapInit  /\ ClockRests
       \/ FpuRests /\ TrapRests /\ ClockInit
    /\ [][ \/ TrapRests /\ ClockRests /\ FpuNext /\ OnlySaved /\ UNCHANGED <<trapVars, clockVars>>
           \/ FpuRests /\ ClockRests /\ TrapNext /\ UNCHANGED <<fpuVars, clockVars>>
           \/ FpuRests /\ TrapRests /\ ClockNext /\ UNCHANGED <<fpuVars, trapVars>>
         ]_<<fpuVars, trapVars, clockVars>>

=============================================================================
