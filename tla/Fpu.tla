-------------------------------- MODULE Fpu --------------------------------
(***************************************************************************)
(* Whose FPU, SSE and AVX state is in which registers.                     *)
(*                                                                         *)
(* Windows switches a part of the registers between its threads, the       *)
(* driver the parts Windows does not know: SSE on Windows 95 and AVX on    *)
(* all.  A thread that moves to an AP takes all parts with it.  All the    *)
(* driver has are areas, one in each ts_thread and one in each tdata, and  *)
(* the registers of the processor it runs on: it must read and write these *)
(* while they are those of the thread it means.                            *)
(***************************************************************************)
EXTENDS Naturals

CONSTANTS
    Thread,   \* threads of Windows
    Recorded, \* those the driver saves: with a ts_thread, not THFLAG_RING0_THREAD
    Ap,       \* application processors
    NoAp, NoThread,
    Systems   \* machines: has AVX, runs Windows 95, switches the FPU only when it is
              \* used, and how many states of a thread the model tells apart

ASSUME FpuAssumption ==
    /\ Recorded \subseteq Thread /\ NoThread \notin Thread /\ NoAp \notin Ap
    /\ Systems \subseteq [avx : BOOLEAN, win95 : BOOLEAN, lazy : BOOLEAN, versions : Nat \ {0}]

VARIABLES
    sys,     \* the machine: xsave_flags # 0, no_sys_fxsave, and how Windows switches
    cur,     \* act_tid
    TS,      \* CR0.TS of the BSP
    regs,    \* the BSP's registers, by part
    owner,   \* whose state Windows takes its parts of regs for
    saved,   \* what Windows has saved of each thread
    live,    \* the threads there are
    area,    \* ts_thread.fpu_state
    dirty,   \* ts_thread.dirty
    away,    \* ts_thread.smp_apid while smp_status is 1
    stage,   \* how far AP a is with its thread
    apState, \* tdata.fpu_state
    apRegs,  \* the registers of AP a
    work     \* how far each thread has come; 0 before its first instruction of this kind

bspVars == <<cur, TS, regs, owner, saved>>
apVars  == <<stage, apState, apRegs>>
recVars == <<live, area, dirty, away>>
fpuVars == <<sys, bspVars, apVars, recVars, work>>

Parts == {"x87", "sse", "avx"}
Value == (Thread \cup {NoThread}) \X Nat
Zero  == <<NoThread, 0>>    \* a page fresh from the allocator: MXCSR unmasks every exception
Clean == <<NoThread, 1>>    \* what the processor starts with

\* The parts the processors have enabled (init_xsave on an AP), and those that
\* Windows knows.
Enabled  == IF sys.avx THEN Parts ELSE {"x87", "sse"}
WinParts == IF sys.win95 THEN {"x87"} ELSE {"x87", "sse"}

\* Mutant of FpuSaveMethod: Windows 95 is forgotten.
FpuSaveMethodSystem(system, restore) ==
    IF system /\ restore THEN Enabled \ {"x87", "sse"} ELSE Enabled

\* The parts fpu_save and fpu_restore move: none is SAVE_NOP, the first two are
\* SAVE_FXSAVE, all are SAVE_XSAVE_ALL, "avx" alone is SAVE_XSAVE_AVX.
FpuSaveMethod(system, restore) ==
    IF system /\ restore /\ ~sys.win95 THEN Enabled \ {"x87", "sse"} ELSE Enabled

Move(parts, from, to) == [p \in Parts |-> IF p \in parts THEN from[p] ELSE to[p]]
FpuSave(system, dst)    == Move(FpuSaveMethod(system, FALSE), regs, dst)
FpuRestore(system, src) == Move(FpuSaveMethod(system, TRUE), src, regs)

Managed(t) == t \in Recorded /\ live[t]
Own(t)     == <<t, work[t]>>
\* What t writes when it computes; a thread without a record leaves the driver's
\* parts alone.
Uses(t)    == IF t \in Recorded THEN Enabled ELSE WinParts
Step(t)    == 1 + (work[t] % sys.versions)

FpuInit ==
    /\ sys \in Systems
    /\ cur \in Thread \ Recorded
    /\ TS = FALSE /\ regs = [p \in Parts |-> Clean] /\ owner = cur
    /\ saved = [t \in Thread |-> [p \in Parts |-> Clean]]
    /\ live = [t \in Thread |-> t \notin Recorded]
    /\ area = [t \in Thread |-> [p \in Parts |-> Zero]]
    /\ dirty = [t \in Thread |-> TRUE]
    /\ away = [t \in Thread |-> NoAp]
    /\ stage = [a \in Ap |-> "free"]
    /\ apState = [a \in Ap |-> [p \in Parts |-> Zero]]
    /\ apRegs = [a \in Ap |-> [p \in Parts |-> Clean]]
    /\ work = [t \in Thread |-> 0]

-----------------------------------------------------------------------------
(* The threads and Windows.                                                *)

\* The current thread computes.  With TS set the instruction traps first.
Compute ==
    /\ away[cur] = NoAp /\ ~TS
    /\ work' = [work EXCEPT ![cur] = Step(cur)]
    /\ regs' = [p \in Parts |-> IF p \in Uses(cur) THEN <<cur, Step(cur)>> ELSE regs[p]]
    /\ UNCHANGED <<sys, cur, TS, owner, saved, apVars, recVars>>

\* The trap: Windows now saves the owner's parts and loads those of the current
\* thread.
DeviceNotAvailable ==
    /\ TS
    /\ saved' = [saved EXCEPT ![owner] = Move(WinParts, regs, @)]
    /\ regs' = Move(WinParts, saved[cur], regs)
    /\ owner' = cur /\ TS' = FALSE
    /\ UNCHANGED <<sys, cur, apVars, recVars, work>>

\* Thread_Init: ts_thread_create; the page is zeroed.  What becomes of a thread that
\* is destroyed is in Migration.
Create(t) ==
    /\ t \in Recorded /\ ~live[t]
    /\ live' = [live EXCEPT ![t] = TRUE]
    /\ area' = [area EXCEPT ![t] = [p \in Parts |-> Zero]]
    /\ dirty' = [dirty EXCEPT ![t] = TRUE]
    /\ saved' = [saved EXCEPT ![t] = [p \in Parts |-> Clean]]
    /\ work' = [work EXCEPT ![t] = 0]
    /\ UNCHANGED <<sys, cur, TS, regs, owner, away, apVars>>

-----------------------------------------------------------------------------
(* The driver on the BSP.                                                  *)

\* switch_to_ap, as far as the registers are concerned: it reads those of the BSP
\* as the state of thread t.
SwitchToAp(t, a) ==
    /\ Managed(t) /\ away[t] = NoAp /\ stage[a] = "free"
    /\ apState' = [apState EXCEPT ![a] = FpuSave(FALSE, @)]
    /\ away' = [away EXCEPT ![t] = a]
    /\ stage' = [stage EXCEPT ![a] = "loaded"]
    /\ UNCHANGED apRegs

\* callback_int3 at fly(): TS is cleared for the FXSAVE and put back.
Fly(a) ==
    /\ SwitchToAp(cur, a)
    /\ UNCHANGED <<sys, bspVars, live, area, dirty, work>>

\* callback_int3 at reattach(): switch_to_bsp.
Reattach(a) ==
    /\ away[cur] = a /\ stage[a] = "cargo"
    /\ regs' = FpuRestore(FALSE, apState[a])
    /\ away' = [away EXCEPT ![cur] = NoAp]
    /\ stage' = [stage EXCEPT ![a] = "free"]
    /\ UNCHANGED <<sys, cur, TS, owner, saved, live, area, dirty, apState, apRegs, work>>

\* thread_switch, first half: the registers are still those of the thread that
\* leaves.
SaveOld ==
    IF Managed(cur)
    THEN /\ area' = [area EXCEPT ![cur] = FpuSave(TRUE, @)]
         /\ dirty' = [dirty EXCEPT ![cur] = FALSE]
    ELSE UNCHANGED <<area, dirty>>

\* Second half: the driver restores its parts of the thread that comes.
RestoreNew(t) ==
    IF Managed(t) /\ ~dirty[t] THEN FpuRestore(TRUE, area[t]) ELSE regs

\* Windows around the callback: it saves and loads its parts at the switch, or
\* sets TS and waits for the first instruction that needs them.
SwitchThreads(t) ==
    /\ t # cur /\ live[t]
    /\ SaveOld
    /\ IF sys.lazy
       THEN /\ regs' = RestoreNew(t)
            /\ UNCHANGED <<saved, owner>>
       ELSE /\ saved' = [saved EXCEPT ![cur] = Move(WinParts, regs, @)]
            /\ regs' = Move(WinParts, saved[t], RestoreNew(t))
            /\ owner' = t
    /\ cur' = t /\ TS' = (owner' # t)
    /\ UNCHANGED <<sys, live, work>>

ThreadSwitch(t) == SwitchThreads(t) /\ UNCHANGED <<away, apVars>>

\* The same in autorun mode: switch_to_ap between the two halves.
ThreadSwitchAutorun(t, a) == SwitchToAp(cur, a) /\ SwitchThreads(t)

-----------------------------------------------------------------------------
(* The AP: XRSTOR before the iret, XSAVE after the exception.              *)

ApSwitchtask(a) ==
    /\ stage[a] = "loaded"
    /\ stage' = [stage EXCEPT ![a] = "running"]
    /\ apRegs' = [apRegs EXCEPT ![a] = Move(Enabled, apState[a], @)]
    /\ UNCHANGED <<sys, bspVars, recVars, apState, work>>

ApCompute(a) ==
    \E t \in Recorded :
        /\ away[t] = a /\ stage[a] = "running"
        /\ work' = [work EXCEPT ![t] = Step(t)]
        /\ apRegs' = [apRegs EXCEPT ![a] =
              [p \in Parts |-> IF p \in Uses(t) THEN <<t, Step(t)>> ELSE @[p]]]
        /\ UNCHANGED <<sys, bspVars, recVars, stage, apState>>

ApSwitchBack(a) ==
    /\ stage[a] = "running"
    /\ stage' = [stage EXCEPT ![a] = "cargo"]
    /\ apState' = [apState EXCEPT ![a] = Move(Enabled, apRegs[a], @)]
    /\ UNCHANGED <<sys, bspVars, recVars, apRegs, work>>

FpuNext ==
    \/ Compute \/ DeviceNotAvailable
    \/ \E t \in Thread : Create(t) \/ ThreadSwitch(t)
    \/ \E a \in Ap :
          \/ Fly(a) \/ Reattach(a) \/ ApSwitchtask(a) \/ ApCompute(a) \/ ApSwitchBack(a)
          \/ \E t \in Thread : ThreadSwitchAutorun(t, a)

FpuSpec == FpuInit /\ [][FpuNext]_fpuVars

-----------------------------------------------------------------------------
(* Properties.                                                             *)

FpuTypeOK ==
    /\ sys \in Systems /\ cur \in Thread /\ TS \in BOOLEAN /\ owner \in Thread
    /\ regs \in [Parts -> Value]
    /\ saved \in [Thread -> [Parts -> Value]]
    /\ live \in [Thread -> BOOLEAN]
    /\ area \in [Thread -> [Parts -> Value]]
    /\ dirty \in [Thread -> BOOLEAN]
    /\ away \in [Thread -> Ap \cup {NoAp}]
    /\ stage \in [Ap -> {"free", "loaded", "running", "cargo"}]
    /\ apState \in [Ap -> [Parts -> Value]]
    /\ apRegs \in [Ap -> [Parts -> Value]]
    /\ work \in [Thread -> 0..sys.versions]

\* The parts of t that nobody may disturb.  Where Windows switches its parts only
\* when they are used, its registers may be those of another thread when t moves:
\* there the driver answers for its own parts.
Kept(t) == IF sys.lazy THEN Uses(t) \ WinParts ELSE Uses(t)

\* No processor ever loads an area that nothing was saved to: zeroes would unmask
\* the exceptions of SSE (dirty is there for it).
NoZeroState ==
    \A p \in Enabled :
        /\ regs[p] # Zero
        /\ \A a \in Ap : stage[a] = "running" => apRegs[a][p] # Zero

\* A thread finds the state it left, on whatever processor it executes, and however
\* it came there: by a switch, by fly(), at a switch in autorun mode, by reattach().
OwnState ==
    /\ NoZeroState
    /\ \A t \in Thread : work[t] # 0 =>
          \A p \in Kept(t) :
             /\ t = cur /\ away[t] = NoAp => regs[p] = Own(t)
             /\ \A a \in Ap : away[t] = a /\ stage[a] = "running" => apRegs[a][p] = Own(t)

=============================================================================
