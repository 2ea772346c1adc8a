-------------------------------- MODULE Trap --------------------------------
(***************************************************************************)
(* The AP kernel between a thread's instructions: how an exception on an   *)
(* AP sends the thread back to the BSP, where the instruction is executed  *)
(* again, and through which page tables the AP reaches the memory.         *)
(*                                                                         *)
(* The AP has the page tables of Windows, reached through a copy of the    *)
(* page directory made when the thread was loaded, and a TLB nobody but    *)
(* _switchtask flushes.  Windows moves pages meanwhile.  The status word   *)
(* and the other handlers are in Migration, the FPU is in Fpu.             *)
(***************************************************************************)
EXTENDS Naturals, Sequences, FiniteSets

CONSTANTS
    Process,   \* threads, each in a process of its own
    Cpu,       \* application processors
    NoCpu,
    Programs,  \* what a thread executes: a sequence of instructions
    Page,      \* pages of a process; the same addresses in all
    LockPage,  \* the one with the idle lock: the stack
    Frame      \* frames of memory, numbered from 1

\* Instructions.  A Use(p) touches page p; a Trap(v) raises exception v on an AP and
\* needs Windows: a system call, which needs FS and kernel32, a division by 0.
Plain   == [op |-> "plain"]
Use(p)  == [op |-> "use", page |-> p]
Trap(v) == [op |-> "trap", vector |-> v]
Int3    == [op |-> "int3"]
FlyOp   == [op |-> "fly"]
LandOp  == [op |-> "land"]
Instruction == {Plain, Int3, FlyOp, LandOp} \cup {Use(p) : p \in Page} \cup {Trap(v) : v \in 0..31}

Absent == 0          \* no frame
Lost   == 0          \* not an address of the program: kernel code, or a misread stack

ASSUME TrapAssumption ==
    /\ NoCpu \notin Cpu /\ LockPage \in Page
    /\ Frame \subseteq Nat \ {Absent}
    /\ Programs \subseteq Seq(Instruction)

VARIABLES
    prog,      \* the program of a thread
    act,       \* act_tid
    bspThread, \* gdata.bsp_thread
    crs,       \* the client registers of a thread on the BSP: EIP and EFLAGS
    at,        \* the AP a thread is on
    mode,      \* how far AP c is with its thread
    threadPtr, \* tdata.thread_ptr
    procState, \* tdata.proc_state
    core,      \* the registers of AP c
    pd,        \* tdata.pd: whose page directory, and which entries it has
    tlb,       \* the frames AP c takes the pages for
    pde,       \* the entries in the page directory of Windows, by process
    pte,       \* the frame of a page; Absent when it is swapped out
    done,      \* history: the instructions executed
    since      \* history: what a page of the thread on AP c was since it was loaded

ctxVars  == <<act, bspThread, crs, at>>
cpuVars  == <<mode, threadPtr, procState, core, pd, tlb>>
memVars  == <<pde, pte>>
trapVars == <<prog, ctxVars, cpuVars, memVars, done, since>>

\* EFLAGS has bits of the program and bits of the system (eflags_mask).  What plain
\* instructions leave in the former is told apart by its parity.
Flags  == [arith : 0..1, system : Process \cup Cpu]
Regs   == [eip : Nat, flags : Flags]
Start(x) == [eip |-> 1, flags |-> [arith |-> 0, system |-> x]]

TrapInit ==
    /\ prog \in [Process -> Programs]
    /\ act \in Process /\ bspThread = act
    /\ crs = [t \in Process |-> Start(t)]
    /\ at = [t \in Process |-> NoCpu]
    /\ mode = [c \in Cpu |-> "free"]
    /\ threadPtr = [c \in Cpu |-> act]
    /\ procState = [c \in Cpu |-> Start(c)]
    /\ core = [c \in Cpu |-> Start(c)]
    /\ pd = [c \in Cpu |-> [of |-> act, entries |-> {}]]
    /\ tlb = [c \in Cpu |-> [p \in Page |-> Absent]]
    /\ pde = [t \in Process |-> {LockPage}]
    /\ pte = [t \in Process |-> [p \in Page |-> Absent]]
    /\ done = [t \in Process |-> <<>>]
    /\ since = [c \in Cpu |-> [p \in Page |-> {}]]

\* The instruction at an EIP; beyond the end the thread waits in Windows.
At(t, eip)   == IF eip \in 1..Len(prog[t]) THEN prog[t][eip] ELSE [op |-> "end"]
Advance(r)   == [r EXCEPT !.eip = @ + 1]
Computed(r)  == [Advance(r) EXCEPT !.flags.arith = 1 - @]
Executed(t, eip) == done' = [done EXCEPT ![t] = Append(@, eip)]

-----------------------------------------------------------------------------
(* The BSP.                                                                *)

BspOp(op) == at[act] = NoCpu /\ At(act, crs[act].eip).op = op

\* What the BSP executes without the driver: plain instructions, land(), which does
\* nothing here, and what Windows handles.
BspExecute ==
    /\ \E op \in {"plain", "trap", "int3", "land"} :
          /\ BspOp(op)
          /\ crs' = [crs EXCEPT ![act] = IF op = "plain" THEN Computed(@) ELSE Advance(@)]
    /\ Executed(act, crs[act].eip)
    /\ UNCHANGED <<prog, act, bspThread, at, cpuVars, memVars, since>>

\* An access of the BSP to a page that is not there: Windows brings it in, with a
\* page table if the entry has none.
PageIn(p) ==
    /\ pte[act][p] = Absent
    /\ \E f \in Frame :
          /\ \A t \in Process, q \in Page : pte[t][q] # f
          /\ pte' = [pte EXCEPT ![act][p] = f]
          /\ since' = [c \in Cpu |->
                IF at[act] = c THEN [since[c] EXCEPT ![p] = @ \cup {f}] ELSE since[c]]
    /\ pde' = [pde EXCEPT ![act] = @ \cup {p}]

BspUse ==
    /\ BspOp("use")
    /\ LET p == At(act, crs[act].eip).page IN
          \/ pte[act][p] # Absent /\ UNCHANGED <<memVars, since>>
          \/ PageIn(p)
    /\ crs' = [crs EXCEPT ![act] = Advance(@)]
    /\ Executed(act, crs[act].eip)
    /\ UNCHANGED <<prog, act, bspThread, at, cpuVars>>

\* Windows swaps a page out, also while its thread is on an AP: it does not know.
\* The driver does nothing about the TLB of the AP.
PageOut(t, p) ==
    /\ pte[t][p] # Absent
    /\ pte' = [pte EXCEPT ![t][p] = Absent]
    /\ UNCHANGED <<prog, ctxVars, cpuVars, pde, done, since>>

\* The stack is touched by whatever runs in the thread's name on the BSP: its code,
\* switch_to_ap when it sets the idle lock, the idle procedure.
TouchStack ==
    /\ PageIn(LockPage)
    /\ UNCHANGED <<prog, ctxVars, cpuVars, done>>

\* copy_pd(full = 0): the directory of the current process, without the entry of
\* kernel32, so that a call of it traps: that is a Trap(14).
CopyPd == [of |-> act, entries |-> pde[act]]

\* Mutant of LoadCpu: no thread_ptr.
LoadCpuNull(c) ==
    /\ at[act] = NoCpu /\ mode[c] = "free" /\ pte[act][LockPage] # Absent
    /\ at' = [at EXCEPT ![act] = c]
    /\ mode' = [mode EXCEPT ![c] = "loaded"]
    /\ threadPtr' = [threadPtr EXCEPT ![c] = NoCpu]
    /\ pd' = [pd EXCEPT ![c] = CopyPd]
    /\ since' = [since EXCEPT ![c] = [p \in Page |-> {pte[act][p]}]]
    /\ UNCHANGED <<prog, crs, core, tlb, memVars>>

\* switch_to_ap, seen from the registers and the memory.
LoadCpu(c) ==
    /\ at[act] = NoCpu /\ mode[c] = "free" /\ pte[act][LockPage] # Absent
    /\ at' = [at EXCEPT ![act] = c]
    /\ mode' = [mode EXCEPT ![c] = "loaded"]
    /\ threadPtr' = [threadPtr EXCEPT ![c] = act]
    /\ pd' = [pd EXCEPT ![c] = CopyPd]
    /\ since' = [since EXCEPT ![c] = [p \in Page |-> {pte[act][p]}]]
    /\ UNCHANGED <<prog, crs, core, tlb, memVars>>

\* fly(): its int3 is behind the client EIP when callback_int3 copies it.
LoadByFly(c) ==
    /\ BspOp("fly")
    /\ LoadCpu(c)
    /\ procState' = [procState EXCEPT ![c] = Advance(crs[act])]
    /\ Executed(act, crs[act].eip)
    /\ UNCHANGED <<act, bspThread>>

NoFreeCpu ==
    /\ BspOp("fly") /\ \A c \in Cpu : mode[c] # "free"
    /\ crs' = [crs EXCEPT ![act] = Advance(@)]
    /\ Executed(act, crs[act].eip)
    /\ UNCHANGED <<prog, act, bspThread, at, cpuVars, memVars, since>>

\* Mutant of SwitchAway: gdata.bsp_thread is not set.
SwitchAwayUnseen(t) ==
    /\ t # act /\ act' = t
    /\ UNCHANGED <<prog, bspThread, crs, at, cpuVars, memVars, done, since>>

\* thread_switch; in autorun mode the thread that leaves may be loaded.
SwitchAway(t) ==
    /\ t # act /\ act' = t /\ bspThread' = t
    /\ UNCHANGED <<prog, crs, at, cpuVars, memVars, done, since>>

LoadAtSwitch(t, c) ==
    /\ t # act /\ act' = t /\ bspThread' = t
    /\ LoadCpu(c)
    /\ procState' = [procState EXCEPT ![c] = crs[act]]
    /\ UNCHANGED done

\* reattach() in the idle loop: switch_to_bsp.
Unload(c) ==
    /\ at[act] = c /\ mode[c] = "cargo"
    /\ crs' = [crs EXCEPT ![act] = procState[c]]
    /\ at' = [at EXCEPT ![act] = NoCpu]
    /\ mode' = [mode EXCEPT ![c] = "free"]
    /\ since' = [since EXCEPT ![c] = [p \in Page |-> {}]]
    /\ UNCHANGED <<prog, act, bspThread, threadPtr, procState, core, pd, tlb, memVars, done>>

-----------------------------------------------------------------------------
(* The AP.                                                                 *)

\* Mutant of EnterUser: CR3 is loaded before and the TLB kept.
EnterUserStale(c) ==
    /\ mode[c] = "loaded"
    /\ mode' = [mode EXCEPT ![c] = "running"]
    /\ core' = [core EXCEPT ![c] = [procState[c] EXCEPT !.flags.system = c]]
    /\ UNCHANGED <<prog, ctxVars, threadPtr, procState, pd, tlb, memVars, done, since>>

\* _switchtask: CR3 is loaded, which flushes the TLB; the bits of the system in
\* EFLAGS are the AP's.
EnterUser(c) ==
    /\ mode[c] = "loaded"
    /\ mode' = [mode EXCEPT ![c] = "running"]
    /\ tlb' = [tlb EXCEPT ![c] = [p \in Page |-> Absent]]
    /\ core' = [core EXCEPT ![c] = [procState[c] EXCEPT !.flags.system = c]]
    /\ UNCHANGED <<prog, ctxVars, threadPtr, procState, pd, memVars, done, since>>

\* The frame AP c reaches page p by: what the TLB has, or what the tables say.
Walk(c, p) ==
    IF tlb[c][p] # Absent THEN tlb[c][p]
    ELSE IF p \in pd[c].entries THEN pte[pd[c].of][p] ELSE Absent

\* The thread whose context AP c has.
Runs(t, c) == at[t] = c
CpuOp(t, c, op) == Runs(t, c) /\ mode[c] = "running" /\ At(t, core[c].eip).op = op

\* Plain instructions and fly(), which does nothing here.
CpuExecute(t, c) ==
    /\ \E op \in {"plain", "fly"} :
          /\ CpuOp(t, c, op)
          /\ core' = [core EXCEPT ![c] = IF op = "plain" THEN Computed(@) ELSE Advance(@)]
    /\ Executed(t, core[c].eip)
    /\ UNCHANGED <<prog, ctxVars, mode, threadPtr, procState, pd, tlb, memVars, since>>

CpuUse(t, c) ==
    /\ CpuOp(t, c, "use")
    /\ LET p == At(t, core[c].eip).page IN
          /\ Walk(c, p) # Absent
          /\ tlb' = [tlb EXCEPT ![c][p] = Walk(c, p)]
    /\ core' = [core EXCEPT ![c] = Advance(@)]
    /\ Executed(t, core[c].eip)
    /\ UNCHANGED <<prog, ctxVars, mode, threadPtr, procState, pd, memVars, since>>

\* The exceptions for which the processor pushes an error code.
PushesCode == {8, 10, 11, 12, 13, 14, 17, 21}

\* The IDT: which routine an exception enters.  15 has no entry and is never raised; the
\* dummy returns at once, to where the thread was.  (4 is raised as 13, since its gate is
\* one of ring 0: that sends the thread back at the same EIP.)
Isr(v) ==
    IF v = 3 THEN "int3"
    ELSE IF v \in {2, 7} \cup 22..31 THEN "dummy"
    ELSE IF v \in {8, 10, 11, 12, 13, 14, 17, 21} THEN "error_code"
    ELSE "error"

\* By how much EIP is behind the instruction that raises an exception: a debug exception
\* comes after it (single step, data) or before it (instruction), the others before it.
Behind(v) == IF v = 1 THEN {0, 1} ELSE {0}

\* The EIP that switch_back finds on the stack: _error_isr_code drops a word first.
SavedEip(v, eip) ==
    IF (Isr(v) = "error_code") = (v \in PushesCode) THEN eip ELSE Lost

\* Mutant of SwitchBack: no eflags_mask.
SwitchBackUnmasked(c, eip) ==
    /\ procState' = [procState EXCEPT ![c] = [eip |-> eip, flags |-> core[c].flags]]
    /\ core' = [core EXCEPT ![c] = Start(c)]
    /\ UNCHANGED <<prog, ctxVars, threadPtr, pd, tlb, memVars, since>>

\* switch_back: the registers are saved, the bits of the system in EFLAGS stay as
\* Windows had them, and the AP goes on in its own loop.
SwitchBack(c, eip) ==
    /\ procState' = [procState EXCEPT ![c] =
          [eip |-> eip, flags |-> [arith |-> core[c].flags.arith, system |-> @.flags.system]]]
    /\ core' = [core EXCEPT ![c] = Start(c)]
    /\ UNCHANGED <<prog, ctxVars, threadPtr, pd, tlb, memVars, since>>

\* An exception other than a breakpoint.  Where EIP is behind the instruction, that has
\* been executed.
ErrorIsr(t, c) ==
    /\ \E v \in {w \in 0..31 : Isr(w) \in {"error", "error_code"}} : \E n \in Behind(v) :
          /\ \/ CpuOp(t, c, "trap") /\ At(t, core[c].eip).vector = v
             \/ CpuOp(t, c, "use") /\ v = 14 /\ Walk(c, At(t, core[c].eip).page) = Absent
          /\ SwitchBack(c, SavedEip(v, core[c].eip + n))
          /\ IF n = 1 THEN Executed(t, core[c].eip) ELSE UNCHANGED done
    /\ mode' = [mode EXCEPT ![c] = "notify"]

\* Mutant of Int3Isr: every breakpoint has done its work.
Int3IsrSkips(t, c) ==
    /\ CpuOp(t, c, "land") \/ CpuOp(t, c, "int3")
    /\ SwitchBack(c, core[c].eip + 1)
    /\ IF CpuOp(t, c, "land") THEN Executed(t, core[c].eip) ELSE UNCHANGED done
    /\ mode' = [mode EXCEPT ![c] = "notify"]

\* A breakpoint; EIP is behind it.  In the code of land() it has done its work, any
\* other is for Windows, so _int3_isr goes back to it.
Int3Isr(t, c) ==
    /\ \/ CpuOp(t, c, "land") /\ SwitchBack(c, core[c].eip + 1) /\ Executed(t, core[c].eip)
       \/ CpuOp(t, c, "int3") /\ SwitchBack(c, core[c].eip + 1 - 1) /\ UNCHANGED done
    /\ mode' = [mode EXCEPT ![c] = "notify"]

\* smp_ap_main in S_RUNNING: the idle lock is cleared, in ring 0, through the page
\* directory of the thread.
Notify(c) ==
    /\ mode[c] = "notify" /\ Walk(c, LockPage) # Absent
    /\ mode' = [mode EXCEPT ![c] = "cargo"]
    /\ tlb' = [tlb EXCEPT ![c][LockPage] = Walk(c, LockPage)]
    /\ UNCHANGED <<prog, ctxVars, threadPtr, procState, core, pd, memVars, done, since>>

\* If the page is not there, the exception is one of the kernel: _error_isr_code
\* saves the kernel's context over that of the thread, and the AP returns to its
\* loop with its own lock taken (S_BUSY), which it then waits for.
KernelFault(c) ==
    /\ mode[c] = "notify" /\ Walk(c, LockPage) = Absent
    /\ SwitchBack(c, Lost)
    /\ mode' = [mode EXCEPT ![c] = "busy"]
    /\ UNCHANGED done

-----------------------------------------------------------------------------
TrapNext ==
    \/ BspExecute \/ BspUse \/ TouchStack \/ NoFreeCpu
    \/ \E t \in Process : SwitchAway(t) \/ \E p \in Page : PageOut(t, p)
    \/ \E c \in Cpu :
          \/ LoadByFly(c) \/ Unload(c) \/ EnterUser(c) \/ Notify(c) \/ KernelFault(c)
          \/ \E t \in Process :
                \/ LoadAtSwitch(t, c)
                \/ CpuExecute(t, c) \/ CpuUse(t, c) \/ ErrorIsr(t, c) \/ Int3Isr(t, c)

TrapSpec == TrapInit /\ [][TrapNext]_trapVars

-----------------------------------------------------------------------------
(* Properties.                                                             *)

TrapTypeOK ==
    /\ prog \in [Process -> Programs] /\ act \in Process /\ bspThread \in Process
    /\ crs \in [Process -> Regs] /\ at \in [Process -> Cpu \cup {NoCpu}]
    /\ mode \in [Cpu -> {"free", "loaded", "running", "notify", "cargo", "busy"}]
    /\ threadPtr \in [Cpu -> Process]
    /\ procState \in [Cpu -> Regs] /\ core \in [Cpu -> Regs]
    /\ pd \in [Cpu -> [of : Process, entries : SUBSET Page]]
    /\ tlb \in [Cpu -> [Page -> Frame \cup {Absent}]]
    /\ pde \in [Process -> SUBSET Page]
    /\ pte \in [Process -> [Page -> Frame \cup {Absent}]]
    /\ done \in [Process -> Seq(Nat)]
    /\ since \in [Cpu -> [Page -> SUBSET (Frame \cup {Absent})]]

\* Where the context of t is: the client registers, tdata.proc_state or the AP.
Context(t) ==
    IF at[t] = NoCpu THEN crs[t]
    ELSE IF mode[at[t]] = "running" THEN core[at[t]] ELSE procState[at[t]]

\* Every instruction is executed once, in order, whatever exceptions send the thread
\* back: those that Windows must handle on the BSP, a breakpoint too, and the one in
\* land() not again.  (A thread whose AP is lost is not executed any more.)
ExecutedOnce ==
    \A t \in Process :
        /\ done[t] = [n \in 1..Len(done[t]) |-> n]
        /\ at[t] = NoCpu \/ mode[at[t]] # "busy" => Context(t).eip = Len(done[t]) + 1

\* EFLAGS of a thread on the BSP or on its way: the bits of the system are those
\* Windows gave it, the others are those it computed, on either processor.
FlagsMerged ==
    \A t \in Process : LET flags == Context(t).flags IN
        /\ at[t] = NoCpu \/ mode[at[t]] # "running" => flags.system = t
        /\ at[t] = NoCpu \/ mode[at[t]] # "busy" =>
              flags.arith = Cardinality({n \in 1..Len(done[t]) : At(t, n).op = "plain"}) % 2

\* The AP uses no translation from before its thread was loaded, of another process
\* least of all.  (It may use one that Windows has since taken back: nothing flushes
\* the TLB of an AP while a thread computes.)
TranslatesSinceLoad ==
    \A t \in Process, c \in Cpu : at[t] = c /\ mode[c] \in {"running", "notify"} =>
        /\ pd[c].of = t
        /\ \A p \in Page : tlb[c][p] \in since[c][p] \cup {Absent}

\* thread_data(): the data of the thread that asks, on either processor.
ThreadData(c) == IF c = NoCpu THEN bspThread ELSE threadPtr[c]
ThreadDataIsOwn ==
    /\ ThreadData(NoCpu) = act
    /\ \A t \in Process, c \in Cpu : at[t] = c /\ mode[c] = "running" => ThreadData(c) = t

=============================================================================
