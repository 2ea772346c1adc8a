----------------------------- MODULE Migration -----------------------------
(***************************************************************************)
(* Moving a thread between the bootstrap processor (BSP) and the           *)
(* application processors (APs).                                           *)
(*                                                                         *)
(* The BSP runs Windows: one thread at a time, and the driver's ring-0     *)
(* handlers (the int3 hook behind fly() and reattach(), the thread switch  *)
(* callback, the thread creation and destruction messages) run to their    *)
(* end before another thread runs there.  Every AP runs smp_ap_main in a   *)
(* loop of its own.  The two sides meet at tdata.status, a word that is    *)
(* the state of the AP and the lock that protects it: taking the lock      *)
(* exchanges S_BUSY for the state, releasing it stores the next state.     *)
(*                                                                         *)
(* Each access of a handler to memory another processor writes is a step   *)
(* of its own.                                                             *)
(***************************************************************************)
EXTENDS Naturals, FiniteSets

CONSTANTS
    Thread,    \* thread handles the VMM gives to threads with a ts_thread record
    NoThread,  \* a thread without one (it existed before the driver was loaded)
    Ap,        \* APIC ids of the application processors, a set of naturals
    NoAp,      \* the end of the scan of ttable
    Context,   \* register and FPU contexts of a program
    Computes,  \* <<c, d>>: the program goes from context c to context d
    Trampoline,\* the context that runs the idle loop through _trampoline
    InitState, \* the context of the AP's own loop, tdata.init_state
    Mortal,    \* the threads that may be destroyed at any time
    Locked,    \* the threads that register an idle lock with the idle procedure
    Modes,     \* the modes programs ask for
    Word       \* the modulus of the 32-bit counter ap_free_cnt

ASSUME ApAssumption == Ap \subseteq Nat /\ IsFiniteSet(Ap) /\ Ap # {} /\ NoAp \notin Ap
ASSUME ThreadAssumption ==
    /\ NoThread \notin Thread \cup Ap \cup {NoAp}
    /\ Mortal \subseteq Thread /\ Locked \subseteq Thread
ASSUME ContextAssumption ==
    Context # {} /\ Trampoline \notin Context /\ InitState \notin Context
ASSUME ModesAssumption == Modes \subseteq {"system", "manual", "autorun"}
ASSUME WordAssumption == Word \in Nat \ {0} /\ Cardinality(Ap) \in 0 .. Word - 1

State == {"BUSY", "READY", "SLEEP", "LOADED", "RUNNING", "CARGO", "DIRCARD"}

VARIABLES
  \* ttable[a].data, shared by the BSP and AP a
    status,       \* tdata.status: the AP's state, or BUSY while someone holds it
    slot,         \* tdata.thread_id and tdata.thread_ptr
    pctx,         \* tdata.proc_state and tdata.fpu_state
  \* AP a alone
    apc,          \* where the AP is in its loop
    aps,          \* the local s of smp_ap_main
    acnt,         \* ap_free_cnt as the AP loaded it to increment it
    rctx,         \* the AP's registers
  \* the record of thread t, and what the BSP keeps of it
    live,         \* the record is in the hash table
    smp_status,   \* ts_thread.smp_status: 1 while the thread is on an AP
    smp_apid,     \* ts_thread.smp_apid: which one
    mode,         \* ts_thread.mode; the idle procedure is set with it
    pagefault,    \* ts_thread.pagefault: it faulted since it was switched in
    where,        \* where its BSP side executes: user code, fly, idle loop, reattach
    bctx,         \* its client registers on the BSP
    idleLock,     \* the word the idle loop polls, in the thread's own memory
  \* the BSP
    act_tid,      \* act_tid, and gdata.bsp_thread which is its record
    ap_free_cnt,  \* gdata.ap_free_cnt
    bpc,          \* where the BSP is: in ring 3, or in which part of a handler
    bop,          \* the handler it is in
    bthr,         \* the handler's thread
    bnew,         \* the thread a thread switch switches to
    bcpu,         \* the handler's cpu
    bs,           \* the handler's local s
    bcnt          \* ap_free_cnt as the BSP loaded it to change it

shared   == <<status, slot, pctx>>
apVars   == <<apc, aps, acnt, rctx>>
threads  == <<live, smp_status, smp_apid, mode, pagefault, where, bctx, idleLock>>
bspVars  == <<act_tid, bpc, bop, bthr, bnew, bcpu, bs, bcnt>>
vars     == <<shared, apVars, threads, bspVars, ap_free_cnt>>

IdleProc(t) == mode[t] # "system"         \* smp_bsp_idle_proc # 0
IdleLock(t) == IdleProc(t) /\ t \in Locked \* smp_bsp_idle_lock # NULL

After(c) == {d \in Context : <<c, d>> \in Computes}

Init ==
    /\ status = [a \in Ap |-> "READY"]
    /\ slot = [a \in Ap |-> NoThread]
    /\ pctx = [a \in Ap |-> InitState]
    /\ apc = [a \in Ap |-> "main"]
    /\ aps = [a \in Ap |-> "BUSY"]
    /\ acnt = [a \in Ap |-> 0]
    /\ rctx = [a \in Ap |-> InitState]
    /\ live = [t \in Thread |-> FALSE]
    /\ smp_status = [t \in Thread |-> 0]
    /\ smp_apid = [t \in Thread |-> 0]
    /\ mode = [t \in Thread |-> "system"]
    /\ pagefault = [t \in Thread |-> FALSE]
    /\ where = [t \in Thread |-> "user"]
    /\ bctx = [t \in Thread |-> Trampoline]
    /\ idleLock \in [Thread -> {0, 1}]    \* the program leaves it uninitialised
    /\ act_tid = NoThread
    /\ ap_free_cnt = Cardinality(Ap)
    /\ bpc = "ring3" /\ bop = "none" /\ bthr = NoThread /\ bnew = NoThread
    /\ bcpu = NoAp /\ bs = "BUSY" /\ bcnt = 0

-----------------------------------------------------------------------------
(* The AP: smp_ap_main, and the kernel loop around it.                      *)

\* atomic_lock in a loop until the result is not S_BUSY.
ApLock(a) ==
    /\ apc[a] = "main" /\ status[a] # "BUSY"
    /\ aps' = [aps EXCEPT ![a] = status[a]]
    /\ status' = [status EXCEPT ![a] = "BUSY"]
    /\ apc' = [apc EXCEPT ![a] = "switch"]
    /\ UNCHANGED <<slot, pctx, acnt, rctx, threads, bspVars, ap_free_cnt>>

ApDecides(a, s) ==
    /\ apc[a] = "switch"
    /\ aps' = [aps EXCEPT ![a] = s]
    /\ apc' = [apc EXCEPT ![a] = "unlock"]
    /\ UNCHANGED <<shared, acnt, rctx, bspVars, ap_free_cnt, live, smp_status,
                   smp_apid, mode, pagefault, where, bctx>>

\* S_READY: sleep once the time since last_active has run out.
ApReady(a) ==
    /\ aps[a] = "READY"
    /\ \E s \in {"READY", "SLEEP"} : ApDecides(a, s)
    /\ UNCHANGED idleLock

\* S_SLEEP and S_CARGO: nothing to do, S_CARGO waits for the BSP.
ApWaits(a) ==
    /\ aps[a] \in {"SLEEP", "CARGO"}
    /\ ApDecides(a, aps[a])
    /\ UNCHANGED idleLock

\* S_LOADED: run it.
ApLoaded(a) ==
    /\ aps[a] = "LOADED"
    /\ ApDecides(a, "RUNNING")
    /\ UNCHANGED idleLock

\* Mutant of ApRunning: the idle lock is not cleared.
ApRunningSilent(a) ==
    /\ aps[a] = "RUNNING"
    /\ ApDecides(a, "CARGO")
    /\ UNCHANGED idleLock

\* Mutant of ApRunning: the AP does not wait to be unloaded.
ApRunningToReady(a) ==
    /\ aps[a] = "RUNNING"
    /\ ApDecides(a, "READY")
    /\ LET t == slot[a] IN
       idleLock' = IF t \in Thread /\ live[t] /\ IdleLock(t)
                   THEN [idleLock EXCEPT ![t] = 0] ELSE idleLock

\* S_RUNNING: the thread came back by switch_back; tell its idle loop.
ApRunning(a) ==
    /\ aps[a] = "RUNNING"
    /\ ApDecides(a, "CARGO")
    /\ LET t == slot[a] IN
       idleLock' = IF t \in Thread /\ live[t] /\ IdleLock(t)
                   THEN [idleLock EXCEPT ![t] = 0] ELSE idleLock

\* Mutant of ApDiscard: the state is not reset.
ApDiscardKept(a) ==
    /\ apc[a] = "switch" /\ aps[a] = "DIRCARD"
    /\ aps' = [aps EXCEPT ![a] = "DIRCARD"]
    /\ acnt' = [acnt EXCEPT ![a] = ap_free_cnt]
    /\ apc' = [apc EXCEPT ![a] = "inc"]
    /\ UNCHANGED <<shared, rctx, threads, bspVars, ap_free_cnt>>

\* S_DIRCARD: the thread was destroyed, the AP is free again.  ap_free_cnt++
\* is a load and a store here, for the instruction has no lock prefix.
ApDiscard(a) ==
    /\ apc[a] = "switch" /\ aps[a] = "DIRCARD"
    /\ aps' = [aps EXCEPT ![a] = "READY"]
    /\ acnt' = [acnt EXCEPT ![a] = ap_free_cnt]
    /\ apc' = [apc EXCEPT ![a] = "inc"]
    /\ UNCHANGED <<shared, rctx, threads, bspVars, ap_free_cnt>>

ApIncStore(a) ==
    /\ apc[a] = "inc"
    /\ ap_free_cnt' = (acnt[a] + 1) % Word
    /\ apc' = [apc EXCEPT ![a] = "unlock"]
    /\ acnt' = [acnt EXCEPT ![a] = 0]
    /\ UNCHANGED <<shared, aps, rctx, threads, bspVars>>

\* Mutant of ApUnlock: it sleeps without unlocking.
ApUnlockNotAsleep(a) ==
    /\ apc[a] = "unlock"
    /\ status' = IF aps[a] = "SLEEP" THEN status ELSE [status EXCEPT ![a] = aps[a]]
    /\ apc' = [apc EXCEPT ![a] = IF aps[a] = "SLEEP" THEN "hlt"
                                ELSE IF aps[a] = "RUNNING" THEN "switchtask"
                                ELSE "main"]
    /\ aps' = [aps EXCEPT ![a] = "BUSY"]
    /\ UNCHANGED <<slot, pctx, acnt, rctx, threads, bspVars, ap_free_cnt>>

\* atomic_unlock, then sleep, or return 1 to run the thread, or return 0.  A
\* local that is dead is reset, here and below, to keep the state space small.
ApUnlock(a) ==
    /\ apc[a] = "unlock"
    /\ status' = [status EXCEPT ![a] = aps[a]]
    /\ apc' = [apc EXCEPT ![a] = IF aps[a] = "SLEEP" THEN "hlt"
                                ELSE IF aps[a] = "RUNNING" THEN "switchtask"
                                ELSE "main"]
    /\ aps' = [aps EXCEPT ![a] = "BUSY"]
    /\ UNCHANGED <<slot, pctx, acnt, rctx, threads, bspVars, ap_free_cnt>>

\* smp_sleep: sti and hlt.  Only an NMI ends it (SmpWakeup).
ApHlt(a) ==
    /\ apc[a] = "hlt"
    /\ apc' = [apc EXCEPT ![a] = "halted"]
    /\ UNCHANGED <<shared, aps, acnt, rctx, threads, bspVars, ap_free_cnt>>

\* _switchtask: load proc_state and fpu_state and iret to the thread.
ApSwitchtask(a) ==
    /\ apc[a] = "switchtask"
    /\ rctx' = [rctx EXCEPT ![a] = pctx[a]]
    /\ apc' = [apc EXCEPT ![a] = "user"]
    /\ UNCHANGED <<shared, aps, acnt, threads, bspVars, ap_free_cnt>>

\* The thread computes.
ApUserStep(a) ==
    /\ apc[a] = "user"
    /\ \E c \in After(rctx[a]) : rctx' = [rctx EXCEPT ![a] = c]
    /\ UNCHANGED <<shared, apc, aps, acnt, threads, bspVars, ap_free_cnt>>

\* Mutant of ApSwitchBack: proc_state is not written.
ApSwitchBackUnsaved(a) ==
    /\ apc[a] = "user"
    /\ UNCHANGED pctx
    /\ rctx' = [rctx EXCEPT ![a] = InitState]
    /\ apc' = [apc EXCEPT ![a] = "main"]
    /\ UNCHANGED <<status, slot, aps, acnt, threads, bspVars, ap_free_cnt>>

\* land(), or any exception such as the one a system call ends in on an AP:
\* switch_back saves the context and restarts the AP's loop.
ApSwitchBack(a) ==
    /\ apc[a] = "user"
    /\ pctx' = [pctx EXCEPT ![a] = rctx[a]]
    /\ rctx' = [rctx EXCEPT ![a] = InitState]
    /\ apc' = [apc EXCEPT ![a] = "main"]
    /\ UNCHANGED <<status, slot, aps, acnt, threads, bspVars, ap_free_cnt>>

ApStep(a) ==
    \/ ApLock(a) \/ ApReady(a) \/ ApWaits(a) \/ ApLoaded(a) \/ ApRunning(a)
    \/ ApDiscard(a) \/ ApIncStore(a) \/ ApUnlock(a) \/ ApHlt(a) \/ ApSwitchtask(a)
    \/ ApSwitchBack(a)

-----------------------------------------------------------------------------
(* The BSP in ring 3: whichever thread is current.                          *)

InRing3(t) == bpc = "ring3" /\ act_tid = t /\ live[t]

\* The thread computes.
UserStep(t) ==
    /\ InRing3(t) /\ where[t] = "user"
    /\ \E c \in After(bctx[t]) : bctx' = [bctx EXCEPT ![t] = c]
    /\ UNCHANGED <<shared, apVars, bspVars, ap_free_cnt, live, smp_status,
                   smp_apid, mode, pagefault, where, idleLock>>

\* DIOC_SMP_ELEVATE: smp_elevate sets mode, idle procedure and idle lock.
Elevate(t) ==
    /\ InRing3(t) /\ where[t] = "user"
    /\ \E m \in Modes : mode' = [mode EXCEPT ![t] = m]
    /\ UNCHANGED <<shared, apVars, bspVars, ap_free_cnt, live, smp_status,
                   smp_apid, pagefault, where, bctx, idleLock>>

\* callback_pf.
PageFault(t) ==
    /\ InRing3(t) /\ where[t] = "user"
    /\ pagefault' = [pagefault EXCEPT ![t] = TRUE]
    /\ UNCHANGED <<shared, apVars, bspVars, ap_free_cnt, live, smp_status,
                   smp_apid, mode, where, bctx, idleLock>>

MovesTo(t, place) ==
    /\ where' = [where EXCEPT ![t] = place]
    /\ UNCHANGED <<shared, apVars, bspVars, ap_free_cnt, live, smp_status,
                   smp_apid, mode, pagefault, bctx, idleLock>>

\* _fly: its tests in ring 3; int3 comes next, and much can happen before.
Fly(t) ==
    /\ InRing3(t) /\ where[t] = "user"
    /\ IdleProc(t) /\ ap_free_cnt # 0
    /\ MovesTo(t, "fly")

\* smp9x_thread_idle_proc: call reattach once the lock reads 0.
IdlePoll(t) ==
    /\ InRing3(t) /\ where[t] = "idle"
    /\ IdleLock(t) => idleLock[t] = 0
    /\ MovesTo(t, "reattach")

-----------------------------------------------------------------------------
(* The BSP in ring 0: the handlers.                                         *)

\* ttable[cpu], cpu = 0 .. ttable_max, where data # NULL: the APs in order.
NextAp(c) ==
    LET next(a) == a >= c /\ \A b \in Ap : b >= c => a <= b
    IN  IF \E a \in Ap : next(a) THEN CHOOSE a \in Ap : next(a) ELSE NoAp

\* A handler that must take the lock of a cpu starts.
Enters(op, t, cpu, new) ==
    /\ bpc' = "lock" /\ bop' = op /\ bthr' = t /\ bcpu' = cpu /\ bnew' = new
    /\ UNCHANGED <<act_tid, bs, bcnt>>

\* The handler returns to ring 3, its locals are gone.
Returns ==
    /\ bpc' = "ring3" /\ bop' = "none" /\ bthr' = NoThread /\ bnew' = NoThread
    /\ bcpu' = NoAp /\ bs' = "BUSY" /\ bcnt' = 0

\* callback_int3 in the range of _fly, as far as the loop of switch_to_ap.
Int3Fly(t) ==
    /\ InRing3(t) /\ where[t] = "fly"
    /\ smp_status[t] = 0 /\ IdleProc(t)
    /\ Enters("fly", t, NextAp(0), NoThread)
    /\ UNCHANGED <<shared, apVars, threads, ap_free_cnt>>

\* callback_int3 in the range of _reattach, as far as the lock in switch_to_bsp.
Int3Reattach(t) ==
    /\ InRing3(t) /\ where[t] = "reattach"
    /\ smp_status[t] # 0
    /\ Enters("reattach", t, smp_apid[t], NoThread)
    /\ UNCHANGED <<shared, apVars, threads, ap_free_cnt>>

\* thread_switch, when the thread that leaves stays on the BSP.
SwitchedIn(new) ==
    /\ act_tid' = new
    /\ pagefault' = IF new \in Thread THEN [pagefault EXCEPT ![new] = FALSE]
                                      ELSE pagefault

ThreadSwitch(new) ==
    /\ bpc = "ring3" /\ new # act_tid
    /\ new \in Thread => live[new]
    /\ SwitchedIn(new)
    /\ UNCHANGED <<shared, apVars, ap_free_cnt, live, smp_status, smp_apid, mode,
                   where, bctx, idleLock, bpc, bop, bthr, bnew, bcpu, bs, bcnt>>

\* thread_switch, when the thread that leaves is in SMP_MODE_AUTORUN and was
\* stopped in user code.  Whether it is blocked (then ThreadSwitch applies) the
\* model leaves to chance.
ThreadSwitchAutorun(new) ==
    /\ new # act_tid /\ (new \in Thread => live[new])
    /\ \E old \in Thread :
          /\ InRing3(old)
          /\ mode[old] = "autorun" /\ smp_status[old] = 0 /\ ~pagefault[old]
          /\ where[old] = "user"
          /\ ap_free_cnt > 0
          /\ Enters("autorun", old, NextAp(0), new)
    /\ UNCHANGED <<shared, apVars, threads, ap_free_cnt>>

\* Mutant of CreateThread: smp_status is not reset.
CreateThreadUncleared(t) ==
    /\ bpc = "ring3" /\ act_tid # t /\ ~live[t]
    /\ live' = [live EXCEPT ![t] = TRUE]
    /\ UNCHANGED smp_status
    /\ smp_apid' = [smp_apid EXCEPT ![t] = 0]
    /\ mode' = [mode EXCEPT ![t] = "system"]
    /\ pagefault' = [pagefault EXCEPT ![t] = FALSE]
    /\ where' = [where EXCEPT ![t] = "user"]
    /\ \E c \in Context : bctx' = [bctx EXCEPT ![t] = c]
    /\ UNCHANGED <<shared, apVars, bspVars, ap_free_cnt, idleLock>>

\* Device_Thread_Init.
CreateThread(t) ==
    /\ bpc = "ring3" /\ act_tid # t /\ ~live[t]
    /\ live' = [live EXCEPT ![t] = TRUE]
    /\ smp_status' = [smp_status EXCEPT ![t] = 0]
    /\ smp_apid' = [smp_apid EXCEPT ![t] = 0]
    /\ mode' = [mode EXCEPT ![t] = "system"]
    /\ pagefault' = [pagefault EXCEPT ![t] = FALSE]
    /\ where' = [where EXCEPT ![t] = "user"]
    /\ \E c \in Context : bctx' = [bctx EXCEPT ![t] = c]
    /\ UNCHANGED <<shared, apVars, bspVars, ap_free_cnt, idleLock>>

\* Device_Thread_Destroy of a thread that is on the BSP.
DestroyThread(t) ==
    /\ bpc = "ring3" /\ act_tid # t /\ live[t] /\ t \in Mortal
    /\ smp_status[t] = 0
    /\ live' = [live EXCEPT ![t] = FALSE]
    /\ UNCHANGED <<shared, apVars, bspVars, ap_free_cnt, smp_status, smp_apid,
                   mode, pagefault, where, bctx, idleLock>>

\* Device_Thread_Destroy of a thread that is on an AP, as far as the lock.
DestroyMigrated(t) ==
    /\ bpc = "ring3" /\ act_tid # t /\ live[t] /\ t \in Mortal
    /\ smp_status[t] # 0
    /\ Enters("destroy", t, smp_apid[t], NoThread)
    /\ UNCHANGED <<shared, apVars, threads, ap_free_cnt>>

\* Mutant of BspLock: it goes on when the lock was busy.
BspLockNoSpin ==
    /\ bpc = "lock"
    /\ bs' = status[bcpu]
    /\ status' = [status EXCEPT ![bcpu] = "BUSY"]
    /\ bpc' = "body"
    /\ UNCHANGED <<slot, pctx, apVars, threads, ap_free_cnt, act_tid, bop, bthr,
                   bnew, bcpu, bcnt>>

\* atomic_lock in a loop until the result is not S_BUSY.
BspLock ==
    /\ bpc = "lock" /\ status[bcpu] # "BUSY"
    /\ bs' = status[bcpu]
    /\ status' = [status EXCEPT ![bcpu] = "BUSY"]
    /\ bpc' = "body"
    /\ UNCHANGED <<slot, pctx, apVars, threads, ap_free_cnt, act_tid, bop, bthr,
                   bnew, bcpu, bcnt>>

Scanning == bop \in {"fly", "autorun"}     \* the handler runs switch_to_ap

\* Mutant of LoadThread: the idle lock is not set.
LoadThreadUnlocked ==
    /\ bpc = "body" /\ Scanning /\ bs \in {"READY", "SLEEP"}
    /\ UNCHANGED idleLock
    /\ slot' = [slot EXCEPT ![bcpu] = bthr]
    /\ pctx' = [pctx EXCEPT ![bcpu] = bctx[bthr]]
    /\ bctx' = [bctx EXCEPT ![bthr] = Trampoline]
    /\ where' = [where EXCEPT ![bthr] = "idle"]
    /\ smp_status' = [smp_status EXCEPT ![bthr] = 1]
    /\ smp_apid' = [smp_apid EXCEPT ![bthr] = bcpu]
    /\ bs' = "LOADED"
    /\ bpc' = IF bs = "SLEEP" THEN "wake" ELSE "unlock"
    /\ UNCHANGED <<status, apVars, ap_free_cnt, live, mode, pagefault, act_tid,
                   bop, bthr, bnew, bcpu, bcnt>>

\* switch_to_ap finds a free AP: the context goes to the AP, the BSP side of
\* the thread continues in the idle loop.
LoadThread ==
    /\ bpc = "body" /\ Scanning /\ bs \in {"READY", "SLEEP"}
    /\ idleLock' = IF IdleLock(bthr) THEN [idleLock EXCEPT ![bthr] = 1]
                                     ELSE idleLock
    /\ slot' = [slot EXCEPT ![bcpu] = bthr]
    /\ pctx' = [pctx EXCEPT ![bcpu] = bctx[bthr]]
    /\ bctx' = [bctx EXCEPT ![bthr] = Trampoline]
    /\ where' = [where EXCEPT ![bthr] = "idle"]
    /\ smp_status' = [smp_status EXCEPT ![bthr] = 1]
    /\ smp_apid' = [smp_apid EXCEPT ![bthr] = bcpu]
    /\ bs' = "LOADED"
    /\ bpc' = IF bs = "SLEEP" THEN "wake" ELSE "unlock"
    /\ UNCHANGED <<status, apVars, ap_free_cnt, live, mode, pagefault, act_tid,
                   bop, bthr, bnew, bcpu, bcnt>>

\* switch_to_ap finds an AP that is not free.
SkipAp ==
    /\ bpc = "body" /\ Scanning /\ bs \notin {"READY", "SLEEP"}
    /\ bpc' = "unlock"
    /\ UNCHANGED <<shared, apVars, threads, ap_free_cnt, act_tid, bop, bthr,
                   bnew, bcpu, bs, bcnt>>

\* smp_wakeup: the NMI ends the hlt of an AP that is in it, and does nothing
\* to an AP that is not (_dummy_isr).
SmpWakeup ==
    /\ bpc = "wake"
    /\ apc' = IF apc[bcpu] = "halted" THEN [apc EXCEPT ![bcpu] = "main"] ELSE apc
    /\ bpc' = "unlock"
    /\ UNCHANGED <<shared, aps, acnt, rctx, threads, ap_free_cnt, act_tid, bop,
                   bthr, bnew, bcpu, bs, bcnt>>

\* Mutant of UnloadThread: it does not wait for the landing.
UnloadThreadRunning ==
    /\ bpc = "body" /\ bop = "reattach" /\ bs \in {"RUNNING", "CARGO"}
    /\ bctx' = [bctx EXCEPT ![bthr] = pctx[bcpu]]
    /\ where' = [where EXCEPT ![bthr] = "user"]
    /\ smp_status' = [smp_status EXCEPT ![bthr] = 0]
    /\ bs' = "READY"
    /\ bcnt' = ap_free_cnt
    /\ bpc' = "inc"
    /\ UNCHANGED <<shared, apVars, ap_free_cnt, live, smp_apid, mode, pagefault,
                   idleLock, act_tid, bop, bthr, bnew, bcpu>>

\* switch_to_bsp finds the thread landed: its context returns.  ap_free_cnt++
\* is a load and a store (the load reads nothing the body writes).
UnloadThread ==
    /\ bpc = "body" /\ bop = "reattach" /\ bs = "CARGO"
    /\ bctx' = [bctx EXCEPT ![bthr] = pctx[bcpu]]
    /\ where' = [where EXCEPT ![bthr] = "user"]
    /\ smp_status' = [smp_status EXCEPT ![bthr] = 0]
    /\ bs' = "READY"
    /\ bcnt' = ap_free_cnt
    /\ bpc' = "inc"
    /\ UNCHANGED <<shared, apVars, ap_free_cnt, live, smp_apid, mode, pagefault,
                   idleLock, act_tid, bop, bthr, bnew, bcpu>>

IncStore ==
    /\ bpc = "inc"
    /\ ap_free_cnt' = (bcnt + 1) % Word
    /\ bpc' = "unlock"
    /\ UNCHANGED <<shared, apVars, threads, act_tid, bop, bthr, bnew, bcpu, bs, bcnt>>

\* switch_to_bsp finds the thread still on the AP.
NotLanded ==
    /\ bpc = "body" /\ bop = "reattach" /\ bs # "CARGO"
    /\ where' = [where EXCEPT ![bthr] = "idle"]
    /\ bpc' = "unlock"
    /\ UNCHANGED <<shared, apVars, ap_free_cnt, live, smp_status, smp_apid, mode,
                   pagefault, bctx, idleLock, act_tid, bop, bthr, bnew, bcpu, bs, bcnt>>

\* What is left of the handler when switch_to_ap or switch_to_bsp returned.
Finishes ==
    /\ Returns
    /\ IF bop = "autorun" THEN SwitchedIn(bnew) ELSE UNCHANGED <<act_tid, pagefault>>

BspReleases ==
    /\ bpc = "unlock"
    /\ status' = [status EXCEPT ![bcpu] = bs]
    /\ UNCHANGED <<slot, pctx, apVars, ap_free_cnt, live, smp_status, smp_apid,
                   mode, bctx, idleLock>>

\* switch_to_bsp is done.
ReattachUnlock == bop = "reattach" /\ BspReleases /\ Finishes /\ UNCHANGED where

\* switch_to_ap found an AP (smp_status of the thread was 0 before): the
\* decrement of ap_free_cnt comes after the unlock.
LoadUnlock ==
    /\ Scanning /\ smp_status[bthr] = 1
    /\ BspReleases
    /\ bpc' = "decload"
    /\ UNCHANGED <<where, pagefault, act_tid, bop, bthr, bnew, bcpu, bs, bcnt>>

\* switch_to_ap goes on to the next cpu, or gives up.
SkipUnlock ==
    /\ Scanning /\ smp_status[bthr] = 0
    /\ BspReleases
    /\ IF NextAp(bcpu + 1) # NoAp
       THEN /\ bcpu' = NextAp(bcpu + 1) /\ bpc' = "lock"
            /\ UNCHANGED <<where, pagefault, act_tid, bop, bthr, bnew, bs, bcnt>>
       ELSE /\ where' = [where EXCEPT ![bthr] = "user"]
            /\ Finishes

DecLoad ==
    /\ bpc = "decload"
    /\ bcnt' = ap_free_cnt /\ bpc' = "dec"
    /\ UNCHANGED <<shared, apVars, threads, ap_free_cnt, act_tid, bop, bthr, bnew,
                   bcpu, bs>>

\* Mutant of DecStore: the decrement is missing.
DecStoreLost ==
    /\ bpc = "dec"
    /\ ap_free_cnt' = bcnt
    /\ Finishes
    /\ UNCHANGED <<shared, apVars, live, smp_status, smp_apid, mode, where, bctx,
                   idleLock>>

DecStore ==
    /\ bpc = "dec"
    /\ ap_free_cnt' = (bcnt + Word - 1) % Word
    /\ Finishes
    /\ UNCHANGED <<shared, apVars, live, smp_status, smp_apid, mode, where, bctx,
                   idleLock>>

\* Mutant of DestroyUnlock: the state of the AP is not changed.
DestroyUnlockKeeps ==
    /\ bpc = "body" /\ bop = "destroy"
    /\ status' = [status EXCEPT ![bcpu] = bs]
    /\ live' = [live EXCEPT ![bthr] = FALSE]
    /\ Returns
    /\ UNCHANGED <<slot, pctx, apVars, ap_free_cnt, smp_status, smp_apid, mode,
                   pagefault, where, bctx, idleLock, act_tid>>

\* Device_Thread_Destroy: whatever the AP is doing, its state becomes
\* S_DIRCARD and the record is freed.
DestroyUnlock ==
    /\ bpc = "body" /\ bop = "destroy"
    /\ status' = [status EXCEPT ![bcpu] = "DIRCARD"]
    /\ live' = [live EXCEPT ![bthr] = FALSE]
    /\ Returns
    /\ UNCHANGED <<slot, pctx, apVars, ap_free_cnt, smp_status, smp_apid, mode,
                   pagefault, where, bctx, idleLock, act_tid>>

\* A step of the handler the BSP is in.
BspHandler ==
    \/ BspLock \/ LoadThread \/ SkipAp \/ SmpWakeup \/ UnloadThread \/ IncStore
    \/ NotLanded \/ ReattachUnlock \/ LoadUnlock \/ SkipUnlock \/ DecLoad \/ DecStore
    \/ DestroyUnlock

Next ==
    \/ \E a \in Ap : ApStep(a) \/ ApUserStep(a)
    \/ \E t \in Thread :
          \/ UserStep(t) \/ Elevate(t) \/ PageFault(t) \/ Fly(t) \/ Int3Fly(t)
          \/ IdlePoll(t) \/ Int3Reattach(t)
          \/ CreateThread(t) \/ DestroyThread(t) \/ DestroyMigrated(t)
    \/ \E new \in Thread \cup {NoThread} : ThreadSwitch(new) \/ ThreadSwitchAutorun(new)
    \/ BspHandler

Spec == Init /\ [][Next]_vars

-----------------------------------------------------------------------------
(* Vocabulary of the properties.                                            *)

ApHolds(a)  == apc[a] \in {"switch", "inc", "unlock"}
BspHolds(a) == bcpu = a /\ bpc \in {"body", "wake", "inc", "unlock"}

\* The state of AP a as its lock holder knows it.
Logical(a) == IF status[a] # "BUSY" THEN status[a]
              ELSE IF ApHolds(a) THEN aps[a] ELSE bs

Free       == {"READY", "SLEEP"}
Carrying   == {"LOADED", "RUNNING", "CARGO"}
Executes(a) == apc[a] \in {"switchtask", "user"}

-----------------------------------------------------------------------------
(* Properties.                                                              *)

\* Every variable has its type.
TypeOK ==
    /\ status \in [Ap -> State]
    /\ slot \in [Ap -> Thread \cup {NoThread}]
    /\ pctx \in [Ap -> Context \cup {InitState}]
    /\ apc \in [Ap -> {"main", "switch", "inc", "unlock", "hlt", "halted",
                       "switchtask", "user"}]
    /\ aps \in [Ap -> State]
    /\ acnt \in [Ap -> 0 .. Word - 1]
    /\ rctx \in [Ap -> Context \cup {InitState}]
    /\ live \in [Thread -> BOOLEAN]
    /\ smp_status \in [Thread -> {0, 1}]
    /\ smp_apid \in [Thread -> Ap \cup {0}]
    /\ mode \in [Thread -> {"system", "manual", "autorun"}]
    /\ pagefault \in [Thread -> BOOLEAN]
    /\ where \in [Thread -> {"user", "fly", "idle", "reattach"}]
    /\ bctx \in [Thread -> Context \cup {Trampoline}]
    /\ idleLock \in [Thread -> {0, 1}]
    /\ act_tid \in Thread \cup {NoThread}
    /\ ap_free_cnt \in 0 .. Word - 1
    /\ bpc \in {"ring3", "lock", "body", "wake", "inc", "unlock", "decload", "dec"}
    /\ bop \in {"none", "fly", "autorun", "reattach", "destroy"}
    /\ bthr \in Thread \cup {NoThread}
    /\ bnew \in Thread \cup {NoThread}
    /\ bcpu \in Ap \cup {NoAp}
    /\ bs \in State
    /\ bcnt \in 0 .. Word - 1

\* The word status is a lock: it reads S_BUSY exactly while one of the AP and
\* the BSP is between its atomic_lock and its atomic_unlock, and never are both.
LockExclusion ==
    \A a \in Ap : /\ status[a] = "BUSY" <=> (ApHolds(a) \/ BspHolds(a))
                  /\ ~(ApHolds(a) /\ BspHolds(a))

\* The record of a thread and the slot of an AP agree: a record says its thread
\* is on AP a exactly when the state of a is one of those with a thread and the
\* thread is in its slot.  So no two APs carry one thread, no AP carries two, and
\* the ts_thread an AP reads in S_RUNNING has not been freed.
Ownership ==
    /\ \A a \in Ap : Logical(a) \in Carrying =>
          /\ slot[a] \in Thread /\ live[slot[a]]
          /\ smp_status[slot[a]] = 1 /\ smp_apid[slot[a]] = a
    /\ \A t \in Thread : live[t] /\ smp_status[t] = 1 =>
          /\ smp_apid[t] \in Ap
          /\ slot[smp_apid[t]] = t /\ Logical(smp_apid[t]) \in Carrying

\* A thread that still exists never executes on two processors: when an AP runs
\* it, its BSP side is in the idle loop and no other AP runs it.
ExclusiveExecution ==
    \A a \in Ap : Executes(a) /\ Logical(a) # "DIRCARD" =>
        /\ Logical(a) = "RUNNING" /\ slot[a] \in Thread
        /\ where[slot[a]] \in {"idle", "reattach"}
        /\ \A b \in Ap \ {a} : ~(Executes(b) /\ Logical(b) # "DIRCARD" /\ slot[b] = slot[a])

\* With an idle lock the idle loop never calls reattach too early: the lock reads 0
\* only once the AP is past the thread, so switch_to_bsp finds it landed.
ReattachFindsCargo ==
    bop = "reattach" /\ bpc = "body" /\ IdleLock(bthr) => bs = "CARGO"

\* ap_free_cnt is the number of free APs, but for the decrement switch_to_ap still
\* has to do and the increment switch_to_bsp has announced.
FreeCountExact ==
    ap_free_cnt = Cardinality({a \in Ap : Logical(a) \in Free})
                    + (IF Scanning /\ bthr \in Thread /\ smp_status[bthr] = 1 THEN 1 ELSE 0)
                    - (IF bpc = "inc" THEN 1 ELSE 0)

\* The state of an AP moves along the README's list of states only, and only
\* the side that a state belongs to moves it on.
Transition(a, from, to) ==
    \/ /\ apc'[a] # apc[a]              \* by the AP
       /\ <<from, to>> \in {<<"READY", "SLEEP">>, <<"LOADED", "RUNNING">>,
                            <<"RUNNING", "CARGO">>, <<"DIRCARD", "READY">>}
    \/ /\ bpc' # bpc /\ bcpu = a        \* by the BSP
       /\ \/ from \in Free /\ to = "LOADED"
          \/ <<from, to>> = <<"CARGO", "READY">>
          \/ from \in Carrying /\ to = "DIRCARD"

FollowsStates ==
    [][\A a \in Ap : Logical(a)' # Logical(a) =>
                        Transition(a, Logical(a), Logical(a)')]_vars

-----------------------------------------------------------------------------
(* The inductive invariant: what else is always true, so that the above is.  *)

\* Who is in a handler, and what the handler knows of its thread: switch_to_ap is
\* given a thread that is on the BSP, switch_to_bsp and Device_Thread_Destroy one
\* that is on the AP whose lock they take, and the thread lives until they end.
HandlerInv ==
    /\ bpc = "ring3" <=> bop = "none"
    /\ bpc # "ring3" => bthr \in Thread /\ live[bthr]
    /\ bpc \in {"lock", "body", "wake", "inc", "unlock"} => bcpu \in Ap
    /\ bop = "autorun" /\ bnew \in Thread => live[bnew]
    /\ bpc \in {"wake", "decload", "dec"} => Scanning /\ smp_status[bthr] = 1
    /\ bpc \in {"lock", "body"} => smp_status[bthr] = IF Scanning THEN 0 ELSE 1
    /\ bpc = "inc" => bop = "reattach" /\ bs = "READY"
    /\ bop \in {"reattach", "destroy"} => smp_apid[bthr] = bcpu
    /\ bop = "reattach" /\ bpc \in {"lock", "body"} => where[bthr] = "reattach"
    /\ bop = "destroy" => bpc \in {"lock", "body"}

\* The locals of a lock holder: it holds a state, and an AP that is counting itself
\* free has made itself free.
HolderInv ==
    /\ \A a \in Ap : BspHolds(a) => bs # "BUSY"
    /\ \A a \in Ap : ApHolds(a) => aps[a] # "BUSY"
    /\ \A a \in Ap : apc[a] = "inc" => aps[a] = "READY"

\* An AP executes a thread only in S_RUNNING, or when that thread was destroyed.
ExecuteInv == \A a \in Ap : Executes(a) => Logical(a) \in {"RUNNING", "DIRCARD"}

\* The BSP side of a thread is in the idle loop exactly while the thread is away;
\* only a thread with an idle procedure is about to fly.
WhereInv ==
    \A t \in Thread : live[t] =>
        /\ smp_status[t] = 1 <=> where[t] \in {"idle", "reattach"}
        /\ where[t] = "fly" => IdleProc(t)

\* The idle lock of a thread that is away reads 0, and its idle loop has gone on to
\* reattach, only when the AP is done with the thread.
IdleInv ==
    \A t \in Thread :
        live[t] /\ smp_status[t] = 1 /\ IdleLock(t)
                /\ (idleLock[t] = 0 \/ where[t] = "reattach")
            => Logical(smp_apid[t]) = "CARGO"

\* Neither the idle loop's context nor the AP loop's is ever taken for a program's.
ContextInv ==
    /\ \A a \in Ap : Logical(a) \in Carrying \/ apc[a] = "switchtask" => pctx[a] \in Context
    /\ \A a \in Ap : apc[a] = "user" => rctx[a] \in Context
    /\ \A t \in Thread : live[t] /\ smp_status[t] = 0 => bctx[t] \in Context

\* The conjunction that every step preserves.
IInv == /\ TypeOK /\ LockExclusion /\ HandlerInv /\ HolderInv
        /\ Ownership /\ ExecuteInv /\ WhereInv /\ IdleInv /\ ContextInv

-----------------------------------------------------------------------------
(* The promise: Handoff.                                                    *)

Home(t) == IF ~live[t] THEN NoThread
           ELSE IF smp_status[t] = 0 THEN NoAp ELSE smp_apid[t]

\* The one place where the current context of t is.
ContextOf(t) == IF ~live[t] THEN NoThread
                ELSE IF smp_status[t] = 0 THEN bctx[t]
                ELSE IF apc[smp_apid[t]] = "user" THEN rctx[smp_apid[t]]
                ELSE pctx[smp_apid[t]]

H == INSTANCE Handoff WITH
        Bsp <- NoAp, Nowhere <- NoThread,
        home <- [t \in Thread |-> Home(t)],
        ctx <- [t \in Thread |-> ContextOf(t)],
        tainted <- {a \in Ap : Logical(a) = "DIRCARD"}

\* Copying contexts between client registers, proc_state and the AP's registers
\* loses no step of a thread, repeats none and lets no processor work on a
\* stale copy: its contexts remain a chain of what its program computes, whatever the interleaving and whoever is destroyed.
ImplementsHandoff == H!Spec

-----------------------------------------------------------------------------
(* Progress.                                                                *)

\* The AP's own loop: everything but how long the thread computes.
ApKernel(a) == ApStep(a) /\ ~ApSwitchBack(a)

Scheduled(t) == ThreadSwitch(t) \/ ThreadSwitchAutorun(t)

\* Processors go on.  A processor that exchanges a lock word again and again gets
\* a turn when the word is free again and again (the bus does not starve one).
\* Windows gives every thread its time slices, long enough to get somewhere.
Fairness ==
    /\ \A a \in Ap : WF_vars(ApKernel(a)) /\ SF_vars(ApLock(a))
    /\ WF_vars(BspHandler) /\ SF_vars(BspLock)
    /\ \A t \in Thread :
          SF_vars(Scheduled(t)) /\ SF_vars(IdlePoll(t)) /\ SF_vars(Int3Reattach(t))

FairSpec == Spec /\ Fairness

\* A handler of the BSP ends, whatever the APs do with the locks it needs: no AP
\* keeps its state BUSY.
HandlerReturns == bpc # "ring3" ~> bpc = "ring3"

\* A thread that landed comes back to the BSP: the AP's write to the idle lock is
\* never missed, and reattach finds it.
LandedReturns ==
    \A t \in Thread :
        live[t] /\ smp_status[t] = 1 /\ status[smp_apid[t]] = "CARGO"
            ~> smp_status[t] = 0 \/ ~live[t]

\* An AP whose thread was destroyed is free again once it is back in its loop.
DiscardedRecovers ==
    \A a \in Ap : status[a] = "DIRCARD" /\ apc[a] = "main" ~> status[a] \in Free

-----------------------------------------------------------------------------
(* What the documentation says and the code does not do.                    *)

\* taskswitch.c says the wake-up comes before the unlock "to prevent deadlock", and
\* the README that a loaded AP is ready to run: a loaded thread is taken up.
LoadedRuns ==
    \A a \in Ap : status[a] = "LOADED" ~> status[a] # "LOADED"

\* The README says fly() moves the thread to the first free AP: when no processor is
\* changing ap_free_cnt and an AP is free, fly() does not take it for 0.
FlyFindsFreeAp ==
    bpc = "ring3" /\ (\A a \in Ap : ~ApHolds(a)) /\ (\E a \in Ap : status[a] \in Free)
        => ap_free_cnt # 0

=============================================================================
