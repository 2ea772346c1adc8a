--------------------------- MODULE MigrationProof ---------------------------
(***************************************************************************)
(* Proofs about Migration, for every set of threads, processors and        *)
(* contexts.                                                               *)
(***************************************************************************)
EXTENDS Migration, FiniteSetTheorems, WellFoundedInduction, TLAPS

\* The decrement and the increment of ap_free_cnt stay within the counter's width.
LEMMA CounterRange ==
    ASSUME NEW n \in 0 .. Word - 1
    PROVE  (n + 1) % Word \in 0 .. Word - 1 /\ (n + Word - 1) % Word \in 0 .. Word - 1
BY WordAssumption

\* The scan of ttable goes on to an AP or ends.
LEMMA NextApRange == \A c : NextAp(c) \in Ap \cup {NoAp}
BY DEF NextAp

\* A scan starts at an AP: there is one, so there is a first one.
LEMMA FirstAp == NextAp(0) \in Ap
<1>1. \E a \in Ap : \A b \in Ap : a <= b
  <2> DEFINE lt == OpToRel(<, Nat)
  <2>1. IsWellFoundedOn(lt, Nat)
    BY NatLessThanWellFounded
  <2>2. PICK a \in Ap : \A b \in Ap : <<b, a>> \notin lt
    <3> HIDE DEF lt
    <3> QED BY <2>1, ApAssumption, WFMin
  <2>3. lt = {p \in Nat \X Nat : p[1] < p[2]}
    BY DEF OpToRel
  <2>4. \A b \in Ap : a <= b
    <3> HIDE DEF lt
    <3>1. \A b \in Ap : ~(b < a)
      BY <2>2, <2>3, ApAssumption
    <3> QED BY <3>1, ApAssumption
  <2> QED BY <2>4
<1>2. PICK a \in Ap : \A b \in Ap : a <= b
  BY <1>1
<1>3. a >= 0 /\ \A b \in Ap : b >= 0 => a <= b
  BY <1>2, ApAssumption
<1> QED
  BY <1>3 DEF NextAp

LEMMA InitTypeOK == Init => TypeOK
BY ApAssumption, WordAssumption DEF Init, TypeOK, State

\* Every step of an AP keeps the types.
LEMMA ApTypeOK ==
    ASSUME TypeOK, NEW a \in Ap, ApStep(a) \/ ApUserStep(a)
    PROVE  TypeOK'
<1> USE DEF TypeOK, shared, threads, bspVars
<1>1. CASE ApLock(a)
  BY <1>1 DEF ApLock, State
<1>2. CASE ApReady(a) \/ ApWaits(a) \/ ApLoaded(a)
  BY <1>2 DEF ApReady, ApWaits, ApLoaded, ApDecides, State
<1>3. CASE ApRunning(a)
  BY <1>3 DEF ApRunning, ApDecides, State
<1>4. CASE ApDiscard(a)
  BY <1>4 DEF ApDiscard, State
<1>5. CASE ApIncStore(a)
  <2>1. ap_free_cnt' \in 0 .. Word - 1 /\ 0 \in 0 .. Word - 1
    BY <1>5, CounterRange, WordAssumption DEF ApIncStore
  <2> QED BY <1>5, <2>1 DEF ApIncStore
<1>6. CASE ApUnlock(a)
  BY <1>6 DEF ApUnlock, State
<1>7. CASE ApHlt(a) \/ ApSwitchtask(a) \/ ApSwitchBack(a)
  BY <1>7 DEF ApHlt, ApSwitchtask, ApSwitchBack, State
<1>8. CASE ApUserStep(a)
  <2>1. rctx' \in [Ap -> Context \cup {InitState}]
    BY <1>8 DEF ApUserStep, After
  <2> QED BY <1>8, <2>1 DEF ApUserStep
<1> QED
  BY <1>1, <1>2, <1>3, <1>4, <1>5, <1>6, <1>7, <1>8 DEF ApStep

\* So does every step of a thread in ring 3 on the BSP, and every handler's start.
LEMMA ThreadTypeOK ==
    ASSUME IInv, NEW t \in Thread,
           \/ UserStep(t) \/ Elevate(t) \/ PageFault(t) \/ Fly(t) \/ Int3Fly(t)
           \/ IdlePoll(t) \/ Int3Reattach(t)
           \/ CreateThread(t) \/ DestroyThread(t) \/ DestroyMigrated(t)
    PROVE  TypeOK'
<1> USE DEF IInv, TypeOK, shared, apVars, bspVars
<1>1. CASE UserStep(t) \/ PageFault(t)
  BY <1>1 DEF UserStep, After, PageFault
<1>2. CASE Elevate(t)
  BY <1>2, ModesAssumption DEF Elevate
<1>3. CASE Fly(t) \/ IdlePoll(t)
  BY <1>3 DEF Fly, IdlePoll, MovesTo
<1>4. CASE Int3Fly(t)
  BY <1>4, NextApRange DEF Int3Fly, Enters, threads
<1>5. CASE CreateThread(t)
  <2>1. bctx' \in [Thread -> Context \cup {Trampoline}]
    BY <1>5 DEF CreateThread
  <2> QED BY <1>5, <2>1 DEF CreateThread
<1>6. CASE DestroyThread(t)
  BY <1>6 DEF DestroyThread
<1>7. CASE Int3Reattach(t) \/ DestroyMigrated(t)
  <2>1. live[t] /\ smp_status[t] = 1
    BY <1>7 DEF Int3Reattach, DestroyMigrated, InRing3
  <2>2. smp_apid[t] \in Ap
    BY <2>1 DEF Ownership
  <2> QED BY <1>7, <2>2 DEF Int3Reattach, DestroyMigrated, Enters, threads
<1> QED
  BY <1>1, <1>2, <1>3, <1>4, <1>5, <1>6, <1>7

\* A thread switch keeps the types.
LEMMA SwitchTypeOK ==
    ASSUME TypeOK, NEW new \in Thread \cup {NoThread},
           ThreadSwitch(new) \/ ThreadSwitchAutorun(new)
    PROVE  TypeOK'
<1> USE DEF TypeOK, shared, apVars
<1>1. CASE ThreadSwitch(new)
  BY <1>1 DEF ThreadSwitch, SwitchedIn
<1>2. CASE ThreadSwitchAutorun(new)
  BY <1>2, NextApRange DEF ThreadSwitchAutorun, Enters, threads, InRing3
<1> QED
  BY <1>1, <1>2

\* So does every step of a handler: its locals name a cpu and a thread.
LEMMA HandlerTypeOK ==
    ASSUME IInv, BspHandler
    PROVE  TypeOK'
<1> USE DEF IInv, TypeOK, HandlerInv, shared, apVars, threads
<1>1. CASE BspLock
  BY <1>1 DEF BspLock, State
<1>2. CASE LoadThread
  <2>1. bthr \in Thread /\ bcpu \in Ap /\ bctx[bthr] \in Context
    BY <1>2 DEF LoadThread, ContextInv
  <2> QED BY <1>2, <2>1 DEF LoadThread, State
<1>3. CASE SkipAp \/ SmpWakeup \/ NotLanded
  BY <1>3 DEF SkipAp, SmpWakeup, NotLanded
<1>4. CASE UnloadThread
  <2>1. bthr \in Thread /\ bcpu \in Ap
    BY <1>4 DEF UnloadThread
  <2>2. Logical(bcpu) = "CARGO"
    BY <1>4, <2>1 DEF UnloadThread, Logical, LockExclusion, BspHolds
  <2>3. pctx[bcpu] \in Context
    BY <2>1, <2>2 DEF ContextInv, Carrying
  <2> QED BY <1>4, <2>1, <2>3 DEF UnloadThread, State
<1>5. CASE IncStore
  <2>1. ap_free_cnt' \in 0 .. Word - 1
    BY <1>5, CounterRange DEF IncStore
  <2> QED BY <1>5, <2>1 DEF IncStore
<1>6. CASE ReattachUnlock \/ LoadUnlock
  BY <1>6, WordAssumption DEF ReattachUnlock, LoadUnlock, BspReleases, Finishes, Returns, SwitchedIn, State
<1>7. CASE SkipUnlock
  <2>1. UNCHANGED <<slot, pctx, apc, aps, acnt, rctx, ap_free_cnt, live, smp_status,
                    smp_apid, mode, bctx, idleLock>> /\ status' \in [Ap -> State]
    BY <1>7 DEF SkipUnlock, BspReleases
  <2>2. CASE NextAp(bcpu + 1) # NoAp
    BY <1>7, <2>1, <2>2, NextApRange DEF SkipUnlock
  <2>3. CASE NextAp(bcpu + 1) = NoAp
    <3>1. where' \in [Thread -> {"user", "fly", "idle", "reattach"}]
      BY <1>7, <2>3 DEF SkipUnlock
    <3>2. pagefault' \in [Thread -> BOOLEAN] /\ act_tid' \in Thread \cup {NoThread}
      BY <1>7, <2>3 DEF SkipUnlock, Finishes, SwitchedIn
    <3> QED BY <1>7, <2>1, <2>3, <3>1, <3>2, WordAssumption DEF SkipUnlock, Finishes, Returns, State
  <2> QED BY <2>2, <2>3
<1>8. CASE DecLoad
  BY <1>8 DEF DecLoad
<1>9. CASE DecStore
  <2>1. ap_free_cnt' \in 0 .. Word - 1 /\ 0 \in 0 .. Word - 1
    BY <1>9, CounterRange, WordAssumption DEF DecStore
  <2> QED BY <1>9, <2>1 DEF DecStore, Finishes, Returns, SwitchedIn, State
<1>10. CASE DestroyUnlock
  BY <1>10, WordAssumption DEF DestroyUnlock, Returns, State
<1> QED
  BY <1>1, <1>2, <1>3, <1>4, <1>5, <1>6, <1>7, <1>8, <1>9, <1>10 DEF BspHandler

-----------------------------------------------------------------------------
(* The lock.                                                                *)

\* An AP takes its own lock only when nobody has it, and gives back its own.
LEMMA ApLockExclusion ==
    ASSUME IInv, NEW a \in Ap, ApStep(a) \/ ApUserStep(a)
    PROVE  LockExclusion' /\ HolderInv' /\ HandlerInv'
<1> USE DEF IInv, TypeOK, LockExclusion, HolderInv, ApHolds, BspHolds, shared, threads, bspVars
<1>1. CASE ApLock(a)
  BY <1>1 DEF ApLock, HandlerInv, Scanning
<1>2. CASE ApReady(a) \/ ApWaits(a) \/ ApLoaded(a) \/ ApRunning(a)
  BY <1>2 DEF ApReady, ApWaits, ApLoaded, ApRunning, ApDecides, HandlerInv, Scanning
<1>3. CASE ApDiscard(a) \/ ApIncStore(a)
  BY <1>3 DEF ApDiscard, ApIncStore, HandlerInv, Scanning
<1>4. CASE ApUnlock(a)
  BY <1>4 DEF ApUnlock, HandlerInv, Scanning
<1>5. CASE ApHlt(a) \/ ApSwitchtask(a) \/ ApUserStep(a) \/ ApSwitchBack(a)
  BY <1>5 DEF ApHlt, ApSwitchtask, ApUserStep, ApSwitchBack, HandlerInv, Scanning
<1> QED
  BY <1>1, <1>2, <1>3, <1>4, <1>5 DEF ApStep

\* In ring 3 the BSP holds no lock, and a handler that starts holds none yet.
LEMMA ThreadLockExclusion ==
    ASSUME IInv, NEW t \in Thread,
           \/ UserStep(t) \/ Elevate(t) \/ PageFault(t) \/ Fly(t) \/ Int3Fly(t)
           \/ IdlePoll(t) \/ Int3Reattach(t)
           \/ CreateThread(t) \/ DestroyThread(t) \/ DestroyMigrated(t)
    PROVE  LockExclusion' /\ HolderInv' /\ HandlerInv'
<1> USE DEF IInv, TypeOK, LockExclusion, HolderInv, HandlerInv, ApHolds, BspHolds, Scanning, shared, apVars, bspVars
<1>1. CASE UserStep(t) \/ PageFault(t) \/ Elevate(t)
  BY <1>1 DEF UserStep, PageFault, Elevate, InRing3
<1>3. CASE Fly(t) \/ IdlePoll(t)
  BY <1>3 DEF Fly, IdlePoll, MovesTo, InRing3
<1>5. CASE CreateThread(t) \/ DestroyThread(t)
  BY <1>5 DEF CreateThread, DestroyThread
<1>7. CASE Int3Reattach(t) \/ DestroyMigrated(t)
  BY <1>7 DEF Int3Reattach, DestroyMigrated, InRing3, Ownership, Enters, threads
<1>4. CASE Int3Fly(t)
  BY <1>4, FirstAp DEF Int3Fly, Enters, threads, InRing3
<1> QED
  BY <1>1, <1>3, <1>4, <1>5, <1>7

\* A thread switch starts from ring 3, too.
LEMMA SwitchLockExclusion ==
    ASSUME IInv, NEW new \in Thread \cup {NoThread},
           ThreadSwitch(new) \/ ThreadSwitchAutorun(new)
    PROVE  LockExclusion' /\ HolderInv' /\ HandlerInv'
<1> USE DEF IInv, TypeOK, LockExclusion, HolderInv, HandlerInv, ApHolds, BspHolds, Scanning, shared, apVars
<1>1. CASE ThreadSwitch(new)
  BY <1>1 DEF ThreadSwitch, SwitchedIn
<1>2. CASE ThreadSwitchAutorun(new)
  BY <1>2, FirstAp DEF ThreadSwitchAutorun, Enters, threads, InRing3
<1> QED
  BY <1>1, <1>2

\* A handler takes the lock only when the AP does not have it.
LEMMA HandlerLockExclusion ==
    ASSUME IInv, BspHandler
    PROVE  LockExclusion' /\ HolderInv' /\ HandlerInv'
<1> USE DEF IInv, TypeOK, LockExclusion, HolderInv, HandlerInv, ApHolds, BspHolds, Scanning, shared, apVars, threads
<1>1. CASE BspLock
  BY <1>1 DEF BspLock
<1>2. CASE LoadThread \/ SkipAp
  BY <1>2 DEF LoadThread, SkipAp
<1>3. CASE SmpWakeup
  BY <1>3 DEF SmpWakeup
<1>4. CASE UnloadThread \/ NotLanded \/ IncStore
  BY <1>4 DEF UnloadThread, NotLanded, IncStore
<1>5. CASE ReattachUnlock
  BY <1>5, ApAssumption DEF ReattachUnlock, BspReleases, Finishes, Returns
<1>6. CASE LoadUnlock
  BY <1>6 DEF LoadUnlock, BspReleases
<1>7. CASE SkipUnlock
  <2>1. CASE NextAp(bcpu + 1) # NoAp
    BY <1>7, <2>1, NextApRange DEF SkipUnlock, BspReleases
  <2>2. CASE NextAp(bcpu + 1) = NoAp
    BY <1>7, <2>2, ApAssumption DEF SkipUnlock, BspReleases, Finishes, Returns
  <2> QED BY <2>1, <2>2
<1>8. CASE DecLoad
  BY <1>8 DEF DecLoad
<1>9. CASE DecStore
  BY <1>9, ApAssumption DEF DecStore, Finishes, Returns
<1>10. CASE DestroyUnlock
  BY <1>10, ApAssumption DEF DestroyUnlock, Returns
<1> QED
  BY <1>1, <1>2, <1>3, <1>4, <1>5, <1>6, <1>7, <1>8, <1>9, <1>10 DEF BspHandler

-----------------------------------------------------------------------------
(* Who has the thread.                                                      *)

\* An AP moves its own state on, and only as its lock holder.
LEMMA ApOwnership ==
    ASSUME IInv, NEW a \in Ap, ApStep(a) \/ ApUserStep(a)
    PROVE  Ownership' /\ ExecuteInv' /\ WhereInv' /\ IdleInv' /\ ContextInv'
<1> USE DEF IInv, TypeOK, LockExclusion, HolderInv, HandlerInv, ApHolds, BspHolds, Logical, Carrying, Executes, Scanning, shared, threads, bspVars
<1>1. CASE ApLock(a)
  BY <1>1 DEF ApLock, Ownership, ExecuteInv, WhereInv, IdleInv, ContextInv, IdleLock, IdleProc
<1>2. CASE ApReady(a)
  BY <1>2 DEF ApReady, ApDecides, Ownership, ExecuteInv, WhereInv, IdleInv, ContextInv, IdleLock, IdleProc
<1>3. CASE ApWaits(a)
  BY <1>3 DEF ApWaits, ApDecides, Ownership, ExecuteInv, WhereInv, IdleInv, ContextInv, IdleLock, IdleProc
<1>4. CASE ApLoaded(a)
  BY <1>4 DEF ApLoaded, ApDecides, Ownership, ExecuteInv, WhereInv, IdleInv, ContextInv, IdleLock, IdleProc
<1>5. CASE ApRunning(a)
  BY <1>5 DEF ApRunning, ApDecides, Ownership, ExecuteInv, WhereInv, IdleInv, ContextInv, IdleLock, IdleProc
<1>6. CASE ApDiscard(a)
  BY <1>6 DEF ApDiscard, Ownership, ExecuteInv, WhereInv, IdleInv, ContextInv, IdleLock, IdleProc
<1>7. CASE ApIncStore(a)
  BY <1>7 DEF ApIncStore, Ownership, ExecuteInv, WhereInv, IdleInv, ContextInv, IdleLock, IdleProc
<1>8. CASE ApUnlock(a)
  BY <1>8 DEF ApUnlock, Ownership, ExecuteInv, WhereInv, IdleInv, ContextInv, IdleLock, IdleProc
<1>9. CASE ApHlt(a)
  BY <1>9 DEF ApHlt, Ownership, ExecuteInv, WhereInv, IdleInv, ContextInv, IdleLock, IdleProc
<1>10. CASE ApSwitchtask(a)
  BY <1>10 DEF ApSwitchtask, Ownership, ExecuteInv, WhereInv, IdleInv, ContextInv, IdleLock, IdleProc
<1>11. CASE ApUserStep(a)
  BY <1>11 DEF ApUserStep, After, Ownership, ExecuteInv, WhereInv, IdleInv, ContextInv, IdleLock, IdleProc
<1>12. CASE ApSwitchBack(a)
  BY <1>12 DEF ApSwitchBack, Ownership, ExecuteInv, WhereInv, IdleInv, ContextInv, IdleLock, IdleProc
<1> QED
  BY <1>1, <1>2, <1>3, <1>4, <1>5, <1>6, <1>7, <1>8, <1>9, <1>10, <1>11, <1>12 DEF ApStep

\* In ring 3 a thread that is away only polls its lock.
LEMMA ThreadOwnership ==
    ASSUME IInv, NEW t \in Thread,
           \/ UserStep(t) \/ Elevate(t) \/ PageFault(t) \/ Fly(t) \/ Int3Fly(t)
           \/ IdlePoll(t) \/ Int3Reattach(t)
           \/ CreateThread(t) \/ DestroyThread(t) \/ DestroyMigrated(t)
    PROVE  Ownership' /\ ExecuteInv' /\ WhereInv' /\ IdleInv' /\ ContextInv'
<1> USE DEF IInv, TypeOK, LockExclusion, HolderInv, HandlerInv, ApHolds, BspHolds, Logical, Carrying, Executes, Scanning, shared, apVars, bspVars
<1>1. CASE UserStep(t)
  BY <1>1 DEF UserStep, After, InRing3, Ownership, ExecuteInv, WhereInv, IdleInv, ContextInv, IdleLock, IdleProc
<1>2. CASE Elevate(t)
  BY <1>2 DEF Elevate, InRing3, Ownership, ExecuteInv, WhereInv, IdleInv, ContextInv, IdleLock, IdleProc
<1>3. CASE PageFault(t)
  BY <1>3 DEF PageFault, InRing3, Ownership, ExecuteInv, WhereInv, IdleInv, ContextInv, IdleLock, IdleProc
<1>4. CASE Fly(t)
  BY <1>4 DEF Fly, MovesTo, InRing3, Ownership, ExecuteInv, WhereInv, IdleInv, ContextInv, IdleLock, IdleProc
<1>5. CASE IdlePoll(t)
  BY <1>5 DEF IdlePoll, MovesTo, InRing3, Ownership, ExecuteInv, WhereInv, IdleInv, ContextInv, IdleLock, IdleProc
<1>6. CASE Int3Fly(t)
  BY <1>6 DEF Int3Fly, Enters, threads, InRing3, Ownership, ExecuteInv, WhereInv, IdleInv, ContextInv, IdleLock, IdleProc
<1>7. CASE Int3Reattach(t)
  BY <1>7 DEF Int3Reattach, Enters, threads, InRing3, Ownership, ExecuteInv, WhereInv, IdleInv, ContextInv, IdleLock, IdleProc
<1>8. CASE CreateThread(t)
  BY <1>8 DEF CreateThread, Ownership, ExecuteInv, WhereInv, IdleInv, ContextInv, IdleLock, IdleProc
<1>9. CASE DestroyThread(t)
  BY <1>9 DEF DestroyThread, Ownership, ExecuteInv, WhereInv, IdleInv, ContextInv, IdleLock, IdleProc
<1>10. CASE DestroyMigrated(t)
  BY <1>10 DEF DestroyMigrated, Enters, threads, Ownership, ExecuteInv, WhereInv, IdleInv, ContextInv, IdleLock, IdleProc
<1> QED
  BY <1>1, <1>2, <1>3, <1>4, <1>5, <1>6, <1>7, <1>8, <1>9, <1>10

\* A thread switch alone moves no thread.
LEMMA SwitchOwnership ==
    ASSUME IInv, NEW new \in Thread \cup {NoThread},
           ThreadSwitch(new) \/ ThreadSwitchAutorun(new)
    PROVE  Ownership' /\ ExecuteInv' /\ WhereInv' /\ IdleInv' /\ ContextInv'
<1> USE DEF IInv, TypeOK, LockExclusion, HolderInv, HandlerInv, ApHolds, BspHolds, Logical, Carrying, Executes, Scanning, shared, apVars
<1>1. CASE ThreadSwitch(new)
  BY <1>1 DEF ThreadSwitch, SwitchedIn, Ownership, ExecuteInv, WhereInv, IdleInv, ContextInv, IdleLock, IdleProc
<1>2. CASE ThreadSwitchAutorun(new)
  BY <1>2 DEF ThreadSwitchAutorun, Enters, threads, InRing3, Ownership, ExecuteInv, WhereInv, IdleInv, ContextInv, IdleLock, IdleProc
<1> QED
  BY <1>1, <1>2

\* A handler moves the thread it was given, under the lock of the AP it moves it
\* to or from.
LEMMA HandlerOwnership ==
    ASSUME IInv, BspHandler
    PROVE  Ownership' /\ ExecuteInv' /\ WhereInv' /\ IdleInv' /\ ContextInv'
<1> USE DEF IInv, TypeOK, LockExclusion, HolderInv, HandlerInv, ApHolds, BspHolds, Logical, Carrying, Executes, Scanning, shared, apVars, threads
<1>1. CASE BspLock
  BY <1>1 DEF BspLock, Ownership, ExecuteInv, WhereInv, IdleInv, ContextInv, IdleLock, IdleProc
<1>2. CASE LoadThread
  BY <1>2, ThreadAssumption DEF LoadThread, Ownership, ExecuteInv, WhereInv, IdleInv, ContextInv, IdleLock, IdleProc
<1>3. CASE SkipAp
  BY <1>3 DEF SkipAp, Ownership, ExecuteInv, WhereInv, IdleInv, ContextInv, IdleLock, IdleProc
<1>4. CASE SmpWakeup
  BY <1>4 DEF SmpWakeup, Ownership, ExecuteInv, WhereInv, IdleInv, ContextInv, IdleLock, IdleProc
<1>5. CASE UnloadThread
  BY <1>5 DEF UnloadThread, Ownership, ExecuteInv, WhereInv, IdleInv, ContextInv, IdleLock, IdleProc
<1>6. CASE IncStore
  BY <1>6 DEF IncStore, Ownership, ExecuteInv, WhereInv, IdleInv, ContextInv, IdleLock, IdleProc
<1>7. CASE NotLanded
  BY <1>7 DEF NotLanded, Ownership, ExecuteInv, WhereInv, IdleInv, ContextInv, IdleLock, IdleProc
<1>8. CASE ReattachUnlock
  <2>0. \A b \in Ap : Logical(b)' = Logical(b)
    BY <1>8, ApAssumption DEF ReattachUnlock, BspReleases, Finishes, Returns
  <2>01. UNCHANGED <<slot, smp_status, smp_apid>> /\ live' = live
    BY <1>8 DEF ReattachUnlock, BspReleases, Finishes, Returns
  <2>1. Ownership'
    <3>1. ASSUME NEW b \in Ap, Logical(b)' \in Carrying
          PROVE  (/\ slot[b] \in Thread /\ live[slot[b]]
                  /\ smp_status[slot[b]] = 1 /\ smp_apid[slot[b]] = b)'
      BY <3>1, <2>0, <2>01 DEF Ownership
    <3>2. ASSUME NEW t \in Thread, live'[t], smp_status'[t] = 1
          PROVE  (/\ smp_apid[t] \in Ap /\ slot[smp_apid[t]] = t
                  /\ Logical(smp_apid[t]) \in Carrying)'
      BY <3>2, <2>0, <2>01 DEF Ownership
    <3> QED BY <3>1, <3>2 DEF Ownership
  <2>2. ExecuteInv'
    BY <1>8, ApAssumption DEF ReattachUnlock, BspReleases, Finishes, Returns, ExecuteInv
  <2>3. WhereInv'
    BY <1>8, ApAssumption DEF ReattachUnlock, BspReleases, Finishes, Returns, WhereInv, IdleProc
  <2>4. IdleInv'
    <3>1. UNCHANGED <<mode, idleLock>> /\ \A t \in Thread : where'[t] = "reattach" => where[t] = "reattach"
      BY <1>8 DEF ReattachUnlock, BspReleases, Finishes, Returns
    <3>2. ASSUME NEW t \in Thread, live'[t], smp_status'[t] = 1, IdleLock(t)',
                 idleLock'[t] = 0 \/ where'[t] = "reattach"
          PROVE  Logical(smp_apid[t])' = "CARGO"
      <4>1. IdleLock(t)
        BY <3>1, <3>2 DEF IdleLock, IdleProc
      <4>2. live[t] /\ smp_status[t] = 1 /\ (idleLock[t] = 0 \/ where[t] = "reattach")
        BY <3>1, <3>2, <2>01
      <4>3. smp_apid[t] \in Ap /\ Logical(smp_apid[t]) = "CARGO"
        BY <4>1, <4>2, <2>01 DEF IdleInv, Ownership
      <4> QED BY <4>3, <2>0, <2>01
    <3> QED BY <3>2 DEF IdleInv
  <2>5. ContextInv'
    BY <1>8, ApAssumption DEF ReattachUnlock, BspReleases, Finishes, Returns, ContextInv
  <2> QED BY <2>1, <2>2, <2>3, <2>4, <2>5
<1>9. CASE LoadUnlock
  BY <1>9 DEF LoadUnlock, BspReleases, Ownership, ExecuteInv, WhereInv, IdleInv, ContextInv, IdleLock, IdleProc
<1>10. CASE SkipUnlock
  <2>0. \A b \in Ap : Logical(b)' = Logical(b)
    BY <1>10, ApAssumption DEF SkipUnlock, BspReleases, Finishes, Returns
  <2>01. UNCHANGED <<slot, smp_status, smp_apid>> /\ live' = live
    BY <1>10 DEF SkipUnlock, BspReleases, Finishes, Returns
  <2>1. Ownership'
    <3>1. ASSUME NEW b \in Ap, Logical(b)' \in Carrying
          PROVE  (/\ slot[b] \in Thread /\ live[slot[b]]
                  /\ smp_status[slot[b]] = 1 /\ smp_apid[slot[b]] = b)'
      BY <3>1, <2>0, <2>01 DEF Ownership
    <3>2. ASSUME NEW t \in Thread, live'[t], smp_status'[t] = 1
          PROVE  (/\ smp_apid[t] \in Ap /\ slot[smp_apid[t]] = t
                  /\ Logical(smp_apid[t]) \in Carrying)'
      BY <3>2, <2>0, <2>01 DEF Ownership
    <3> QED BY <3>1, <3>2 DEF Ownership
  <2>2. ExecuteInv'
    BY <1>10, ApAssumption DEF SkipUnlock, BspReleases, Finishes, Returns, ExecuteInv
  <2>3. WhereInv'
    BY <1>10, ApAssumption DEF SkipUnlock, BspReleases, Finishes, Returns, WhereInv, IdleProc
  <2>4. IdleInv'
    <3>1. UNCHANGED <<mode, idleLock>> /\ \A t \in Thread : where'[t] = "reattach" => where[t] = "reattach"
      BY <1>10 DEF SkipUnlock, BspReleases, Finishes, Returns
    <3>2. ASSUME NEW t \in Thread, live'[t], smp_status'[t] = 1, IdleLock(t)',
                 idleLock'[t] = 0 \/ where'[t] = "reattach"
          PROVE  Logical(smp_apid[t])' = "CARGO"
      <4>1. IdleLock(t)
        BY <3>1, <3>2 DEF IdleLock, IdleProc
      <4>2. live[t] /\ smp_status[t] = 1 /\ (idleLock[t] = 0 \/ where[t] = "reattach")
        BY <3>1, <3>2, <2>01
      <4>3. smp_apid[t] \in Ap /\ Logical(smp_apid[t]) = "CARGO"
        BY <4>1, <4>2, <2>01 DEF IdleInv, Ownership
      <4> QED BY <4>3, <2>0, <2>01
    <3> QED BY <3>2 DEF IdleInv
  <2>5. ContextInv'
    BY <1>10, ApAssumption DEF SkipUnlock, BspReleases, Finishes, Returns, ContextInv
  <2> QED BY <2>1, <2>2, <2>3, <2>4, <2>5
<1>11. CASE DecLoad
  BY <1>11 DEF DecLoad, Ownership, ExecuteInv, WhereInv, IdleInv, ContextInv, IdleLock, IdleProc
<1>12. CASE DecStore
  <2>1. Ownership'
    BY <1>12, ApAssumption DEF DecStore, Finishes, Returns, Ownership
  <2>2. ExecuteInv'
    BY <1>12, ApAssumption DEF DecStore, Finishes, Returns, ExecuteInv
  <2>3. WhereInv'
    BY <1>12, ApAssumption DEF DecStore, Finishes, Returns, WhereInv, IdleProc
  <2>4. IdleInv'
    BY <1>12, ApAssumption DEF DecStore, Finishes, Returns, IdleInv, Ownership, IdleLock, IdleProc
  <2>5. ContextInv'
    BY <1>12, ApAssumption DEF DecStore, Finishes, Returns, ContextInv
  <2> QED BY <2>1, <2>2, <2>3, <2>4, <2>5
<1>13. CASE DestroyUnlock
  <2>0. \A b \in Ap : Logical(b)' = IF b = bcpu THEN "DIRCARD" ELSE Logical(b)
    BY <1>13, ApAssumption DEF DestroyUnlock, Returns
  <2>01. UNCHANGED <<slot, smp_status, smp_apid>> /\ live' = [live EXCEPT ![bthr] = FALSE]
    BY <1>13 DEF DestroyUnlock, Returns
  <2>02. /\ bthr \in Thread /\ live[bthr] /\ smp_status[bthr] = 1
         /\ smp_apid[bthr] = bcpu /\ slot[bcpu] = bthr
    BY <1>13 DEF DestroyUnlock, Ownership
  <2>1. Ownership'
    <3>1. ASSUME NEW b \in Ap, Logical(b)' \in Carrying
          PROVE  (/\ slot[b] \in Thread /\ live[slot[b]]
                  /\ smp_status[slot[b]] = 1 /\ smp_apid[slot[b]] = b)'
      BY <3>1, <2>0, <2>01, <2>02 DEF Ownership
    <3>2. ASSUME NEW t \in Thread, live'[t], smp_status'[t] = 1
          PROVE  (/\ smp_apid[t] \in Ap /\ slot[smp_apid[t]] = t
                  /\ Logical(smp_apid[t]) \in Carrying)'
      BY <3>2, <2>0, <2>01, <2>02 DEF Ownership
    <3> QED BY <3>1, <3>2 DEF Ownership
  <2>2. ExecuteInv'
    BY <1>13, ApAssumption DEF DestroyUnlock, Returns, ExecuteInv
  <2>3. WhereInv'
    BY <1>13, ApAssumption DEF DestroyUnlock, Returns, WhereInv, IdleProc
  <2>4. IdleInv'
    <3>1. UNCHANGED <<mode, idleLock>> /\ \A t \in Thread : where'[t] = "reattach" => where[t] = "reattach"
      BY <1>13 DEF DestroyUnlock, Returns
    <3>2. ASSUME NEW t \in Thread, live'[t], smp_status'[t] = 1, IdleLock(t)',
                 idleLock'[t] = 0 \/ where'[t] = "reattach"
          PROVE  Logical(smp_apid[t])' = "CARGO"
      <4>1. IdleLock(t)
        BY <3>1, <3>2 DEF IdleLock, IdleProc
      <4>2. live[t] /\ smp_status[t] = 1 /\ (idleLock[t] = 0 \/ where[t] = "reattach")
        BY <3>1, <3>2, <2>01
      <4>3. smp_apid[t] \in Ap /\ Logical(smp_apid[t]) = "CARGO" /\ smp_apid[t] # bcpu
        BY <4>1, <4>2, <2>02, <3>2, <2>01 DEF IdleInv, Ownership
      <4> QED BY <4>3, <2>0, <2>01
    <3> QED BY <3>2 DEF IdleInv
  <2>5. ContextInv'
    BY <1>13, ApAssumption DEF DestroyUnlock, Returns, ContextInv
  <2> QED BY <2>1, <2>2, <2>3, <2>4, <2>5
<1> QED
  BY <1>1, <1>2, <1>3, <1>4, <1>5, <1>6, <1>7, <1>8, <1>9, <1>10, <1>11, <1>12, <1>13 DEF BspHandler

-----------------------------------------------------------------------------
(* The theorems.                                                            *)

LEMMA InitIInv == Init => IInv
<1> SUFFICES ASSUME Init PROVE IInv
  OBVIOUS
<1>1. TypeOK
  BY InitTypeOK
<1>2. LockExclusion /\ HandlerInv /\ HolderInv
  BY ApAssumption DEF Init, LockExclusion, HandlerInv, HolderInv, ApHolds, BspHolds, Scanning
<1>3. Ownership /\ ExecuteInv /\ WhereInv /\ IdleInv /\ ContextInv
  BY DEF Init, Ownership, ExecuteInv, WhereInv, IdleInv, ContextInv, Logical, Carrying, Executes
<1> QED
  BY <1>1, <1>2, <1>3 DEF IInv

\* Steps that change nothing preserve everything.
LEMMA StutterIInv == IInv /\ UNCHANGED vars => IInv'
<1> SUFFICES ASSUME IInv, UNCHANGED vars PROVE IInv'
  OBVIOUS
<1> USE DEF IInv, vars, shared, apVars, threads, bspVars
<1>1. TypeOK'
  BY DEF TypeOK
<1>2. LockExclusion' /\ HandlerInv' /\ HolderInv'
  BY DEF LockExclusion, HandlerInv, HolderInv, ApHolds, BspHolds, Scanning
<1>3. Ownership' /\ ExecuteInv' /\ WhereInv' /\ IdleInv' /\ ContextInv'
  BY DEF Ownership, ExecuteInv, WhereInv, IdleInv, ContextInv, Logical, Carrying,
         Executes, ApHolds, IdleLock, IdleProc
<1> QED
  BY <1>1, <1>2, <1>3

LEMMA NextIInv == IInv /\ [Next]_vars => IInv'
<1> SUFFICES ASSUME IInv, [Next]_vars PROVE IInv'
  OBVIOUS
<1>1. ASSUME NEW a \in Ap, ApStep(a) \/ ApUserStep(a) PROVE IInv'
  <2>1. TypeOK'
    BY <1>1, ApTypeOK DEF IInv
  <2> QED BY <1>1, <2>1, ApLockExclusion, ApOwnership DEF IInv
<1>2. ASSUME NEW t \in Thread,
             \/ UserStep(t) \/ Elevate(t) \/ PageFault(t) \/ Fly(t) \/ Int3Fly(t)
             \/ IdlePoll(t) \/ Int3Reattach(t)
             \/ CreateThread(t) \/ DestroyThread(t) \/ DestroyMigrated(t)
      PROVE  IInv'
  BY <1>2, ThreadTypeOK, ThreadLockExclusion, ThreadOwnership DEF IInv
<1>3. ASSUME NEW new \in Thread \cup {NoThread},
             ThreadSwitch(new) \/ ThreadSwitchAutorun(new)
      PROVE  IInv'
  <2>1. TypeOK'
    BY <1>3, SwitchTypeOK DEF IInv
  <2> QED BY <1>3, <2>1, SwitchLockExclusion, SwitchOwnership DEF IInv
<1>4. ASSUME BspHandler PROVE IInv'
  BY <1>4, HandlerTypeOK, HandlerLockExclusion, HandlerOwnership DEF IInv
<1>5. ASSUME UNCHANGED vars PROVE IInv'
  BY <1>5, StutterIInv
<1> QED
  BY <1>1, <1>2, <1>3, <1>4, <1>5 DEF Next

\* The inductive invariant holds in every reachable state: TypeOK, the lock, who is
\* in which handler, who has which thread and where its context is.
THEOREM InductiveInvariant == Spec => []IInv
<1>1. Init => IInv
  BY InitIInv
<1>2. IInv /\ [Next]_vars => IInv'
  BY NextIInv
<1> QED
  BY <1>1, <1>2, PTL DEF Spec

\* Every variable keeps its type.
THEOREM TypeCorrect == Spec => []TypeOK
<1>1. IInv => TypeOK
  BY DEF IInv
<1> QED
  BY <1>1, InductiveInvariant, PTL

\* tdata.status is a mutual exclusion lock between the BSP and the AP.
THEOREM LockIsExclusive == Spec => []LockExclusion
<1>1. IInv => LockExclusion
  BY DEF IInv
<1> QED
  BY <1>1, InductiveInvariant, PTL

\* ts_thread and ttable never disagree on who has a thread.
THEOREM ThreadIsOwned == Spec => []Ownership
<1>1. IInv => Ownership
  BY DEF IInv
<1> QED
  BY <1>1, InductiveInvariant, PTL

\* A thread that exists is never executed by two processors at once.
THEOREM ThreadExecutesOnce == Spec => []ExclusiveExecution
<1>1. IInv => ExclusiveExecution
  <2> SUFFICES ASSUME IInv, NEW a \in Ap, Executes(a), Logical(a) # "DIRCARD"
               PROVE  /\ Logical(a) = "RUNNING" /\ slot[a] \in Thread
                      /\ where[slot[a]] \in {"idle", "reattach"}
                      /\ \A b \in Ap \ {a} : ~(Executes(b) /\ Logical(b) # "DIRCARD" /\ slot[b] = slot[a])
    BY DEF ExclusiveExecution
  <2>1. \A b \in Ap : Executes(b) /\ Logical(b) # "DIRCARD" =>
           /\ Logical(b) = "RUNNING" /\ slot[b] \in Thread /\ live[slot[b]]
           /\ smp_status[slot[b]] = 1 /\ smp_apid[slot[b]] = b
    BY DEF IInv, ExecuteInv, Ownership, Carrying
  <2>2. where[slot[a]] \in {"idle", "reattach"}
    BY <2>1 DEF IInv, WhereInv
  <2> QED BY <2>1, <2>2
<1> QED
  BY <1>1, InductiveInvariant, PTL

\* With an idle lock, reattach always finds its thread landed.
THEOREM ReattachInTime == Spec => []ReattachFindsCargo
<1>1. IInv => ReattachFindsCargo
  <2> SUFFICES ASSUME IInv, bop = "reattach", bpc = "body", IdleLock(bthr)
               PROVE  bs = "CARGO"
    BY DEF ReattachFindsCargo
  <2>1. /\ bthr \in Thread /\ live[bthr] /\ smp_status[bthr] = 1
        /\ smp_apid[bthr] = bcpu /\ where[bthr] = "reattach" /\ bcpu \in Ap
    BY DEF IInv, HandlerInv, Scanning
  <2>2. Logical(bcpu) = "CARGO"
    BY <2>1 DEF IInv, IdleInv
  <2> QED BY <2>1, <2>2 DEF IInv, LockExclusion, BspHolds, Logical
<1> QED
  BY <1>1, InductiveInvariant, PTL

-----------------------------------------------------------------------------
(* The states of an AP.                                                     *)

StateStep == \A b \in Ap : Logical(b)' # Logical(b) => Transition(b, Logical(b), Logical(b)')

\* An AP changes its own state only, between its lock and its unlock.
LEMMA ApStateStep ==
    ASSUME IInv, NEW a \in Ap, ApStep(a) \/ ApUserStep(a)
    PROVE  StateStep
<1> USE DEF IInv, TypeOK, LockExclusion, HolderInv, ApHolds, BspHolds, Logical,
        Transition, StateStep, shared, threads, bspVars
<1>1. CASE ApLock(a)
  BY <1>1 DEF ApLock
<1>2. CASE ApReady(a) \/ ApWaits(a) \/ ApLoaded(a) \/ ApRunning(a)
  BY <1>2 DEF ApReady, ApWaits, ApLoaded, ApRunning, ApDecides
<1>3. CASE ApDiscard(a) \/ ApIncStore(a)
  BY <1>3 DEF ApDiscard, ApIncStore
<1>4. CASE ApUnlock(a)
  BY <1>4 DEF ApUnlock
<1>5. CASE ApHlt(a) \/ ApSwitchtask(a) \/ ApUserStep(a) \/ ApSwitchBack(a)
  BY <1>5 DEF ApHlt, ApSwitchtask, ApUserStep, ApSwitchBack
<1> QED
  BY <1>1, <1>2, <1>3, <1>4, <1>5 DEF ApStep

\* Outside its handlers the BSP changes no state of an AP.
LEMMA BspStateStep ==
    ASSUME IInv,
           \/ \E t \in Thread :
                 \/ UserStep(t) \/ Elevate(t) \/ PageFault(t) \/ Fly(t) \/ Int3Fly(t)
                 \/ IdlePoll(t) \/ Int3Reattach(t)
                 \/ CreateThread(t) \/ DestroyThread(t) \/ DestroyMigrated(t)
           \/ \E new \in Thread \cup {NoThread} : ThreadSwitch(new) \/ ThreadSwitchAutorun(new)
    PROVE  StateStep
<1>1. UNCHANGED <<status, apc, aps>> /\ bpc = "ring3" /\ UNCHANGED bs
  BY DEF UserStep, Elevate, PageFault, Fly, Int3Fly, IdlePoll, Int3Reattach, CreateThread,
         DestroyThread, DestroyMigrated, ThreadSwitch, ThreadSwitchAutorun, MovesTo, Enters,
         InRing3, shared, apVars, bspVars
<1> QED
  BY <1>1 DEF IInv, LockExclusion, HandlerInv, ApHolds, BspHolds, Logical, StateStep

\* A handler loads a free AP, unloads one that has landed, or discards.
LEMMA HandlerStateStep ==
    ASSUME IInv, BspHandler
    PROVE  StateStep
<1> USE DEF IInv, TypeOK, LockExclusion, HolderInv, HandlerInv, ApHolds, BspHolds, Logical,
        Transition, StateStep, Free, Carrying, Scanning, shared, apVars, threads
<1>1. CASE BspLock \/ SkipAp \/ SmpWakeup \/ NotLanded \/ IncStore \/ DecLoad
  BY <1>1 DEF BspLock, SkipAp, SmpWakeup, NotLanded, IncStore, DecLoad
<1>2. CASE LoadThread \/ UnloadThread
  BY <1>2 DEF LoadThread, UnloadThread
<1>3. CASE ReattachUnlock \/ LoadUnlock \/ SkipUnlock \/ DecStore
  BY <1>3, ApAssumption DEF ReattachUnlock, LoadUnlock, SkipUnlock, DecStore, BspReleases, Finishes, Returns
<1>4. CASE DestroyUnlock
  BY <1>4, ApAssumption DEF DestroyUnlock, Returns, Ownership
<1> QED
  BY <1>1, <1>2, <1>3, <1>4 DEF BspHandler

\* No AP ever leaves the README's cycle of states, and each side moves it on only
\* where the README gives that side the right to.
THEOREM StatesFollowed == Spec => FollowsStates
<1>1. IInv /\ [Next]_vars => [StateStep]_vars
  <2> SUFFICES ASSUME IInv, Next PROVE StateStep
    OBVIOUS
  <2> QED BY ApStateStep, BspStateStep, HandlerStateStep DEF Next
<1>2. StateStep <=> \A a \in Ap : Logical(a)' # Logical(a) =>
                        Transition(a, Logical(a), Logical(a)')
  BY DEF StateStep
<1> QED
  BY <1>1, <1>2, InductiveInvariant, PTL DEF Spec, FollowsStates

-----------------------------------------------------------------------------
(* The count of free APs.                                                   *)

FreeAps == {a \in Ap : Logical(a) \in Free}

\* A decrement is outstanding.
Taken == Scanning /\ bthr \in Thread /\ smp_status[bthr] = 1

\* As long as no thread is destroyed while it is away, no AP counts itself, and the
\* BSP's copy of the counter is not stale.
CountInv ==
    /\ \A a \in Ap : Logical(a) # "DIRCARD" /\ apc[a] # "inc"
    /\ bop # "destroy"
    /\ bpc \in {"inc", "dec"} => bcnt = ap_free_cnt
    /\ FreeCountExact

\* The counter is wide enough for all APs, and one step of it does not wrap.
LEMMA FreeFacts ==
    /\ IsFiniteSet(FreeAps) /\ Cardinality(FreeAps) \in Nat
    /\ Cardinality(FreeAps) <= Cardinality(Ap) /\ Cardinality(Ap) \in 0 .. Word - 1
<1>1. FreeAps \subseteq Ap /\ IsFiniteSet(Ap)
  BY ApAssumption DEF FreeAps
<1>2. IsFiniteSet(FreeAps) /\ Cardinality(FreeAps) <= Cardinality(Ap)
  BY <1>1, FS_Subset
<1> QED
  BY <1>2, FS_CardinalityType, WordAssumption

LEMMA CounterSteps ==
    ASSUME NEW n \in 0 .. Word - 1
    PROVE  /\ n < Word - 1 => (n + 1) % Word = n + 1
           /\ n > 0 => (n + Word - 1) % Word = n - 1
<1>1. Word \in Nat \ {0}
  BY WordAssumption
<1>2. \A k \in 0 .. Word - 1 : k % Word = k /\ (k + Word) % Word = k
  BY <1>1
<1>3. n > 0 => n - 1 \in 0 .. Word - 1 /\ (n - 1) + Word = n + Word - 1
  BY <1>1
<1>4. n < Word - 1 => n + 1 \in 0 .. Word - 1
  BY <1>1
<1> QED
  BY <1>2, <1>3, <1>4

\* FreeCountExact in the words of this section.
LEMMA CountForm ==
    /\ FreeCountExact <=> ap_free_cnt = Cardinality(FreeAps) + (IF Taken THEN 1 ELSE 0)
                                          - (IF bpc = "inc" THEN 1 ELSE 0)
    /\ FreeCountExact' <=> ap_free_cnt' = Cardinality(FreeAps') + (IF Taken' THEN 1 ELSE 0)
                                            - (IF bpc' = "inc" THEN 1 ELSE 0)
BY DEF FreeCountExact, FreeAps, Taken

\* A step that neither frees nor takes an AP.
LEMMA SameCount ==
    ASSUME CountInv, FreeAps' = FreeAps, ap_free_cnt' = ap_free_cnt, Taken' <=> Taken,
           bpc' = "inc" <=> bpc = "inc"
    PROVE  FreeCountExact'
BY CountForm DEF CountInv

LEMMA InitCount == Init => CountInv
<1> SUFFICES ASSUME Init PROVE CountInv
  OBVIOUS
<1>1. \A a \in Ap : Logical(a) = "READY" /\ apc[a] = "main"
  BY DEF Init, Logical
<1>2. FreeAps = Ap
  BY <1>1 DEF FreeAps, Free
<1>3. FreeCountExact
  <2>1. {a \in Ap : Logical(a) \in Free} = Ap
    BY <1>2 DEF FreeAps
  <2>2. ~Scanning /\ bpc # "inc" /\ ap_free_cnt = Cardinality(Ap)
    BY DEF Init, Scanning
  <2>3. Cardinality(Ap) \in Nat
    BY WordAssumption
  <2> QED BY <2>1, <2>2, <2>3 DEF FreeCountExact
<1> QED
  BY <1>1, <1>3 DEF CountInv, Init

LEMMA ApCount ==
    ASSUME IInv, CountInv, NEW a \in Ap, ApStep(a) \/ ApUserStep(a)
    PROVE  CountInv'
<1>1. ~ApDiscard(a) /\ ~ApIncStore(a)
  BY DEF IInv, LockExclusion, CountInv, ApDiscard, ApIncStore, ApHolds, Logical
<1>2. /\ UNCHANGED <<ap_free_cnt, bpc, bop, bthr, bcpu, bcnt, smp_status>>
      /\ \A b \in Ap : apc'[b] # "inc"
  BY <1>1 DEF ApStep, ApUserStep, ApLock, ApReady, ApWaits, ApLoaded, ApRunning, ApDecides, ApUnlock,
         ApHlt, ApSwitchtask, ApSwitchBack, IInv, TypeOK, CountInv, shared, threads, bspVars
<1>3. \A b \in Ap : Logical(b)' # Logical(b) =>
         <<Logical(b), Logical(b)'>> \in {<<"READY", "SLEEP">>, <<"LOADED", "RUNNING">>,
                                         <<"RUNNING", "CARGO">>}
  BY <1>2, ApStateStep DEF StateStep, Transition, CountInv
<1>4. FreeAps' = FreeAps
  BY <1>3 DEF FreeAps, Free
<1>5. FreeCountExact'
  BY <1>2, <1>4, SameCount DEF Taken, Scanning
<1> QED
  BY <1>2, <1>3, <1>5 DEF CountInv

LEMMA Ring3Count ==
    ASSUME IInv, CountInv,
           \/ \E t \in Thread :
                 \/ UserStep(t) \/ Elevate(t) \/ PageFault(t) \/ Fly(t) \/ Int3Fly(t)
                 \/ IdlePoll(t) \/ Int3Reattach(t) \/ CreateThread(t) \/ DestroyThread(t)
           \/ \E new \in Thread \cup {NoThread} : ThreadSwitch(new) \/ ThreadSwitchAutorun(new)
    PROVE  CountInv'
<1>1. /\ UNCHANGED <<status, apc, aps, bs, ap_free_cnt>> /\ bpc = "ring3" /\ bop = "none"
      /\ bpc' \in {"ring3", "lock"}
  BY DEF UserStep, Elevate, PageFault, Fly, Int3Fly, IdlePoll, Int3Reattach, CreateThread,
         DestroyThread, ThreadSwitch, ThreadSwitchAutorun, MovesTo, Enters,
         InRing3, shared, apVars, bspVars, IInv, HandlerInv
<1>2. bop' # "destroy" /\ ~Taken'
  BY <1>1 DEF UserStep, Elevate, PageFault, Fly, Int3Fly, IdlePoll, Int3Reattach, CreateThread,
         DestroyThread, ThreadSwitch, ThreadSwitchAutorun, MovesTo, Enters, Taken, Scanning,
         InRing3, shared, apVars, bspVars, threads
<1>3. \A b \in Ap : Logical(b)' = Logical(b)
  BY <1>1 DEF IInv, LockExclusion, ApHolds, BspHolds, Logical
<1>4. FreeAps' = FreeAps /\ ~Taken
  BY <1>1, <1>3 DEF FreeAps, Taken, Scanning
<1>5. FreeCountExact'
  BY <1>1, <1>2, <1>4, SameCount
<1> QED
  BY <1>1, <1>2, <1>3, <1>5 DEF CountInv

\* The handlers' steps that leave the free APs and the counter alone.
LEMMA QuietCount ==
    ASSUME IInv, CountInv,
           \/ BspLock \/ SkipAp \/ SmpWakeup \/ NotLanded \/ DecLoad
           \/ ReattachUnlock \/ LoadUnlock \/ SkipUnlock
    PROVE  CountInv'
<1>1. \A b \in Ap : Logical(b)' = Logical(b) /\ apc'[b] # "inc"
  <2> USE DEF IInv, TypeOK, LockExclusion, HolderInv, HandlerInv, ApHolds, BspHolds, Logical,
          CountInv, Scanning, shared, apVars, threads
  <2>1. CASE BspLock \/ SkipAp \/ SmpWakeup \/ NotLanded \/ DecLoad
    BY <2>1 DEF BspLock, SkipAp, SmpWakeup, NotLanded, DecLoad
  <2>2. CASE ReattachUnlock \/ LoadUnlock \/ SkipUnlock
    BY <2>2, ApAssumption DEF ReattachUnlock, LoadUnlock, SkipUnlock, BspReleases, Finishes, Returns
  <2> QED BY <2>1, <2>2
<1>2. /\ ap_free_cnt' = ap_free_cnt /\ bpc # "inc" /\ bpc' # "inc"
      /\ bpc' = "dec" => bcnt' = ap_free_cnt'
      /\ bop' # "destroy"
  BY DEF BspLock, SkipAp, SmpWakeup, NotLanded, DecLoad, ReattachUnlock, LoadUnlock, SkipUnlock,
         BspReleases, Finishes, Returns, CountInv
<1>3. Taken' <=> Taken
  BY DEF BspLock, SkipAp, SmpWakeup, NotLanded, DecLoad, ReattachUnlock, LoadUnlock, SkipUnlock,
         BspReleases, Finishes, Returns, Taken, Scanning, threads
<1>4. FreeAps' = FreeAps
  BY <1>1 DEF FreeAps
<1>5. FreeCountExact'
  BY <1>2, <1>3, <1>4, SameCount
<1> QED
  BY <1>1, <1>2, <1>5 DEF CountInv

\* FreeCountExact in the words of this section.
\* An AP is taken: the decrement is outstanding from here on.
LEMMA LoadCount ==
    ASSUME IInv, CountInv, LoadThread
    PROVE  CountInv'
<1>0. PICK c \in Ap : c = bcpu
  BY DEF IInv, HandlerInv, LoadThread
<1>1. /\ Logical(c) \in Free /\ Logical(c)' = "LOADED"
      /\ \A b \in Ap \ {c} : Logical(b)' = Logical(b)
  BY <1>0 DEF IInv, TypeOK, LockExclusion, HandlerInv, ApHolds, BspHolds, Logical, Free, LoadThread, apVars
<1>2. FreeAps' = FreeAps \ {c} /\ c \in FreeAps
  <2>1. c \in FreeAps /\ ~(c \in FreeAps') /\ \A b \in Ap : b # c => (b \in FreeAps' <=> b \in FreeAps)
    <3>1. c \in FreeAps /\ ~(c \in FreeAps')
      BY <1>1 DEF FreeAps, Free
    <3>2. ASSUME NEW b \in Ap, b # c PROVE b \in FreeAps' <=> b \in FreeAps
      BY <1>1, <3>2 DEF FreeAps, Free
    <3> QED BY <3>1, <3>2
  <2>2. FreeAps \subseteq Ap /\ FreeAps' \subseteq Ap
    BY DEF FreeAps
  <2> QED BY <1>1, <2>1, <2>2
<1>3. Cardinality(FreeAps') = Cardinality(FreeAps) - 1
  BY <1>2, FreeFacts, FS_RemoveElement
<1>4. ~Taken /\ Taken'
  BY DEF IInv, TypeOK, HandlerInv, Taken, Scanning, LoadThread
<1>5. /\ bpc # "inc" /\ bpc' \in {"wake", "unlock"} /\ UNCHANGED <<ap_free_cnt, apc, bop>>
      /\ \A b \in Ap : Logical(b)' # "DIRCARD"
  BY <1>1 DEF LoadThread, apVars, CountInv, Free
<1>6. FreeCountExact'
  BY <1>3, <1>4, <1>5, CountForm, FreeFacts DEF CountInv
<1> QED
  BY <1>5, <1>6 DEF CountInv

\* An AP is free again: the increment is announced.
LEMMA UnloadCount ==
    ASSUME IInv, CountInv, UnloadThread
    PROVE  CountInv'
<1>0. PICK c \in Ap : c = bcpu
  BY DEF IInv, HandlerInv, UnloadThread
<1>1. /\ Logical(c) = "CARGO" /\ Logical(c)' = "READY"
      /\ \A b \in Ap \ {c} : Logical(b)' = Logical(b)
  BY <1>0 DEF IInv, TypeOK, LockExclusion, HandlerInv, ApHolds, BspHolds, Logical, UnloadThread,
         apVars, shared
<1>2. FreeAps' = FreeAps \cup {c} /\ c \notin FreeAps
  <2>1. c \notin FreeAps /\ c \in FreeAps' /\ \A b \in Ap : b # c => (b \in FreeAps' <=> b \in FreeAps)
    <3>1. c \notin FreeAps /\ c \in FreeAps'
      BY <1>1 DEF FreeAps, Free
    <3>2. ASSUME NEW b \in Ap, b # c PROVE b \in FreeAps' <=> b \in FreeAps
      BY <1>1, <3>2 DEF FreeAps, Free
    <3> QED BY <3>1, <3>2
  <2>2. FreeAps \subseteq Ap /\ FreeAps' \subseteq Ap
    BY DEF FreeAps
  <2> QED BY <1>1, <2>1, <2>2
<1>3. Cardinality(FreeAps') = Cardinality(FreeAps) + 1
  BY <1>2, FreeFacts, FS_AddElement
<1>4. ~Taken /\ ~Taken'
  BY DEF Taken, Scanning, UnloadThread
<1>5. /\ bpc # "inc" /\ bpc' = "inc" /\ bcnt' = ap_free_cnt' /\ UNCHANGED <<ap_free_cnt, apc, bop>>
      /\ \A b \in Ap : Logical(b)' # "DIRCARD"
  BY <1>1 DEF UnloadThread, apVars, CountInv
<1>6. FreeCountExact'
  BY <1>3, <1>4, <1>5, CountForm, FreeFacts DEF CountInv
<1> QED
  BY <1>5, <1>6 DEF CountInv

\* The store of ap_free_cnt++: it does not wrap, for one of the APs is the freed one.
LEMMA IncCount ==
    ASSUME IInv, CountInv, IncStore
    PROVE  CountInv'
<1>1. \A b \in Ap : Logical(b)' = Logical(b)
  BY DEF IInv, LockExclusion, HandlerInv, ApHolds, BspHolds, Logical, IncStore, apVars, shared
<1>2. FreeAps' = FreeAps
  BY <1>1 DEF FreeAps
<1>3. ~Taken /\ ~Taken' /\ bpc = "inc" /\ bpc' = "unlock" /\ UNCHANGED <<apc, bop>>
  BY DEF Taken, Scanning, IInv, HandlerInv, IncStore, apVars
<1>4. ap_free_cnt = Cardinality(FreeAps) - 1 /\ bcnt = ap_free_cnt
  BY <1>3, CountForm, FreeFacts DEF CountInv
<1>5. ap_free_cnt \in 0 .. Word - 1 /\ ap_free_cnt < Word - 1
  BY <1>4, FreeFacts, WordAssumption DEF IInv, TypeOK
<1>6. ap_free_cnt' = Cardinality(FreeAps)
  BY <1>4, <1>5, CounterSteps, FreeFacts DEF IncStore
<1>7. FreeCountExact'
  BY <1>2, <1>3, <1>6, CountForm, FreeFacts
<1> QED
  BY <1>1, <1>3, <1>7 DEF CountInv

\* The store of ap_free_cnt--: the AP that was taken is still counted.
LEMMA DecCount ==
    ASSUME IInv, CountInv, DecStore
    PROVE  CountInv'
<1>1. \A b \in Ap : Logical(b)' = Logical(b)
  BY ApAssumption DEF IInv, LockExclusion, HandlerInv, ApHolds, BspHolds, Logical, DecStore, apVars,
     shared, Finishes, Returns
<1>2. FreeAps' = FreeAps
  BY <1>1 DEF FreeAps
<1>3. Taken /\ ~Taken' /\ bpc = "dec" /\ bpc' = "ring3" /\ bop' = "none" /\ UNCHANGED apc
  BY DEF Taken, Scanning, IInv, HandlerInv, DecStore, apVars, Finishes, Returns
<1>4. ap_free_cnt = Cardinality(FreeAps) + 1 /\ bcnt = ap_free_cnt
  BY <1>3, CountForm, FreeFacts DEF CountInv
<1>5. ap_free_cnt \in 0 .. Word - 1 /\ ap_free_cnt > 0
  BY <1>4, FreeFacts DEF IInv, TypeOK
<1>6. ap_free_cnt' = Cardinality(FreeAps)
  BY <1>4, <1>5, CounterSteps, FreeFacts DEF DecStore
<1>7. FreeCountExact'
  BY <1>2, <1>3, <1>6, CountForm, FreeFacts
<1> QED
  BY <1>1, <1>3, <1>7 DEF CountInv

LEMMA NextCount ==
    ASSUME IInv, CountInv, [Next]_vars, [\A t \in Thread : ~DestroyMigrated(t)]_vars
    PROVE  CountInv'
<1>1. CASE UNCHANGED vars
  <2>1. \A b \in Ap : Logical(b)' = Logical(b)
    BY <1>1 DEF vars, shared, apVars, bspVars, Logical, ApHolds
  <2>2. FreeAps' = FreeAps
    BY <2>1 DEF FreeAps
  <2>3. Taken' <=> Taken
    BY <1>1 DEF vars, threads, bspVars, Taken, Scanning
  <2>4. FreeCountExact'
    BY <1>1, <2>2, <2>3, SameCount DEF vars, bspVars
  <2> QED
    BY <1>1, <2>1, <2>4 DEF vars, apVars, bspVars, CountInv
<1>2. CASE Next /\ \A t \in Thread : ~DestroyMigrated(t)
  <2>1. CASE \E a \in Ap : ApStep(a) \/ ApUserStep(a)
    BY <2>1, ApCount
  <2>2. CASE BspHandler
    <3>1. ~DestroyUnlock
      BY DEF CountInv, DestroyUnlock
    <3> QED
      BY <2>2, <3>1, QuietCount, LoadCount, UnloadCount, IncCount, DecCount DEF BspHandler
  <2>3. CASE ~BspHandler /\ ~\E a \in Ap : ApStep(a) \/ ApUserStep(a)
    BY <1>2, <2>3, Ring3Count DEF Next
  <2> QED BY <2>1, <2>2, <2>3
<1> QED
  BY <1>1, <1>2

\* As long as no thread is destroyed while it is on an AP, ap_free_cnt counts the free
\* APs: the unlocked load and store of the BSP's increments and decrements lose none,
\* and none wraps.  That the hypothesis is needed, the run lost_count shows.
THEOREM FreeCountCorrect ==
    Spec /\ [][\A t \in Thread : ~DestroyMigrated(t)]_vars => []FreeCountExact
<1>1. IInv /\ CountInv /\ [Next]_vars /\ [\A t \in Thread : ~DestroyMigrated(t)]_vars => CountInv'
  BY NextCount
<1>2. CountInv => FreeCountExact
  BY DEF CountInv
<1> QED
  BY <1>1, <1>2, InitCount, InductiveInvariant, PTL DEF Spec

-----------------------------------------------------------------------------
(***************************************************************************)
(* Migration implements Handoff.  Every step of the processors is a step   *)
(* of Handoff or changes nothing Handoff can see; what Handoff sees is the *)
(* home and the context of each thread and the set of APs that still have  *)
(* a destroyed thread.                                                     *)
(***************************************************************************)

\* What Handoff sees did not change.
Invisible ==
    /\ \A t \in Thread : Home(t)' = Home(t) /\ ContextOf(t)' = ContextOf(t)
    /\ \A b \in Ap : Logical(b)' = "DIRCARD" <=> Logical(b) = "DIRCARD"

LEMMA InvisibleStutters == Invisible => UNCHANGED H!vars
BY DEF Invisible, H!vars

\* When exactly what an action of Handoff changes did change, it is that action.
SameTaint == \A b \in Ap : Logical(b)' = "DIRCARD" <=> Logical(b) = "DIRCARD"

LEMMA WorkStep ==
    ASSUME NEW t \in Thread, NEW c \in After(ContextOf(t)), Home(t) # NoThread,
           \A u \in Thread : Home(u)' = Home(u),
           \A u \in Thread : ContextOf(u)' = IF u = t THEN c ELSE ContextOf(u),
           SameTaint
    PROVE  H!Next
<1>1. H!Work(t)
  BY DEF H!Work, H!After, After, SameTaint
<1> QED
  BY <1>1 DEF H!Next

LEMMA CreateStep ==
    ASSUME NEW t \in Thread, NEW c \in Context, Home(t) = NoThread,
           \A u \in Thread : Home(u)' = IF u = t THEN NoAp ELSE Home(u),
           \A u \in Thread : ContextOf(u)' = IF u = t THEN c ELSE ContextOf(u),
           SameTaint
    PROVE  H!Next
<1>1. H!Create(t)
  BY DEF H!Create, SameTaint
<1> QED
  BY <1>1 DEF H!Next

LEMMA FlyStep ==
    ASSUME NEW t \in Thread, NEW a \in Ap, Home(t) = NoAp,
           Logical(a) # "DIRCARD", \A u \in Thread : Home(u) # a,
           \A u \in Thread : Home(u)' = IF u = t THEN a ELSE Home(u),
           \A u \in Thread : ContextOf(u)' = ContextOf(u),
           SameTaint
    PROVE  H!Next
<1>1. H!Fly(t, a)
  BY DEF H!Fly, SameTaint
<1> QED
  BY <1>1 DEF H!Next

LEMMA LandStep ==
    ASSUME NEW t \in Thread, Home(t) \in Ap,
           \A u \in Thread : Home(u)' = IF u = t THEN NoAp ELSE Home(u),
           \A u \in Thread : ContextOf(u)' = ContextOf(u),
           SameTaint
    PROVE  H!Next
<1>1. H!Land(t)
  BY DEF H!Land, SameTaint
<1> QED
  BY <1>1 DEF H!Next

LEMMA DestroyStep ==
    ASSUME NEW t \in Thread, Home(t) # NoThread,
           \A u \in Thread : Home(u)' = IF u = t THEN NoThread ELSE Home(u),
           \A u \in Thread : ContextOf(u)' = IF u = t THEN NoThread ELSE ContextOf(u),
           \A b \in Ap : Logical(b)' = "DIRCARD" <=> Logical(b) = "DIRCARD" \/ b = Home(t)
    PROVE  H!Next
<1>1. H!Destroy(t)
  BY DEF H!Destroy
<1> QED
  BY <1>1 DEF H!Next

LEMMA ClearStep ==
    ASSUME NEW a \in Ap, Logical(a) = "DIRCARD",
           \A u \in Thread : Home(u)' = Home(u),
           \A u \in Thread : ContextOf(u)' = ContextOf(u),
           \A b \in Ap : Logical(b)' = "DIRCARD" <=> Logical(b) = "DIRCARD" /\ b # a
    PROVE  H!Next
<1>1. H!Clear(a)
  BY DEF H!Clear
<1> QED
  BY <1>1 DEF H!Next

LEMMA RefinesInit == Init => H!Init
<1> SUFFICES ASSUME Init PROVE H!Init
  OBVIOUS
<1>1. \A a \in Ap : Logical(a) # "DIRCARD"
  BY DEF Init, Logical
<1>2. \A t \in Thread : Home(t) = NoThread /\ ContextOf(t) = NoThread
  BY DEF Init, Home, ContextOf
<1> QED
  BY <1>1, <1>2 DEF H!Init

\* The AP's own steps: all that Handoff sees is that an AP is clear again, and the
\* steps of a thread that exists.
LEMMA ApRefines ==
    ASSUME IInv, NEW a \in Ap, ApStep(a) \/ ApUserStep(a)
    PROVE  H!Next \/ Invisible
<1> USE DEF IInv, TypeOK, LockExclusion, HolderInv, HandlerInv, ApHolds, BspHolds,
        Logical, Carrying, Executes, Scanning, Ownership, ExecuteInv, shared, threads,
        bspVars, Home, ContextOf
<1>1. CASE ApLock(a)
  BY <1>1 DEF ApLock, Invisible
<1>2. CASE ApReady(a) \/ ApWaits(a) \/ ApLoaded(a) \/ ApRunning(a)
  BY <1>2 DEF ApReady, ApWaits, ApLoaded, ApRunning, ApDecides, Invisible
<1>3. CASE ApIncStore(a) \/ ApHlt(a)
  BY <1>3 DEF ApIncStore, ApHlt, Invisible
<1>4. CASE ApUnlock(a)
  BY <1>4 DEF ApUnlock, Invisible
<1>5. CASE ApSwitchtask(a)
  BY <1>5 DEF ApSwitchtask, Invisible
<1>6. CASE ApSwitchBack(a)
  BY <1>6 DEF ApSwitchBack, Invisible
<1>7. CASE ApDiscard(a)
  <2>1. Logical(a) = "DIRCARD" /\ \A b \in Ap : Logical(b)' = "DIRCARD" <=> Logical(b) = "DIRCARD" /\ b # a
    BY <1>7 DEF ApDiscard
  <2>2. \A u \in Thread : Home(u)' = Home(u) /\ ContextOf(u)' = ContextOf(u)
    BY <1>7 DEF ApDiscard
  <2> HIDE DEF Logical, Home, ContextOf
  <2> QED BY <2>1, <2>2, ClearStep
<1>8. CASE ApUserStep(a)
  <2>1. SameTaint /\ \A u \in Thread : Home(u)' = Home(u)
    BY <1>8 DEF ApUserStep, SameTaint
  <2>2. CASE Logical(a) = "DIRCARD"
    BY <1>8, <2>1, <2>2 DEF ApUserStep, SameTaint, Invisible
  <2>3. CASE Logical(a) = "RUNNING"
    <3>1. PICK c \in After(rctx[a]) : rctx' = [rctx EXCEPT ![a] = c]
      BY <1>8 DEF ApUserStep
    <3> DEFINE t == slot[a]
    <3>2. t \in Thread /\ live[t] /\ smp_status[t] = 1 /\ smp_apid[t] = a
      BY <2>3
    <3>3. ContextOf(t) = rctx[a] /\ Home(t) = a
      BY <1>8, <3>2 DEF ApUserStep
    <3>4. \A u \in Thread : ContextOf(u)' = IF u = t THEN c ELSE ContextOf(u)
      BY <1>8, <3>1, <3>2 DEF ApUserStep
    <3>5. a # NoThread
      BY ThreadAssumption
    <3> HIDE DEF t, Logical, Home, ContextOf
    <3> QED BY <2>1, <3>1, <3>2, <3>3, <3>4, <3>5, WorkStep
  <2> QED BY <1>8, <2>2, <2>3 DEF ApUserStep
<1> QED
  BY <1>1, <1>2, <1>3, <1>4, <1>5, <1>6, <1>7, <1>8 DEF ApStep

\* Threads and switches on the BSP: a step of the current thread, a new thread, a
\* thread destroyed at home.
LEMMA ThreadRefines ==
    ASSUME IInv, NEW t \in Thread,
           \/ UserStep(t) \/ Elevate(t) \/ PageFault(t) \/ Fly(t) \/ Int3Fly(t)
           \/ IdlePoll(t) \/ Int3Reattach(t)
           \/ CreateThread(t) \/ DestroyThread(t) \/ DestroyMigrated(t)
    PROVE  H!Next \/ Invisible
<1> USE DEF IInv, TypeOK, LockExclusion, HandlerInv, WhereInv, ApHolds, BspHolds,
        Logical, Scanning, shared, apVars, bspVars, threads, Home, ContextOf, Enters,
        InRing3
<1>1. CASE Elevate(t) \/ PageFault(t) \/ Fly(t) \/ IdlePoll(t)
  BY <1>1 DEF Elevate, PageFault, Fly, IdlePoll, MovesTo, Invisible
<1>2. CASE Int3Fly(t) \/ Int3Reattach(t) \/ DestroyMigrated(t)
  BY <1>2 DEF Int3Fly, Int3Reattach, DestroyMigrated, Invisible
<1>3. CASE UserStep(t)
  <2>1. PICK c \in After(bctx[t]) : bctx' = [bctx EXCEPT ![t] = c]
    BY <1>3 DEF UserStep
  <2>2. SameTaint /\ \A u \in Thread : Home(u)' = Home(u)
    BY <1>3 DEF UserStep, SameTaint
  <2>3. ContextOf(t) = bctx[t] /\ Home(t) = NoAp
    BY <1>3 DEF UserStep
  <2>4. \A u \in Thread : ContextOf(u)' = IF u = t THEN c ELSE ContextOf(u)
    BY <1>3, <2>1 DEF UserStep
  <2>5. NoAp # NoThread
    BY ThreadAssumption
  <2> HIDE DEF Logical, Home, ContextOf
  <2> QED BY <2>1, <2>2, <2>3, <2>4, <2>5, WorkStep
<1>4. CASE CreateThread(t)
  <2>1. PICK c \in Context : bctx' = [bctx EXCEPT ![t] = c]
    BY <1>4 DEF CreateThread
  <2>2. SameTaint /\ Home(t) = NoThread
    BY <1>4 DEF CreateThread, SameTaint
  <2>3. \A u \in Thread : /\ Home(u)' = IF u = t THEN NoAp ELSE Home(u)
                          /\ ContextOf(u)' = IF u = t THEN c ELSE ContextOf(u)
    BY <1>4, <2>1 DEF CreateThread
  <2> HIDE DEF Logical, Home, ContextOf
  <2> QED BY <2>1, <2>2, <2>3, CreateStep
<1>5. CASE DestroyThread(t)
  <2>1. SameTaint /\ Home(t) = NoAp
    BY <1>5 DEF DestroyThread, SameTaint
  <2>2. \A u \in Thread :
           /\ Home(u)' = IF u = t THEN NoThread ELSE Home(u)
           /\ ContextOf(u)' = IF u = t THEN NoThread ELSE ContextOf(u)
    BY <1>5 DEF DestroyThread
  <2>3. NoAp # NoThread /\ NoAp \notin Ap
    BY ThreadAssumption, ApAssumption
  <2> HIDE DEF Logical, Home, ContextOf
  <2> QED BY <2>1, <2>2, <2>3, DestroyStep DEF SameTaint
<1> QED
  BY <1>1, <1>2, <1>3, <1>4, <1>5

LEMMA SwitchRefines ==
    ASSUME IInv, NEW new \in Thread \cup {NoThread},
           ThreadSwitch(new) \/ ThreadSwitchAutorun(new)
    PROVE  H!Next \/ Invisible
<1> USE DEF IInv, TypeOK, LockExclusion, HandlerInv, ApHolds, BspHolds,
        Logical, Scanning, shared, apVars, threads, Home, ContextOf, Enters, InRing3
<1>1. CASE ThreadSwitch(new)
  BY <1>1 DEF ThreadSwitch, SwitchedIn, Invisible
<1>2. CASE ThreadSwitchAutorun(new)
  BY <1>2 DEF ThreadSwitchAutorun, Invisible
<1> QED
  BY <1>1, <1>2

\* The handlers: loading is Fly, unloading is Land, Device_Thread_Destroy of a thread
\* that is away is Destroy.
LEMMA HandlerRefines ==
    ASSUME IInv, BspHandler
    PROVE  H!Next \/ Invisible
<1> USE DEF IInv, TypeOK, LockExclusion, HolderInv, HandlerInv, ApHolds, BspHolds,
        Logical, Carrying, Executes, Scanning, Ownership, ExecuteInv, shared, apVars,
        threads, Home, ContextOf
<1>1. CASE BspLock \/ SkipAp \/ SmpWakeup \/ NotLanded
  BY <1>1 DEF BspLock, SkipAp, SmpWakeup, NotLanded, Invisible
<1>2. CASE IncStore \/ DecLoad
  BY <1>2 DEF IncStore, DecLoad, Invisible
<1>3. CASE ReattachUnlock \/ LoadUnlock
  BY <1>3, ApAssumption DEF ReattachUnlock, LoadUnlock, BspReleases, Finishes, Returns, Invisible
<1>4. CASE SkipUnlock \/ DecStore
  BY <1>4, ApAssumption DEF SkipUnlock, DecStore, BspReleases, Finishes, Returns, Invisible
<1>5. CASE LoadThread
  <2>1. bthr \in Thread /\ bcpu \in Ap /\ live[bthr] /\ smp_status[bthr] = 0
    BY <1>5 DEF LoadThread
  <2>2. Logical(bcpu) \in {"READY", "SLEEP"} /\ apc[bcpu] # "user"
    BY <1>5, <2>1 DEF LoadThread
  <2>3. SameTaint
    BY <1>5, <2>1 DEF LoadThread, SameTaint
  <2>4. Home(bthr) = NoAp /\ \A u \in Thread : Home(u) # bcpu
    <3>1. \A u \in Thread : live[u] /\ smp_status[u] = 1 => smp_apid[u] # bcpu
      BY <2>2
    <3> QED BY <2>1, <3>1, ThreadAssumption, ApAssumption
  <2>5. \A u \in Thread : Home(u)' = IF u = bthr THEN bcpu ELSE Home(u)
    BY <1>5, <2>1 DEF LoadThread
  <2>6. \A u \in Thread : ContextOf(u)' = ContextOf(u)
    BY <1>5, <2>1, <2>2 DEF LoadThread
  <2> HIDE DEF Logical, Home, ContextOf
  <2> QED BY <2>1, <2>2, <2>3, <2>4, <2>5, <2>6, FlyStep
<1>6. CASE UnloadThread
  <2>1. /\ bthr \in Thread /\ bcpu \in Ap /\ live[bthr]
        /\ smp_status[bthr] = 1 /\ smp_apid[bthr] = bcpu
    BY <1>6 DEF UnloadThread
  <2>2. Logical(bcpu) = "CARGO" /\ apc[bcpu] # "user"
    BY <1>6, <2>1 DEF UnloadThread
  <2>3. SameTaint
    BY <1>6, <2>1 DEF UnloadThread, SameTaint
  <2>4. Home(bthr) \in Ap
    BY <2>1
  <2>5. \A u \in Thread : Home(u)' = IF u = bthr THEN NoAp ELSE Home(u)
    BY <1>6, <2>1 DEF UnloadThread
  <2>6. \A u \in Thread : ContextOf(u)' = ContextOf(u)
    BY <1>6, <2>1, <2>2 DEF UnloadThread
  <2> HIDE DEF Logical, Home, ContextOf
  <2> QED BY <2>1, <2>3, <2>4, <2>5, <2>6, LandStep
<1>7. CASE DestroyUnlock
  <2>1. /\ bthr \in Thread /\ bcpu \in Ap /\ live[bthr]
        /\ smp_status[bthr] = 1 /\ smp_apid[bthr] = bcpu
    BY <1>7 DEF DestroyUnlock
  <2>2. Home(bthr) = bcpu /\ bcpu # NoThread
    BY <2>1, ThreadAssumption
  <2>3. \A u \in Thread :
           /\ Home(u)' = IF u = bthr THEN NoThread ELSE Home(u)
           /\ ContextOf(u)' = IF u = bthr THEN NoThread ELSE ContextOf(u)
    BY <1>7, <2>1 DEF DestroyUnlock
  <2>4. \A b \in Ap : Logical(b)' = "DIRCARD" <=> Logical(b) = "DIRCARD" \/ b = bcpu
    BY <1>7, <2>1, ApAssumption DEF DestroyUnlock, Returns
  <2> HIDE DEF Logical, Home, ContextOf
  <2> QED BY <2>1, <2>2, <2>3, <2>4, DestroyStep
<1> QED
  BY <1>1, <1>2, <1>3, <1>4, <1>5, <1>6, <1>7 DEF BspHandler

LEMMA RefinesNext == IInv /\ [Next]_vars => [H!Next]_(H!vars)
<1> SUFFICES ASSUME IInv, [Next]_vars PROVE H!Next \/ Invisible
  BY InvisibleStutters
<1>1. ASSUME UNCHANGED vars PROVE Invisible
  BY <1>1 DEF vars, shared, apVars, threads, bspVars, Invisible, Home, ContextOf,
              Logical, ApHolds
<1> QED
  BY <1>1, ApRefines, ThreadRefines, SwitchRefines, HandlerRefines DEF Next

\* Moving threads between the processors, with every interleaving of the BSP's
\* handlers and the APs and with threads destroyed anywhere, does what Handoff says.
THEOREM MigrationImplementsHandoff == Spec => ImplementsHandoff
<1>1. Init => H!Init
  BY RefinesInit
<1>2. IInv /\ [Next]_vars => [H!Next]_(H!vars)
  BY RefinesNext
<1> QED
  BY <1>1, <1>2, InductiveInvariant, PTL DEF Spec, ImplementsHandoff, H!Spec

=============================================================================
