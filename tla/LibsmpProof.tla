---------------------------- MODULE LibsmpProof ----------------------------
(* The library.  TryEnterCriticalSection is sound, for any number of threads, when  *)
(* no thread that calls it is moved to an AP automatically.  (With one that is, TLC *)
(* finds two threads in the section.)  The records smp9x keeps of its threads are   *)
(* sound for any number of creators, threads and pieces of the heap.                *)
EXTENDS MCLibsmp, GeneratorProof

-----------------------------------------------------------------------------
(* The critical section.                                                            *)

\* Threads that call TryEnterCriticalSection fly by themselves, if at all.
ManualTries == Tries \cap Autorun = {}

\* A thread in TryEnterCrst is on the BSP, and has room for one more entry.
PlaceInv ==
    \A t \in Thread : pc[t] # "user" => t \in Tries /\ at[t] = "bsp" /\ depth[t] < MaxDepth

\* Before the section is initialised nobody is in it, and one thread at most on its way.
ReadyInv ==
    /\ ~ready => /\ lockCount = 1 /\ recursion = 0 /\ owner = NoThread
                 /\ \A t \in Thread : depth[t] = 0 /\ pc[t] \in {"user", "init"}
    /\ \A t \in Thread : pc[t] = "init" =>
          ~ready /\ \A u \in Thread : u # t => pc[u] = "user"

\* One thread is in a cmpxchg, and the count is still what it has read.
CasInv ==
    \A t \in Thread :
        /\ pc[t] = "store" => eax[t] = lockCount /\ \A u \in Thread : pc[u] = "store" => u = t
        /\ pc[t] = "take" => eax[t] = 1

\* The section is free, being taken by one thread, or held by one.
HeldInv ==
    /\ (\A t \in Thread : depth[t] = 0 /\ ~Taking(t)) => lockCount = 1
    /\ (\A t \in Thread : depth[t] = 0) => owner = NoThread /\ recursion = 0
    /\ \A t \in Thread : Taking(t) =>
          /\ lockCount = 0
          /\ \A u \in Thread : depth[u] = 0 /\ (u # t => ~Taking(u))
    /\ \A t \in Thread : depth[t] > 0 =>
          /\ owner = t /\ recursion = depth[t] /\ lockCount = 1 - depth[t]
          /\ \A u \in Thread : u # t => depth[u] = 0

CritInv == CritTypeOK /\ PlaceInv /\ ReadyInv /\ CasInv /\ HeldInv

-----------------------------------------------------------------------------

LEMMA InitCrit == CritInit => CritInv
<1> SUFFICES ASSUME CritInit PROVE CritInv
  OBVIOUS
<1>1. CritTypeOK
  BY CritSectAssumption DEF CritInit, CritTypeOK
<1>2. PlaceInv /\ ReadyInv /\ CasInv
  BY DEF CritInit, PlaceInv, ReadyInv, CasInv
<1>3. HeldInv
  BY DEF CritInit, HeldInv, Taking
<1> QED
  BY <1>1, <1>2, <1>3 DEF CritInv

\* While a thread is in a cmpxchg, no other executes on the BSP.
LEMMA NobodyStores ==
    ASSUME CritInv, NEW t \in Thread, BspIsFor(t)
    PROVE  \A u \in Thread : u # t => pc[u] # "store"
  BY DEF CritInv, PlaceInv, BspIsFor

\* Who may enter: the section is free or the caller's own, and then no other is in it.
LEMMA OthersAreOut ==
    ASSUME CritInv, NEW t \in Thread, lockCount = 1 \/ owner = t
    PROVE  /\ \A u \in Thread : ~Taking(u)
           /\ \A u \in Thread \ {t} : depth[u] = 0
           /\ lockCount = 1 - depth[t] /\ recursion = depth[t]
           /\ owner = t <=> depth[t] > 0
<1> USE DEF CritInv, CritTypeOK
<1>1. CASE lockCount = 1
  <2>1. \A u \in Thread : depth[u] = 0
    BY <1>1 DEF HeldInv
  <2>2. \A u \in Thread : ~Taking(u)
    BY <1>1 DEF HeldInv
  <2>3. owner = NoThread /\ recursion = 0
    BY <2>1 DEF HeldInv
  <2> QED BY <1>1, <2>1, <2>2, <2>3, CritSectAssumption
<1>2. CASE owner = t
  <2>1. PICK u \in Thread : depth[u] > 0
    BY <1>2, CritSectAssumption DEF HeldInv
  <2>2. u = t
    BY <1>2, <2>1 DEF HeldInv
  <2>3. \A v \in Thread : ~Taking(v)
    BY <2>1 DEF HeldInv
  <2> QED BY <1>2, <2>1, <2>2, <2>3 DEF HeldInv
<1> QED
  BY <1>1, <1>2

\* A thread that is not in TryEnterCrst enters or leaves.
LEMMA KernelCrit ==
    ASSUME CritInv, NEW t \in Thread,
           EnterCriticalSection(t) \/ LeaveCriticalSection(t) \/ TryEnter95(t)
    PROVE  CritInv'
<1> USE DEF CritInv
<1>1. /\ CritTypeOK /\ \A u \in Thread : depth[u] \in Nat /\ depth[u] <= MaxDepth
      /\ MaxDepth \in Nat \ {0}
  BY CritSectAssumption DEF CritTypeOK
<1>2. /\ at' = [at EXCEPT ![t] = "bsp"] /\ UNCHANGED <<known, ready, eax>>
      /\ \A u \in Thread : u # t => pc[u] # "store"
      /\ pc[t] \in {"user", "enter"} /\ pc' = [pc EXCEPT ![t] = "user"]
  BY <1>1, NobodyStores
  DEF EnterCriticalSection, LeaveCriticalSection, TryEnter95, OnBsp, Goto, CritTypeOK
<1>3. /\ ready
      /\ \A u \in Thread : Taking(u)' = Taking(u)
      /\ \A u \in Thread : pc'[u] # "store" /\ (pc'[u] = "take" => eax'[u] = 1)
      /\ \A u \in Thread : pc'[u] # "init"
  <2>1. ready
    BY <1>1 DEF EnterCriticalSection, LeaveCriticalSection, TryEnter95, ReadyInv
  <2> QED BY <1>1, <1>2, <2>1 DEF Taking, CritTypeOK, CasInv, ReadyInv
<1>4. CASE EnterCriticalSection(t) \/ TryEnter95(t)
  <2>1. /\ Enter(t) /\ depth[t] < MaxDepth
    BY <1>4 DEF EnterCriticalSection, TryEnter95, PlaceInv
  <2>2. /\ \A u \in Thread : ~Taking(u)
        /\ \A u \in Thread \ {t} : depth[u] = 0
        /\ lockCount = 1 - depth[t] /\ recursion = depth[t]
    BY <2>1, OthersAreOut DEF Enter
  <2>3. /\ lockCount' = lockCount - 1 /\ recursion' = recursion + 1 /\ owner' = t
        /\ depth' = [depth EXCEPT ![t] = @ + 1]
    BY <2>1 DEF Enter
  <2>4. depth'[t] = depth[t] + 1 /\ \A u \in Thread : u # t => depth'[u] = depth[u]
    BY <1>1, <2>3 DEF CritTypeOK
  <2>5. CritTypeOK'
    BY <1>1, <1>2, <2>1, <2>3 DEF CritTypeOK
  <2>6. PlaceInv' /\ ReadyInv' /\ CasInv'
    BY <1>1, <1>2, <1>3, <2>4 DEF PlaceInv, ReadyInv, CasInv, CritTypeOK
  <2>7. HeldInv'
    BY <1>1, <1>3, <2>2, <2>3, <2>4 DEF HeldInv
  <2> QED BY <2>5, <2>6, <2>7
<1>5. CASE LeaveCriticalSection(t)
  <2>1. /\ depth[t] > 0 /\ pc[t] = "user" /\ pc' = pc
        /\ lockCount' = lockCount + 1 /\ recursion' = recursion - 1
        /\ owner' = IF recursion' = 0 THEN NoThread ELSE owner
        /\ depth' = [depth EXCEPT ![t] = @ - 1]
    BY <1>5 DEF LeaveCriticalSection
  <2>2. /\ owner = t /\ recursion = depth[t] /\ lockCount = 1 - depth[t]
        /\ \A u \in Thread : u # t => depth[u] = 0
        /\ \A u \in Thread : ~Taking(u)
    <3>1. /\ owner = t /\ recursion = depth[t] /\ lockCount = 1 - depth[t]
          /\ \A u \in Thread : u # t => depth[u] = 0
      BY <2>1 DEF HeldInv
    <3>2. depth[t] # 0
      BY <1>1, <2>1
    <3>3. \A u \in Thread : ~Taking(u)
      BY <3>2 DEF HeldInv
    <3> QED BY <3>1, <3>3
  <2>3. depth'[t] = depth[t] - 1 /\ \A u \in Thread : u # t => depth'[u] = depth[u]
    BY <1>1, <2>1 DEF CritTypeOK
  <2>4. CritTypeOK'
    BY <1>1, <1>2, <2>1, <2>2 DEF CritTypeOK
  <2>5. PlaceInv' /\ ReadyInv' /\ CasInv'
    BY <1>1, <1>2, <1>3, <2>1, <2>3 DEF PlaceInv, ReadyInv, CasInv, CritTypeOK
  <2>6. HeldInv'
    BY <1>1, <1>3, <2>1, <2>2, <2>3 DEF HeldInv
  <2> QED BY <2>4, <2>5, <2>6
<1> QED
  BY <1>4, <1>5

\* A thread calls TryEnterCriticalSection and comes to its cmpxchg.
LEMMA CallCrit ==
    ASSUME CritInv, NEW t \in Thread, TryCall(t) \/ TryInit(t) \/ TryVersion(t)
    PROVE  CritInv'
<1> USE DEF CritInv
<1>1. /\ CritTypeOK /\ \A u \in Thread : depth[u] \in Nat /\ depth[u] <= MaxDepth
      /\ MaxDepth \in Nat \ {0}
  BY CritSectAssumption DEF CritTypeOK
<1>2. /\ at' = [at EXCEPT ![t] = "bsp"] /\ UNCHANGED <<known, eax, depth>>
      /\ \A u \in Thread : u # t => pc[u] # "store"
      /\ t \in Tries /\ depth[t] < MaxDepth /\ pc[t] \in {"user", "init", "version"}
      /\ pc'[t] \in {"enter", "init", "version", "cas"}
      /\ \E label : pc' = [pc EXCEPT ![t] = label]
  BY <1>1, NobodyStores DEF TryCall, TryInit, TryVersion, OnBsp, Goto, CritTypeOK, PlaceInv
<1>3. /\ pc' \in [Thread -> {"user", "enter", "init", "version", "cas", "store", "tdbx",
                             "take", "check"}]
      /\ \A u \in Thread : u # t => pc'[u] = pc[u]
  BY <1>1, <1>2 DEF CritTypeOK
<1>4. \A u \in Thread : Taking(u)' = Taking(u)
  BY <1>1, <1>2, <1>3 DEF Taking
<1>5. CasInv'
  BY <1>1, <1>2, <1>3 DEF CasInv
<1>6. PlaceInv'
  BY <1>1, <1>2, <1>3 DEF PlaceInv, CritTypeOK
<1>7. CASE TryCall(t) \/ TryVersion(t)
  <2>1. UNCHANGED <<ready, lockCount, recursion, owner>>
    BY <1>7 DEF TryCall, TryVersion, sectVars
  <2>2. CritTypeOK' /\ HeldInv'
    BY <1>1, <1>2, <1>3, <1>4, <2>1 DEF CritTypeOK, HeldInv
  <2>3. ReadyInv'
    <3>1. CASE ready
      <4>1. pc'[t] # "init"
        BY <1>1, <1>7, <3>1 DEF TryCall, TryVersion, Goto, CritTypeOK, ReadyInv
      <4> QED BY <1>3, <2>1, <3>1, <4>1 DEF ReadyInv
    <3>2. CASE ~ready
      <4>1. TryCall(t)
        BY <1>7, <3>2 DEF TryVersion, ReadyInv
      <4>2. pc'[t] = "init" /\ \A u \in Thread : pc[u] = "user"
        BY <1>1, <3>2, <4>1 DEF TryCall, Goto, CritTypeOK
      <4> QED BY <1>2, <1>3, <2>1, <3>2, <4>2 DEF ReadyInv
    <3> QED BY <3>1, <3>2
  <2> QED BY <1>5, <1>6, <2>2, <2>3
<1>8. CASE TryInit(t)
  <2>1. /\ ready' /\ lockCount' = 1 /\ recursion' = 0 /\ owner' = NoThread
        /\ ready' \in BOOLEAN /\ pc'[t] = "version" /\ ~ready
        /\ \A u \in Thread : u # t => pc[u] = "user"
    BY <1>1, <1>8 DEF TryInit, Goto, CritTypeOK, ReadyInv
  <2>2. CritTypeOK'
    BY <1>1, <1>2, <1>3, <2>1 DEF CritTypeOK
  <2>3. ReadyInv'
    BY <1>3, <2>1 DEF ReadyInv
  <2>4. /\ \A u \in Thread : depth[u] = 0 /\ pc[u] \in {"user", "init"}
        /\ lockCount = 1 /\ recursion = 0 /\ owner = NoThread
    BY <2>1 DEF ReadyInv
  <2>5. HeldInv'
    BY <1>2, <1>4, <2>1, <2>4 DEF HeldInv
  <2> QED BY <1>5, <1>6, <2>2, <2>3, <2>5
<1> QED
  BY <1>7, <1>8

\* The cmpxchg and what follows.
LEMMA CasCrit ==
    ASSUME CritInv, NEW t \in Thread,
           CasLoad(t) \/ CasStore(t) \/ ReadTdbx(t) \/ Take(t) \/ CheckOwner(t)
    PROVE  CritInv'
<1> USE DEF CritInv
<1>1. /\ CritTypeOK /\ \A u \in Thread : depth[u] \in Nat /\ depth[u] <= MaxDepth
      /\ MaxDepth \in Nat \ {0}
  BY CritSectAssumption DEF CritTypeOK
<1>2. /\ pc[t] \in {"cas", "store", "tdbx", "take", "check"} /\ at[t] = "bsp" /\ t \in Tries
      /\ at' = at /\ UNCHANGED <<known, ready>> /\ ready /\ depth[t] < MaxDepth
      /\ \E label \in {"store", "tdbx", "take", "check", "user"} : pc' = [pc EXCEPT ![t] = label]
  <2>1. pc[t] \in {"cas", "store", "tdbx", "take", "check"} /\ UNCHANGED <<known, ready>>
    BY DEF CasLoad, CasStore, ReadTdbx, Take, CheckOwner
  <2>2. at[t] = "bsp" /\ t \in Tries /\ ready /\ depth[t] < MaxDepth
    BY <1>1, <2>1 DEF PlaceInv, ReadyInv
  <2>3. at' = at
    BY <1>1, <2>2 DEF CasLoad, CasStore, ReadTdbx, Take, CheckOwner, OnBsp, CritTypeOK
  <2>4. \E label \in {"store", "tdbx", "take", "check", "user"} : pc' = [pc EXCEPT ![t] = label]
    BY DEF CasLoad, CasStore, ReadTdbx, Take, CheckOwner, Goto
  <2> QED BY <2>1, <2>2, <2>3, <2>4
<1>3. /\ pc' \in [Thread -> {"user", "enter", "init", "version", "cas", "store", "tdbx",
                             "take", "check"}]
      /\ \A u \in Thread : u # t => pc'[u] = pc[u]
      /\ pc'[t] # "init"
  BY <1>1, <1>2 DEF CritTypeOK
<1>4. \A u \in Thread : u # t => pc[u] # "store"
  <2>1. BspIsFor(t)
    BY <1>2 DEF CasLoad, CasStore, ReadTdbx, Take, CheckOwner, Executes, OnBsp
  <2> QED BY <2>1, NobodyStores
<1>5. ReadyInv'
  BY <1>2, <1>3 DEF ReadyInv
<1>6. CASE CasLoad(t)
  <2>1. /\ eax' = [eax EXCEPT ![t] = lockCount] /\ pc[t] = "cas" /\ pc'[t] = "store"
        /\ UNCHANGED <<lockCount, recursion, owner, depth>>
    BY <1>1, <1>6 DEF CasLoad, Goto, sectVars, CritTypeOK
  <2>2. CritTypeOK' /\ PlaceInv'
    BY <1>1, <1>2, <1>3, <2>1 DEF CritTypeOK, PlaceInv
  <2>3. \A u \in Thread : Taking(u)' = Taking(u)
    BY <1>1, <1>3, <2>1 DEF Taking, CritTypeOK
  <2>4. CasInv'
    BY <1>1, <1>3, <1>4, <2>1 DEF CasInv, CritTypeOK
  <2>5. HeldInv'
    BY <2>1, <2>3 DEF HeldInv
  <2> QED BY <1>5, <2>2, <2>4, <2>5
<1>7. CASE CasStore(t)
  <2>1. /\ lockCount' = (IF eax[t] = 1 THEN 0 ELSE eax[t]) /\ pc[t] = "store" /\ pc'[t] = "tdbx"
        /\ UNCHANGED <<recursion, owner, depth, eax>> /\ eax[t] = lockCount
    BY <1>1, <1>7 DEF CasStore, Goto, CritTypeOK, CasInv
  <2>2. CritTypeOK' /\ PlaceInv'
    BY <1>1, <1>2, <1>3, <2>1 DEF CritTypeOK, PlaceInv
  <2>3. CasInv'
    BY <1>1, <1>3, <1>4, <2>1 DEF CasInv, CritTypeOK
  <2>4. CASE lockCount = 1
    <3>1. \A u \in Thread : depth[u] = 0 /\ ~Taking(u)
      <4> TAKE u \in Thread
      <4>1. ~(depth[u] > 0) /\ depth[u] \in Nat
        BY <1>1, <2>4 DEF HeldInv
      <4>2. ~Taking(u)
        BY <2>4 DEF HeldInv
      <4> QED BY <4>1, <4>2
    <3>2. Taking(t)' /\ \A u \in Thread : u # t => ~Taking(u)'
      BY <1>3, <2>1, <2>4, <3>1 DEF Taking
    <3> QED BY <1>5, <2>1, <2>2, <2>3, <2>4, <3>1, <3>2 DEF HeldInv
  <2>5. CASE lockCount # 1
    <3>1. lockCount' = lockCount /\ \A u \in Thread : Taking(u)' = Taking(u)
      BY <1>3, <2>1, <2>5 DEF Taking
    <3>2. HeldInv'
      BY <2>1, <3>1 DEF HeldInv
    <3> QED BY <1>5, <2>2, <2>3, <3>2
  <2> QED BY <2>4, <2>5
<1>8. CASE ReadTdbx(t)
  <2>1. /\ pc[t] = "tdbx" /\ pc'[t] = (IF eax[t] = 1 THEN "take" ELSE "check")
        /\ UNCHANGED <<lockCount, recursion, owner, depth, eax>>
    BY <1>1, <1>8 DEF ReadTdbx, Goto, sectVars, CritTypeOK
  <2>2. CritTypeOK' /\ PlaceInv'
    BY <1>1, <1>2, <1>3, <2>1 DEF CritTypeOK, PlaceInv
  <2>3. \A u \in Thread : Taking(u)' = Taking(u)
    BY <1>3, <2>1 DEF Taking
  <2>4. CasInv'
    BY <1>3, <1>4, <2>1 DEF CasInv
  <2>5. HeldInv'
    BY <2>1, <2>3 DEF HeldInv
  <2> QED BY <1>5, <2>2, <2>4, <2>5
<1>9. CASE Take(t)
  <2>1. /\ pc[t] = "take" /\ pc'[t] = "user" /\ owner' = t /\ recursion' = recursion + 1
        /\ depth' = [depth EXCEPT ![t] = @ + 1] /\ UNCHANGED <<lockCount, eax>>
    BY <1>1, <1>9 DEF Take, Goto, CritTypeOK
  <2>2. Taking(t)
    BY <2>1 DEF CasInv, Taking
  <2>3. lockCount = 0 /\ \A u \in Thread : depth[u] = 0 /\ (u # t => ~Taking(u))
    BY <2>2 DEF HeldInv
  <2>4. recursion = 0 /\ depth'[t] = 1 /\ \A u \in Thread : u # t => depth'[u] = 0
    BY <1>1, <2>1, <2>3 DEF HeldInv, CritTypeOK
  <2>5. CritTypeOK'
    BY <1>1, <1>2, <1>3, <2>1 DEF CritTypeOK
  <2>6. PlaceInv' /\ CasInv'
    BY <1>1, <1>2, <1>3, <1>4, <2>1, <2>3, <2>4 DEF PlaceInv, CasInv
  <2>7. \A u \in Thread : ~Taking(u)'
    BY <1>3, <2>1, <2>3 DEF Taking
  <2>8. HeldInv'
    BY <2>1, <2>3, <2>4, <2>7 DEF HeldInv
  <2> QED BY <1>5, <2>5, <2>6, <2>8
<1>10. CASE CheckOwner(t)
  <2>1. pc[t] = "check" /\ pc'[t] = "user" /\ UNCHANGED <<owner, eax>>
    BY <1>1, <1>10 DEF CheckOwner, Goto, CritTypeOK
  <2>2. \A u \in Thread : Taking(u)' = Taking(u)
    BY <1>3, <2>1 DEF Taking
  <2>3. CASE owner = t
    <3>1. /\ lockCount' = lockCount - 1 /\ recursion' = recursion + 1
          /\ depth' = [depth EXCEPT ![t] = @ + 1]
      BY <1>10, <2>3 DEF CheckOwner
    <3>2. /\ \A u \in Thread : ~Taking(u)
          /\ \A u \in Thread \ {t} : depth[u] = 0
          /\ lockCount = 1 - depth[t] /\ recursion = depth[t]
      BY <2>3, OthersAreOut
    <3>3. depth'[t] = depth[t] + 1 /\ \A u \in Thread : u # t => depth'[u] = 0
      BY <1>1, <3>1, <3>2 DEF CritTypeOK
    <3>4. CritTypeOK'
      BY <1>1, <1>2, <1>3, <2>1, <3>1 DEF CritTypeOK
    <3>5. PlaceInv' /\ CasInv'
      BY <1>1, <1>2, <1>3, <1>4, <2>1, <3>2, <3>3 DEF PlaceInv, CasInv
    <3>6. HeldInv'
      BY <1>1, <2>1, <2>2, <2>3, <3>1, <3>2, <3>3 DEF HeldInv
    <3> QED BY <1>5, <3>4, <3>5, <3>6
  <2>4. CASE owner # t
    <3>1. UNCHANGED <<lockCount, recursion, depth>>
      BY <1>10, <2>4 DEF CheckOwner
    <3>2. CritTypeOK' /\ PlaceInv' /\ CasInv'
      BY <1>1, <1>2, <1>3, <1>4, <2>1, <3>1 DEF CritTypeOK, PlaceInv, CasInv
    <3>3. HeldInv'
      BY <2>1, <2>2, <3>1 DEF HeldInv
    <3> QED BY <1>5, <3>2, <3>3
  <2> QED BY <2>3, <2>4
<1> QED
  BY <1>6, <1>7, <1>8, <1>9, <1>10

\* A thread moves between the processors.
LEMMA MoveCrit ==
    ASSUME CritInv, ManualTries, NEW t \in Thread, CsFly(t) \/ CsAutorun(t) \/ CsBack(t)
    PROVE  CritInv'
<1> USE DEF CritInv
<1>1. /\ CritTypeOK /\ UNCHANGED <<known, ready, lockCount, recursion, owner, pc, eax, depth>>
      /\ \E to \in {"ap", "bsp"} : at' = [at EXCEPT ![t] = to] /\ (to = "bsp" \/ pc[t] = "user")
  <2>1. CASE CsFly(t)
    BY <2>1 DEF CsFly, Move, sectVars
  <2>2. CASE CsAutorun(t)
    <3>1. pc[t] = "user"
      BY <2>2 DEF CsAutorun, PlaceInv, ManualTries
    <3> QED BY <2>2, <3>1 DEF CsAutorun, Move, sectVars
  <2>3. CASE CsBack(t)
    BY <2>3 DEF CsBack, Move, sectVars
  <2> QED BY <2>1, <2>2, <2>3
<1>2. CritTypeOK' /\ PlaceInv'
  BY <1>1 DEF CritTypeOK, PlaceInv
<1>3. ReadyInv' /\ CasInv' /\ HeldInv'
  BY <1>1 DEF ReadyInv, CasInv, HeldInv, Taking
<1> QED
  BY <1>2, <1>3

LEMMA NextCrit == CritInv /\ ManualTries /\ [CritNext]_csVars => CritInv'
<1> SUFFICES ASSUME CritInv, ManualTries, [CritNext]_csVars PROVE CritInv'
  OBVIOUS
<1>1. CASE CritNext
  BY <1>1, KernelCrit, CallCrit, CasCrit, MoveCrit DEF CritNext
<1>2. CASE UNCHANGED csVars
  BY <1>2 DEF csVars, sectVars, CritInv, CritTypeOK, PlaceInv, ReadyInv, CasInv, HeldInv, Taking
<1> QED
  BY <1>1, <1>2

LEMMA CritInductive == ManualTries => (CritSpec => []CritInv)
<1> SUFFICES ASSUME ManualTries PROVE CritSpec => []CritInv
  OBVIOUS
<1> QED
  BY InitCrit, NextCrit, PTL DEF CritSpec

-----------------------------------------------------------------------------

\* LockCount, RecursionCount and OwningThread say how often whoever entered, for any
\* number of threads that enter, try and fly.
THEOREM FieldsCorrect == ManualTries => (CritSpec => []FieldsAgree)
<1> SUFFICES ASSUME ManualTries PROVE CritSpec => []FieldsAgree
  OBVIOUS
<1>1. CritInv => FieldsAgree
  BY DEF CritInv, HeldInv, FieldsAgree
<1> QED
  BY CritInductive, <1>1, PTL

\* TryEnterCrst and kernel32 let one thread in at a time.
THEOREM SectionIsExclusive == ManualTries => (CritSpec => []MutualExclusion)
<1> SUFFICES ASSUME ManualTries PROVE CritSpec => []MutualExclusion
  OBVIOUS
<1>1. CritInv => MutualExclusion
  BY DEF CritInv, CritTypeOK, HeldInv, MutualExclusion
<1> QED
  BY CritInductive, <1>1, PTL

\* The calls of kernel32 and TryEnterCrst together are a reentrant mutex.
THEOREM SectionIsMutex == ManualTries => (CritSpec => ImplementsMutex)
<1> SUFFICES ASSUME ManualTries PROVE CritSpec => ImplementsMutex
  OBVIOUS
<1>1. CritInit => AbstractMutex!MutexInit
  BY DEF CritInit, AbstractMutex!MutexInit
<1>2. CritInv /\ [CritNext]_csVars => [AbstractMutex!MutexNext]_depth
  <2> SUFFICES ASSUME CritInv, [CritNext]_csVars
               PROVE  AbstractMutex!MutexNext \/ UNCHANGED depth
    OBVIOUS
  <2>1. ASSUME NEW t \in Thread, EnterCriticalSection(t) \/ TryEnter95(t)
        PROVE  AbstractMutex!Acquire(t)
    BY <2>1, OthersAreOut DEF EnterCriticalSection, TryEnter95, Enter, AbstractMutex!Acquire
  <2>2. ASSUME NEW t \in Thread, LeaveCriticalSection(t)
        PROVE  AbstractMutex!Release(t)
    BY <2>2 DEF LeaveCriticalSection, AbstractMutex!Release
  <2>3. ASSUME NEW t \in Thread, Take(t)
        PROVE  AbstractMutex!Acquire(t)
    <3>1. Taking(t)
      BY <2>3 DEF Take, CritInv, CasInv, Taking
    <3> QED BY <2>3, <3>1 DEF Take, CritInv, HeldInv, AbstractMutex!Acquire
  <2>4. ASSUME NEW t \in Thread, CheckOwner(t)
        PROVE  AbstractMutex!Acquire(t) \/ UNCHANGED depth
    <3>1. CASE owner = t
      BY <2>4, <3>1, OthersAreOut DEF CheckOwner, AbstractMutex!Acquire
    <3>2. CASE owner # t
      BY <2>4, <3>2 DEF CheckOwner
    <3> QED BY <3>1, <3>2
  <2>5. ASSUME NEW t \in Thread,
               \/ TryCall(t) \/ TryInit(t) \/ TryVersion(t) \/ CasLoad(t) \/ CasStore(t)
               \/ ReadTdbx(t) \/ CsFly(t) \/ CsAutorun(t) \/ CsBack(t)
        PROVE  UNCHANGED depth
    BY <2>5 DEF TryCall, TryInit, TryVersion, CasLoad, CasStore, ReadTdbx, CsFly, CsAutorun,
       CsBack, Move
  <2>6. CASE UNCHANGED csVars
    BY <2>6 DEF csVars
  <2> QED
    BY <2>1, <2>2, <2>3, <2>4, <2>5, <2>6 DEF CritNext, AbstractMutex!MutexNext
<1> QED
  BY CritInductive, <1>1, <1>2, PTL DEF CritSpec, ImplementsMutex, AbstractMutex!MutexSpec

-----------------------------------------------------------------------------
(* The list.                                                                *)

Injective(s) == \A i, j \in 1..Len(s) : s[i] = s[j] => i = j

LEMMA AppendFacts ==
    ASSUME NEW S, NEW s \in Seq(S), NEW x \in S
    PROVE  /\ Append(s, x) \in Seq(S) /\ Len(Append(s, x)) = Len(s) + 1 /\ Len(s) \in Nat
           /\ Append(s, x)[Len(s) + 1] = x /\ \A i \in 1..Len(s) : Append(s, x)[i] = s[i]
OBVIOUS

LEMMA LinkFacts ==
    ASSUME NEW S, NEW s \in Seq(S), NEW x \in S
    PROVE  /\ <<x>> \o s \in Seq(S) /\ ToSet(<<x>> \o s) = ToSet(s) \cup {x}
           /\ Injective(s) /\ x \notin ToSet(s) => Injective(<<x>> \o s)
<1> DEFINE t == <<x>> \o s
<1>1. /\ t \in Seq(S) /\ Len(t) = Len(s) + 1 /\ Len(s) \in Nat
      /\ t[1] = x /\ \A i \in 1..Len(s) : t[i + 1] = s[i]
  OBVIOUS
<1> HIDE DEF t
<1>2. \A i \in 1..Len(t) : i = 1 \/ (i - 1 \in 1..Len(s) /\ t[i] = s[i - 1])
  <2> SUFFICES ASSUME NEW i \in 1..Len(t), i # 1 PROVE i - 1 \in 1..Len(s) /\ t[i] = s[i - 1]
    OBVIOUS
  <2>1. i - 1 \in 1..Len(s) /\ (i - 1) + 1 = i
    BY <1>1
  <2> QED BY <1>1, <2>1
<1>3. DOMAIN t = 1..Len(t) /\ DOMAIN s = 1..Len(s)
  BY <1>1
<1>4. ToSet(t) \subseteq ToSet(s) \cup {x}
  <2> SUFFICES ASSUME NEW y \in ToSet(t) PROVE y = x \/ y \in ToSet(s)
    OBVIOUS
  <2>1. PICK i \in 1..Len(t) : y = t[i]
    BY <1>3 DEF ToSet
  <2> QED BY <1>1, <1>2, <1>3, <2>1 DEF ToSet
<1>5. \A i \in 1..Len(s) : i + 1 \in 1..Len(t)
  BY <1>1
<1>6. ToSet(s) \cup {x} \subseteq ToSet(t)
  <2>1. x \in ToSet(t)
    BY <1>1, <1>3 DEF ToSet
  <2>2. ASSUME NEW y \in ToSet(s) PROVE y \in ToSet(t)
    <3>1. PICK i \in 1..Len(s) : y = s[i]
      BY <1>3 DEF ToSet
    <3> QED BY <1>1, <1>3, <1>5, <3>1 DEF ToSet
  <2> QED BY <2>1, <2>2
<1>7. ASSUME Injective(s), x \notin ToSet(s) PROVE Injective(t)
  <2>1. \A i \in 1..Len(s) : s[i] # x
    BY <1>3, <1>7 DEF ToSet
  <2>2. \A i \in 1..Len(s) : \A j \in 1..Len(s) : s[i] = s[j] => i = j
    BY <1>7 DEF Injective
  <2>3. ASSUME NEW i \in 1..Len(t), NEW j \in 1..Len(t), t[i] = t[j], i # 1 PROVE i = j
    <3>1. i - 1 \in 1..Len(s) /\ t[i] = s[i - 1]
      BY <1>2, <2>3
    <3>2. j # 1
      BY <1>1, <2>1, <2>3, <3>1
    <3>3. j - 1 \in 1..Len(s) /\ t[j] = s[j - 1]
      BY <1>2, <3>2
    <3>4. i - 1 = j - 1
      BY <2>2, <2>3, <3>1, <3>3
    <3> QED BY <3>4
  <2>4. ASSUME NEW i \in 1..Len(t), NEW j \in 1..Len(t), t[i] = t[j] PROVE i = j
    <3>1. CASE i # 1
      BY <2>3, <2>4, <3>1
    <3>2. CASE j # 1
      <4>1. t[j] = t[i]
        BY <2>4
      <4> QED BY <2>3, <3>2, <4>1
    <3>3. CASE i = 1 /\ j = 1
      BY <3>3
    <3> QED BY <3>1, <3>2, <3>3
  <2> QED BY <2>4 DEF Injective
<1> QED
  BY <1>1, <1>4, <1>6, <1>7 DEF t

\* The body of the recursion of Unlink.
Keep(list, garbage, f, i) ==
    IF i = 0 THEN <<>>
    ELSE IF list[i] \in garbage THEN f[i - 1] ELSE Append(f[i - 1], list[i])

\* The recursion has a solution.
LEMMA KeptExists ==
    ASSUME NEW list, NEW garbage, NEW n \in Nat
    PROVE  \E f : f = [i \in 0..n |-> Keep(list, garbage, f, i)]
<1> DEFINE P == {m \in Nat : \E f : f = [i \in 0..m |-> Keep(list, garbage, f, i)]}
<1>1. 0 \in P
  <2>1. [i \in 0..0 |-> <<>>] = [i \in 0..0 |-> Keep(list, garbage, [j \in 0..0 |-> <<>>], i)]
    BY DEF Keep
  <2> QED BY <2>1
<1>2. ASSUME NEW m \in Nat, m \in P PROVE m + 1 \in P
  <2>1. PICK f : f = [i \in 0..m |-> Keep(list, garbage, f, i)]
    BY <1>2
  <2> DEFINE g == [i \in 0..(m + 1) |-> IF i = m + 1 THEN Keep(list, garbage, f, m + 1) ELSE f[i]]
  <2>2. \A i \in 0..m : g[i] = f[i] /\ f[i] = Keep(list, garbage, f, i)
    BY <2>1
  <2>3. ASSUME NEW i \in 0..(m + 1) PROVE g[i] = Keep(list, garbage, g, i)
    <3>1. i # 0 => i - 1 \in 0..m /\ g[i - 1] = f[i - 1]
      BY <2>2
    <3>2. Keep(list, garbage, g, i) = Keep(list, garbage, f, i)
      BY <3>1 DEF Keep
    <3>3. i # m + 1 => i \in 0..m
      OBVIOUS
    <3> QED BY <2>2, <3>2, <3>3
  <2>4. g = [i \in 0..(m + 1) |-> Keep(list, garbage, g, i)]
    <3> HIDE DEF Keep
    <3>1. g = [i \in 0..(m + 1) |-> g[i]]
      OBVIOUS
    <3> QED BY <2>3, <3>1
  <2>5. \E h : h = [i \in 0..(m + 1) |-> Keep(list, garbage, h, i)]
    <3> HIDE DEF g
    <3> QED BY <2>4
  <2> QED BY <2>5
<1>3. Nat \subseteq P
  <2> HIDE DEF P
  <2> QED BY <1>1, <1>2, Induction
<1> QED
  BY <1>3

\* The loop unlinks the garbage and nothing else.
LEMMA UnlinkFacts ==
    ASSUME NEW S, NEW list \in Seq(S), NEW garbage
    PROVE  /\ Unlink(list, garbage) \in Seq(S)
           /\ ToSet(Unlink(list, garbage)) = ToSet(list) \ garbage
           /\ Injective(list) => Injective(Unlink(list, garbage))
<1> DEFINE kept == CHOOSE f : f = [i \in 0..Len(list) |-> Keep(list, garbage, f, i)]
<1>1. Unlink(list, garbage) = kept[Len(list)]
  BY DEF Unlink, Keep
<1>2. Len(list) \in Nat /\ DOMAIN list = 1..Len(list) /\ \A j \in 1..Len(list) : list[j] \in S
  OBVIOUS
<1>3. kept = [i \in 0..Len(list) |-> Keep(list, garbage, kept, i)]
  BY <1>2, KeptExists
<1> HIDE DEF kept
<1>4. \A i \in 0..Len(list) : kept[i] = Keep(list, garbage, kept, i)
  BY <1>3
<1> DEFINE Good(n) ==
             /\ kept[n] \in Seq(S)
             /\ \A i \in 1..Len(kept[n]) : \E j \in 1..n : kept[n][i] = list[j] /\ list[j] \notin garbage
             /\ \A j \in 1..n : list[j] \notin garbage => \E i \in 1..Len(kept[n]) : kept[n][i] = list[j]
             /\ Injective(list) => Injective(kept[n])
           P == {n \in Nat : n <= Len(list) => Good(n)}
<1>5. 0 \in P
  <2>1. kept[0] = <<>>
    BY <1>2, <1>4 DEF Keep
  <2>2. <<>> \in Seq(S) /\ Len(<<>>) = 0
    OBVIOUS
  <2>3. Good(0)
    <3>1. \A i \in 1..0 : FALSE
      OBVIOUS
    <3> QED BY <2>1, <2>2, <3>1 DEF Injective
  <2> QED BY <2>3
<1>6. ASSUME NEW n \in Nat, n \in P PROVE n + 1 \in P
  <2> SUFFICES ASSUME n + 1 <= Len(list) PROVE Good(n + 1)
    OBVIOUS
  <2>1. Good(n) /\ n + 1 \in 1..Len(list) /\ list[n + 1] \in S
    BY <1>2, <1>6
  <2>2. kept[n + 1] = IF list[n + 1] \in garbage THEN kept[n] ELSE Append(kept[n], list[n + 1])
    <3>1. n + 1 \in 0..Len(list)
      BY <1>2, <2>1
    <3>2. kept[n + 1] = Keep(list, garbage, kept, n + 1)
      BY <3>1, <1>4
    <3>3. n + 1 # 0 /\ (n + 1) - 1 = n
      OBVIOUS
    <3> QED BY <3>2, <3>3 DEF Keep
  <2>3. \A j \in 1..(n + 1) : j = n + 1 \/ j \in 1..n
    OBVIOUS
  <2>4. CASE list[n + 1] \in garbage
    <3>1. kept[n + 1] = kept[n]
      BY <2>2, <2>4
    <3>2. \A j \in 1..n : j \in 1..(n + 1)
      OBVIOUS
    <3> QED BY <2>1, <2>3, <2>4, <3>1, <3>2
  <2>5. CASE list[n + 1] \notin garbage
    <3> DEFINE s == kept[n]
               t == kept[n + 1]
    <3>1. /\ t \in Seq(S) /\ Len(t) = Len(s) + 1 /\ Len(s) \in Nat
          /\ t[Len(s) + 1] = list[n + 1] /\ \A i \in 1..Len(s) : t[i] = s[i]
      BY <2>1, <2>2, <2>5, AppendFacts
    <3>2. Good(n)
      BY <2>1
    <3> HIDE DEF s, t
    <3>3. \A i \in 1..Len(t) : i = Len(s) + 1 \/ i \in 1..Len(s)
      BY <3>1
    <3>4. \A i \in 1..Len(t) : \E j \in 1..(n + 1) : t[i] = list[j] /\ list[j] \notin garbage
      <4> SUFFICES ASSUME NEW i \in 1..Len(t)
                   PROVE  \E j \in 1..(n + 1) : t[i] = list[j] /\ list[j] \notin garbage
        OBVIOUS
      <4>1. CASE i = Len(s) + 1
        BY <2>5, <3>1, <4>1
      <4>2. CASE i \in 1..Len(s)
        <5>1. PICK j \in 1..n : s[i] = list[j] /\ list[j] \notin garbage
          BY <3>2, <4>2 DEF s
        <5>2. j \in 1..(n + 1)
          OBVIOUS
        <5> QED BY <3>1, <4>2, <5>1, <5>2
      <4> QED BY <3>3, <4>1, <4>2
    <3>5. \A j \in 1..(n + 1) : list[j] \notin garbage => \E i \in 1..Len(t) : t[i] = list[j]
      <4> SUFFICES ASSUME NEW j \in 1..(n + 1), list[j] \notin garbage
                   PROVE  \E i \in 1..Len(t) : t[i] = list[j]
        OBVIOUS
      <4>1. CASE j = n + 1
        BY <3>1, <4>1
      <4>2. CASE j \in 1..n
        <5>1. PICK i \in 1..Len(s) : s[i] = list[j]
          BY <3>2, <4>2 DEF s
        <5>2. i \in 1..Len(t)
          BY <3>1
        <5> QED BY <3>1, <5>1, <5>2
      <4> QED BY <2>3, <4>1, <4>2
    <3>6. ASSUME Injective(list) PROVE Injective(t)
      <4>1. Injective(s)
        BY <3>2, <3>6 DEF s
      <4>2. \A i \in 1..Len(s) : s[i] # list[n + 1]
        <5> SUFFICES ASSUME NEW i \in 1..Len(s), s[i] = list[n + 1] PROVE FALSE
          OBVIOUS
        <5>1. PICK j \in 1..n : s[i] = list[j]
          BY <3>2 DEF s
        <5>2. j \in 1..Len(list) /\ j # n + 1
          BY <2>1, <1>2
        <5> QED BY <2>1, <3>6, <5>1, <5>2 DEF Injective
      <4> QED BY <3>1, <3>3, <4>1, <4>2 DEF Injective
    <3> QED BY <3>1, <3>4, <3>5, <3>6 DEF t
  <2> QED BY <2>4, <2>5
<1>7. Good(Len(list))
  <2>1. Len(list) \in P
    <3> HIDE DEF P
    <3> QED BY <1>2, <1>5, <1>6, Induction
  <2>2. Len(list) <= Len(list)
    BY <1>2
  <2> HIDE DEF Good
  <2> QED BY <2>1, <2>2
<1>8. DOMAIN kept[Len(list)] = 1..Len(kept[Len(list)])
  BY <1>7
<1>9. ToSet(kept[Len(list)]) = ToSet(list) \ garbage
  <2>1. ToSet(kept[Len(list)]) = {kept[Len(list)][i] : i \in 1..Len(kept[Len(list)])}
        /\ ToSet(list) = {list[j] : j \in 1..Len(list)}
    BY <1>2, <1>8 DEF ToSet
  <2>2. ASSUME NEW x PROVE x \in ToSet(kept[Len(list)]) <=> x \in ToSet(list) \ garbage
    <3>1. \A i \in 1..Len(kept[Len(list)]) : kept[Len(list)][i] \in ToSet(list) \ garbage
      BY <1>7, <2>1
    <3>2. \A j \in 1..Len(list) : list[j] \notin garbage => list[j] \in ToSet(kept[Len(list)])
      BY <1>7, <2>1
    <3> QED BY <2>1, <3>1, <3>2
  <2> QED BY <2>2
<1> QED
  BY <1>1, <1>7, <1>9

-----------------------------------------------------------------------------
(* The inductive invariant.                                                 *)

\* The record of a creator, as long as it uses it.
Uses(k, places) == phase[k] \in places

\* From thread_alloc to CreateThread a record is its creator's: no thread has it.
MakerInv ==
    /\ \A k \in Creator : Uses(k, {"fill", "create"}) =>
          mine[k].t \in heap /\ rec[mine[k].t].id = NoChild
    /\ \A k \in Creator : phase[k] # "idle" => mine[k].t \in Record /\ mine[k].main \in Mains
    /\ \A k \in Creator : phase[k] = "create" => rec[mine[k].t].main = mine[k].main
    /\ \A k, l \in Creator :
          Uses(k, {"fill", "create"}) /\ Uses(l, {"fill", "create"}) /\ mine[k].t = mine[l].t => k = l

\* From CreateThread to thread_info_detach it is the thread's, and tells so by its id.
ChildInv ==
    /\ \A c \in Child : state[c] \in {"start", "running"} =>
          param[c] \in heap /\ rec[param[c]].id = c /\ rec[param[c]].main = wanted[c]
    /\ \A r \in heap : rec[r].id # NoChild =>
          state[rec[r].id] \in {"start", "running"} /\ param[rec[r].id] = r

\* The record that creator k uses is its own: until CreateThread, after it where that
\* failed, and else until its thread ends.
Holds(k) == phase[k] # "idle" /\ ~Gone(k)

\* A thread is known by its id and its handle to the creator and in the list, but for
\* the records into which the handle of one that had ended was stored.
OwnInv ==
    /\ \A k \in Creator : Holds(k) => mine[k].t \in heap /\ rec[mine[k].t].id = got[k]
    /\ \A k, l \in Creator : Holds(k) /\ Holds(l) /\ mine[k].t = mine[l].t => k = l
    /\ \A k \in Creator : phase[k] = "return" /\ Holds(k) /\ mine[k].t \notin spoiled =>
          rec[mine[k].t].handle = got[k]
    /\ \A r \in heap \ spoiled : rec[r].handle \in {NoChild, rec[r].id}
    /\ \A k \in Creator \ late : out[k].id = out[k].handle
    /\ \A k \in Creator : out[k].handle # NoChild =>
          LET c == out[k].handle IN
          /\ state[c] # "none"
          /\ state[c] # "ended" /\ param[c] \notin spoiled => rec[param[c]].handle = c

GotInv == \A k \in Creator : got[k] # NoChild =>
    /\ phase[k] \in {"store", "return"} /\ state[got[k]] # "none"
    /\ \A l \in Creator : got[l] = got[k] => l = k

ListInv ==
    /\ ListTypeOK /\ ListSound /\ ChildReadsOwn /\ MakerInv /\ ChildInv /\ GotInv /\ OwnInv

\* What a record holds.
RecordType == [handle : Child \cup {NoChild}, id : Child \cup {NoChild}, main : Mains \cup {NoMain}]

\* A new record is nobody's.
LEMMA AllocInv ==
    ASSUME ListInv, NEW k \in Creator, ThreadAlloc(k)
    PROVE  ListInv'
<1> USE ThreadListAssumption DEF ListInv, ThreadAlloc, listVars, makerVars, childVars, pastVars
<1>1. ListTypeOK'
  BY DEF ListTypeOK, Mains, Empty, Unused, NoMain, Kinds
<1>2. ListSound'
  <2>1. PICK r \in Record \ heap : heap' = heap \cup {r} /\ threads' = <<r>> \o threads
    OBVIOUS
  <2>2. Injective(threads) /\ ToSet(threads) = heap /\ threads \in Seq(Record)
    BY DEF ListSound, Injective, ListTypeOK
  <2>3. Injective(threads') /\ ToSet(threads') = heap'
    BY <2>1, <2>2, LinkFacts
  <2> QED BY <2>3 DEF ListSound, Injective
<1>3. ChildReadsOwn'
  BY DEF ListTypeOK, ChildReadsOwn
<1>4. MakerInv'
  BY DEF ListTypeOK, MakerInv, ChildInv, Uses, Empty, Mains, Kinds
<1>5. ChildInv'
  BY DEF ListTypeOK, MakerInv, ChildInv, Uses, Empty
<1>6. GotInv'
  BY DEF ListTypeOK, GotInv
<1>7. OwnInv'
  BY DEF ListTypeOK, MakerInv, ChildInv, GotInv, OwnInv, Uses, Holds, Gone, Empty
<1> QED
  BY <1>1, <1>2, <1>3, <1>4, <1>5, <1>6, <1>7

\* A creator fills its own record.
LEMMA FillInv ==
    ASSUME ListInv, NEW k \in Creator, Fill(k)
    PROVE  ListInv'
<1> USE ThreadListAssumption DEF ListInv, Fill, listVars, makerVars, childVars, pastVars
<1>1. ListTypeOK'
  <2>1. mine[k].t \in Record /\ mine[k].main \in Mains /\ mine[k].main \in Mains \cup {NoMain}
    BY DEF MakerInv, ListTypeOK
  <2>2. rec' \in [Record -> RecordType]
    <3> DEFINE new == [rec[mine[k].t] EXCEPT !.main = mine[k].main]
    <3>1. rec \in [Record -> RecordType]
      BY DEF ListTypeOK, RecordType
    <3>2. new \in RecordType
      BY <2>1, <3>1 DEF RecordType
    <3>3. rec' = [rec EXCEPT ![mine[k].t] = new]
      OBVIOUS
    <3> HIDE DEF new
    <3> QED BY <2>1, <3>1, <3>2, <3>3
  <2> QED BY <2>1, <2>2 DEF ListTypeOK, RecordType
<1>2. ListSound'
  BY DEF ListTypeOK, ListSound
<1>3. ChildReadsOwn'
  BY DEF ListTypeOK, ChildReadsOwn
<1>4. MakerInv'
  BY DEF ListTypeOK, MakerInv, ChildInv, Uses, Empty, Mains, Kinds
<1>5. ChildInv'
  BY DEF ListTypeOK, MakerInv, ChildInv, Uses, Empty
<1>6. GotInv'
  BY DEF ListTypeOK, GotInv
<1>7. OwnInv'
  BY DEF ListTypeOK, MakerInv, ChildInv, GotInv, OwnInv, Uses, Holds, Gone, Empty
<1> QED
  BY <1>1, <1>2, <1>3, <1>4, <1>5, <1>6, <1>7

\* The record goes to the thread.
LEMMA CreateInv ==
    ASSUME ListInv, NEW k \in Creator, NEW c \in Child, Create(k, c)
    PROVE  ListInv'
<1> USE ThreadListAssumption DEF ListInv, Create, listVars, makerVars, childVars, pastVars
<1>1. ListTypeOK'
  <2>1. mine[k].t \in Record /\ mine[k].main \in Mains /\ c \in Child \cup {NoChild}
    BY DEF MakerInv, ListTypeOK
  <2>2. rec' \in [Record -> RecordType]
    <3> DEFINE new == [rec[mine[k].t] EXCEPT !.id = c]
    <3>1. rec \in [Record -> RecordType]
      BY DEF ListTypeOK, RecordType
    <3>2. new \in RecordType
      BY <2>1, <3>1 DEF RecordType
    <3>3. rec' = [rec EXCEPT ![mine[k].t] = new]
      OBVIOUS
    <3> HIDE DEF new
    <3> QED BY <2>1, <3>1, <3>2, <3>3
  <2> QED BY <2>1, <2>2 DEF ListTypeOK, RecordType
<1>2. ListSound'
  BY DEF ListTypeOK, ListSound
<1>3. ChildReadsOwn'
  BY DEF ListTypeOK, ChildReadsOwn
<1>4. MakerInv'
  BY DEF ListTypeOK, MakerInv, ChildInv, Uses, Empty, Mains, Kinds
<1>5. ChildInv'
  BY DEF ListTypeOK, MakerInv, ChildInv, Uses, Empty
<1>6. GotInv'
  BY DEF ListTypeOK, GotInv
<1>7. OwnInv'
  <2>1. got[k] = NoChild
    BY DEF GotInv
  <2>2. Holds(k) /\ mine[k].t \in heap /\ rec[mine[k].t].id = NoChild
    BY <2>1 DEF OwnInv, Holds, Gone
  <2>3. \A l \in Creator \ {k} : Holds(l)' => Holds(l) /\ mine[l].t # mine[k].t
    <3> SUFFICES ASSUME NEW l \in Creator \ {k}, Holds(l)' PROVE Holds(l) /\ mine[l].t # mine[k].t
      OBVIOUS
    <3>1. phase'[l] = phase[l] /\ got'[l] = got[l]
      BY DEF ListTypeOK
    <3>2. got[l] # NoChild => got[l] # c /\ state'[got[l]] = state[got[l]]
      BY DEF ListTypeOK, GotInv
    <3>3. Holds(l)
      BY <3>1, <3>2 DEF Holds, Gone
    <3> QED BY <2>2, <3>3 DEF OwnInv
  <2>4. rec'[mine[k].t].id = c /\ got'[k] = c /\ rec'[mine[k].t].handle = rec[mine[k].t].handle
    BY DEF ListTypeOK, MakerInv
  <2>5. \A r \in Record \ {mine[k].t} : rec'[r] = rec[r]
    BY DEF ListTypeOK
  <2>6. \A r \in heap' \ spoiled' : rec'[r].handle \in {NoChild, rec'[r].id}
    BY <2>2, <2>4, <2>5 DEF ListTypeOK, OwnInv
  <2> QED BY <2>2, <2>3, <2>4, <2>5, <2>6 DEF ListTypeOK, MakerInv, ChildInv, GotInv, OwnInv
<1> QED
  BY <1>1, <1>2, <1>3, <1>4, <1>5, <1>6, <1>7

\* There is no thread, the record stays.
LEMMA CreateFailsInv ==
    ASSUME ListInv, NEW k \in Creator, CreateFails(k)
    PROVE  ListInv'
<1> USE ThreadListAssumption DEF ListInv, CreateFails, listVars, makerVars, childVars, pastVars
<1>1. ListTypeOK'
  BY DEF ListTypeOK, Mains, Empty, Unused, NoMain, Kinds
<1>2. ListSound'
  BY DEF ListTypeOK, ListSound
<1>3. ChildReadsOwn'
  BY DEF ListTypeOK, ChildReadsOwn
<1>4. MakerInv'
  BY DEF ListTypeOK, MakerInv, ChildInv, Uses, Empty, Mains, Kinds
<1>5. ChildInv'
  BY DEF ListTypeOK, MakerInv, ChildInv, Uses, Empty
<1>6. GotInv'
  BY DEF ListTypeOK, GotInv
<1>7. OwnInv'
  BY DEF ListTypeOK, MakerInv, ChildInv, GotInv, OwnInv, Uses, Holds, Gone, Empty
<1> QED
  BY <1>1, <1>2, <1>3, <1>4, <1>5, <1>6, <1>7

\* The handle is stored, maybe in another's record: id and main are not touched.
LEMMA StoreInv ==
    ASSUME ListInv, NEW k \in Creator, StoreHandle(k)
    PROVE  ListInv'
<1> USE ThreadListAssumption DEF ListInv, StoreHandle, listVars, makerVars, childVars, pastVars
<1>1. ListTypeOK'
  <2>1. mine[k].t \in Record /\ mine[k].main \in Mains /\ got[k] \in Child \cup {NoChild}
    BY DEF MakerInv, ListTypeOK
  <2>2. rec' \in [Record -> RecordType]
    <3> DEFINE new == [rec[mine[k].t] EXCEPT !.handle = got[k]]
    <3>1. rec \in [Record -> RecordType]
      BY DEF ListTypeOK, RecordType
    <3>2. new \in RecordType
      BY <2>1, <3>1 DEF RecordType
    <3>3. rec' = [rec EXCEPT ![mine[k].t] = new]
      OBVIOUS
    <3> HIDE DEF new
    <3> QED BY <2>1, <3>1, <3>2, <3>3
  <2> QED BY <2>1, <2>2 DEF ListTypeOK, RecordType
<1>2. ListSound'
  BY DEF ListTypeOK, ListSound
<1>3. ChildReadsOwn'
  BY DEF ListTypeOK, ChildReadsOwn
<1>4. MakerInv'
  BY DEF ListTypeOK, MakerInv, ChildInv, Uses, Empty, Mains, Kinds
<1>5. ChildInv'
  BY DEF ListTypeOK, MakerInv, ChildInv, Uses, Empty
<1>6. GotInv'
  BY DEF ListTypeOK, GotInv
<1>7. OwnInv'
  BY DEF ListTypeOK, MakerInv, ChildInv, GotInv, OwnInv, Uses, Holds, Gone, Empty
<1> QED
  BY <1>1, <1>2, <1>3, <1>4, <1>5, <1>6, <1>7

\* The caller has the handle and the id.
LEMMA ReturnInv ==
    ASSUME ListInv, NEW k \in Creator, ReturnStd(k) \/ ReturnBt(k) \/ ReturnBtx(k)
    PROVE  ListInv'
<1> USE ThreadListAssumption DEF ListInv, ReturnStd, ReturnBt, ReturnBtx, Return, ReadId, listVars, makerVars, childVars, pastVars
<1>1. ListTypeOK'
  <2>1. \E id \in Child \cup {NoChild} : out' = [out EXCEPT ![k] = [handle |-> got[k], id |-> id]]
    <3>1. got[k] \in Child \cup {NoChild} /\ mine[k].t \in Record
      BY DEF ListTypeOK, MakerInv
    <3>2. rec[mine[k].t].id \in Child \cup {NoChild}
      BY <3>1 DEF ListTypeOK
    <3> QED BY <3>1, <3>2
  <2>2. out' \in [Creator -> [handle : Child \cup {NoChild}, id : Child \cup {NoChild}]]
    BY <2>1 DEF ListTypeOK
  <2>3. mine' \in [Creator -> [t : Record, main : Mains] \cup {Unused}]
    BY DEF ListTypeOK
  <2> QED BY <2>2, <2>3 DEF ListTypeOK
<1>2. ListSound'
  BY DEF ListTypeOK, ListSound
<1>3. ChildReadsOwn'
  BY DEF ListTypeOK, ChildReadsOwn
<1>4. MakerInv'
  <2>1. /\ phase' = [phase EXCEPT ![k] = "idle"] /\ mine' = [mine EXCEPT ![k] = Unused]
        /\ UNCHANGED <<heap, rec>>
    OBVIOUS
  <2> QED BY <2>1 DEF ListTypeOK, MakerInv, Uses
<1>5. ChildInv'
  BY DEF ListTypeOK, MakerInv, ChildInv, Uses, Empty
<1>6. GotInv'
  BY DEF ListTypeOK, GotInv
<1>7. OwnInv'
  <2>1. PICK id : /\ phase[k] = "return" /\ out' = [out EXCEPT ![k] = [handle |-> got[k], id |-> id]]
                  /\ ~Gone(k) => id = got[k]
    <3>1. Holds(k) \/ Gone(k)
      BY DEF Holds
    <3> QED BY <3>1 DEF OwnInv, Holds
  <2>2. /\ phase' = [phase EXCEPT ![k] = "idle"] /\ mine' = [mine EXCEPT ![k] = Unused]
        /\ got' = [got EXCEPT ![k] = NoChild] /\ UNCHANGED <<heap, rec, state, param, spoiled>>
        /\ late' = IF Gone(k) THEN late \cup {k} ELSE late \ {k}
    OBVIOUS
  <2>3. \A l \in Creator : Holds(l)' => Holds(l) /\ l # k /\ mine'[l] = mine[l] /\ got'[l] = got[l]
                                        /\ phase'[l] = phase[l]
    BY <2>2 DEF Holds, Gone, ListTypeOK
  <2>4. \A l \in Creator \ late' : out'[l].id = out'[l].handle
    BY <2>1, <2>2 DEF OwnInv, ListTypeOK
  <2>5. ASSUME NEW l \in Creator, out'[l].handle # NoChild
        PROVE  LET c == out'[l].handle IN
               /\ state[c] # "none"
               /\ state[c] # "ended" /\ param[c] \notin spoiled => rec[param[c]].handle = c
    <3>1. CASE l = k
      <4>1. out'[l].handle = got[k] /\ got[k] \in Child /\ state[got[k]] # "none"
        BY <2>1, <2>5, <3>1 DEF ListTypeOK, GotInv
      <4>2. state[got[k]] # "ended" => Holds(k) /\ param[got[k]] = mine[k].t
        BY <2>1, <4>1 DEF Holds, Gone, OwnInv, ChildInv
      <4> QED BY <2>1, <4>1, <4>2 DEF OwnInv
    <3>2. CASE l # k
      BY <2>1, <2>5, <3>2 DEF OwnInv, ListTypeOK
    <3> QED BY <3>1, <3>2
  <2> QED BY <2>2, <2>3, <2>4, <2>5 DEF OwnInv
<1> QED
  BY <1>1, <1>2, <1>3, <1>4, <1>5, <1>6, <1>7

\* The thread reads its record.
LEMMA MainInv ==
    ASSUME ListInv, NEW c \in Child, WinthreadMain(c)
    PROVE  ListInv'
<1> USE ThreadListAssumption DEF ListInv, WinthreadMain, listVars, makerVars, childVars, pastVars
<1>1. ListTypeOK'
  BY DEF ListTypeOK, Mains, Empty, Unused, NoMain, Kinds
<1>2. ListSound'
  BY DEF ListTypeOK, ListSound
<1>3. ChildReadsOwn'
  BY DEF ListTypeOK, ChildReadsOwn, ChildInv
<1>4. MakerInv'
  BY DEF ListTypeOK, MakerInv, ChildInv, Uses, Empty, Mains, Kinds
<1>5. ChildInv'
  BY DEF ListTypeOK, MakerInv, ChildInv, Uses, Empty
<1>6. GotInv'
  BY DEF ListTypeOK, GotInv
<1>7. OwnInv'
  BY DEF ListTypeOK, MakerInv, ChildInv, GotInv, OwnInv, Uses, Holds, Gone, Empty
<1> QED
  BY <1>1, <1>2, <1>3, <1>4, <1>5, <1>6, <1>7

\* An id is used again when nothing refers to it.
LEMMA ReuseInv ==
    ASSUME ListInv, NEW c \in Child, Reuse(c)
    PROVE  ListInv'
<1> USE ThreadListAssumption DEF ListInv, Reuse, listVars, makerVars, childVars, pastVars
<1>1. ListTypeOK'
  BY DEF ListTypeOK, Mains, Empty, Unused, NoMain, Kinds
<1>2. ListSound'
  BY DEF ListTypeOK, ListSound
<1>3. ChildReadsOwn'
  BY DEF ListTypeOK, ChildReadsOwn
<1>4. MakerInv'
  BY DEF ListTypeOK, MakerInv, ChildInv, Uses, Empty, Mains, Kinds
<1>5. ChildInv'
  BY DEF ListTypeOK, MakerInv, ChildInv, Uses, Empty
<1>6. GotInv'
  BY DEF ListTypeOK, GotInv
<1>7. OwnInv'
  BY DEF ListTypeOK, MakerInv, ChildInv, GotInv, OwnInv, Uses, Holds, Gone, Empty
<1> QED
  BY <1>1, <1>2, <1>3, <1>4, <1>5, <1>6, <1>7

\* The end of a thread takes its record from the list and the heap, and no other.
LEMMA DetachInv ==
    ASSUME ListInv, NEW c \in Child, ThreadInfoDetach(c)
    PROVE  ListInv'
<1> USE ThreadListAssumption DEF ListInv
<1> DEFINE garbage == {r \in ToSet(threads) : IsOf(r, c)}
<1>1. /\ state[c] = "running" /\ Exit(c)
      /\ threads' = Unlink(threads, garbage) /\ heap' = heap \ garbage
      /\ UNCHANGED <<rec, phase, mine, got, out, late, spoiled>>
  BY DEF ThreadInfoDetach, makerVars, pastVars
<1>2. garbage = {param[c]} /\ param[c] \in Record
  BY <1>1 DEF ListSound, ListTypeOK, ChildInv, IsOf
<1> HIDE DEF garbage
<1>3. /\ state' = [state EXCEPT ![c] = "ended"] /\ param' = [param EXCEPT ![c] = NoRecord]
      /\ entered' = [entered EXCEPT ![c] = NoMain] /\ wanted' = [wanted EXCEPT ![c] = NoMain]
      /\ heap' = heap \ {param[c]}
  BY <1>1, <1>2 DEF Exit
<1>4. threads' \in Seq(Record) /\ ListSound'
  <2>1. Injective(threads) /\ ToSet(threads) = heap /\ threads \in Seq(Record)
    BY DEF ListSound, Injective, ListTypeOK
  <2>2. threads' \in Seq(Record) /\ Injective(threads') /\ ToSet(threads') = heap'
    BY <1>1, <2>1, UnlinkFacts
  <2> QED BY <2>2 DEF ListSound, Injective
<1>5. ListTypeOK'
  BY <1>1, <1>3, <1>4 DEF ListTypeOK
<1>6. ChildReadsOwn'
  BY <1>3 DEF ListTypeOK, ChildReadsOwn
<1>7. rec[param[c]].id = c /\ param[c] \in heap
  BY <1>1 DEF ChildInv
<1>8. MakerInv'
  BY <1>1, <1>3, <1>7 DEF ListTypeOK, MakerInv, Uses
<1>9. ChildInv'
  BY <1>1, <1>3, <1>7 DEF ListTypeOK, ChildInv
<1>10. GotInv'
  BY <1>1, <1>3 DEF ListTypeOK, GotInv
<1>11. OwnInv'
  <2>1. \A k \in Creator : Holds(k)' => Holds(k) /\ got[k] # c
    BY <1>1, <1>3 DEF Holds, Gone, ListTypeOK
  <2>2. \A k \in Creator : Holds(k)' => mine[k].t # param[c]
    BY <1>7, <2>1 DEF OwnInv
  <2> QED BY <1>1, <1>3, <1>7, <2>1, <2>2 DEF OwnInv, ListTypeOK, ChildInv
<1> QED
  BY <1>4, <1>5, <1>6, <1>8, <1>9, <1>10, <1>11

LEMMA InitInv == ListInit => ListInv
<1> SUFFICES ASSUME ListInit PROVE ListInv
  OBVIOUS
<1>1. threads \in Seq(Record) /\ ToSet(threads) = {} /\ Len(threads) = 0
  BY DEF ListInit, ToSet
<1>2. ListTypeOK
  BY <1>1 DEF ListInit, ListTypeOK, Empty, Unused, NoMain, Mains
<1>3. ListSound
  BY <1>1 DEF ListInit, ListSound
<1> QED
  BY <1>2, <1>3, ThreadListAssumption
     DEF ListInv, ListInit, ChildReadsOwn, MakerInv, ChildInv, GotInv, OwnInv, Uses, Holds, Gone, Empty

LEMMA Inductive == ListSpec => []ListInv
<1>1. ListInv /\ [ListNext]_tlVars => ListInv'
  <2> SUFFICES ASSUME ListInv, [ListNext]_tlVars PROVE ListInv'
    OBVIOUS
  <2>1. CASE UNCHANGED tlVars
    BY <2>1 DEF tlVars, listVars, makerVars, childVars, pastVars, ListInv, ListTypeOK, ListSound,
                ChildReadsOwn, MakerInv, ChildInv, GotInv, OwnInv, Uses, Holds, Gone
  <2>2. CASE ListNext
    BY <2>2, AllocInv, FillInv, CreateInv, CreateFailsInv, StoreInv, ReturnInv, MainInv,
       DetachInv, ReuseInv DEF ListNext
  <2> QED BY <2>1, <2>2
<1> QED
  BY <1>1, InitInv, PTL DEF ListSpec

-----------------------------------------------------------------------------
(* The theorems.                                                            *)

\* Every variable has its type.
THEOREM ListTypeCorrect == ListSpec => []ListTypeOK
<1>1. ListInv => ListTypeOK
  BY DEF ListInv
<1> QED
  BY <1>1, Inductive, PTL

\* For any creators, threads and heap, whatever overlaps: the list links each allocated
\* record once and none that is free, and smp9x_winthread_main finds its record in it
\* as its creator filled it.
THEOREM RecordsCorrect == ListSpec => []RecordsSound
<1>1. ListInv => RecordsSound
  BY DEF ListInv, RecordsSound
<1> QED
  BY <1>1, Inductive, PTL

\* For any creators, threads and heap, whatever overlaps or fails: a call returns the id
\* of the thread whose handle it returns, unless that has ended; and GetThreadId finds the
\* id by the handle as long as the thread lives, while no record in the list has the
\* handle of a thread that had ended when its creator came back to the record.
THEOREM IdsCorrect == ListSpec => []IdsAreOwn
<1>1. ListInv => IdsAreOwn
  <2> SUFFICES ASSUME ListInv PROVE IdsAreOwn
    OBVIOUS
  <2> USE ThreadListAssumption DEF ListInv, OwnInv
  <2>1. ASSUME spoiled \cap heap = {}, NEW c \in Child, state[c] # "none",
               state[c] # "ended" => rec[param[c]].handle = c
        PROVE  GetThreadId(c) = IF state[c] = "ended" THEN NoChild ELSE c
    <3> DEFINE Places == {i \in 1..Len(threads) : rec[threads[i]].handle = c}
    <3>0. \A i \in 1..Len(threads) : threads[i] \in heap
      BY DEF ListSound, ToSet, ListTypeOK
    <3>1. \A i \in Places : state[c] \in {"start", "running"} /\ threads[i] = param[c] /\ rec[threads[i]].id = c
      <4>1. \A i \in Places : threads[i] \in heap \ spoiled /\ rec[threads[i]].handle = c
        BY <2>1, <3>0
      <4>2. \A i \in Places : rec[threads[i]].id = c
        BY <4>1
      <4> QED BY <4>1, <4>2 DEF ChildInv
    <3>2. CASE state[c] = "ended"
      <4>1. Places = {}
        BY <3>1, <3>2
      <4> QED BY <3>2, <4>1 DEF GetThreadId
    <3>3. CASE state[c] # "ended"
      <4>1. state[c] \in {"start", "running"}
        BY <2>1, <3>3 DEF ListTypeOK
      <4>2. param[c] \in ToSet(threads) /\ rec[param[c]].handle = c
        BY <2>1, <3>3, <4>1 DEF ChildInv, ListSound
      <4>3. PICK i \in 1..Len(threads) : threads[i] = param[c]
        BY <4>2 DEF ToSet, ListTypeOK
      <4>4. i \in Places
        BY <4>2, <4>3
      <4>5. \A j \in Places : j = i
        BY <3>1, <4>3 DEF ListSound
      <4>6. (CHOOSE x \in Places : \A j \in Places : x <= j) = i
        <5> HIDE DEF Places
        <5>1. i <= i
          BY <4>3
        <5>2. \E x \in Places : \A j \in Places : x <= j
          BY <4>4, <4>5, <5>1
        <5> QED BY <4>5, <5>2
      <4>7. GetThreadId(c) = rec[threads[i]].id
        BY <4>4, <4>6 DEF GetThreadId
      <4> QED BY <3>1, <3>3, <4>4, <4>7
    <3> QED BY <3>2, <3>3
  <2>2. \A k \in Creator : out[k].handle \in Child \cup {NoChild}
    BY DEF ListTypeOK
  <2>3. ASSUME spoiled \cap heap = {}, NEW k \in Creator, out[k].handle # NoChild
        PROVE  GetThreadId(out[k].handle) = IF state[out[k].handle] = "ended" THEN NoChild ELSE out[k].handle
    <3>1. PICK c \in Child : c = out[k].handle
      BY <2>2, <2>3
    <3>2. state[c] # "none" /\ (state[c] # "ended" => rec[param[c]].handle = c)
      <4>1. state[c] # "none" /\ (state[c] # "ended" /\ param[c] \notin spoiled => rec[param[c]].handle = c)
        BY <2>3, <3>1
      <4>2. state[c] \notin {"none", "ended"} => param[c] \in heap
        BY DEF ChildInv, ListTypeOK
      <4> QED BY <2>3, <4>1, <4>2
    <3> QED BY <2>1, <2>3, <3>1, <3>2
  <2> QED BY <2>3 DEF IdsAreOwn
<1> QED
  BY <1>1, Inductive, PTL

-----------------------------------------------------------------------------
(* The three parts together.                                                        *)

\* A behaviour of the library is a behaviour of each of its parts.
LEMMA PartsOfLibsmp == LibsmpSpec => CritSpec /\ ListSpec /\ GenSpec
<1>1. PartInit => CritInit /\ ListInit /\ GenInit
  BY DEF PartInit
<1>2. [ \/ CritNext /\ ListInit /\ GenInit /\ UNCHANGED <<tlVars, genVars>>
        \/ ListNext /\ CritRests /\ GenInit /\ UNCHANGED <<csVars, genVars>>
        \/ GenNext /\ LongListsNamed /\ CritRests /\ ListInit /\ UNCHANGED <<csVars, tlVars>>
      ]_<<csVars, tlVars, genVars>> => [CritNext]_csVars /\ [ListNext]_tlVars /\ [GenNext]_genVars
  OBVIOUS
<1> QED
  BY <1>1, <1>2, PTL DEF LibsmpSpec, CritSpec, ListSpec, GenSpec

\* All three parts have their types, as long as the threads that try to enter fly by
\* themselves.
THEOREM LibsmpTypeCorrect == ManualTries => (LibsmpSpec => []LibsmpTypeOK)
<1>1. CritInv => CritTypeOK
  BY DEF CritInv
<1>2. CritTypeOK /\ ListTypeOK /\ GenTypeOK => LibsmpTypeOK
  BY DEF LibsmpTypeOK
<1> QED
  BY <1>1, <1>2, PartsOfLibsmp, CritInductive, ListTypeCorrect, GenTypeCorrect, PTL

=============================================================================
