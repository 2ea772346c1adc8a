------------------------------ MODULE CritSect ------------------------------
(***************************************************************************)
(* A critical section of Windows 98 and the TryEnterCriticalSection that   *)
(* libsmp adds to it (libsmp/tryentercriticalsection.c).                   *)
(*                                                                         *)
(* EnterCriticalSection and LeaveCriticalSection are those of kernel32,    *)
(* which an AP cannot execute: a call sends the thread back to the BSP.    *)
(* TryEnterCrst is code of the program: it executes wherever the thread is *)
(* and changes the lock count with a cmpxchg that has no lock prefix.      *)
(***************************************************************************)
EXTENDS Integers

CONSTANTS
    Thread,
    NoThread,
    Tries,    \* threads that call TryEnterCriticalSection
    Autorun,  \* threads the driver moves to an AP at a thread switch; the others call fly()
    MaxDepth  \* bound: how often a thread enters without leaving

ASSUME CritSectAssumption ==
    /\ NoThread \notin Thread /\ Tries \subseteq Thread /\ Autorun \subseteq Thread
    /\ MaxDepth \in Nat \ {0}

VARIABLES
    known,     \* Windows 98 or Me: TryEnterCrst knows where the TDBX is
    ready,     \* Type = K32OBJ_CRITICAL_SECTION
    lockCount, \* CRIT_SECT.LockCount; 1 is free
    recursion, \* CRIT_SECT.RecursionCount
    owner,     \* CRIT_SECT.OwningThread
    at,        \* the processor a thread executes on: the BSP or any AP
    pc,        \* where a thread is in TryEnterCriticalSectionNative
    eax,       \* its register eax
    depth      \* history: how often it entered, as the program counts

sectVars == <<lockCount, recursion, owner>>
csVars   == <<known, ready, sectVars, at, pc, eax, depth>>

CritInit ==
    /\ known \in BOOLEAN /\ ready \in BOOLEAN
    /\ lockCount = 1 /\ recursion = 0 /\ owner = NoThread
    /\ at = [t \in Thread |-> "bsp"]
    /\ pc = [t \in Thread |-> "user"]
    /\ eax = [t \in Thread |-> 0]
    /\ depth = [t \in Thread |-> 0]

\* The BSP switches threads between instructions only: none is in a cmpxchg when
\* another executes.
BspIsFor(t) == \A u \in Thread \ {t} : ~(at[u] = "bsp" /\ pc[u] = "store")
Executes(t) == at[t] = "bsp" => BspIsFor(t)

\* A call of kernel32, or an access to FS: on an AP it traps, the thread goes on on
\* the BSP.
OnBsp(t) == BspIsFor(t) /\ at' = [at EXCEPT ![t] = "bsp"]

Goto(t, label) == pc' = [pc EXCEPT ![t] = label]

-----------------------------------------------------------------------------
(* kernel32.                                                               *)

\* What it does to a section that is free or the caller's own; else it waits.
Enter(t) ==
    /\ lockCount = 1 \/ owner = t
    /\ lockCount' = lockCount - 1 /\ recursion' = recursion + 1 /\ owner' = t
    /\ depth' = [depth EXCEPT ![t] = @ + 1]

EnterCriticalSection(t) ==
    /\ pc[t] = "user" /\ ready /\ depth[t] < MaxDepth
    /\ OnBsp(t) /\ Enter(t)
    /\ UNCHANGED <<known, ready, pc, eax>>

LeaveCriticalSection(t) ==
    /\ pc[t] = "user" /\ depth[t] > 0
    /\ OnBsp(t)
    /\ lockCount' = lockCount + 1 /\ recursion' = recursion - 1
    /\ owner' = IF recursion' = 0 THEN NoThread ELSE owner
    /\ depth' = [depth EXCEPT ![t] = @ - 1]
    /\ UNCHANGED <<known, ready, pc, eax>>

-----------------------------------------------------------------------------
(* TryEnterCriticalSectionNative.                                          *)

\* GetVersion brings the thread to the BSP.  On Windows 95 the call is one of
\* EnterCriticalSection.  A program that does not initialise the section makes its
\* first call of it before any other thread calls.
TryCall(t) ==
    /\ t \in Tries /\ pc[t] = "user" /\ depth[t] < MaxDepth
    /\ ready \/ \A u \in Thread : pc[u] = "user"
    /\ known \/ ready
    /\ OnBsp(t)
    /\ Goto(t, IF ~known THEN "enter" ELSE IF ~ready THEN "init" ELSE "version")
    /\ UNCHANGED <<known, ready, sectVars, eax, depth>>

\* The section has no Type yet: InitializeCriticalSection.
TryInit(t) ==
    /\ pc[t] = "init" /\ OnBsp(t)
    /\ ready' = TRUE
    /\ lockCount' = 1 /\ recursion' = 0 /\ owner' = NoThread
    /\ Goto(t, "version")
    /\ UNCHANGED <<known, eax, depth>>

\* init_tryentercritsec: another GetVersion.
TryVersion(t) ==
    /\ pc[t] = "version" /\ OnBsp(t)
    /\ Goto(t, "cas")
    /\ UNCHANGED <<known, ready, sectVars, eax, depth>>

TryEnter95(t) ==
    /\ pc[t] = "enter" /\ OnBsp(t) /\ Enter(t)
    /\ Goto(t, "user")
    /\ UNCHANGED <<known, ready, eax>>

\* cmpxchg reads the count, and writes it in any case.
CasLoad(t) ==
    /\ pc[t] = "cas" /\ Executes(t)
    /\ eax' = [eax EXCEPT ![t] = lockCount]
    /\ Goto(t, "store")
    /\ UNCHANGED <<known, ready, sectVars, at, depth>>

CasStore(t) ==
    /\ pc[t] = "store" /\ Executes(t)
    /\ lockCount' = IF eax[t] = 1 THEN 0 ELSE eax[t]
    /\ Goto(t, "tdbx")
    /\ UNCHANGED <<known, ready, recursion, owner, at, eax, depth>>

\* FS is not that of the thread on an AP.
ReadTdbx(t) ==
    /\ pc[t] = "tdbx" /\ OnBsp(t)
    /\ Goto(t, IF eax[t] = 1 THEN "take" ELSE "check")
    /\ UNCHANGED <<known, ready, sectVars, eax, depth>>

\* Mutant of Take: RecursionCount stays.
TakeUncounted(t) ==
    /\ pc[t] = "take" /\ Executes(t)
    /\ owner' = t
    /\ depth' = [depth EXCEPT ![t] = @ + 1]
    /\ Goto(t, "user")
    /\ UNCHANGED <<known, ready, lockCount, recursion, at, eax>>

Take(t) ==
    /\ pc[t] = "take" /\ Executes(t)
    /\ owner' = t /\ recursion' = recursion + 1
    /\ depth' = [depth EXCEPT ![t] = @ + 1]
    /\ Goto(t, "user")
    /\ UNCHANGED <<known, ready, lockCount, at, eax>>

\* Mutant of CheckOwner: it takes a section that has no owner.
CheckOwnerNone(t) ==
    /\ pc[t] = "check" /\ Executes(t)
    /\ IF owner \in {t, NoThread}
       THEN /\ lockCount' = lockCount - 1 /\ recursion' = recursion + 1
            /\ depth' = [depth EXCEPT ![t] = @ + 1]
       ELSE UNCHANGED <<lockCount, recursion, depth>>
    /\ Goto(t, "user")
    /\ UNCHANGED <<known, ready, owner, at, eax>>

\* Mutant of CheckOwner: the count is not decremented.
CheckOwnerKeeps(t) ==
    /\ pc[t] = "check" /\ Executes(t)
    /\ IF owner = t
       THEN /\ recursion' = recursion + 1
            /\ depth' = [depth EXCEPT ![t] = @ + 1]
       ELSE UNCHANGED <<recursion, depth>>
    /\ Goto(t, "user")
    /\ UNCHANGED <<known, ready, lockCount, owner, at, eax>>

CheckOwner(t) ==
    /\ pc[t] = "check" /\ Executes(t)
    /\ IF owner = t
       THEN /\ lockCount' = lockCount - 1 /\ recursion' = recursion + 1
            /\ depth' = [depth EXCEPT ![t] = @ + 1]
       ELSE UNCHANGED <<lockCount, recursion, depth>>
    /\ Goto(t, "user")
    /\ UNCHANGED <<known, ready, owner, at, eax>>

-----------------------------------------------------------------------------
(* Moving between the processors, between two instructions.                *)

Move(t, from, to) ==
    /\ at[t] = from /\ pc[t] # "store" /\ Executes(t)
    /\ at' = [at EXCEPT ![t] = to]
    /\ UNCHANGED <<known, ready, sectVars, pc, eax, depth>>

CsFly(t)     == pc[t] = "user" /\ Move(t, "bsp", "ap")
CsAutorun(t) == t \in Autorun /\ Move(t, "bsp", "ap")
CsBack(t)    == Move(t, "ap", "bsp")

CritNext == \E t \in Thread :
    \/ EnterCriticalSection(t) \/ LeaveCriticalSection(t)
    \/ TryCall(t) \/ TryInit(t) \/ TryVersion(t) \/ TryEnter95(t)
    \/ CasLoad(t) \/ CasStore(t) \/ ReadTdbx(t) \/ Take(t) \/ CheckOwner(t)
    \/ CsFly(t) \/ CsAutorun(t) \/ CsBack(t)

CritSpec == CritInit /\ [][CritNext]_csVars

-----------------------------------------------------------------------------
(* Properties.                                                             *)

CritTypeOK ==
    /\ known \in BOOLEAN /\ ready \in BOOLEAN
    /\ lockCount \in Int /\ recursion \in Nat /\ owner \in Thread \cup {NoThread}
    /\ at \in [Thread -> {"bsp", "ap"}]
    /\ pc \in [Thread -> {"user", "enter", "init", "version", "cas", "store", "tdbx", "take", "check"}]
    /\ eax \in [Thread -> Int]
    /\ depth \in [Thread -> 0..MaxDepth]

\* One thread is in the section: TryEnterCrst returns TRUE to no second one, whoever
\* is preempted between its cmpxchg and the owner it stores.
MutualExclusion == \A t, u \in Thread : depth[t] > 0 /\ depth[u] > 0 => t = u

\* TryEnterCrst keeps the three fields as kernel32 does, so that either's calls undo
\* the other's.
Taking(t) == pc[t] \in {"tdbx", "take"} /\ eax[t] = 1
FieldsAgree ==
    /\ (\A t \in Thread : depth[t] = 0 /\ ~Taking(t)) => lockCount = 1
    /\ \A t \in Thread : Taking(t) => lockCount = 0
    /\ \A t \in Thread : depth[t] > 0 =>
          owner = t /\ recursion = depth[t] /\ lockCount = 1 - depth[t]
    /\ (\A t \in Thread : depth[t] = 0) => owner = NoThread /\ recursion = 0

\* All of it, TryEnterCrst included, is the reentrant mutex of Mutex.
AbstractMutex   == INSTANCE Mutex
ImplementsMutex == AbstractMutex!MutexSpec

=============================================================================
