----------------------------- MODULE ThreadList -----------------------------
(***************************************************************************)
(* The records smp9x keeps of the threads it creates (smp9x.c).            *)
(*                                                                         *)
(* A creator allocates a record, links it, gives it to the new thread and  *)
(* writes the handle into it; the thread reads its start address from it   *)
(* and, when it ends, unlinks and frees it, maybe before its creator has   *)
(* come back from CreateThread.  The list itself is changed in the         *)
(* critical section cs only, so that each change is one step.              *)
(***************************************************************************)
EXTENDS Naturals, Sequences, SequencesExt

CONSTANTS
    Creator,  \* threads of the program that create others
    Child,    \* thread ids; the handle of a thread is told by its id
    NoChild,  \* NULL
    Record,   \* pieces of the heap
    NoRecord

ASSUME ThreadListAssumption == NoChild \notin Child /\ NoRecord \notin Record

VARIABLES
    threads,  \* the list from the newest record on, by the prev pointers
    heap,     \* the records allocated
    rec,      \* their contents
    phase,    \* where a creator is
    mine,     \* its variable t, what it starts and by which call
    got,      \* what CreateThread returned to it
    out,      \* what its last call returned: handle, and thread id where it wants it
    state,    \* the threads
    param,    \* lpParameter of smp9x_winthread_main
    entered,  \* what a thread executes
    wanted,   \* history: what it was created for
    late,     \* history: creators whose last call returned when their thread had ended
    spoiled   \* history: records into which a handle was stored after its thread had ended

listVars  == <<threads, heap, rec>>
makerVars == <<phase, mine, got, out>>
childVars == <<state, param, entered, wanted>>
pastVars  == <<late, spoiled>>
tlVars    == <<listVars, makerVars, childVars, pastVars>>

Kinds  == {"TT_STD", "TT_BT", "TT_BTX"}
\* What a creator wants executed, with tmain_type.
Mains  == [by : Creator, kind : Kinds]
NoMain == [by |-> NoRecord, kind |-> NoRecord]
Unused == [t |-> NoRecord, main |-> NoMain]
Empty  == [handle |-> NoChild, id |-> NoChild, main |-> NoMain]    \* memset

ListInit ==
    /\ threads = <<>> /\ heap = {} /\ rec = [r \in Record |-> Empty]
    /\ phase = [k \in Creator |-> "idle"]
    /\ mine = [k \in Creator |-> Unused]
    /\ got = [k \in Creator |-> NoChild]
    /\ out = [k \in Creator |-> [handle |-> NoChild, id |-> NoChild]]
    /\ state = [c \in Child |-> "none"]
    /\ param = [c \in Child |-> NoRecord]
    /\ entered = [c \in Child |-> NoMain]
    /\ wanted = [c \in Child |-> NoMain]
    /\ late = {} /\ spoiled = {}

-----------------------------------------------------------------------------
(* CreateThread, _beginthread and _beginthreadex.                          *)

\* Mutant of ThreadAlloc: no memset.
ThreadAllocDirty(k) ==
    /\ phase[k] = "idle"
    /\ \E r \in Record \ heap, kind \in Kinds :
          /\ heap' = heap \cup {r}
          /\ threads' = <<r>> \o threads
          /\ mine' = [mine EXCEPT ![k] = [t |-> r, main |-> [by |-> k, kind |-> kind]]]
          /\ spoiled' = spoiled \ {r}
    /\ phase' = [phase EXCEPT ![k] = "fill"]
    /\ UNCHANGED <<rec, got, out, childVars, late>>

\* thread_alloc.  (Where HeapAlloc returns NULL, memset ends the program: a behaviour
\* that stops here.  What precedes the critical section touches only the creator's own
\* piece of the heap.)
ThreadAlloc(k) ==
    /\ phase[k] = "idle"
    /\ \E r \in Record \ heap, kind \in Kinds :
          /\ heap' = heap \cup {r}
          /\ rec' = [rec EXCEPT ![r] = Empty]
          /\ threads' = <<r>> \o threads
          /\ mine' = [mine EXCEPT ![k] = [t |-> r, main |-> [by |-> k, kind |-> kind]]]
          /\ spoiled' = spoiled \ {r}
    /\ phase' = [phase EXCEPT ![k] = "fill"]
    /\ UNCHANGED <<got, out, childVars, late>>

Fill(k) ==
    /\ phase[k] = "fill"
    /\ rec' = [rec EXCEPT ![mine[k].t].main = mine[k].main]
    /\ phase' = [phase EXCEPT ![k] = "create"]
    /\ UNCHANGED <<threads, heap, mine, got, out, childVars, pastVars>>

\* kernel32: the thread exists, its id is stored where the caller asked for it, and it
\* may run before the call returns.
Create(k, c) ==
    /\ phase[k] = "create" /\ state[c] = "none"
    /\ state' = [state EXCEPT ![c] = "start"]
    /\ param' = [param EXCEPT ![c] = mine[k].t]
    /\ wanted' = [wanted EXCEPT ![c] = mine[k].main]
    /\ rec' = [rec EXCEPT ![mine[k].t].id = c]
    /\ got' = [got EXCEPT ![k] = c]
    /\ phase' = [phase EXCEPT ![k] = "store"]
    /\ UNCHANGED <<threads, heap, mine, out, entered, pastVars>>

CreateFails(k) ==
    /\ phase[k] = "create"
    /\ got' = [got EXCEPT ![k] = NoChild]
    /\ phase' = [phase EXCEPT ![k] = "store"]
    /\ UNCHANGED <<listVars, mine, out, childVars, pastVars>>

\* The thread that the call created has ended.
Gone(k) == got[k] # NoChild /\ state[got[k]] = "ended"

\* t->threadHandle = ..., also when the record is another's by now, or free.
StoreHandle(k) ==
    /\ phase[k] = "store"
    /\ rec' = [rec EXCEPT ![mine[k].t].handle = got[k]]
    /\ spoiled' = IF Gone(k) THEN spoiled \cup {mine[k].t} ELSE spoiled \ {mine[k].t}
    /\ phase' = [phase EXCEPT ![k] = "return"]
    /\ UNCHANGED <<threads, heap, mine, got, out, childVars, late>>

\* What reading t->threadId gives; free memory holds whatever the heap put there.
ReadId(r) == IF r \in heap THEN {rec[r].id} ELSE Child \cup {NoChild}

Return(k, kind, ids) ==
    /\ phase[k] = "return" /\ mine[k].main.kind = kind
    /\ \E id \in ids : out' = [out EXCEPT ![k] = [handle |-> got[k], id |-> id]]
    /\ phase' = [phase EXCEPT ![k] = "idle"]
    /\ mine' = [mine EXCEPT ![k] = Unused] /\ got' = [got EXCEPT ![k] = NoChild]
    /\ late' = IF Gone(k) THEN late \cup {k} ELSE late \ {k}
    /\ UNCHANGED <<listVars, childVars, spoiled>>

\* The id is handed on when there is a thread.
ReturnStd(k) == Return(k, "TT_STD", IF got[k] = NoChild THEN {NoChild} ELSE ReadId(mine[k].t))

\* _beginthread has no id to hand on.
ReturnBt(k) == Return(k, "TT_BT", {got[k]})

\* _beginthreadex compares with INVALID_HANDLE_VALUE, which CreateThread never returns:
\* it hands the id on in any case.
ReturnBtx(k) == Return(k, "TT_BTX", ReadId(mine[k].t))

-----------------------------------------------------------------------------
(* The threads.                                                            *)

\* smp9x_winthread_main, after elevate and fly(): what it calls is in the record.
WinthreadMain(c) ==
    /\ state[c] = "start"
    /\ entered' = [entered EXCEPT ![c] =
          IF param[c] \in heap THEN rec[param[c]].main ELSE NoMain]
    /\ state' = [state EXCEPT ![c] = "running"]
    /\ UNCHANGED <<listVars, makerVars, param, wanted, pastVars>>

\* The record of c, for the loop of smp9x_thread_info_detach: GetCurrentThread is a
\* pseudo handle, so only the id is ever equal.
IsOf(r, c) == rec[r].id = c

Exit(c) ==
    /\ state' = [state EXCEPT ![c] = "ended"]
    /\ param' = [param EXCEPT ![c] = NoRecord]
    /\ entered' = [entered EXCEPT ![c] = NoMain]
    /\ wanted' = [wanted EXCEPT ![c] = NoMain]

\* The loop of smp9x_thread_info_detach over the list: what remains when the records in
\* garbage are unlinked.
Unlink(list, garbage) ==
    LET kept[i \in 0..Len(list)] ==
            IF i = 0 THEN <<>>
            ELSE IF list[i] \in garbage THEN kept[i - 1] ELSE Append(kept[i - 1], list[i])
    IN  kept[Len(list)]

\* Mutant of ThreadInfoDetach: the record is freed and stays linked.
ThreadInfoDetachLinked(c) ==
    /\ state[c] = "running"
    /\ LET garbage == {r \in ToSet(threads) : IsOf(r, c)} IN
          heap' = heap \ garbage
    /\ Exit(c)
    /\ UNCHANGED <<threads, rec, makerVars, pastVars>>

\* Its function returned, or it called ExitThread, _endthread or _endthreadex:
\* DLL_THREAD_DETACH.
ThreadInfoDetach(c) ==
    /\ state[c] = "running"
    /\ LET garbage == {r \in ToSet(threads) : IsOf(r, c)} IN
          threads' = Unlink(threads, garbage) /\ heap' = heap \ garbage
    /\ Exit(c)
    /\ UNCHANGED <<rec, makerVars, pastVars>>

\* Windows gives the id and the handle to another thread once the program has closed
\* the handle.
Reuse(c) ==
    /\ state[c] = "ended" /\ \A k \in Creator : got[k] # c
    /\ state' = [state EXCEPT ![c] = "none"]
    /\ out' = [k \in Creator |->
          IF out[k].handle = c THEN [handle |-> NoChild, id |-> NoChild] ELSE out[k]]
    /\ UNCHANGED <<listVars, phase, mine, got, param, entered, wanted, pastVars>>

ListNext ==
    \/ \E k \in Creator :
          \/ ThreadAlloc(k) \/ Fill(k) \/ CreateFails(k) \/ StoreHandle(k)
          \/ ReturnStd(k) \/ ReturnBt(k) \/ ReturnBtx(k)
          \/ \E c \in Child : Create(k, c)
    \/ \E c \in Child : WinthreadMain(c) \/ ThreadInfoDetach(c) \/ Reuse(c)

ListSpec == ListInit /\ [][ListNext]_tlVars

-----------------------------------------------------------------------------
(* Properties.                                                             *)

ListTypeOK ==
    /\ threads \in Seq(Record) /\ heap \subseteq Record
    /\ rec \in [Record -> [handle : Child \cup {NoChild}, id : Child \cup {NoChild},
                          main : Mains \cup {NoMain}]]
    /\ phase \in [Creator -> {"idle", "fill", "create", "store", "return"}]
    /\ mine \in [Creator -> [t : Record, main : Mains] \cup {Unused}]
    /\ got \in [Creator -> Child \cup {NoChild}]
    /\ out \in [Creator -> [handle : Child \cup {NoChild}, id : Child \cup {NoChild}]]
    /\ state \in [Child -> {"none", "start", "running", "ended"}]
    /\ param \in [Child -> Record \cup {NoRecord}]
    /\ entered \in [Child -> Mains \cup {NoMain}]
    /\ wanted \in [Child -> Mains \cup {NoMain}]
    /\ late \subseteq Creator /\ spoiled \subseteq Record

\* The list and the heap agree: each record is linked once, none that is free.
ListSound ==
    /\ \A i, j \in 1..Len(threads) : threads[i] = threads[j] => i = j
    /\ ToSet(threads) = heap

\* smp9x_winthread_main finds its record as its creator filled it, though others are
\* linked, unlinked and reused before it runs, and though it may run before its
\* creator goes on.
ChildReadsOwn == \A c \in Child : state[c] = "running" => entered[c] = wanted[c]

\* A record belongs to one thread from thread_alloc to thread_info_detach.
RecordsSound == ListSound /\ ChildReadsOwn

\* smp9x_GetThreadId: the newest record with the handle.
GetThreadId(h) ==
    LET Found == {i \in 1..Len(threads) : rec[threads[i]].handle = h} IN
    IF Found = {} THEN NoChild
    ELSE rec[threads[CHOOSE i \in Found : \A j \in Found : i <= j]].id

\* A call returns the id of the thread whose handle it returns, unless that thread had
\* ended by then; and GetThreadId finds the id by the handle as long as the thread lives,
\* whatever other calls failed or overlapped, as long as the list has no record into
\* which a creator stored the handle of a thread that had ended.  (Such a thread's record
\* is free, or another creator's, when its own creator comes back to it: the damage is
\* its own id and that one record, until its owner stores a handle or it is freed.)
IdsAreOwn ==
    /\ \A k \in Creator \ late : out[k].id = out[k].handle
    /\ spoiled \cap heap = {} =>
          \A k \in Creator : out[k].handle # NoChild =>
              LET c == out[k].handle IN
              GetThreadId(c) = IF state[c] = "ended" THEN NoChild ELSE c

=============================================================================
