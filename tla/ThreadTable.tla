---------------------------- MODULE ThreadTable ----------------------------
(***************************************************************************)
(* The hash table of thread records, ts_ht.                                *)
(*                                                                         *)
(* The BSP alone changes it, in the Thread_Init and Destroy_Thread         *)
(* messages.  An AP whose thread landed looks the thread up without any    *)
(* lock (smp_ap_main, S_RUNNING), so each read of the AP and each write of *)
(* the BSP is a step here.  A record is a page of its own, freed when the  *)
(* thread is destroyed.  x86 processors see the BSP's writes in order.     *)
(***************************************************************************)
EXTENDS Naturals, FiniteSets

CONSTANTS
    Thread,   \* thread handles
    NoThread, \* tid 0, what a page of zeros holds
    Page,     \* pages a record can be allocated in
    Null,
    Bucket,   \* the entries of ts_ht
    Hash,     \* TS_HASH
    Ap,       \* application processors
    Mortal    \* threads that are destroyed in the instance

ASSUME TableAssumption ==
    /\ NoThread \notin Thread /\ Null \notin Page /\ Bucket \cap Page = {}
    /\ Thread # {} /\ Hash \in [Thread -> Bucket] /\ Mortal \subseteq Thread

Cell == Bucket \cup Page  \* what a pointer to a pointer points at: ts_ht[i], or p->next

VARIABLES
    link,    \* the pointer in a cell
    tid,     \* the tid in a page
    used,    \* the allocated pages
    bop,     \* what the BSP is doing: nothing, ts_thread_create, ts_thread_destroy
    bpc,     \* and where it is in it
    barg,    \* its tid argument
    bpage,   \* its ts or garbage
    tindex,  \* its tindex
    apc,     \* where AP a is in ts_thread_get
    look,    \* its tid argument
    cur      \* its tindex

bspVars == <<bop, bpc, barg, bpage, tindex>>
apVars  == <<apc, look, cur>>
vars    == <<link, tid, used, bspVars, apVars>>

Init ==
    /\ link = [c \in Cell |-> Null]     \* ts_init
    /\ tid = [p \in Page |-> NoThread]
    /\ used = {}
    /\ bop = "none" /\ bpc = "idle" /\ barg = NoThread /\ bpage = Null
    /\ tindex \in {Hash[t] : t \in Thread}
    /\ apc = [a \in Ap |-> "idle"]
    /\ look = [a \in Ap |-> NoThread]
    /\ cur = [a \in Ap |-> Null]

\* The thread has a record that can be found.
Listed(t) == \E c \in Bucket \cup used : link[c] \in used /\ tid[link[c]] = t

-----------------------------------------------------------------------------
(* The BSP.                                                                 *)

Idle ==
    /\ bop' = "none" /\ bpc' = "idle" /\ barg' = NoThread /\ bpage' = Null
    /\ UNCHANGED tindex

\* _PageAllocate with PAGEZEROINIT, whatever the page was before.
CreateAlloc(t) ==
    /\ bop = "none"
    /\ \E p \in Page \ used :
          /\ used' = used \cup {p} /\ bpage' = p
          /\ tid' = [tid EXCEPT ![p] = NoThread]
          /\ link' = [link EXCEPT ![p] = Null]
    /\ bop' = "create" /\ bpc' = "fill" /\ barg' = t
    /\ UNCHANGED <<tindex, apVars>>

\* The fields of the record, then tindex = &ts_ht[hash].
CreateFill ==
    /\ bpc = "fill"
    /\ tid' = [tid EXCEPT ![bpage] = barg]
    /\ tindex' = Hash[barg] /\ bpc' = "find"
    /\ UNCHANGED <<link, used, bop, barg, bpage, apVars>>

\* ts_thread_destroy starts.  The thread is on no AP that could be looking it
\* up: Device_Thread_Destroy first takes the lock that AP holds while it looks
\* (Ownership in Migration).
DestroyStart(t) ==
    /\ bop = "none" /\ t \in Mortal
    /\ \A a \in Ap : look[a] # t
    /\ bop' = "destroy" /\ bpc' = "find" /\ barg' = t
    /\ tindex' = Hash[t]
    /\ UNCHANGED <<link, tid, used, bpage, apVars>>

\* tindex = &((*tindex)->next)
FindNext ==
    /\ bpc = "find" /\ link[tindex] # Null /\ tid[link[tindex]] # barg
    /\ tindex' = link[tindex]
    /\ UNCHANGED <<link, tid, used, bop, bpc, barg, bpage, apVars>>

\* Mutant of CreateDuplicate: the linked record is freed.
CreateDuplicateFreesOld ==
    /\ bop = "create" /\ bpc = "find" /\ link[tindex] # Null /\ tid[link[tindex]] = barg
    /\ used' = used \ {link[tindex]}
    /\ Idle
    /\ UNCHANGED <<link, tid, apVars>>

\* The tid is there already: its record is returned, the new page freed.
CreateDuplicate ==
    /\ bop = "create" /\ bpc = "find" /\ link[tindex] # Null /\ tid[link[tindex]] = barg
    /\ used' = used \ {bpage}
    /\ Idle
    /\ UNCHANGED <<link, tid, apVars>>

\* *tindex = ts
CreateLink ==
    /\ bop = "create" /\ bpc = "find" /\ link[tindex] = Null
    /\ link' = [link EXCEPT ![tindex] = bpage]
    /\ Idle
    /\ UNCHANGED <<tid, used, apVars>>

\* Mutant of DestroyUnlink: the rest of the chain is dropped.
DestroyUnlinkRest ==
    /\ bop = "destroy" /\ bpc = "find" /\ link[tindex] # Null /\ tid[link[tindex]] = barg
    /\ bpage' = link[tindex] /\ bpc' = "free"
    /\ link' = [link EXCEPT ![tindex] = Null]
    /\ UNCHANGED <<tid, used, bop, barg, tindex, apVars>>

\* *tindex = garbage->next
DestroyUnlink ==
    /\ bop = "destroy" /\ bpc = "find" /\ link[tindex] # Null /\ tid[link[tindex]] = barg
    /\ bpage' = link[tindex] /\ bpc' = "free"
    /\ link' = [link EXCEPT ![tindex] = link[link[tindex]]]
    /\ UNCHANGED <<tid, used, bop, barg, tindex, apVars>>

\* _PageFree(garbage): the page may keep its contents until it is allocated again, or be
\* unmapped at once (Fault).
DestroyFree ==
    /\ bpc = "free"
    /\ used' = used \ {bpage}
    /\ Idle
    /\ UNCHANGED <<link, tid, apVars>>

DestroyNone ==
    /\ bop = "destroy" /\ bpc = "find" /\ link[tindex] = Null
    /\ Idle
    /\ UNCHANGED <<link, tid, used, apVars>>

-----------------------------------------------------------------------------
(* An AP in S_RUNNING.                                                      *)

\* ts_thread_get of the AP's thread, which is listed while the AP carries it
\* (Ownership in Migration), and on no other AP: tindex = ts_ht[hash].
Get(a, t) ==
    /\ apc[a] = "idle" /\ Listed(t) /\ barg # t /\ \A b \in Ap : look[b] # t
    /\ apc' = [apc EXCEPT ![a] = "walk"]
    /\ look' = [look EXCEPT ![a] = t]
    /\ cur' = [cur EXCEPT ![a] = link[Hash[t]]]
    /\ UNCHANGED <<link, tid, used, bspVars>>

\* One turn of the loop.  A page that is not allocated may still be there.
Turn(a) ==
    /\ apc[a] = "walk" /\ cur[a] # Null
    /\ IF tid[cur[a]] = look[a]
       THEN apc' = [apc EXCEPT ![a] = "found"] /\ UNCHANGED cur
       ELSE cur' = [cur EXCEPT ![a] = link[cur[a]]] /\ UNCHANGED apc
    /\ UNCHANGED <<link, tid, used, look, bspVars>>

\* Or it is not: a fault of the AP's own kernel, which does not come back to its walk.
Fault(a) ==
    /\ apc[a] = "walk" /\ cur[a] # Null /\ cur[a] \notin used
    /\ apc' = [apc EXCEPT ![a] = "lost"]
    /\ UNCHANGED <<link, tid, used, look, cur, bspVars>>

\* return NULL
Miss(a) ==
    /\ apc[a] = "walk" /\ cur[a] = Null
    /\ apc' = [apc EXCEPT ![a] = "missed"]
    /\ UNCHANGED <<link, tid, used, look, cur, bspVars>>

\* smp_ap_main goes on to S_CARGO and the AP's lock is released.
Publish(a) ==
    /\ apc[a] \in {"found", "missed"}
    /\ apc' = [apc EXCEPT ![a] = "idle"]
    /\ look' = [look EXCEPT ![a] = NoThread]
    /\ cur' = [cur EXCEPT ![a] = Null]
    /\ UNCHANGED <<link, tid, used, bspVars>>

Next ==
    \/ \E t \in Thread : CreateAlloc(t) \/ DestroyStart(t)
    \/ FindNext
    \/ CreateFill \/ CreateDuplicate \/ CreateLink
    \/ DestroyUnlink \/ DestroyFree \/ DestroyNone
    \/ \E a \in Ap :
          (\E t \in Thread : Get(a, t)) \/ Turn(a) \/ Fault(a) \/ Miss(a) \/ Publish(a)

Spec == Init /\ [][Next]_vars

-----------------------------------------------------------------------------
(* Properties.                                                              *)

TypeOK ==
    /\ link \in [Cell -> Page \cup {Null}]
    /\ tid \in [Page -> Thread \cup {NoThread}]
    /\ used \subseteq Page
    /\ bop \in {"none", "create", "destroy"}
    /\ bpc \in {"idle", "fill", "find", "free"}
    /\ barg \in Thread \cup {NoThread}
    /\ bpage \in Page \cup {Null}
    /\ tindex \in Cell
    /\ apc \in [Ap -> {"idle", "walk", "found", "missed", "lost"}]
    /\ look \in [Ap -> Thread \cup {NoThread}]
    /\ cur \in [Ap -> Page \cup {Null}]

\* The cells that belong to the table, and the records linked in it: every
\* allocated page but the one create has not linked, or destroy has unlinked, yet.
Linked == used \ {bpage}
Chain  == Bucket \cup Linked

\* Where the BSP is: it searches the chain of its argument, with a page of its own.
BspSound ==
    /\ bop = "none" <=> bpc = "idle"
    /\ bop = "none" => bpage = Null /\ barg = NoThread
    /\ bop # "none" => barg \in Thread
    /\ bop = "create" => bpc \in {"fill", "find"} /\ bpage # Null /\ link[bpage] = Null
    /\ bop = "destroy" => /\ bpc \in {"find", "free"} /\ (bpc = "free" <=> bpage # Null)
                          /\ barg \in Mortal /\ \A a \in Ap : look[a] # barg
    /\ bpage # Null => /\ bpage \in used
                       /\ tid[bpage] = IF bpc = "fill" THEN NoThread ELSE barg
    /\ bpc = "find" => /\ tindex \in Chain
                       /\ tindex \in Bucket => tindex = Hash[barg]
                       /\ tindex \in Page => Hash[tid[tindex]] = Hash[barg]

\* The chains are what a reader expects: each record is pointed at by exactly one
\* cell, in the chain of its own bucket, nothing points outside, and no two records
\* have the same tid.
ChainsSound ==
    /\ \A c \in Chain : link[c] \in Linked \cup {Null}
    /\ \A p \in Linked : /\ tid[p] \in Thread
                         /\ \E c \in Chain : link[c] = p
                         /\ \A c, d \in Chain : link[c] = p /\ link[d] = p => c = d
    /\ \A p, q \in Linked : tid[p] = tid[q] => p = q
    /\ \A b \in Bucket : link[b] # Null => Hash[tid[link[b]]] = b
    /\ \A p \in Linked : link[p] # Null => Hash[tid[link[p]]] = Hash[tid[p]]

\* The conjunction that every step preserves.
TableInv == TypeOK /\ BspSound /\ ChainsSound

\* No other thread of t's bucket is ever destroyed.
Undisturbed(t) == \A m \in Mortal : Hash[m] = Hash[t] => m = t

\* What an AP may rely on without a lock.  Whatever the BSP creates, and destroys in
\* other buckets, the AP's walk stays on linked records and ends at its thread's.
LookupFinds ==
    \A a \in Ap : apc[a] # "idle" /\ Undisturbed(look[a]) =>
        /\ cur[a] \in Linked /\ apc[a] # "lost"
        /\ apc[a] = "found" => tid[cur[a]] = look[a]

\* smp_proc.c says of the lookup "notify idle proc, that task is ready for switch
\* back": an AP that publishes S_CARGO found the record, so it could notify.
IdleProcNotified == \A a \in Ap : apc[a] # "missed"

=============================================================================
