-------------------------------- MODULE Boot --------------------------------
(***************************************************************************)
(* How the APs are found and started: smp_init, smp_init_bsp, apboot.asm   *)
(* and the entry of apkernel.asm.                                          *)
(*                                                                         *)
(* All APs are started with the same 512 bytes of memory at 0x8000, which  *)
(* hold code, variables and the target of a far jump.  The BSP writes the  *)
(* variables anew for each AP and gives the memory back at the end, so it  *)
(* must not go on before an AP is through.                                 *)
(***************************************************************************)
EXTENDS Naturals, Sequences, FiniteSets

CONSTANTS
    MaxId,   \* the largest local APIC id
    Bsp,     \* the id CPUID tells the BSP
    Tables,  \* MP configuration tables: sequences of entries
    Limits,  \* values of the setting maxcpus
    Dos,     \* what was at 0x8000 before
    Image,   \* what apboot.asm is assembled to
    Kernel   \* the address of the kernel page

Id == 0..MaxId

\* An entry of the table: a processor (type 0) or something else.
Entry == [processor : BOOLEAN, id : Id, usable : BOOLEAN, bsp : BOOLEAN]

UsableAp(e) == e.processor /\ e.usable /\ ~e.bsp

\* Device_Init calls smp_init with maxcpus > 1.  A table names an AP once, and
\* does not call the BSP one.
ASSUME BootAssumption ==
    /\ MaxId \in Nat /\ Bsp \in Id
    /\ Tables \subseteq Seq(Entry) /\ Limits \subseteq Nat \ {0, 1}
    /\ \A t \in Tables : \A x, y \in 1..Len(t) :
          UsableAp(t[x]) => /\ t[x].id # Bsp
                            /\ UsableAp(t[y]) /\ t[x].id = t[y].id => x = y
    /\ {Dos, Image, Kernel} \cap Id = {} /\ Dos # Image /\ Dos # Kernel /\ Image # Kernel

VARIABLES
    mp,        \* the table
    maxCpus,   \* max_cpus
    bpc,       \* where the BSP is
    k,         \* the entry it reads
    i,         \* the id it starts
    apCount,   \* ap_count
    ttableMax, \* ttable_max
    index,     \* ttable[a].data->index; 0 where there is no data and no stack
    status,    \* ttable[a].data->status
    pd,        \* what page directory a maps: the system, and 0x8000 to itself
    cpuCount,  \* cpu_count
    freeCnt,   \* gdata.ap_free_cnt
    page,      \* the memory at 0x8000: its code, for whom its variables are, its far jump
    backup,    \* page_backup
    apc,       \* where processor a is
    cr3, stack, gdt \* whose page directory, stack and GDT processor a has loaded

tableVars == <<mp, maxCpus, k, apCount, ttableMax, index>>
countVars == <<cpuCount, freeCnt>>
apVars    == <<apc, cr3, stack, gdt>>
vars      == <<tableVars, countVars, bpc, i, status, pd, page, backup, apVars>>

Memory(c, v, j) == [code |-> c, vars |-> v, jmp |-> j]

Init ==
    /\ mp \in Tables /\ maxCpus \in Limits
    /\ bpc = "parse" /\ k = 1 /\ i = 0
    /\ apCount = 0 /\ ttableMax = 0
    /\ index = [a \in Id |-> 0]
    /\ status = [a \in Id |-> "none"]
    /\ pd = [a \in Id |-> {}]
    /\ cpuCount = 0 /\ freeCnt = 0
    /\ page = Memory(Dos, Dos, Dos) /\ backup = Memory(Dos, Dos, Dos)
    /\ apc = [a \in Id |-> "parked"]
    /\ cr3 = [a \in Id |-> Dos] /\ stack = [a \in Id |-> Dos] /\ gdt = [a \in Id |-> Dos]

-----------------------------------------------------------------------------
(* smp_init reads the table.                                                *)

\* An AP to use: stack, data, index and status are set up.
ParseApBase(limit) ==
    /\ bpc = "parse" /\ k <= Len(mp) /\ UsableAp(mp[k]) /\ apCount + 1 < limit
    /\ index' = [index EXCEPT ![mp[k].id] = apCount + 1]
    /\ status' = [status EXCEPT ![mp[k].id] = "busy"]
    /\ apCount' = apCount + 1
    /\ ttableMax' = IF mp[k].id > ttableMax THEN mp[k].id ELSE ttableMax
    /\ k' = k + 1
    /\ UNCHANGED <<mp, maxCpus, bpc, i, pd, countVars, page, backup, apVars>>

\* Mutant of ParseAp: one processor too many.
ParseApTooMany == ParseApBase(maxCpus + 1)

ParseAp == ParseApBase(maxCpus)

\* The BSP, a processor that is not usable or one too many, an APIC.
ParseOther ==
    /\ bpc = "parse" /\ k <= Len(mp) /\ ~(UsableAp(mp[k]) /\ apCount + 1 < maxCpus)
    /\ k' = k + 1
    /\ UNCHANGED <<mp, maxCpus, apCount, ttableMax, index, bpc, i, status, pd, countVars,
                   page, backup, apVars>>

ParseEnd ==
    /\ bpc = "parse" /\ k > Len(mp)
    /\ cpuCount' = apCount + 1
    /\ IF apCount > 0 THEN freeCnt' = apCount /\ bpc' = "place"
                      ELSE bpc' = "single" /\ UNCHANGED freeCnt
    /\ UNCHANGED <<tableVars, i, status, pd, page, backup, apVars>>

-----------------------------------------------------------------------------
(* smp_init_bsp starts the APs.                                             *)

Place ==
    /\ bpc = "place"
    /\ backup' = page
    /\ page' = Memory(Image, Image, Image)
    /\ bpc' = "next"
    /\ UNCHANGED <<tableVars, countVars, i, status, pd, apVars>>

Skip ==
    /\ bpc = "next" /\ i <= ttableMax /\ (index[i] = 0 \/ i = Bsp)
    /\ i' = i + 1
    /\ UNCHANGED <<tableVars, countVars, bpc, status, pd, page, backup, apVars>>

\* copy_pd replaces the whole directory; then entry 0 maps 0x8000.
SetUpBase(mapping) ==
    /\ bpc = "next" /\ i <= ttableMax /\ index[i] # 0 /\ i # Bsp
    /\ pd' = [pd EXCEPT ![i] = mapping]
    /\ page' = [page EXCEPT !.vars = i]
    /\ bpc' = "init"
    /\ UNCHANGED <<tableVars, countVars, i, status, backup, apVars>>

\* Mutant of SetUp: the two in the other order.
SetUpSwapped == SetUpBase({"system"})

SetUp == SetUpBase({"system", "low"})

\* INIT resets the processor, whatever it does, and it waits for a STARTUP.
SendInit ==
    /\ bpc = "init"
    /\ apc' = [apc EXCEPT ![i] = "reset"]
    /\ bpc' = "startup1"
    /\ UNCHANGED <<tableVars, countVars, i, status, pd, page, backup, cr3, stack, gdt>>

\* Each STARTUP starts a processor that waits for one and is ignored by one that
\* runs.  The first may be lost, that is what the second is for.
SendStartup1 ==
    /\ bpc = "startup1"
    /\ apc' = [apc EXCEPT ![i] = "real"] \/ UNCHANGED apc
    /\ bpc' = "startup2"
    /\ UNCHANGED <<tableVars, countVars, i, status, pd, page, backup, cr3, stack, gdt>>

\* Mutant of SendStartup2: there is no second.
SendStartup2Not ==
    /\ bpc = "startup2"
    /\ bpc' = "wait"
    /\ UNCHANGED <<tableVars, countVars, i, status, pd, page, backup, apVars>>

SendStartup2 ==
    /\ bpc = "startup2"
    /\ IF apc[i] = "reset" THEN apc' = [apc EXCEPT ![i] = "real"] ELSE UNCHANGED apc
    /\ bpc' = "wait"
    /\ UNCHANGED <<tableVars, countVars, i, status, pd, page, backup, cr3, stack, gdt>>

\* Mutant of Booted: the BSP does not wait.
BootedUnseen ==
    /\ bpc = "wait"
    /\ i' = i + 1 /\ bpc' = "next"
    /\ UNCHANGED <<tableVars, countVars, status, pd, page, backup, apVars>>

\* while(ttable[i].data->status == S_BUSY)
Booted ==
    /\ bpc = "wait" /\ status[i] # "busy"
    /\ i' = i + 1 /\ bpc' = "next"
    /\ UNCHANGED <<tableVars, countVars, status, pd, page, backup, apVars>>

Restore ==
    /\ bpc = "next" /\ i > ttableMax
    /\ page' = backup
    /\ bpc' = "done"
    /\ UNCHANGED <<tableVars, countVars, i, status, pd, backup, apVars>>

-----------------------------------------------------------------------------
(* Processor a runs apboot.asm.                                             *)

\* STEP I, in real mode: the variables go to registers.
LoadVars(a) ==
    /\ apc[a] = "real"
    /\ cr3' = [cr3 EXCEPT ![a] = page.vars]
    /\ stack' = [stack EXCEPT ![a] = page.vars]
    /\ apc' = [apc EXCEPT ![a] = "protected"]
    /\ UNCHANGED <<tableVars, countVars, bpc, i, status, pd, page, backup, gdt>>

\* STEP II: the kernel's address is written into the far jump.
WriteJump(a) ==
    /\ apc[a] = "protected"
    /\ page' = [page EXCEPT !.jmp = Kernel]
    /\ apc' = [apc EXCEPT ![a] = "paging"]
    /\ UNCHANGED <<tableVars, countVars, bpc, i, status, pd, backup, cr3, stack, gdt>>

\* Paging is on; STEP III: GDT, IDT and task register, from the variables again.
LoadGdt(a) ==
    /\ apc[a] = "paging"
    /\ gdt' = [gdt EXCEPT ![a] = page.vars]
    /\ apc' = [apc EXCEPT ![a] = "jump"]
    /\ UNCHANGED <<tableVars, countVars, bpc, i, status, pd, page, backup, cr3, stack>>

\* STEP IV: the far jump.
FarJump(a) ==
    /\ apc[a] = "jump"
    /\ apc' = [apc EXCEPT ![a] = "kernel"]
    /\ UNCHANGED <<tableVars, countVars, bpc, i, status, pd, page, backup, cr3, stack, gdt>>

\* _kernel_boot: the state of the loop is saved in a's own data, and the status
\* is unlocked.
Unlock(a) ==
    /\ apc[a] = "kernel"
    /\ status' = [status EXCEPT ![a] = "ready"]
    /\ apc' = [apc EXCEPT ![a] = "main"]
    /\ UNCHANGED <<tableVars, countVars, bpc, i, pd, page, backup, cr3, stack, gdt>>

\* smp_ap_main for the first times: the AP goes to sleep when tsc_ring says that it
\* has been idle for long enough, which is at once or soon, as last_active is 0.
MainLocks(a) ==
    /\ apc[a] = "main" /\ status[a] = "ready"
    /\ status' = [status EXCEPT ![a] = "busy"]
    /\ apc' = [apc EXCEPT ![a] = "locked"]
    /\ UNCHANGED <<tableVars, countVars, bpc, i, pd, page, backup, cr3, stack, gdt>>

MainStays(a) ==
    /\ apc[a] = "locked"
    /\ status' = [status EXCEPT ![a] = "ready"]
    /\ apc' = [apc EXCEPT ![a] = "main"]
    /\ UNCHANGED <<tableVars, countVars, bpc, i, pd, page, backup, cr3, stack, gdt>>

MainSleeps(a) ==
    /\ apc[a] = "locked"
    /\ status' = [status EXCEPT ![a] = "sleep"]
    /\ apc' = [apc EXCEPT ![a] = "asleep"]
    /\ UNCHANGED <<tableVars, countVars, bpc, i, pd, page, backup, cr3, stack, gdt>>

-----------------------------------------------------------------------------

BspNext ==
    \/ ParseAp \/ ParseOther \/ ParseEnd
    \/ Place \/ Skip \/ SetUp \/ SendInit \/ SendStartup1 \/ SendStartup2 \/ Booted \/ Restore

ApNext(a) ==
    \/ LoadVars(a) \/ WriteJump(a) \/ LoadGdt(a) \/ FarJump(a)
    \/ Unlock(a) \/ MainLocks(a) \/ MainStays(a) \/ MainSleeps(a)

Next == BspNext \/ \E a \in Id : ApNext(a)

Spec == Init /\ [][Next]_vars

-----------------------------------------------------------------------------
(* Properties.                                                              *)

Content == Id \cup {Dos, Image, Kernel}

TypeOK ==
    /\ mp \in Tables /\ maxCpus \in Limits
    /\ bpc \in {"parse", "single", "place", "next", "init", "startup1", "startup2", "wait", "done"}
    /\ k \in Nat \ {0} /\ i \in Nat /\ apCount \in Nat /\ ttableMax \in Id
    /\ index \in [Id -> Nat]
    /\ status \in [Id -> {"none", "busy", "ready", "sleep"}]
    /\ pd \in [Id -> SUBSET {"system", "low"}]
    /\ cpuCount \in Nat /\ freeCnt \in Nat
    /\ page \in [code : Content, vars : Content, jmp : Content]
    /\ backup \in [code : Content, vars : Content, jmp : Content]
    /\ apc \in [Id -> {"parked", "reset", "real", "protected", "paging", "jump", "kernel",
                       "main", "locked", "asleep"}]
    /\ cr3 \in [Id -> Content] /\ stack \in [Id -> Content] /\ gdt \in [Id -> Content]

\* The APs of the table, and those that are in the boot code or past it.
Aps          == {a \in Id : index[a] # 0}
InTrampoline == {"real", "protected", "paging", "jump"}
Up           == {"main", "locked", "asleep"}

\* An AP in the boot code finds it, with its own variables, in a memory that its
\* page directory maps where it is, and the jump leads to the kernel.
TrampolineIntact ==
    \A a \in Id : apc[a] \in InTrampoline =>
        /\ page.code = Image /\ page.vars = a
        /\ apc[a] \in {"paging", "jump"} => pd[cr3[a]] = {"system", "low"}
        /\ apc[a] = "jump" => page.jmp = Kernel

\* An AP that reached the kernel has its own page directory, stack and GDT: the
\* data cpuid leads it to, ttable[apid].data, belong to the same AP.
BootsAsItself ==
    \A a \in Id : apc[a] \in {"kernel"} \cup Up =>
        a \in Aps /\ cr3[a] = a /\ stack[a] = a /\ gdt[a] = a

\* The memory below 1 MB is what it was.
MemoryRestored == bpc = "done" => page = Memory(Dos, Dos, Dos)

\* Every AP of ttable has left the boot code and can be given threads, and no other
\* processor runs.
AllUp == bpc = "done" => \A a \in Id : apc[a] \in Up <=> a \in Aps

\* ap_free_cnt is what the migration starts from: the number of APs in ttable, all
\* below ttable_max; the indices number them, and with the BSP they are no more than
\* maxcpus allows.
Counted ==
    bpc \in {"next", "init", "startup1", "startup2", "wait", "done"} =>
        /\ freeCnt = Cardinality(Aps) /\ cpuCount = freeCnt + 1 /\ cpuCount <= maxCpus
        /\ \A a \in Aps : a <= ttableMax /\ a # Bsp
        /\ {index[a] : a \in Aps} = 1..freeCnt

\* When smp_init_bsp returns, it has taken the APs out of their boot code before it gave
\* the memory back, and left what the migration starts from.
BootComplete == MemoryRestored /\ AllUp /\ Counted

\* The BSP, which waits with interrupts off and without a limit, comes back, when one of
\* the two STARTUPs arrives.
BootReturns == (bpc = "place") ~> (bpc = "done")

=============================================================================
