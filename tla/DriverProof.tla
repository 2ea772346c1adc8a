---------------------------- MODULE DriverProof ----------------------------
(* The boot is safe for every table, every limit and every number of APs; what  *)
(* the driver reports can be used, whatever machine it finds and however        *)
(* Device_Init ends; and the monitor program is sound for any number of         *)
(* processors, usages and icons, wherever its usages come from.                 *)
EXTENDS MCDriver, FiniteSetTheorems, WellFoundedInduction, TLAPS

-----------------------------------------------------------------------------
(* The boot.                                                                    *)

\* The phases of the BSP, and how far an AP must be in each.
Before   == {"parse", "single", "place"}
Starting == {"init", "startup1", "startup2", "wait"}

\* The entries up to k - 1 are in ttable, those of APs that is.
ParseInv ==
    bpc = "parse" =>
        \A a \in Aps : \E x \in 1..Len(mp) : x < k /\ UsableAp(mp[x]) /\ mp[x].id = a

\* index numbers the entries.
CountInv ==
    /\ apCount = Cardinality(Aps) /\ apCount + 1 <= maxCpus
    /\ \A a \in Aps : a <= ttableMax /\ a # Bsp
    /\ {index[a] : a \in Aps} = 1..apCount
    /\ bpc \in {"place", "next", "done"} \cup Starting =>
          freeCnt = apCount /\ cpuCount = apCount + 1

\* The APs below i are up, the one with id i is being started, the others wait.
OrderInv ==
    \A a \in Id :
        /\ a \notin Aps => apc[a] = "parked"
        /\ a \in Aps /\ apc[a] \notin Up => status[a] = "busy"
        /\ a \in Aps /\ a < i => apc[a] \in Up
        /\ a > i \/ (a = i /\ bpc \in Before \cup {"next", "init"}) => apc[a] = "parked"

PhaseInv ==
    /\ bpc \in Before => i = 0 /\ page = Memory(Dos, Dos, Dos)
    /\ bpc \notin Before /\ bpc # "done" => page.code = Image /\ backup = Memory(Dos, Dos, Dos)
    /\ bpc = "done" => i > ttableMax /\ page = Memory(Dos, Dos, Dos)
    /\ bpc \in Starting => i \in Aps /\ page.vars = i /\ pd[i] = {"system", "low"}
    /\ bpc = "startup1" => apc[i] = "reset"
    /\ bpc = "wait" => apc[i] # "reset"
    /\ bpc \in Starting \ {"init"} => apc[i] # "parked"

\* What processor a has loaded.
LoadedInv ==
    \A a \in Id :
        /\ apc[a] \in {"protected", "paging", "jump", "kernel"} \cup Up => cr3[a] = a /\ stack[a] = a
        /\ apc[a] \in {"jump", "kernel"} \cup Up => gdt[a] = a
        /\ apc[a] \in {"paging", "jump"} => page.jmp = Kernel

BootInv == TypeOK /\ ParseInv /\ CountInv /\ OrderInv /\ PhaseInv /\ LoadedInv

-----------------------------------------------------------------------------

LEMMA TableFacts ==
    ASSUME TypeOK
    PROVE  /\ mp \in Seq(Entry) /\ Len(mp) \in Nat /\ maxCpus \in Nat /\ maxCpus > 1
           /\ \A x \in 1..Len(mp) : mp[x] \in Entry
           /\ \A x, y \in 1..Len(mp) :
                 UsableAp(mp[x]) => /\ mp[x].id # Bsp
                                    /\ UsableAp(mp[y]) /\ mp[x].id = mp[y].id => x = y
           /\ Aps \subseteq Id /\ IsFiniteSet(Aps)
<1>1. mp \in Tables /\ mp \in Seq(Entry) /\ Len(mp) \in Nat
  BY BootAssumption DEF TypeOK
<1>2. maxCpus \in Nat /\ maxCpus > 1
  BY BootAssumption DEF TypeOK
<1>3. \A x \in 1..Len(mp) : mp[x] \in Entry
  BY <1>1
<1>4. \A x, y \in 1..Len(mp) :
          UsableAp(mp[x]) => /\ mp[x].id # Bsp
                             /\ UsableAp(mp[y]) /\ mp[x].id = mp[y].id => x = y
  BY <1>1, BootAssumption
<1>5. Aps \subseteq Id
  BY DEF Aps
<1>6. IsFiniteSet(Id)
  <2>1. 0 \in Int /\ MaxId \in Int
    BY BootAssumption
  <2>2. IsFiniteSet(0..MaxId)
    BY ONLY <2>1, FS_Interval
  <2> QED BY <2>2 DEF Id
<1> QED
  BY <1>1, <1>2, <1>3, <1>4, <1>5, <1>6, FS_Subset

LEMMA InitBoot == Init => BootInv
<1> SUFFICES ASSUME Init PROVE BootInv
  OBVIOUS
<1>1. TypeOK
  BY BootAssumption DEF Init, TypeOK, Memory, Content, Id
<1>2. Aps = {}
  BY DEF Init, Aps
<1>3. ParseInv /\ OrderInv /\ LoadedInv
  BY <1>2 DEF Init, ParseInv, OrderInv, LoadedInv, Up, Before
<1>4. CountInv
  <2>1. Cardinality(Aps) = 0
    BY <1>2, FS_EmptySet
  <2>2. {index[a] : a \in Aps} = 1..0
    BY <1>2
  <2>3. maxCpus \in Nat /\ maxCpus > 1
    BY <1>1, TableFacts
  <2> QED BY <1>2, <2>1, <2>2, <2>3 DEF Init, CountInv, Starting
<1>5. PhaseInv
  BY DEF Init, PhaseInv, Before, Starting
<1> QED
  BY <1>1, <1>3, <1>4, <1>5 DEF BootInv

\* Only one processor at a time is between STARTUP and its first release of the
\* status, the one the BSP waits for.
LEMMA OneStarts ==
    ASSUME BootInv, NEW a \in Id, apc[a] \notin Up \cup {"parked"}
    PROVE  a = i /\ a \in Aps /\ bpc \in Starting \ {"init"} /\ status[a] = "busy"
<1>1. a \in Aps /\ status[a] = "busy" /\ ~(a < i)
  BY DEF BootInv, OrderInv
<1>2. ~(a > i) /\ ~(a = i /\ bpc \in Before \cup {"next", "init"})
  BY DEF BootInv, OrderInv
<1>3. a \in Nat /\ i \in Nat /\ ttableMax \in Nat
  BY BootAssumption DEF BootInv, TypeOK, Id
<1>4. a = i
  BY <1>1, <1>2, <1>3
<1>5. bpc # "done"
  BY <1>1, <1>3, <1>4 DEF BootInv, PhaseInv, CountInv
<1> QED
  BY <1>1, <1>2, <1>4, <1>5 DEF BootInv, TypeOK, Before, Starting

\* What the BSP does with the table.
LEMMA ParseBoot == BootInv /\ (ParseAp \/ ParseOther \/ ParseEnd) => BootInv'
<1> SUFFICES ASSUME BootInv, ParseAp \/ ParseOther \/ ParseEnd PROVE BootInv'
  OBVIOUS
<1> USE DEF BootInv
<1>1. TypeOK /\ bpc = "parse" /\ UNCHANGED <<mp, maxCpus, i, pd, page, backup, apVars>>
  BY DEF ParseAp, ParseApBase, ParseOther, ParseEnd, tableVars
<1>2. CASE ParseAp
  <2> DEFINE id == mp[k].id
  <2>1. k \in 1..Len(mp) /\ UsableAp(mp[k]) /\ id \in Id /\ id # Bsp /\ apCount + 1 < maxCpus
    BY <1>1, <1>2, TableFacts DEF ParseAp, ParseApBase, TypeOK, Entry
  <2>2. /\ index' = [index EXCEPT ![id] = apCount + 1]
        /\ status' = [status EXCEPT ![id] = "busy"]
        /\ apCount' = apCount + 1 /\ k' = k + 1 /\ bpc' = "parse"
        /\ ttableMax' = IF id > ttableMax THEN id ELSE ttableMax
        /\ UNCHANGED countVars
    BY <1>1, <1>2 DEF ParseAp, ParseApBase
  <2>3. id \notin Aps
    <3> SUFFICES ASSUME id \in Aps PROVE FALSE
      OBVIOUS
    <3>1. PICK x \in 1..Len(mp) : x < k /\ UsableAp(mp[x]) /\ mp[x].id = id
      BY <1>1 DEF ParseInv
    <3> QED BY <1>1, <2>1, <3>1, TableFacts
  <2>4. Aps' = Aps \cup {id}
    BY <1>1, <2>1, <2>2 DEF Aps, TypeOK
  <2>5. id \in Nat /\ ttableMax \in Nat /\ ttableMax' \in Id
    BY <1>1, <2>1, <2>2, BootAssumption DEF TypeOK, Id
  <2>6. TypeOK'
    BY <1>1, <2>1, <2>2, <2>5 DEF TypeOK, countVars, apVars
  <2>7. ParseInv'
    <3>1. ASSUME NEW a \in Aps'
          PROVE  \E x \in 1..Len(mp) : x < k + 1 /\ UsableAp(mp[x]) /\ mp[x].id = a
      <4>1. CASE a = id
        BY <1>1, <2>1, <4>1 DEF TypeOK
      <4>2. CASE a \in Aps
        <5>1. PICK x \in 1..Len(mp) : x < k /\ UsableAp(mp[x]) /\ mp[x].id = a
          BY <1>1, <4>2 DEF ParseInv
        <5>2. x < k + 1
          BY <2>1, <5>1
        <5> QED BY <5>1, <5>2
      <4> QED BY <2>4, <4>1, <4>2
    <3> QED BY <1>1, <2>2, <3>1 DEF ParseInv
  <2>8. CountInv'
    <3>1. Cardinality(Aps') = apCount + 1
      BY <1>1, <2>3, <2>4, TableFacts, FS_AddElement DEF CountInv
    <3>2. \A a \in Aps' : a <= ttableMax' /\ a # Bsp
      <4>1. \A a \in Aps : a \in Nat
        BY BootAssumption DEF Aps, Id
      <4> QED BY <2>1, <2>2, <2>4, <2>5, <4>1 DEF CountInv
    <3>3. {index'[a] : a \in Aps'} = 1..(apCount + 1)
      <4>1. apCount \in Nat /\ 1..(apCount + 1) = 1..apCount \cup {apCount + 1}
        BY <1>1 DEF TypeOK
      <4>2. index'[id] = apCount + 1 /\ \A a \in Aps : index'[a] = index[a]
        BY <1>1, <2>1, <2>2, <2>3 DEF TypeOK, Aps
      <4>3. {index'[a] : a \in Aps'} = {index[a] : a \in Aps} \cup {apCount + 1}
        BY <2>4, <4>2
      <4> QED BY <4>1, <4>3 DEF CountInv
    <3>4. apCount + 1 + 1 <= maxCpus
      BY <1>1, <2>1, TableFacts DEF TypeOK
    <3> QED BY <1>1, <2>2, <3>1, <3>2, <3>3, <3>4 DEF CountInv, Starting
  <2>9. OrderInv'
    <3>1. \A a \in Id : apc[a] = "parked"
      BY <1>1, BootAssumption DEF OrderInv, PhaseInv, Before, Id
    <3>2. i = 0 /\ \A a \in Id : ~(a < i)
      BY <1>1, BootAssumption DEF PhaseInv, Before, Id
    <3>3. \A a \in Aps' : status'[a] = "busy"
      BY <1>1, <2>1, <2>2, <2>4, <3>1 DEF OrderInv, TypeOK, Aps, Up
    <3> QED BY <1>1, <2>2, <3>1, <3>2, <3>3 DEF OrderInv, apVars
  <2>10. PhaseInv'
    BY <1>1, <2>2 DEF PhaseInv, Before, Starting, Memory
  <2>11. LoadedInv'
    BY <1>1 DEF LoadedInv, apVars
  <2> QED BY <2>6, <2>7, <2>8, <2>9, <2>10, <2>11
<1>3. CASE ParseOther
  <2>1. /\ k \in Nat \ {0} /\ k' = k + 1
        /\ UNCHANGED <<apCount, ttableMax, index, status, bpc, countVars>>
    BY <1>1, <1>3 DEF ParseOther, TypeOK
  <2>2. TypeOK'
    BY <1>1, <2>1 DEF TypeOK, countVars, apVars
  <2>3. Aps' = Aps
    BY <2>1 DEF Aps
  <2>4. ParseInv'
    <3>1. \A x \in 1..Len(mp) : x < k => x < k + 1
      BY <2>1, <1>1, TableFacts
    <3> QED BY <1>1, <2>1, <2>3, <3>1 DEF ParseInv
  <2> QED BY <1>1, <2>1, <2>2, <2>3, <2>4
          DEF CountInv, OrderInv, PhaseInv, LoadedInv, countVars, apVars
<1>4. CASE ParseEnd
  <2>1. /\ cpuCount' = apCount + 1 /\ UNCHANGED <<k, apCount, ttableMax, index, status>>
        /\ bpc' \in {"place", "single"} /\ (bpc' = "place" => freeCnt' = apCount)
        /\ freeCnt' \in Nat
    BY <1>1, <1>4 DEF ParseEnd, tableVars, TypeOK
  <2>2. TypeOK'
    BY <1>1, <2>1 DEF TypeOK, apVars
  <2>3. Aps' = Aps
    BY <2>1 DEF Aps
  <2> QED BY <1>1, <2>1, <2>2, <2>3
          DEF ParseInv, CountInv, OrderInv, PhaseInv, LoadedInv, apVars, Before, Starting
<1> QED
  BY <1>2, <1>3, <1>4

\* The BSP goes through the APs.
LEMMA BspBoot ==
    /\ BootInv
    /\ Place \/ Skip \/ SetUp \/ SendInit \/ SendStartup1 \/ SendStartup2 \/ Booted \/ Restore
    => BootInv'
<1> SUFFICES ASSUME BootInv,
                    \/ Place \/ Skip \/ SetUp \/ SendInit
                    \/ SendStartup1 \/ SendStartup2 \/ Booted \/ Restore
             PROVE  BootInv'
  OBVIOUS
<1> USE DEF BootInv
<1>1. /\ TypeOK /\ Aps' = Aps /\ i \in Nat /\ ttableMax \in Nat /\ \A a \in Id : a \in Nat
      /\ UNCHANGED <<tableVars, countVars, status, cr3, stack, gdt>>
      /\ bpc \in {"place", "next"} \cup Starting /\ bpc' \in {"next", "done"} \cup Starting
  BY BootAssumption DEF Place, Skip, SetUp, SetUpBase, SendInit, SendStartup1, SendStartup2,
     Booted, Restore, Aps, tableVars, apVars, TypeOK, Starting, Id
<1>2. ParseInv' /\ CountInv'
  BY <1>1 DEF ParseInv, CountInv, Starting, tableVars, countVars
<1>3. CASE Place
  <2>1. /\ backup' = Memory(Dos, Dos, Dos) /\ page' = Memory(Image, Image, Image)
        /\ bpc = "place" /\ bpc' = "next" /\ UNCHANGED <<i, pd, apc>>
    BY <1>1, <1>3 DEF Place, PhaseInv, Before, apVars
  <2>2. TypeOK'
    BY <1>1, <2>1 DEF TypeOK, Memory, Content, tableVars, countVars, apVars
  <2>3. \A a \in Id : apc[a] = "parked"
    BY <1>1, <2>1 DEF OrderInv, PhaseInv, Before
  <2>4. OrderInv'
    BY <1>1, <2>1, <2>3 DEF OrderInv, PhaseInv, Before, Up, tableVars
  <2>5. PhaseInv' /\ LoadedInv'
    BY <1>1, <2>1, <2>3 DEF PhaseInv, LoadedInv, Before, Starting, Memory, Up
  <2> QED BY <1>2, <2>2, <2>4, <2>5
<1>4. CASE Skip
  <2>1. /\ bpc = "next" /\ i <= ttableMax /\ i' = i + 1 /\ i \notin Aps
        /\ UNCHANGED <<bpc, pd, page, backup, apc>>
    BY <1>1, <1>4 DEF Skip, CountInv, Aps, apVars
  <2>2. TypeOK'
    BY <1>1, <2>1 DEF TypeOK, tableVars, countVars, apVars
  <2>3. OrderInv'
    BY <1>1, <2>1 DEF OrderInv, Starting, Before
  <2>4. PhaseInv' /\ LoadedInv'
    BY <1>1, <2>1 DEF PhaseInv, LoadedInv, Before, Starting
  <2> QED BY <1>2, <2>2, <2>3, <2>4
<1>5. CASE SetUp
  <2>1. /\ bpc = "next" /\ bpc' = "init" /\ i <= ttableMax /\ i \in Id /\ i \in Aps
        /\ pd' = [pd EXCEPT ![i] = {"system", "low"}] /\ page' = [page EXCEPT !.vars = i]
        /\ UNCHANGED <<i, backup, apc>>
    BY <1>1, <1>5, BootAssumption DEF SetUp, SetUpBase, TypeOK, Aps, Id, apVars
  <2>2. /\ page'.code = page.code /\ page'.jmp = page.jmp /\ page'.vars = i /\ TypeOK'
        /\ pd'[i] = {"system", "low"}
    BY <1>1, <2>1 DEF TypeOK, Content, tableVars, countVars, apVars
  <2>3. OrderInv'
    BY <1>1, <2>1 DEF OrderInv, Starting, Before
  <2>4. PhaseInv' /\ LoadedInv'
    BY <1>1, <2>1, <2>2 DEF PhaseInv, LoadedInv, Before, Starting
  <2> QED BY <1>2, <2>2, <2>3, <2>4
<1>6. CASE SendInit
  <2>1. /\ bpc = "init" /\ bpc' = "startup1" /\ apc' = [apc EXCEPT ![i] = "reset"]
        /\ UNCHANGED <<i, pd, page, backup>> /\ i \in Aps /\ i \in Id
    BY <1>1, <1>6 DEF SendInit, PhaseInv, Starting, Aps
  <2>2. TypeOK' /\ apc'[i] = "reset" /\ \A a \in Id : a # i => apc'[a] = apc[a]
    BY <1>1, <2>1 DEF TypeOK, tableVars, countVars
  <2>3. status[i] = "busy" /\ ~(i > i) /\ ~(i < i)
    BY <1>1, <2>1 DEF OrderInv, Up
  <2>4. OrderInv'
    BY <1>1, <2>1, <2>2, <2>3 DEF OrderInv, Starting, Before
  <2>5. PhaseInv' /\ LoadedInv'
    BY <1>1, <2>1, <2>2 DEF PhaseInv, LoadedInv, Before, Starting, Up
  <2> QED BY <1>2, <2>2, <2>4, <2>5
<1>7. CASE SendStartup1 \/ SendStartup2
  <2>1. /\ bpc \in {"startup1", "startup2"} /\ bpc' \in {"startup2", "wait"}
        /\ UNCHANGED <<i, pd, page, backup>> /\ i \in Aps /\ i \in Id /\ apc[i] # "parked"
    BY <1>1, <1>7 DEF SendStartup1, SendStartup2, PhaseInv, Starting, Aps, apVars
  <2>2. /\ \A a \in Id : a # i => apc'[a] = apc[a]
        /\ apc'[i] = apc[i] \/ (apc[i] = "reset" /\ apc'[i] = "real")
        /\ bpc' = "wait" => apc'[i] # "reset"
        /\ apc' \in [Id -> {"parked", "reset", "real", "protected", "paging", "jump", "kernel",
                            "main", "locked", "asleep"}]
    BY <1>1, <1>7, <2>1 DEF SendStartup1, SendStartup2, PhaseInv, TypeOK, apVars
  <2>3. TypeOK'
    BY <1>1, <2>1, <2>2 DEF TypeOK, tableVars, countVars
  <2>4. ~(i > i) /\ ~(i < i)
    BY <1>1
  <2>5. OrderInv'
    BY <1>1, <2>1, <2>2, <2>4 DEF OrderInv, Starting, Before, Up
  <2>6. PhaseInv' /\ LoadedInv'
    BY <1>1, <2>1, <2>2 DEF PhaseInv, LoadedInv, Before, Starting, Up
  <2> QED BY <1>2, <2>3, <2>5, <2>6
<1>8. CASE Booted
  <2>1. /\ bpc = "wait" /\ bpc' = "next" /\ i' = i + 1 /\ status[i] # "busy" /\ i \in Aps
        /\ UNCHANGED <<pd, page, backup, apc>>
    BY <1>1, <1>8 DEF Booted, PhaseInv, Starting, apVars
  <2>2. TypeOK'
    BY <1>1, <2>1 DEF TypeOK, tableVars, countVars, apVars
  <2>3. i \in Id /\ apc[i] \in Up
    BY <1>1, <2>1 DEF OrderInv, Aps
  <2>4. OrderInv'
    <3>1. \A a \in Id : a < i + 1 => a < i \/ a = i
      BY <1>1
    <3>2. \A a \in Id : a > i + 1 \/ a = i + 1 => a > i
      BY <1>1
    <3> QED BY <1>1, <2>1, <2>3, <3>1, <3>2 DEF OrderInv
  <2>5. PhaseInv' /\ LoadedInv'
    BY <1>1, <2>1 DEF PhaseInv, LoadedInv, Before, Starting
  <2> QED BY <1>2, <2>2, <2>4, <2>5
<1>9. CASE Restore
  <2>1. /\ bpc = "next" /\ bpc' = "done" /\ i > ttableMax /\ page' = backup
        /\ UNCHANGED <<i, pd, backup, apc>>
    BY <1>1, <1>9 DEF Restore, apVars
  <2>2. TypeOK'
    BY <1>1, <2>1 DEF TypeOK, tableVars, countVars, apVars
  <2>3. OrderInv'
    BY <1>1, <2>1 DEF OrderInv, Before
  <2>4. \A a \in Id : apc[a] \notin {"paging", "jump"}
    BY <2>1, OneStarts DEF Up, Starting
  <2>5. page' = Memory(Dos, Dos, Dos)
    BY <2>1 DEF PhaseInv, Before
  <2>6. PhaseInv'
    BY <1>1, <2>1, <2>5 DEF PhaseInv, Before, Starting, tableVars
  <2>7. LoadedInv'
    BY <1>1, <2>1, <2>4 DEF LoadedInv
  <2> QED BY <1>2, <2>2, <2>3, <2>6, <2>7
<1> QED
  BY <1>3, <1>4, <1>5, <1>6, <1>7, <1>8, <1>9

\* A step of an AP.
LEMMA ApBoot == ASSUME BootInv, NEW a \in Id, ApNext(a) PROVE BootInv'
<1> USE DEF BootInv
<1>1. /\ TypeOK /\ Aps' = Aps /\ i \in Nat
      /\ UNCHANGED <<tableVars, countVars, bpc, i, pd, backup>>
  BY DEF ApNext, LoadVars, WriteJump, LoadGdt, FarJump, Unlock, MainLocks, MainStays, MainSleeps,
         Aps, tableVars, TypeOK
<1>2. ParseInv' /\ CountInv'
  BY <1>1 DEF ParseInv, CountInv, tableVars, countVars
<1>3. /\ apc[a] \notin {"parked", "reset"}
      /\ apc'[a] \notin {"parked", "reset"} /\ (apc[a] \in Up => apc'[a] \in Up)
      /\ \A b \in Id : b # a => apc'[b] = apc[b] /\ status'[b] = status[b]
  BY <1>1 DEF ApNext, LoadVars, WriteJump, LoadGdt, FarJump, Unlock, MainLocks, MainStays,
              MainSleeps, TypeOK, Up
<1>4. CASE apc[a] \in Up
  <2>1. UNCHANGED <<page, cr3, stack, gdt>> /\ apc'[a] \in Up
    BY <1>4 DEF ApNext, LoadVars, WriteJump, LoadGdt, FarJump, Unlock, MainLocks, MainStays,
                MainSleeps, TypeOK, Up
  <2>2. TypeOK'
    BY <1>1, <1>4, <2>1 DEF ApNext, LoadVars, WriteJump, LoadGdt, FarJump, Unlock, MainLocks,
       MainStays, MainSleeps, TypeOK, Up, tableVars, countVars
  <2>3. a \in Aps
    BY <1>4 DEF OrderInv, Up
  <2>4. OrderInv'
    BY <1>1, <1>3, <2>1, <2>3 DEF OrderInv, Up
  <2>5. PhaseInv'
    <3>1. bpc \in Starting => i \in Id
      BY DEF PhaseInv, Aps
    <3>2. bpc \in Starting => apc'[i] = apc[i] \/ (i = a /\ apc[i] # "reset")
      BY <1>3, <3>1
    <3> QED BY <1>1, <1>3, <2>1, <3>2 DEF PhaseInv, Starting, Before, tableVars
  <2>6. LoadedInv'
    BY <1>3, <1>4, <2>1 DEF LoadedInv, Up
  <2> QED BY <1>2, <2>2, <2>4, <2>5, <2>6
<1>5. CASE apc[a] \notin Up
  <2>1. a = i /\ a \in Aps /\ bpc \in Starting \ {"init"} /\ status[a] = "busy"
    BY <1>3, <1>5, OneStarts
  <2>2. page.vars = a /\ page.code = Image /\ bpc # "startup1"
    BY <1>3, <2>1 DEF PhaseInv, Starting, Before
  <2>3. /\ page'.vars = a /\ page'.code = Image /\ page' \in [code : Content, vars : Content, jmp : Content]
        /\ apc'[a] \in {"paging", "jump"} => page'.jmp = Kernel
    BY <1>1, <1>5, <2>1, <2>2 DEF ApNext, LoadVars, WriteJump, LoadGdt, FarJump, Unlock, MainLocks,
       MainStays, MainSleeps, TypeOK, Up, Content, LoadedInv
  <2>4. TypeOK'
    BY <1>1, <1>5, <2>2, <2>3 DEF ApNext, LoadVars, WriteJump, LoadGdt, FarJump, Unlock, MainLocks,
       MainStays, MainSleeps, TypeOK, Up, Content, tableVars, countVars
  <2>5. OrderInv'
    <3>1. apc'[a] \notin Up => status'[a] = "busy"
      BY <1>1, <1>5, <2>1 DEF ApNext, LoadVars, WriteJump, LoadGdt, FarJump, Unlock, MainLocks,
         MainStays, MainSleeps, TypeOK, Up
    <3>2. ~(a > i) /\ ~(a < i)
      BY <1>1, <2>1
    <3> QED BY <1>1, <1>3, <2>1, <3>1, <3>2 DEF OrderInv, Starting, Before
  <2>6. PhaseInv'
    BY <1>1, <1>3, <2>1, <2>2, <2>3 DEF PhaseInv, Starting, Before
  <2>7. LoadedInv'
    <3>1. \A b \in Id : b # a => apc[b] \in Up \cup {"parked"}
      BY <2>1, OneStarts
    <3>2. /\ \A b \in Id : b # a => cr3'[b] = cr3[b] /\ stack'[b] = stack[b] /\ gdt'[b] = gdt[b]
          /\ \A b \in Id : b # a => apc'[b] \notin {"paging", "jump"}
      BY <1>1, <1>3, <3>1 DEF ApNext, LoadVars, WriteJump, LoadGdt, FarJump, Unlock, MainLocks,
         MainStays, MainSleeps, TypeOK, Up
    <3>3. /\ apc'[a] \in {"protected", "paging", "jump", "kernel"} \cup Up => cr3'[a] = a /\ stack'[a] = a
          /\ apc'[a] \in {"jump", "kernel"} \cup Up => gdt'[a] = a
      BY <1>1, <1>5, <2>2 DEF ApNext, LoadVars, WriteJump, LoadGdt, FarJump, Unlock, MainLocks,
         MainStays, MainSleeps, TypeOK, Up, LoadedInv
    <3> QED BY <1>3, <2>3, <3>2, <3>3 DEF LoadedInv
  <2> QED BY <1>2, <2>4, <2>5, <2>6, <2>7
<1> QED
  BY <1>4, <1>5

LEMMA NextBoot == BootInv /\ [Next]_vars => BootInv'
<1> SUFFICES ASSUME BootInv, [Next]_vars PROVE BootInv'
  OBVIOUS
<1>1. CASE BspNext
  BY <1>1, ParseBoot, BspBoot DEF BspNext
<1>2. ASSUME NEW a \in Id, ApNext(a) PROVE BootInv'
  BY <1>2, ApBoot
<1>3. CASE UNCHANGED vars
  <2>1. UNCHANGED <<mp, maxCpus, k, apCount, ttableMax, index, cpuCount, freeCnt, bpc, i, status,
                    pd, page, backup, apc, cr3, stack, gdt>> /\ Aps' = Aps
    BY <1>3 DEF vars, tableVars, countVars, apVars, Aps
  <2>2. TypeOK'
    BY <2>1 DEF BootInv, TypeOK
  <2>3. ParseInv' /\ CountInv' /\ OrderInv'
    BY <2>1 DEF BootInv, ParseInv, CountInv, OrderInv
  <2>4. PhaseInv' /\ LoadedInv'
    BY <2>1 DEF BootInv, PhaseInv, LoadedInv
  <2> QED BY <2>2, <2>3, <2>4 DEF BootInv
<1> QED
  BY <1>1, <1>2, <1>3 DEF Next

LEMMA BootInductive == Spec => []BootInv
  BY InitBoot, NextBoot, PTL DEF Spec

\* Every variable of the boot keeps its type.
THEOREM BootTyped == Spec => []TypeOK
<1>1. BootInv => TypeOK
  BY DEF BootInv
<1> QED
  BY BootInductive, <1>1, PTL

\* An AP in the boot code of apboot.asm finds the code, its own variables and a page
\* directory that maps both, whatever the other processors do.
THEOREM TrampolineSafe == Spec => []TrampolineIntact
<1>1. BootInv => TrampolineIntact
  <2> SUFFICES ASSUME BootInv, NEW a \in Id, apc[a] \in InTrampoline
               PROVE  /\ page.code = Image /\ page.vars = a
                      /\ apc[a] \in {"paging", "jump"} => pd[cr3[a]] = {"system", "low"}
                      /\ apc[a] = "jump" => page.jmp = Kernel
    BY DEF TrampolineIntact
  <2>1. a = i /\ bpc \in Starting \ {"init"}
    BY OneStarts DEF InTrampoline, Up
  <2> QED BY <2>1 DEF BootInv, PhaseInv, LoadedInv, Starting, Before
<1> QED
  BY BootInductive, <1>1, PTL

\* An AP that entered the kernel has its own page directory, stack and GDT.
THEOREM OwnIdentity == Spec => []BootsAsItself
<1>1. BootInv => BootsAsItself
  <2> SUFFICES ASSUME BootInv, NEW a \in Id, apc[a] \in {"kernel"} \cup Up
               PROVE  a \in Aps /\ cr3[a] = a /\ stack[a] = a /\ gdt[a] = a
    BY DEF BootsAsItself
  <2> QED BY DEF BootInv, OrderInv, LoadedInv, Up
<1> QED
  BY BootInductive, <1>1, PTL

\* When smp_init_bsp returns, every AP of ttable is up, the count of free ones that
\* the migration starts from is right, and the memory at 0x8000 is given back.
THEOREM BootCorrect == Spec => []BootComplete
<1>1. BootInv => MemoryRestored
  BY DEF BootInv, PhaseInv, MemoryRestored
<1>2. BootInv => AllUp
  <2> SUFFICES ASSUME BootInv, bpc = "done", NEW a \in Id
               PROVE  apc[a] \in Up <=> a \in Aps
    BY DEF AllUp
  <2>1. a \in Aps => a < i
    <3>1. a \in Nat /\ i \in Nat /\ ttableMax \in Nat
      BY BootAssumption DEF BootInv, TypeOK, Id
    <3> QED BY <3>1 DEF BootInv, PhaseInv, CountInv
  <2> QED BY <2>1 DEF BootInv, OrderInv, Up
<1>3. BootInv => Counted
  <2> SUFFICES ASSUME BootInv, bpc \in {"next", "done"} \cup Starting
               PROVE  /\ freeCnt = Cardinality(Aps) /\ cpuCount = freeCnt + 1
                      /\ cpuCount <= maxCpus
                      /\ \A a \in Aps : a <= ttableMax /\ a # Bsp
                      /\ {index[a] : a \in Aps} = 1..freeCnt
    BY DEF Counted, Starting
  <2> QED BY DEF BootInv, CountInv
<1>4. BootInv => BootComplete
  BY <1>1, <1>2, <1>3 DEF BootComplete
<1> QED
  BY BootInductive, <1>4, PTL

-----------------------------------------------------------------------------
(* The driver around it.                                                        *)

\* Device_Init and smp_init: nothing of the one is set before its place in the other.
InitInv ==
    /\ initSucc <=> dpc = "done"
    /\ dpc \in {"settings", "cpuid", "needs", "refused", "fault"} =>
          ~kernelFlat /\ ~noTable /\ ~smpValid
    /\ dpc = "smp" => kernelFlat
    /\ kernelFlat => "thread_switch" \in hooks /\ ~noTable
    /\ kernelFlat /\ dpc # "smp" =>
          /\ dpc \in {"report", "done"} /\ bpc \in {"single", "done"}
          /\ bpc = "done" => smpValid /\ {"int3", "pf"} \subseteq hooks

\* smp_init before and after its first loop; each AP has an index of its own.
IndexInv ==
    /\ ~kernelFlat => bpc = "parse"
    /\ bpc = "parse" => cpuCount = 0
    /\ bpc = "single" => cpuCount = 1
    /\ \A a, b \in Aps : index[a] = index[b] => a = b

\* What is enabled and saved when enable_simd has run.
EnabledInv ==
    /\ ~machine.win95 /\ "FXSR" \in machine.bits => "FXSR" \in cr4
    /\ xsaveFlags => "SSE" \in cpuFlags /\ "XSAVE" \in cr4
    /\ dpc \in {"settings", "cpuid"} => ~xsaveFlags
    /\ dpc \in {"needs", "smp", "report", "done"} =>
          /\ "SSE" \in machine.bits => "SSE" \in cpuFlags
          /\ "FXSR" \in machine.bits => /\ ~ini.nosse => "FXSR" \in cr4
                                        /\ machine.win95 => noSysFxsave
    /\ dpc \in {"smp", "report", "done"} /\ "SSE" \in cpuFlags => "thread_switch" \in hooks

\* What the library has got from the driver.
LibInv ==
    /\ lib.address => /\ lib.state = "loaded" /\ lib.vxd = "open"
                      /\ initSucc /\ kernelFlat /\ cpuCount >= 2 /\ lib.cpus = cpuCount
    /\ lib.state = "loaded" /\ ~lib.address => lib.cpus \in {0, 1} /\ lib.vxd # "open"
    /\ lib.features # {} => initSucc /\ lib.features = DiocFeatures

DevInv == BootInv /\ DevTypeOK /\ InitInv /\ IndexInv /\ EnabledInv /\ LibInv

-----------------------------------------------------------------------------

\* The driver's own steps leave the boot alone.
LEMMA DriverStepIsBoot == [DriverNext]_driverVars => [Next]_vars
  BY DEF DriverNext, BootStep, DriverStep, LibStep, driverVars, Next

\* The boot inside Device_Init is the boot of Boot, so all that is shown above holds
\* in the driver as well.
THEOREM DriverBoots == DriverSpec => Spec
  BY DriverStepIsBoot, PTL DEF DriverSpec, DriverInit, Spec

LEMMA MachineFacts ==
    ASSUME DevTypeOK
    PROVE  /\ machine.bits \subseteq Bit /\ machine.win95 \in BOOLEAN
           /\ "AVX" \in machine.bits => {"SSE", "XSAVE", "FXSR"} \subseteq machine.bits
           /\ machine.bits \cap {"SSE2", "LAHF", "SSSE3"} # {} => "SSE" \in machine.bits
           /\ "SSE" \in machine.bits => "FXSR" \in machine.bits
           /\ \A cr : Cpuid(machine, cr) \subseteq Bit
           /\ \A cr : \A b \in Bit \ {"AVX", "OSXSAVE"} :
                 b \in Cpuid(machine, cr) <=> b \in machine.bits
           /\ \A cr : "AVX" \in Cpuid(machine, cr) => "AVX" \in machine.bits
<1>1. machine \in [leaf : Nat, cpuid : BOOLEAN, bits : SUBSET Bit, hidden : BOOLEAN,
                   win95 : BOOLEAN, mpfp : Seq(Pointer), memory : BOOLEAN]
  BY DeviceAssumption DEF DevTypeOK
<1>2. machine.bits \subseteq Bit /\ machine.win95 \in BOOLEAN
  BY <1>1
<1>3. /\ "AVX" \in machine.bits => {"SSE", "XSAVE", "FXSR"} \subseteq machine.bits
      /\ machine.bits \cap {"SSE2", "LAHF", "SSSE3"} # {} => "SSE" \in machine.bits
      /\ "SSE" \in machine.bits => "FXSR" \in machine.bits
  BY DeviceAssumption DEF DevTypeOK
<1>4. \A cr : Cpuid(machine, cr) \subseteq Bit
  BY <1>2 DEF Cpuid, Bit
<1>5. \A cr : \A b \in Bit \ {"AVX", "OSXSAVE"} :
         b \in Cpuid(machine, cr) <=> b \in machine.bits
  BY DEF Cpuid, Bit
<1>6. \A cr : "AVX" \in Cpuid(machine, cr) => "AVX" \in machine.bits
  BY DEF Cpuid
<1> QED
  BY <1>2, <1>3, <1>4, <1>5, <1>6

LEMMA InitDevice == DriverInit => DevInv
<1> SUFFICES ASSUME DriverInit PROVE DevInv
  OBVIOUS
<1> USE DEF DriverInit
<1>1. BootInv
  BY InitBoot
<1>2. DevTypeOK
  <2>1. machine \in Machines /\ ini \in [noavx : BOOLEAN, nosse : BOOLEAN, one : BOOLEAN]
    BY DeviceAssumption DEF DevInit
  <2>2. lib \in [state : {"none", "loaded", "closed"}, vxd : {"none", "open", "stale"}, cpus : Nat,
                 address : BOOLEAN, features : SUBSET {"SMPVXD", "MMX", "SSE", "AVX"}]
    BY DEF DevInit, NoLib
  <2> QED BY <2>1, <2>2 DEF DevInit, DevTypeOK
<1>3. InitInv /\ EnabledInv
  BY DEF DevInit, InitInv, EnabledInv
<1>4. IndexInv
  BY DEF DevInit, Init, IndexInv, Aps
<1>5. LibInv
  BY DEF DevInit, LibInv, NoLib
<1> QED
  BY <1>1, <1>2, <1>3, <1>4, <1>5 DEF DevInv

\* A step of the boot, in Device_Init's call of smp_init or of an AP on its own.
LEMMA BootStepDevice == DevInv /\ BootStep => DevInv'
<1> SUFFICES ASSUME DevInv, BootStep PROVE DevInv'
  OBVIOUS
<1> USE DEF DevInv
<1>1. UNCHANGED <<machine, ini, dpc, cr4, cpuFlags, noSysFxsave, xsaveFlags, hooks, kernelFlat,
                  noTable, smpValid, initSucc, lib>>
  BY DEF BootStep, devVars
<1>2. BootInv'
  BY NextBoot DEF BootStep, Next
<1>3. DevTypeOK' /\ EnabledInv'
  BY <1>1 DEF DevTypeOK, EnabledInv
<1>4. CASE dpc = "smp" /\ BspNext
  <2>1. kernelFlat /\ ~initSucc /\ ~lib.address /\ lib.features = {}
    BY <1>4 DEF InitInv, LibInv
  <2>2. InitInv'
    BY <1>1, <1>4 DEF InitInv
  <2>3. LibInv'
    BY <1>1, <2>1 DEF LibInv
  <2>4. TypeOK /\ apCount \in Nat
    BY DEF BootInv, TypeOK
  <2>5. /\ bpc' = "parse" => bpc = "parse" /\ UNCHANGED cpuCount
        /\ bpc' = "single" => (bpc = "single" /\ UNCHANGED cpuCount) \/ cpuCount' = 1
    BY <1>4, <2>4 DEF BspNext, ParseAp, ParseApBase, ParseOther, ParseEnd, Place, Skip, SetUp, SetUpBase,
       SendInit, SendStartup1, SendStartup2, Booted, Restore, countVars
  <2>6. ASSUME NEW a \in Aps', NEW b \in Aps', index'[a] = index'[b]
        PROVE  a = b
    <3>1. CASE ParseAp
      <4> DEFINE id == mp[k].id
      <4>1. index' = [index EXCEPT ![id] = apCount + 1] /\ id \in Id
        <5>1. k \in 1..Len(mp)
          BY <2>4, <3>1, TableFacts DEF ParseAp, ParseApBase, TypeOK
        <5> QED BY <2>4, <3>1, <5>1, TableFacts DEF ParseAp, ParseApBase, Entry
      <4>2. \A c \in Aps : index[c] \in 1..apCount
        BY DEF BootInv, CountInv
      <4>3. \A c \in Aps' : c = id \/ (c \in Aps /\ index'[c] = index[c])
        BY <2>4, <4>1 DEF Aps, TypeOK
      <4>4. index'[id] = apCount + 1
        BY <2>4, <4>1 DEF TypeOK
      <4> QED BY <2>4, <2>6, <4>2, <4>3, <4>4 DEF IndexInv
    <3>2. CASE ~ParseAp
      <4>1. UNCHANGED index
        BY <1>4, <3>2 DEF BspNext, ParseOther, ParseEnd, Place, Skip, SetUp, SetUpBase,
           SendInit, SendStartup1, SendStartup2, Booted, Restore, tableVars
      <4> QED BY <2>6, <4>1 DEF IndexInv, Aps
    <3> QED BY <3>1, <3>2
  <2>7. IndexInv'
    BY <1>1, <2>1, <2>5, <2>6 DEF IndexInv
  <2> QED BY <1>2, <1>3, <2>2, <2>3, <2>7
<1>5. CASE \E a \in Id : ApNext(a)
  <2>1. UNCHANGED <<bpc, cpuCount, index>>
    BY <1>5 DEF ApNext, LoadVars, WriteJump, LoadGdt, FarJump, Unlock, MainLocks, MainStays,
       MainSleeps, tableVars, countVars
  <2>2. InitInv' /\ IndexInv'
    BY <1>1, <2>1 DEF InitInv, IndexInv, Aps
  <2>3. LibInv'
    BY <1>1, <2>1 DEF LibInv, DiocFeatures
  <2> QED BY <1>2, <1>3, <2>2, <2>3
<1> QED
  BY <1>4, <1>5 DEF BootStep

\* A step of Device_Init itself.
LEMMA DriverStepDevice == DevInv /\ DriverStep => DevInv'
<1> SUFFICES ASSUME DevInv, DriverStep PROVE DevInv'
  OBVIOUS
<1> USE DEF DevInv
<1>1. /\ UNCHANGED <<vars, lib, machine>> /\ UNCHANGED <<bpc, cpuCount, index>>
      /\ DeviceInit /\ DevTypeOK
  BY DEF DriverStep, vars, tableVars, countVars, DeviceInit, ReadSettings, NoCpuid, XsetbvFaults,
     EnableXsave, EnableSse, TooOld, SmpEarly, SmpStarts, SmpReturns, OneProcessor,
     OneProcessorBase, Report
<1>2. BootInv'
  BY <1>1, NextBoot
<1>3. dpc # "done" /\ ~initSucc /\ ~lib.address /\ lib.features = {}
  BY <1>1 DEF InitInv, LibInv, DeviceInit, ReadSettings, NoCpuid, XsetbvFaults, HasCpuid, WantsXsave,
     EnableXsave, EnableSse, TooOld, Suffices, SmpEarly, SmpStarts, SmpReturns, OneProcessor,
     OneProcessorBase, Report
<1>4. LibInv'
  BY <1>1, <1>3 DEF LibInv
<1>5. CASE ReadSettings
  <2>1. /\ dpc = "settings" /\ dpc' = "cpuid" /\ ini' = [ini EXCEPT !.noavx = ini.noavx \/ ini.nosse]
        /\ UNCHANGED <<cr4, cpuFlags, noSysFxsave, xsaveFlags, hooks, kernelFlat, noTable,
                       smpValid, initSucc>>
    BY <1>5 DEF ReadSettings
  <2>2. DevTypeOK'
    BY <1>1, <2>1 DEF DevTypeOK
  <2>3. InitInv' /\ IndexInv' /\ EnabledInv'
    BY <1>1, <2>1 DEF InitInv, IndexInv, EnabledInv, Aps
  <2> QED BY <1>2, <1>4, <2>2, <2>3
<1>6. CASE NoCpuid \/ TooOld
  <2>1. /\ dpc \in {"cpuid", "needs"} /\ dpc' = "refused"
        /\ UNCHANGED <<ini, cr4, cpuFlags, noSysFxsave, xsaveFlags, hooks, kernelFlat, noTable,
                       smpValid, initSucc>>
    BY <1>6 DEF NoCpuid, TooOld
  <2>2. DevTypeOK'
    BY <1>1, <2>1 DEF DevTypeOK
  <2>3. InitInv' /\ IndexInv' /\ EnabledInv'
    BY <1>1, <2>1 DEF InitInv, IndexInv, EnabledInv, Aps
  <2> QED BY <1>2, <1>4, <2>2, <2>3
<1>7. CASE XsetbvFaults \/ EnableXsave \/ EnableSse
  <2>1. /\ dpc = "cpuid" /\ dpc' \in {"fault", "needs"}
        /\ UNCHANGED <<ini, hooks, kernelFlat, noTable, smpValid, initSucc>>
    BY <1>7 DEF XsetbvFaults, EnableXsave, EnableSse, WantsXsave, HasCpuid
  <2>2. PICK cr : cpuFlags' = Cpuid(machine, cr)
    BY <1>7 DEF XsetbvFaults, EnableXsave, EnableSse
  <2>3. cr4 \subseteq cr4' /\ cr4' \subseteq {"FXSR", "XSAVE"}
    BY <1>1, <1>7 DEF XsetbvFaults, EnableXsave, EnableSse, DevTypeOK
  <2>4. noSysFxsave' \in BOOLEAN /\ xsaveFlags' \in BOOLEAN
    <3>1. CASE XsetbvFaults
      BY <1>1, <3>1, MachineFacts DEF XsetbvFaults, DevTypeOK
    <3>2. CASE EnableXsave
      BY <1>1, <3>2, MachineFacts DEF EnableXsave
    <3>3. CASE EnableSse
      BY <1>1, <3>3, MachineFacts DEF EnableSse, DevTypeOK
    <3> QED BY <1>7, <3>1, <3>2, <3>3
  <2>5. DevTypeOK'
    BY <1>1, <2>1, <2>2, <2>3, <2>4, MachineFacts DEF DevTypeOK
  <2>6. InitInv' /\ IndexInv'
    BY <1>1, <2>1 DEF InitInv, IndexInv, Aps
  <2>7. \A b \in Bit \ {"AVX", "OSXSAVE"} : b \in cpuFlags' <=> b \in machine.bits
    BY <1>1, <2>2, MachineFacts
  <2>8. xsaveFlags' => "SSE" \in cpuFlags' /\ "XSAVE" \in cr4'
    <3>1. CASE EnableXsave
      <4>1. xsaveFlags' => "AVX" \in machine.bits
        BY <1>1, <2>2, <3>1, MachineFacts DEF EnableXsave
      <4>2. "SSE" \in Bit \ {"AVX", "OSXSAVE"}
        BY DEF Bit
      <4> QED BY <1>1, <2>7, <3>1, <4>1, <4>2, MachineFacts DEF EnableXsave
    <3>2. CASE XsetbvFaults \/ EnableSse
      <4>1. UNCHANGED xsaveFlags
        BY <3>2 DEF XsetbvFaults, EnableSse
      <4>2. "SSE" \in Bit \ {"AVX", "OSXSAVE"}
        BY DEF Bit
      <4>3. ~xsaveFlags
        BY <2>1 DEF EnabledInv
      <4> QED BY <4>1, <4>3
    <3> QED BY <1>7, <3>1, <3>2
  <2>9. dpc' = "needs" /\ "FXSR" \in machine.bits => /\ ~ini.nosse => "FXSR" \in cr4'
                                                     /\ machine.win95 => noSysFxsave'
    <3>1. CASE EnableXsave
      BY <3>1 DEF EnableXsave
    <3>2. CASE EnableSse
      <4>1. "FXSR" \in Bit \ {"AVX", "OSXSAVE"}
        BY DEF Bit
      <4> QED BY <1>1, <2>7, <3>2, <4>1 DEF EnableSse
    <3>3. CASE XsetbvFaults
      BY <3>3 DEF XsetbvFaults
    <3> QED BY <1>7, <3>1, <3>2, <3>3
  <2>10. EnabledInv'
    <3>1. "SSE" \in Bit \ {"AVX", "OSXSAVE"}
      BY DEF Bit
    <3>2. ~machine.win95 /\ "FXSR" \in machine.bits => "FXSR" \in cr4'
      BY <2>3 DEF EnabledInv
    <3>3. "SSE" \in machine.bits => "SSE" \in cpuFlags'
      BY <2>7, <3>1
    <3> QED BY <1>1, <2>1, <2>8, <2>9, <3>2, <3>3 DEF EnabledInv
  <2> QED BY <1>2, <1>4, <2>5, <2>6, <2>10
<1>8. CASE SmpEarly \/ SmpStarts \/ OneProcessor
  <2>1. /\ dpc = "needs" /\ dpc' \in {"smp", "report"} /\ ~kernelFlat
        /\ UNCHANGED <<ini, cr4, cpuFlags, noSysFxsave, xsaveFlags, smpValid, initSucc>>
        /\ hooks \subseteq hooks' /\ hooks' \subseteq hooks \cup {"thread_switch"}
        /\ "SSE" \in cpuFlags => "thread_switch" \in hooks'
    BY <1>8 DEF SmpEarly, SmpStarts, OneProcessor, OneProcessorBase, Suffices, InitInv
  <2>2. /\ noTable' \in BOOLEAN /\ kernelFlat' \in BOOLEAN
        /\ dpc' = "smp" => kernelFlat'
        /\ kernelFlat' => "thread_switch" \in hooks' /\ ~noTable' /\ dpc' = "smp"
    <3>1. CASE SmpEarly
      BY <1>1, <2>1, <3>1 DEF SmpEarly, DevTypeOK
    <3>2. CASE SmpStarts
      BY <1>1, <2>1, <3>2 DEF SmpStarts, InitInv, DevTypeOK
    <3>3. CASE OneProcessor
      BY <1>1, <2>1, <3>3 DEF OneProcessor, OneProcessorBase, DevTypeOK
    <3> QED BY <1>8, <3>1, <3>2, <3>3
  <2>3. DevTypeOK'
    BY <1>1, <2>1, <2>2 DEF DevTypeOK
  <2>4. InitInv' /\ IndexInv' /\ EnabledInv'
    BY <1>1, <2>1, <2>2 DEF InitInv, IndexInv, EnabledInv, Aps
  <2> QED BY <1>2, <1>4, <2>3, <2>4
<1>9. CASE SmpReturns
  <2>1. /\ dpc = "smp" /\ dpc' = "report" /\ bpc \in {"single", "done"}
        /\ UNCHANGED <<ini, cr4, cpuFlags, noSysFxsave, xsaveFlags, kernelFlat, noTable, initSucc>>
        /\ hooks \subseteq hooks' /\ hooks' \subseteq hooks \cup {"int3", "pf", "timer"}
        /\ bpc = "done" => smpValid' /\ {"int3", "pf"} \subseteq hooks'
        /\ smpValid' \in BOOLEAN
    BY <1>1, <1>9 DEF SmpReturns, DevTypeOK
  <2>2. DevTypeOK'
    BY <1>1, <2>1 DEF DevTypeOK
  <2>3. InitInv' /\ IndexInv' /\ EnabledInv'
    BY <1>1, <2>1 DEF InitInv, IndexInv, EnabledInv, Aps
  <2> QED BY <1>2, <1>4, <2>2, <2>3
<1>10. CASE Report
  <2>1. /\ dpc = "report" /\ dpc' = "done" /\ initSucc'
        /\ UNCHANGED <<ini, cr4, cpuFlags, noSysFxsave, xsaveFlags, hooks, kernelFlat, noTable,
                       smpValid>>
    BY <1>10 DEF Report
  <2>2. DevTypeOK'
    BY <1>1, <1>10, <2>1 DEF DevTypeOK, Report
  <2>3. InitInv' /\ IndexInv' /\ EnabledInv'
    BY <1>1, <2>1 DEF InitInv, IndexInv, EnabledInv, Aps
  <2> QED BY <1>2, <1>4, <2>2, <2>3
<1> QED
  BY <1>1, <1>5, <1>6, <1>7, <1>8, <1>9, <1>10 DEF DeviceInit

\* A step of the library.
LEMMA LibStepDevice == DevInv /\ LibStep => DevInv'
<1> SUFFICES ASSUME DevInv, LibStep PROVE DevInv'
  OBVIOUS
<1> USE DEF DevInv
<1>1. /\ UNCHANGED <<vars, machine, ini, dpc, cr4, cpuFlags, noSysFxsave, xsaveFlags, hooks,
                     kernelFlat, noTable, smpValid, initSucc, bpc, cpuCount, index>>
      /\ DevTypeOK /\ cpuCount \in Nat
  BY DEF LibStep, devVars, vars, tableVars, countVars, BootInv, TypeOK
<1>2. BootInv'
  BY <1>1, NextBoot
<1>3. InitInv' /\ IndexInv' /\ EnabledInv'
  BY <1>1 DEF InitInv, IndexInv, EnabledInv, Aps
<1>4. DiocCount \in Nat /\ DiocFeatures' = DiocFeatures
      /\ DiocFeatures \in SUBSET {"SMPVXD", "MMX", "SSE", "AVX"}
  BY <1>1 DEF DiocCount, DiocFeatures
<1>5. CASE Smp9xInit
  <2> DEFINE usable == DiocCount >= 2 /\ kernelFlat
  <2>1. /\ lib' = [state |-> "loaded", vxd |-> IF usable THEN "open" ELSE "stale",
                   cpus |-> DiocCount, address |-> usable, features |-> DiocFeatures]
        /\ initSucc
    BY <1>5 DEF Smp9xInit, Smp9xInitBase
  <2>2. usable \in BOOLEAN
    OBVIOUS
  <2>3. DevTypeOK'
    BY <1>1, <1>4, <2>1, <2>2 DEF DevTypeOK
  <2>4. usable => cpuCount = DiocCount /\ cpuCount >= 2
    BY <1>1 DEF InitInv, DiocCount
  <2>5. ~usable => DiocCount \in {0, 1}
    BY <1>1, <1>4 DEF IndexInv, DiocCount
  <2>6. LibInv'
    BY <1>1, <1>4, <2>1, <2>4, <2>5 DEF LibInv
  <2> QED BY <1>2, <1>3, <2>3, <2>6
<1>6. CASE Smp9xNoDriver
  <2>1. lib' = [state |-> "loaded", vxd |-> "none", cpus |-> 0, address |-> FALSE, features |-> {}]
    BY <1>6 DEF Smp9xNoDriver, NoLib
  <2> QED BY <1>1, <1>2, <1>3, <2>1 DEF DevTypeOK, LibInv
<1>7. CASE Smp9xClose
  <2>1. lib' = [lib EXCEPT !.state = "closed", !.vxd = "none", !.address = FALSE]
    BY <1>7 DEF Smp9xClose
  <2>2. DevTypeOK'
    BY <1>1, <2>1 DEF DevTypeOK
  <2>3. LibInv'
    BY <1>1, <1>4, <2>1 DEF LibInv, DevTypeOK
  <2> QED BY <1>2, <1>3, <2>2, <2>3
<1> QED
  BY <1>5, <1>6, <1>7 DEF LibStep

LEMMA NextDevice == DevInv /\ [DriverNext]_driverVars => DevInv'
<1> SUFFICES ASSUME DevInv, [DriverNext]_driverVars PROVE DevInv'
  OBVIOUS
<1>1. CASE DriverNext
  BY <1>1, BootStepDevice, DriverStepDevice, LibStepDevice DEF DriverNext
<1>2. CASE UNCHANGED driverVars
  <2>1. UNCHANGED <<vars, machine, ini, dpc, cr4, cpuFlags, noSysFxsave, xsaveFlags, hooks,
                    kernelFlat, noTable, smpValid, initSucc, lib, bpc, cpuCount, index>>
    BY <1>2 DEF driverVars, devVars, vars, tableVars, countVars
  <2>2. BootInv'
    BY <2>1, NextBoot DEF DevInv
  <2> QED BY <2>1, <2>2 DEF DevInv, DevTypeOK, InitInv, IndexInv, EnabledInv, LibInv, Aps, DiocFeatures
<1> QED
  BY <1>1, <1>2

LEMMA DeviceInductive == DriverSpec => []DevInv
  BY InitDevice, NextDevice, PTL DEF DriverSpec

-----------------------------------------------------------------------------

\* The variables of Device_Init and of the library keep their types.
THEOREM DeviceTyped == DriverSpec => []DevTypeOK
<1>1. DevInv => DevTypeOK
  BY DEF DevInv
<1> QED
  BY DeviceInductive, <1>1, PTL

\* Whatever CPUID, system.ini and the version of Windows say and however Device_Init
\* ended: what smp9x_IsProcessorFeaturePresent tells a program, it can use.
THEOREM ReportsAreUsable == DriverSpec => []ReportedIsUsable
<1>1. DevInv => ReportedIsUsable
  <2> SUFFICES ASSUME DevInv, lib.state = "loaded"
               PROVE  /\ \A f \in SseFeature : IsProcessorFeaturePresent(f) =>
                            (machine.win95 /\ ini.nosse) \/ (SseEnabled /\ SseSaved)
                      /\ \A f \in AvxFeature : IsProcessorFeaturePresent(f) => AvxEnabled /\ AvxSaved
    BY DEF ReportedIsUsable
  <2>1. DevTypeOK /\ InitInv /\ EnabledInv /\ LibInv
    BY DEF DevInv
  <2>2. "SSE" \in lib.features => /\ dpc = "done" /\ "SSE" \in cpuFlags
                                  /\ "thread_switch" \in hooks
    BY <2>1 DEF LibInv, InitInv, EnabledInv, DiocFeatures
  <2>3. "AVX" \in lib.features => dpc = "done" /\ xsaveFlags
    BY <2>1 DEF LibInv, InitInv, DiocFeatures
  <2>4. ASSUME NEW f \in SseFeature, IsProcessorFeaturePresent(f)
        PROVE  (machine.win95 /\ ini.nosse) \/ (SseEnabled /\ SseSaved)
    <3>1. TestedBit[f] \in {"SSE", "SSE2", "LAHF", "SSSE3"} /\ TestedBit[f] \in Bit \ {"AVX", "OSXSAVE"}
      BY DEF SseFeature, TestedBit, Bit
    <3>2. TestedBit[f] \in Cpuid(machine, cr4) /\ (machine.win95 => "SSE" \in lib.features)
      BY <2>4 DEF IsProcessorFeaturePresent
    <3>3. TestedBit[f] \in machine.bits
      BY <2>1, <3>1, <3>2, MachineFacts
    <3>4. "FXSR" \in machine.bits
      BY <2>1, <3>1, <3>3, MachineFacts
    <3>5. CASE ~machine.win95
      BY <2>1, <3>4, <3>5 DEF EnabledInv, SseEnabled, SseSaved
    <3>6. CASE machine.win95
      BY <2>1, <2>2, <3>2, <3>4, <3>6 DEF EnabledInv, SseEnabled, SseSaved
    <3> QED BY <3>5, <3>6
  <2>5. ASSUME NEW f \in AvxFeature, IsProcessorFeaturePresent(f)
        PROVE  AvxEnabled /\ AvxSaved
    <3>1. "AVX" \in lib.features
      BY <2>5 DEF IsProcessorFeaturePresent
    <3> QED BY <2>1, <2>3, <3>1 DEF EnabledInv, AvxEnabled, AvxSaved
  <2> QED BY <2>4, <2>5
<1> QED
  BY DeviceInductive, <1>1, PTL

\* A library that may execute fly() finds the handlers, an open handle, a free AP, and
\* all APs up.
THEOREM FlyIsHandled == DriverSpec => []FlyHandled
<1>1. DevInv => FlyHandled
  <2> SUFFICES ASSUME DevInv, lib.address
               PROVE  /\ lib.vxd = "open" /\ smpValid
                      /\ {"thread_switch", "int3", "pf"} \subseteq hooks
                      /\ freeCnt >= 1 /\ \A a \in Aps : apc[a] \in Up
    BY DEF FlyHandled
  <2>1. /\ lib.vxd = "open" /\ initSucc /\ kernelFlat /\ cpuCount >= 2 /\ dpc = "done"
        /\ bpc \in {"single", "done"}
    BY DEF DevInv, LibInv, InitInv
  <2>2. bpc = "done"
    BY <2>1 DEF DevInv, IndexInv
  <2>3. smpValid /\ {"thread_switch", "int3", "pf"} \subseteq hooks
    BY <2>1, <2>2 DEF DevInv, InitInv
  <2>4. freeCnt >= 1
    BY <2>1, <2>2 DEF DevInv, BootInv, CountInv, TypeOK
  <2>5. \A a \in Aps : a \in Nat /\ i \in Nat /\ ttableMax \in Nat
    BY BootAssumption DEF DevInv, BootInv, TypeOK, Aps, Id
  <2>6. \A a \in Aps : a \in Id /\ a < i
    BY <2>2, <2>5 DEF DevInv, BootInv, PhaseInv, CountInv, Aps
  <2>7. \A a \in Aps : apc[a] \in Up
    BY <2>6 DEF DevInv, BootInv, OrderInv
  <2> QED BY <2>1, <2>3, <2>4, <2>7
<1> QED
  BY DeviceInductive, <1>1, PTL

\* The numbers of the processors, their count and whose usage is answered agree, though
\* four different calls tell them.
THEOREM NumbersCorrect == DriverSpec => []NumbersAgree
<1>1. DevInv => NumbersAgree
  <2> SUFFICES ASSUME DevInv, lib.state = "loaded"
               PROVE  /\ {CurrentProcessorNumber(p) : p \in Runs} = Mask
                      /\ \A p, q \in Runs :
                            CurrentProcessorNumber(p) = CurrentProcessorNumber(q) => p = q
                      /\ lib.vxd = "open" => \A u \in 0..(MaxId + 2) :
                            /\ Stats(u) # Dos <=> u < Cpus
                            /\ \A p \in Runs : CurrentProcessorNumber(p) = u => Stats(u) = p
    BY DEF NumbersAgree
  <2>1. CASE ~lib.address
    <3>1. lib.cpus \in {0, 1} /\ lib.vxd # "open"
      BY <2>1 DEF DevInv, LibInv
    <3>2. Cpus = 1 /\ Mask = {0}
      BY <3>1 DEF Cpus, Mask
    <3>3. Runs = {Bsp} /\ CurrentProcessorNumber(Bsp) = 0
      BY <2>1 DEF Runs, CurrentProcessorNumber
    <3> QED BY <3>1, <3>2, <3>3
  <2>2. CASE lib.address
    <3>1. /\ kernelFlat /\ initSucc /\ cpuCount >= 2 /\ lib.cpus = cpuCount /\ dpc = "done"
          /\ lib.vxd = "open" /\ bpc = "done"
      BY <2>2 DEF DevInv, LibInv, InitInv, IndexInv
    <3>2. /\ apCount \in Nat /\ cpuCount = apCount + 1 /\ {index[a] : a \in Aps} = 1..apCount
          /\ \A a \in Aps : a \in Id /\ a <= ttableMax /\ a # Bsp
      BY <3>1 DEF DevInv, BootInv, TypeOK, CountInv, Aps
    <3>3. Cpus = apCount + 1 /\ Mask = 0..apCount
      BY <3>1, <3>2 DEF Cpus, Mask
    <3>4. /\ Runs = {Bsp} \cup Aps /\ CurrentProcessorNumber(Bsp) = 0
          /\ \A a \in Aps : CurrentProcessorNumber(a) = index[a] /\ index[a] \in 1..apCount
      BY <2>2, <3>2 DEF Runs, CurrentProcessorNumber
    <3>5. \A a, b \in Aps : index[a] = index[b] => a = b
      BY DEF DevInv, IndexInv
    <3>6. {CurrentProcessorNumber(p) : p \in Runs} = Mask
      <4>1. {CurrentProcessorNumber(p) : p \in Runs} = {0} \cup {index[a] : a \in Aps}
        BY <3>4
      <4>2. 0..apCount = {0} \cup 1..apCount
        BY <3>2
      <4> QED BY <3>2, <3>3, <4>1, <4>2
    <3>7. \A p, q \in Runs : CurrentProcessorNumber(p) = CurrentProcessorNumber(q) => p = q
      BY <3>2, <3>4, <3>5
    <3>8. \A u : Stats(u) = DiocStats(u)
      BY <3>1 DEF Stats
    <3>9. Dos # Bsp /\ Bsp \in Id /\ Dos \notin Id
      BY BootAssumption
    <3>10. DiocStats(0) = Bsp
      BY DEF DiocStats, DiocStatsIn
    <3>11. ASSUME NEW a \in Aps PROVE DiocStats(index[a]) = a
      <4> DEFINE at == {b \in Id \cap 0..ttableMax : index[b] = index[a]}
      <4>1. a \in Id /\ a \in Nat /\ a <= ttableMax /\ ttableMax \in Nat
        BY <3>2, BootAssumption DEF DevInv, BootInv, TypeOK, Id
      <4>2. at = {a}
        BY <3>4, <3>5, <4>1 DEF Aps
      <4>3. index[a] # 0
        BY DEF Aps
      <4>4. DiocStats(index[a]) = IF at = {} THEN Dos ELSE CHOOSE c \in at : \A b \in at : c <= b
        BY <4>3 DEF DiocStats, DiocStatsIn
      <4> HIDE DEF at
      <4>5. (CHOOSE c \in at : \A b \in at : c <= b) = a
        BY <4>1, <4>2
      <4> QED BY <4>2, <4>4, <4>5
    <3>12. ASSUME NEW u \in 0..(MaxId + 2)
           PROVE  /\ Stats(u) # Dos <=> u < Cpus
                  /\ \A p \in Runs : CurrentProcessorNumber(p) = u => Stats(u) = p
      <4>1. u \in Nat
        BY BootAssumption
      <4>2. CASE u = 0
        BY <3>2, <3>3, <3>4, <3>8, <3>9, <3>10, <4>2
      <4>3. CASE u \in 1..apCount
        <5>1. PICK a \in Aps : index[a] = u
          BY <3>2, <4>3
        <5>2. Stats(u) = a /\ a # Dos
          BY <3>2, <3>8, <3>9, <3>11, <5>1
        <5>3. u < Cpus /\ u # 0
          BY <3>2, <3>3, <4>3
        <5> QED BY <3>4, <3>5, <5>1, <5>2, <5>3
      <4>4. CASE u > apCount
        <5>1. ~(u < Cpus) /\ u # 0 /\ \A p \in Runs : CurrentProcessorNumber(p) # u
          BY <3>2, <3>3, <3>4, <4>1, <4>4
        <5>2. {b \in Id \cap 0..ttableMax : index[b] = u} = {}
          BY <3>2, <3>4, <4>1, <4>4, <5>1 DEF Aps
        <5>3. Stats(u) = Dos
          BY <3>8, <5>1, <5>2 DEF DiocStats, DiocStatsIn
        <5> QED BY <5>1, <5>3
      <4> QED BY <3>2, <4>1, <4>2, <4>3, <4>4
    <3> QED BY <3>6, <3>7, <3>12
  <2> QED BY <2>1, <2>2
<1> QED
  BY DeviceInductive, <1>1, PTL

-----------------------------------------------------------------------------
(* The sum.                                                                 *)

\* Induction over the naturals, for a set.
LEMMA Induction ==
    ASSUME NEW P, 0 \in P, \A n \in Nat : n \in P => n + 1 \in P
    PROVE  Nat \subseteq P
<1> DEFINE lt == OpToRel(<, Nat)
           T  == Nat \ P
<1>1. SUFFICES ASSUME T # {} PROVE FALSE
  OBVIOUS
<1>2. IsWellFoundedOn(lt, Nat)
  BY NatLessThanWellFounded
<1>3. PICK m \in T : \A n \in T : <<n, m>> \notin lt
  <2> HIDE DEF lt
  <2> QED BY <1>1, <1>2, WFMin
<1>4. lt = {p \in Nat \X Nat : p[1] < p[2]}
  BY DEF OpToRel
<1> HIDE DEF lt
<1>5. \A n \in T : ~(n < m)
  BY <1>3, <1>4
<1>6. m # 0 /\ m - 1 \in Nat /\ m - 1 \notin T
  BY <1>5
<1> QED
  BY <1>6

\* The body of the recursion of SumOf.
Counts(st, u) == IF st[u].known THEN st[u].result ELSE 0
Adds(st, f, e) == IF e = 0 THEN 0 ELSE f[e - 1] + Counts(st, e - 1)

\* The recursion has a solution.
LEMMA AddsExists ==
    ASSUME NEW st, NEW n \in Nat
    PROVE  \E f : f = [e \in 0..n |-> Adds(st, f, e)]
<1> DEFINE P == {m \in Nat : \E f : f = [e \in 0..m |-> Adds(st, f, e)]}
<1>1. 0 \in P
  <2>1. [e \in 0..0 |-> 0] = [e \in 0..0 |-> Adds(st, [j \in 0..0 |-> 0], e)]
    BY DEF Adds
  <2> QED BY <2>1
<1>2. ASSUME NEW m \in Nat, m \in P PROVE m + 1 \in P
  <2>1. PICK f : f = [e \in 0..m |-> Adds(st, f, e)]
    BY <1>2
  <2> DEFINE g == [e \in 0..(m + 1) |-> IF e = m + 1 THEN Adds(st, f, m + 1) ELSE f[e]]
  <2>2. \A e \in 0..m : g[e] = f[e] /\ f[e] = Adds(st, f, e)
    BY <2>1
  <2>3. ASSUME NEW e \in 0..(m + 1) PROVE g[e] = Adds(st, g, e)
    <3>1. e # 0 => e - 1 \in 0..m /\ g[e - 1] = f[e - 1]
      BY <2>2
    <3>2. Adds(st, g, e) = Adds(st, f, e)
      BY <3>1 DEF Adds
    <3>3. e # m + 1 => e \in 0..m
      OBVIOUS
    <3> QED BY <2>2, <3>2, <3>3
  <2>4. g = [e \in 0..(m + 1) |-> Adds(st, g, e)]
    <3>1. g = [e \in 0..(m + 1) |-> g[e]]
      OBVIOUS
    <3> QED BY <2>3, <3>1
  <2>5. \E h : h = [e \in 0..(m + 1) |-> Adds(st, h, e)]
    <3> HIDE DEF g
    <3> QED BY <2>4
  <2> QED BY <2>5
<1>3. Nat \subseteq P
  <2> HIDE DEF P
  <2> QED BY <1>1, <1>2, Induction
<1> QED
  BY <1>3

\* SumOf adds up what the processors count for, one after the other.
LEMMA SumIs ==
    ASSUME NEW st
    PROVE  \E f : SumOf(st) = f[Procs] /\ \A e \in 0..Procs : f[e] = Adds(st, f, e)
<1> DEFINE f == CHOOSE h : h = [e \in 0..Procs |-> Adds(st, h, e)]
<1>1. SumOf(st) = f[Procs]
  BY DEF SumOf, Adds, Counts
<1>2. f = [e \in 0..Procs |-> Adds(st, f, e)]
  <2> DEFINE Q(h) == h = [e \in 0..Procs |-> Adds(st, h, e)]
  <2>1. \E h : Q(h)
    BY AddsExists, CpuMonitorAssumption
  <2>2. f = CHOOSE h : Q(h)
    OBVIOUS
  <2>3. Q(f)
    <3> HIDE DEF f, Q
    <3> QED BY <2>1, <2>2
  <2> QED BY <2>3
<1> HIDE DEF f
<1>3. \A e \in 0..Procs : f[e] = Adds(st, f, e)
  BY <1>2
<1> QED
  BY <1>1, <1>3

Readings == [Unit -> [known : BOOLEAN, result : Usage]]

\* The sum of nothing read.
LEMMA SumOfNone == SumOf(NoneRead) = 0
<1>1. PICK f : SumOf(NoneRead) = f[Procs] /\ \A e \in 0..Procs : f[e] = Adds(NoneRead, f, e)
  BY SumIs
<1> DEFINE P == {n \in Nat : n <= Procs => f[n] = 0}
<1>2. 0 \in P
  BY <1>1, CpuMonitorAssumption DEF Adds
<1>3. ASSUME NEW n \in Nat, n \in P PROVE n + 1 \in P
  <2> SUFFICES ASSUME n + 1 <= Procs PROVE f[n + 1] = 0
    OBVIOUS
  <2>1. n + 1 \in 0..Procs /\ n \in Unit /\ n <= Procs
    BY CpuMonitorAssumption DEF Unit
  <2>2. Counts(NoneRead, n) = 0
    BY <2>1 DEF Counts, NoneRead, NoData
  <2> QED BY <1>1, <1>3, <2>1, <2>2 DEF Adds
<1>4. Procs \in P
  <2> HIDE DEF P
  <2> QED BY <1>2, <1>3, Induction, CpuMonitorAssumption
<1> QED
  BY <1>1, <1>4

\* One more processor is read: the sum grows by what it counts for.
LEMMA SumOfRead ==
    ASSUME NEW st \in Readings, NEW v \in Unit, st[v] = NoData,
           NEW r \in [known : BOOLEAN, result : Usage]
    PROVE  /\ SumOf(st) \in Nat
           /\ SumOf([st EXCEPT ![v] = r]) = SumOf(st) + (IF r.known THEN r.result ELSE 0)
<1> DEFINE new == [st EXCEPT ![v] = r]
           c   == IF r.known THEN r.result ELSE 0
<1>1. PICK f : SumOf(st) = f[Procs] /\ \A e \in 0..Procs : f[e] = Adds(st, f, e)
  BY SumIs
<1>2. PICK g : SumOf(new) = g[Procs] /\ \A e \in 0..Procs : g[e] = Adds(new, g, e)
  BY SumIs
<1>3. \A u \in Unit : /\ Counts(st, u) \in Nat
                      /\ Counts(new, u) = IF u = v THEN c ELSE Counts(st, u)
  BY CpuMonitorAssumption DEF Counts, Readings, Usage
<1>4. Counts(st, v) = 0 /\ c \in Nat
  BY CpuMonitorAssumption DEF Counts, NoData, Usage
<1> HIDE DEF new, c
<1> DEFINE P == {n \in Nat : n <= Procs => f[n] \in Nat /\ g[n] = f[n] + (IF n > v THEN c ELSE 0)}
<1>5. 0 \in P
  <2>1. f[0] = 0 /\ g[0] = 0
    BY <1>1, <1>2, CpuMonitorAssumption DEF Adds
  <2> QED BY <2>1 DEF Unit
<1>6. ASSUME NEW n \in Nat, n \in P PROVE n + 1 \in P
  <2> SUFFICES ASSUME n + 1 <= Procs
               PROVE  f[n + 1] \in Nat /\ g[n + 1] = f[n + 1] + (IF n + 1 > v THEN c ELSE 0)
    OBVIOUS
  <2>1. n + 1 \in 0..Procs /\ n \in Unit /\ n <= Procs /\ v \in Nat
    BY CpuMonitorAssumption DEF Unit
  <2>2. f[n + 1] = f[n] + Counts(st, n) /\ g[n + 1] = g[n] + Counts(new, n)
    BY <1>1, <1>2, <2>1 DEF Adds
  <2>3. PICK x, y, z : x = f[n] /\ y = Counts(st, n) /\ z = Counts(new, n)
    OBVIOUS
  <2>4. x \in Nat /\ g[n] = x + (IF n > v THEN c ELSE 0)
    BY <1>6, <2>1, <2>3
  <2>5. y \in Nat /\ z = (IF n = v THEN c ELSE y) /\ (n = v => y = 0)
    BY <1>3, <1>4, <2>1, <2>3
  <2>6. f[n + 1] = x + y /\ g[n + 1] = (x + (IF n > v THEN c ELSE 0)) + z
    BY <2>2, <2>3, <2>4
  <2>7. f[n + 1] \in Nat
    BY <2>4, <2>5, <2>6
  <2>8. g[n + 1] = f[n + 1] + (IF n + 1 > v THEN c ELSE 0)
    <3> HIDE DEF P
    <3> QED BY <1>4, <2>1, <2>4, <2>5, <2>6
  <2> QED BY <2>7, <2>8
<1>7. Procs \in P
  <2> HIDE DEF P
  <2> QED BY <1>5, <1>6, Induction, CpuMonitorAssumption
<1>8. Procs > v
  BY CpuMonitorAssumption DEF Unit
<1> QED
  BY <1>1, <1>2, <1>7, <1>8 DEF new, c

\* Words are added in a word.
LEMMA DivMod ==
    ASSUME NEW a \in Nat, NEW d \in Nat \ {0}
    PROVE  a \div d \in Nat /\ a % d \in 0..(d - 1) /\ a = d * (a \div d) + (a % d)
OBVIOUS

LEMMA ModUnique ==
    ASSUME NEW a \in Nat, NEW d \in Nat \ {0}, NEW q \in Nat, NEW r \in 0..(d - 1), a = d * q + r
    PROVE  a % d = r
OBVIOUS

LEMMA WordSum ==
    ASSUME NEW d \in Nat \ {0}, NEW a \in Nat, NEW b \in Nat
    PROVE  ((a % d) + b) % d = (a + b) % d /\ a % d \in 0..(d - 1)
<1>1. PICK q \in Nat, x \in 0..(d - 1) : a = d * q + x /\ a % d = x
  BY DivMod
<1>2. PICK c \in Nat : c = x + b
  OBVIOUS
<1>3. PICK p \in Nat, y \in 0..(d - 1) : c = d * p + y /\ c % d = y
  BY DivMod
<1>4. d * q \in Nat /\ d * p \in Nat /\ d * q + d * p = d * (q + p)
  OBVIOUS
<1>5. PICK e \in Nat : e = a + b
  OBVIOUS
<1>6. e = d * (q + p) + y /\ q + p \in Nat
  BY <1>1, <1>2, <1>3, <1>4, <1>5
<1>7. e % d = y
  BY <1>6, ModUnique
<1>8. ((a % d) + b) % d = y /\ a % d = x
  BY <1>1, <1>2, <1>3
<1> QED
  BY <1>5, <1>7, <1>8

\* There are as many known as are counted, one by one.
LEMMA KnownFacts ==
    ASSUME NEW st \in Readings
    PROVE  /\ IsFiniteSet(Known(st)) /\ Cardinality(Known(st)) \in 0..Procs
           /\ \A v \in Unit, r \in [known : BOOLEAN, result : Usage] : st[v] = NoData =>
                Cardinality(Known([st EXCEPT ![v] = r])) =
                    Cardinality(Known(st)) + (IF r.known THEN 1 ELSE 0)
<1>1. IsFiniteSet(Unit) /\ Cardinality(Unit) = Procs
  <2>1. IsFiniteSet(0..(Procs - 1)) /\ Cardinality(0..(Procs - 1)) = Procs
    BY FS_Interval, CpuMonitorAssumption
  <2> QED BY <2>1 DEF Unit
<1>2. IsFiniteSet(Known(st)) /\ Cardinality(Known(st)) <= Procs
  BY <1>1, FS_Subset DEF Known
<1>3. Cardinality(Known(st)) \in Nat
  BY <1>2, FS_CardinalityType
<1>4. ASSUME NEW v \in Unit, NEW r \in [known : BOOLEAN, result : Usage], st[v] = NoData
      PROVE  Cardinality(Known([st EXCEPT ![v] = r])) =
                 Cardinality(Known(st)) + (IF r.known THEN 1 ELSE 0)
  <2>1. v \notin Known(st)
    BY <1>4 DEF Known, NoData
  <2>2. Known([st EXCEPT ![v] = r]) = IF r.known THEN Known(st) \cup {v} ELSE Known(st)
    BY <2>1 DEF Known, Readings
  <2>3. Cardinality(Known(st) \cup {v}) = Cardinality(Known(st)) + 1
    BY <1>2, <2>1, FS_AddElement
  <2>4. CASE r.known
    BY <2>2, <2>3, <2>4
  <2>5. CASE ~r.known
    BY <1>3, <2>2, <2>5
  <2> QED BY <2>4, <2>5
<1> QED
  BY <1>2, <1>3, <1>4, CpuMonitorAssumption

\* The digits of counterIcon stand for its number.
LEMMA DigitFacts ==
    ASSUME NEW n \in 0..100
    PROVE  CounterDigits(n) \in Seq(0..9) /\ CounterDigits(n) # <<>> /\ Number(CounterDigits(n)) = n
<1>1. CASE n < 10
  <2>1. CounterDigits(n) = <<n>>
    BY <1>1 DEF CounterDigits
  <2> QED BY <1>1, <2>1 DEF Number
<1>2. CASE n >= 10 /\ n < 100
  <2>1. CounterDigits(n) = <<n % 10, n \div 10>>
    BY <1>2 DEF CounterDigits
  <2>2. n % 10 \in 0..9 /\ n \div 10 \in 0..9 /\ n = (n % 10) + 10 * (n \div 10)
    BY <1>2
  <2> DEFINE a == n % 10
             b == n \div 10
  <2>3. a \in 0..9 /\ b \in 0..9 /\ n = a + 10 * b /\ CounterDigits(n) = <<a, b>>
    BY <2>1, <2>2
  <2> HIDE DEF a, b
  <2>4. <<a, b>> \in Seq(0..9) /\ <<a, b>> # <<>>
    BY <2>3
  <2>5. Len(<<a, b>>) = 2 /\ <<a, b>>[1] = a /\ <<a, b>>[2] = b
    OBVIOUS
  <2>6. Number(<<a, b>>) = a + 10 * b + 0
    BY <2>5 DEF Number
  <2>7. Number(<<a, b>>) = n
    BY <2>3, <2>6
  <2>8. CounterDigits(n) = <<a, b>>
    BY <2>3
  <2> QED BY <2>4, <2>7, <2>8
<1>3. CASE n >= 100
  <2>1. n = 100
    BY <1>3
  <2>2. 100 % 10 = 0 /\ 100 \div 10 = 10 /\ 10 % 10 = 0 /\ 100 \div 100 = 1 /\ 1 % 10 = 1
    OBVIOUS
  <2>3. CounterDigits(n) = <<0, 0, 1>>
    BY <2>1, <2>2 DEF CounterDigits
  <2>4. <<0, 0, 1>> \in Seq(0..9) /\ <<0, 0, 1>> # <<>>
    OBVIOUS
  <2>5. /\ Len(<<0, 0, 1>>) = 3
        /\ <<0, 0, 1>>[1] = 0 /\ <<0, 0, 1>>[2] = 0 /\ <<0, 0, 1>>[3] = 1
    OBVIOUS
  <2>6. Number(<<0, 0, 1>>) = 100
    BY <2>5 DEF Number
  <2> QED BY <2>1, <2>3, <2>4, <2>6
<1> QED
  BY <1>1, <1>2, <1>3

-----------------------------------------------------------------------------
(* The inductive invariant.                                                 *)

\* The two threads: the one that fetches lives between OpenWindow and Leave, asks only
\* where the library is, and stores for a processor there is.
ThreadsInv ==
    /\ mainPc \in {"start", "ended"} => fetchPc \in {"none", "ended"}
    /\ mainPc = "start" => fetchPc = "none"
    /\ fetchPc \in {"loop", "ask", "store", "result"} => (source # "nt" => dll = (source = "libsmp"))
    /\ fetchPc = "ask" => source = "libsmp"
    /\ fetchPc \in {"store", "result"} => asked < Procs
    /\ source # "libsmp" => asked = 0

\* The icons alive are the last and the one before it.
IconsInv ==
    /\ mainPc # "ended" => alive = {loadIcon, oldIcon} \ {NoIcon} /\ shown = loadIcon
    /\ loadIcon = oldIcon => loadIcon = NoIcon
    /\ mainPc = "ended" => alive = {} /\ shown = NoIcon
    /\ mainPc = "start" => oldIcon = NoIcon

\* What an update has added up is that of the processors it has read, and between two
\* updates the last sum is that of the last one, unless the icon says nothing.
SumInv ==
    /\ sum = SumOf(seen) % DWord /\ count = Cardinality(Known(seen))
    /\ \A u \in Unit : u >= unit => seen[u] = NoData
    /\ mainPc = "window" /\ digits # <<>> => sum = lastSum

DigitsInv ==
    /\ digits # <<>> => Number(digits) = Clamp(Mean(lastSum, drawn))
    /\ mainPc = "start" => digits = <<>>

MonInv == MonTypeOK /\ ThreadsInv /\ IconsInv /\ SumInv /\ DigitsInv

\* Nothing read.
LEMMA NoneFacts ==
    /\ NoneRead \in Readings /\ SumOf(NoneRead) % DWord = 0 /\ Cardinality(Known(NoneRead)) = 0
    /\ \A u \in Unit : NoneRead[u] = NoData
<1>1. NoneRead \in Readings /\ \A u \in Unit : NoneRead[u] = NoData
  BY CpuMonitorAssumption DEF NoneRead, NoData, Readings, Usage
<1>2. Known(NoneRead) = {}
  BY <1>1 DEF Known, NoData
<1>3. 0 % DWord = 0
  BY CpuMonitorAssumption
<1> QED
  BY <1>1, <1>2, <1>3, SumOfNone, FS_EmptySet

LEMMA MonInitInv == MonInit => MonInv
<1> SUFFICES ASSUME MonInit PROVE MonInv
  OBVIOUS
<1>1. MonTypeOK
  <2>1. NoSum \in Usage /\ 0 \in Usage /\ 0 \in 0..Procs /\ <<>> \in Seq(0..9)
    BY CpuMonitorAssumption DEF NoSum, Usage
  <2>2. stats \in Readings /\ seen \in Readings
    BY NoneFacts DEF MonInit
  <2> QED BY <2>1, <2>2 DEF MonInit, MonTypeOK, Readings
<1>2. SumInv
  BY NoneFacts DEF MonInit, SumInv
<1> QED
  BY <1>1, <1>2, CpuMonitorAssumption DEF MonInit, MonInv, ThreadsInv, IconsInv, DigitsInv

\* The thread that fetches touches neither the icons nor what the other has read.
LEMMA FetcherInv ==
    ASSUME MonInv, Fetcher
    PROVE  MonInv'
<1> USE CpuMonitorAssumption DEF MonInv
<1>1. UNCHANGED <<source, mainPc, dll, run, winVars>>
  BY DEF Fetcher, FetchRound, FetchAsk, FetchTimer, FetchResult, FetchNt, Fetch9x, FetchEnds
<1>2. stats \in Readings /\ answer \in Usage /\ Percents \subseteq Usage /\ 0 \in Usage
  BY DEF MonTypeOK, Readings, Usage
<1>3. stats' \in Readings
  <2>1. CASE FetchTimer
    <3> DEFINE new == [stats[asked] EXCEPT !.known = TRUE]
    <3>1. asked \in Unit
      BY <2>1 DEF FetchTimer, MonTypeOK, ThreadsInv, Unit
    <3>2. new \in [known : BOOLEAN, result : Usage]
      BY <1>2, <3>1 DEF Readings
    <3>3. stats' = [stats EXCEPT ![asked] = new]
      BY <2>1 DEF FetchTimer
    <3> HIDE DEF new
    <3> QED BY <1>2, <3>1, <3>2, <3>3 DEF Readings
  <2>2. CASE FetchResult
    <3> DEFINE new == [stats[asked] EXCEPT !.result = answer]
    <3>1. asked \in Unit
      BY <2>2 DEF FetchResult, MonTypeOK, ThreadsInv, Unit
    <3>2. new \in [known : BOOLEAN, result : Usage]
      BY <1>2, <3>1 DEF Readings
    <3>3. stats' = [stats EXCEPT ![asked] = new]
      BY <2>2 DEF FetchResult
    <3> HIDE DEF new
    <3> QED BY <1>2, <3>1, <3>2, <3>3 DEF Readings
  <2>3. ASSUME NEW u \in Unit, FetchNt(u) PROVE stats' \in Readings
    <3>1. \/ \E p \in Percents : stats' = [stats EXCEPT ![u] = [stats[u] EXCEPT !.result = p]]
          \/ stats' = [stats EXCEPT ![u] = [stats[u] EXCEPT !.known = TRUE]]
      BY <2>3 DEF FetchNt
    <3>2. /\ \A p \in Percents : [stats[u] EXCEPT !.result = p] \in [known : BOOLEAN, result : Usage]
          /\ [stats[u] EXCEPT !.known = TRUE] \in [known : BOOLEAN, result : Usage]
      BY <1>2 DEF Readings
    <3>3. PICK new \in [known : BOOLEAN, result : Usage] : stats' = [stats EXCEPT ![u] = new]
      BY <3>1, <3>2
    <3> QED BY <1>2, <3>3 DEF Readings
  <2>4. CASE FetchRound \/ FetchAsk \/ Fetch9x \/ FetchEnds
    BY <1>2, <2>4 DEF FetchRound, FetchAsk, Fetch9x, FetchEnds
  <2> QED BY <2>1, <2>2, <2>3, <2>4 DEF Fetcher
<1>4. MonTypeOK'
  <2>1. answer' \in Usage
    <3>1. \A n : Answers(n) \subseteq Usage
      BY <1>2 DEF Answers, NoUsage, Usage
    <3> QED BY <1>2, <3>1 DEF Fetcher, FetchRound, FetchAsk, FetchTimer, FetchResult, FetchNt, Fetch9x,
                              FetchEnds
  <2>2. /\ fetchPc' \in {"none", "loop", "ask", "store", "result", "ended"}
        /\ asked' \in 0..Procs
    BY DEF Fetcher, FetchRound, FetchAsk, FetchTimer, FetchResult, FetchNt, Fetch9x, FetchEnds,
           MonTypeOK, ThreadsInv, Answered
  <2> QED BY <1>1, <1>3, <2>1, <2>2 DEF MonTypeOK, Readings, winVars, sumVars, iconVars
<1>5. ThreadsInv'
  BY <1>1 DEF Fetcher, FetchRound, FetchAsk, FetchTimer, FetchResult, FetchNt, Fetch9x, FetchEnds,
              MonTypeOK, ThreadsInv, Answered
<1>6. IconsInv' /\ SumInv' /\ DigitsInv'
  BY <1>1 DEF winVars, sumVars, iconVars, IconsInv, SumInv, DigitsInv
<1> QED
  BY <1>4, <1>5, <1>6

LEMMA WindowInv ==
    ASSUME MonInv, OpenWindow \/ Close \/ Leave
    PROVE  MonInv'
<1> USE DEF MonInv
<1>1. CASE OpenWindow
  <2> USE <1>1 DEF OpenWindow, sumVars
  <2>1. MonTypeOK'
    BY DEF MonTypeOK
  <2>2. SumInv' /\ DigitsInv'
    BY DEF SumInv, DigitsInv
  <2>3. ThreadsInv' /\ IconsInv'
    BY DEF ThreadsInv, IconsInv, MonTypeOK
  <2> QED BY <2>1, <2>2, <2>3
<1>2. CASE Close
  <2> USE <1>2 DEF Close, fetchVars, winVars, sumVars, iconVars
  <2>1. MonTypeOK'
    BY DEF MonTypeOK
  <2>2. SumInv' /\ DigitsInv'
    BY DEF SumInv, DigitsInv
  <2>3. ThreadsInv' /\ IconsInv'
    BY DEF ThreadsInv, IconsInv, MonTypeOK
  <2> QED BY <2>1, <2>2, <2>3
<1>3. CASE Leave
  <2>1. /\ mainPc = "stopping" /\ mainPc' = "ended" /\ fetchPc \in {"ended", "none"}
        /\ alive' = alive \ {oldIcon, loadIcon} /\ shown' = NoIcon /\ digits' = <<>> /\ dll' = FALSE
        /\ UNCHANGED <<source, fetchVars, run, sumVars, lastSum, loadIcon, oldIcon, drawn>>
    BY <1>3 DEF Leave, LeaveBase
  <2>2. alive' = {}
    BY <2>1 DEF IconsInv
  <2>3. <<>> \in Seq(0..9)
    OBVIOUS
  <2>4. MonTypeOK'
    BY <2>1, <2>2, <2>3 DEF MonTypeOK, fetchVars, sumVars
  <2>5. ThreadsInv' /\ IconsInv'
    BY <2>1, <2>2 DEF ThreadsInv, IconsInv, fetchVars
  <2>6. SumInv' /\ DigitsInv'
    BY <2>1 DEF SumInv, DigitsInv, sumVars
  <2> QED BY <2>4, <2>5, <2>6
<1> QED
  BY <1>1, <1>2, <1>3

\* One processor is read, or the update begins.
LEMMA ReadInv ==
    ASSUME MonInv, UpdateStarts \/ ReadUnit
    PROVE  MonInv'
<1> USE CpuMonitorAssumption DEF MonInv
<1>1. CASE UpdateStarts
  <2>1. MonTypeOK'
    <3>1. 0 \in Usage /\ NoneRead \in Readings
      BY NoneFacts DEF Usage
    <3> QED BY <1>1, <3>1 DEF UpdateStarts, MonTypeOK, Readings, fetchVars, iconVars
  <2>2. SumInv'
    BY <1>1, NoneFacts DEF UpdateStarts, SumInv
  <2>3. ThreadsInv' /\ IconsInv' /\ DigitsInv'
    BY <1>1 DEF UpdateStarts, ThreadsInv, IconsInv, DigitsInv, fetchVars, iconVars
  <2> QED BY <2>1, <2>2, <2>3
<1>2. CASE ReadUnit
  <2> DEFINE r == stats[unit]
  <2>1. unit \in Unit /\ seen \in Readings /\ seen[unit] = NoData
        /\ r \in [known : BOOLEAN, result : Usage]
    BY <1>2 DEF ReadUnit, MonTypeOK, SumInv, Unit, Readings
  <2>2. /\ mainPc = "update" /\ seen' = [seen EXCEPT ![unit] = r] /\ unit' = unit + 1
        /\ UNCHANGED <<source, mainPc, dll, run, fetchVars, iconVars>>
        /\ sum' = (IF r.known THEN (sum + r.result) % DWord ELSE sum)
        /\ count' = (IF r.known THEN count + 1 ELSE count)
    BY <1>2 DEF ReadUnit
  <2> HIDE DEF r
  <2>3. seen' \in Readings
    BY <2>1, <2>2 DEF Readings
  <2>4. sum' = SumOf(seen') % DWord
    <3>1. SumOf(seen) \in Nat /\ SumOf(seen') = SumOf(seen) + (IF r.known THEN r.result ELSE 0)
      BY <2>1, <2>2, SumOfRead
    <3>2. r.result \in Nat
      BY <2>1 DEF Usage
    <3>3. sum = SumOf(seen) % DWord
      BY DEF SumInv
    <3>4. CASE r.known
      <4>1. ((SumOf(seen) % DWord) + r.result) % DWord = (SumOf(seen) + r.result) % DWord
        BY <3>1, <3>2, WordSum
      <4> QED BY <2>2, <3>1, <3>3, <3>4, <4>1
    <3>5. CASE ~r.known
      BY <2>2, <3>1, <3>3, <3>5
    <3> QED BY <3>4, <3>5
  <2>5. count' = Cardinality(Known(seen'))
    <3>1. Cardinality(Known(seen)) \in 0..Procs
          /\ Cardinality(Known(seen')) = Cardinality(Known(seen)) + (IF r.known THEN 1 ELSE 0)
      BY <2>1, <2>2, KnownFacts
    <3> QED BY <2>2, <3>1 DEF SumInv
  <2>6. SumInv'
    <3>1. \A u \in Unit : u >= unit' => seen'[u] = NoData
      BY <2>1, <2>2 DEF SumInv, Readings, Unit
    <3> QED BY <2>2, <2>4, <2>5, <3>1 DEF SumInv
  <2>7. MonTypeOK'
    <3>1. count' \in 0..Procs
      BY <2>3, <2>5, KnownFacts
    <3>2. sum' \in Usage
      <4>1. \A n \in Nat : n % DWord \in 0..(DWord - 1)
        BY WordSum
      <4>2. r.known => sum + r.result \in Nat
        BY <2>1 DEF MonTypeOK, Usage
      <4> QED BY <2>2, <4>1, <4>2 DEF MonTypeOK, Usage
    <3>3. unit' \in 0..Procs
      BY <1>2, <2>2 DEF ReadUnit, MonTypeOK
    <3> QED BY <2>2, <2>3, <3>1, <3>2, <3>3 DEF MonTypeOK, Readings, fetchVars, iconVars
  <2>8. ThreadsInv' /\ IconsInv' /\ DigitsInv'
    BY <2>2 DEF ThreadsInv, IconsInv, DigitsInv, fetchVars, iconVars
  <2> QED BY <2>6, <2>7, <2>8
<1> QED
  BY <1>1, <1>2

\* The update ends, with a new icon, with none, or with the one there is.
LEMMA UpdateInv ==
    ASSUME MonInv, UpdateStats
    PROVE  MonInv'
<1> USE CpuMonitorAssumption DEF MonInv
<1>1. CASE UpdateStarts \/ ReadUnit
  BY <1>1, ReadInv
<1>2. CASE UpdateSame
  <2>1. /\ mainPc' = "window" /\ sum = lastSum /\ mainPc = "update"
        /\ UNCHANGED <<source, dll, run, fetchVars, sumVars, iconVars>>
    BY <1>2 DEF UpdateSame, UpdateEnds
  <2>2. SumInv'
    BY <2>1 DEF SumInv, sumVars, iconVars
  <2>3. MonTypeOK'
    BY <2>1 DEF MonTypeOK, fetchVars, sumVars, iconVars
  <2>4. ThreadsInv' /\ IconsInv' /\ DigitsInv'
    BY <2>1 DEF ThreadsInv, IconsInv, DigitsInv, fetchVars, iconVars
  <2> QED BY <2>2, <2>3, <2>4
<1>3. CASE (\E new \in Icon \ alive : UpdateIcon(new, oldIcon)) \/ UpdateFails(oldIcon)
  <2> DEFINE n == Clamp(Mean(sum, count))
  <2>1. /\ mainPc = "update" /\ mainPc' = "window" /\ lastSum' = sum
        /\ UNCHANGED <<source, dll, run, fetchVars, sumVars>>
        /\ \/ /\ digits' = CounterDigits(n) /\ drawn' = Cardinality(Known(seen))
              /\ \E new \in Icon \ alive :
                    /\ shown' = new /\ loadIcon' = new /\ oldIcon' = loadIcon
                    /\ alive' = (alive \cup {new}) \ {oldIcon}
           \/ /\ digits' = <<>> /\ drawn' = 0
              /\ shown' = NoIcon /\ loadIcon' = NoIcon /\ oldIcon' = loadIcon
              /\ alive' = alive \ {oldIcon}
    BY <1>3 DEF UpdateIcon, UpdateFails, UpdateEnds
  <2>2. count = Cardinality(Known(seen)) /\ count \in 0..Procs /\ sum \in Usage
    BY DEF SumInv, MonTypeOK
  <2>3. n \in 0..100
    <3>1. Mean(sum, count) \in Nat
      <4>1. sum \in Nat /\ count \in Nat
        BY <2>2 DEF Usage
      <4>2. \A a \in Nat, b \in Nat \ {0} : a \div b \in Nat
        OBVIOUS
      <4> QED BY <4>1, <4>2 DEF Mean
    <3>2. PICK m \in Nat : m = Mean(sum, count)
      BY <3>1
    <3>3. Clamp(m) \in 0..100
      BY DEF Clamp
    <3> QED BY <3>2, <3>3
  <2> HIDE DEF n
  <2>4. \/ digits' = <<>>
        \/ digits' = CounterDigits(n) /\ digits' \in Seq(0..9) /\ Number(digits') = n
           /\ drawn' = count
    BY <2>1, <2>2, <2>3, DigitFacts
  <2>5. DigitsInv'
    <3> SUFFICES ASSUME digits' # <<>>
                 PROVE  Number(digits') = Clamp(Mean(lastSum', drawn'))
      BY <2>1 DEF DigitsInv, Number, Mean, Clamp
    <3> QED BY <2>1, <2>4 DEF n
  <2>6. SumInv'
    BY <2>1 DEF SumInv, sumVars
  <2>7. IconsInv'
    BY <2>1 DEF IconsInv, MonTypeOK
  <2>8. MonTypeOK'
    <3>1. digits' \in Seq(0..9)
      <4>1. <<>> \in Seq(0..9)
        OBVIOUS
      <4> QED BY <2>4, <4>1
    <3>2. drawn' \in 0..Procs
      BY <2>1, <2>2
    <3> QED BY <2>1, <2>2, <3>1, <3>2 DEF MonTypeOK, fetchVars, sumVars
  <2>9. ThreadsInv'
    BY <2>1 DEF ThreadsInv, fetchVars
  <2> QED BY <2>5, <2>6, <2>7, <2>8, <2>9
<1> QED
  BY <1>1, <1>2, <1>3 DEF UpdateStats

LEMMA MonInductive == MonSpec => []MonInv
<1>1. MonInv /\ [MonNext]_monVars => MonInv'
  <2> SUFFICES ASSUME MonInv, [MonNext]_monVars PROVE MonInv'
    OBVIOUS
  <2>1. CASE UNCHANGED monVars
    BY <2>1 DEF monVars, fetchVars, winVars, sumVars, iconVars,
                MonInv, MonTypeOK, ThreadsInv, IconsInv, SumInv, DigitsInv
  <2> QED BY <2>1, FetcherInv, WindowInv, UpdateInv DEF MonNext
<1> QED
  BY <1>1, MonInitInv, PTL DEF MonSpec

-----------------------------------------------------------------------------
(* The theorems.                                                            *)

\* For any number of processors, usages and icons: the program asks the library only
\* while it is loaded, shows no icon it has destroyed and keeps no more than two, and
\* the number on the icon is the mean, of a sum in a word, of the usages that the last
\* update read one by one, unless one has become known since the icon was drawn.
THEOREM MonitorCorrect == MonSpec => []MonitorSound
<1>1. MonInv => MonitorSound
  <2> SUFFICES ASSUME MonInv PROVE MonitorSound
    OBVIOUS
  <2>1. AsksWhileLoaded
    BY DEF MonInv, MonTypeOK, ThreadsInv, AsksWhileLoaded
  <2>2. IconAlive
    <3>1. alive \subseteq {loadIcon, oldIcon}
      BY DEF MonInv, IconsInv
    <3>2. IsFiniteSet({loadIcon, oldIcon}) /\ Cardinality({loadIcon, oldIcon}) <= 2
      <4>1. IsFiniteSet({oldIcon}) /\ Cardinality({oldIcon}) = 1
        BY FS_Singleton
      <4>2. {loadIcon, oldIcon} = {oldIcon} \cup {loadIcon}
        OBVIOUS
      <4> QED BY <4>1, <4>2, FS_AddElement
    <3>3. Cardinality(alive) <= 2
      <4>1. Cardinality(alive) <= Cardinality({loadIcon, oldIcon}) /\ IsFiniteSet(alive)
        BY <3>1, <3>2, FS_Subset
      <4> QED BY <3>2, <4>1, FS_CardinalityType
    <3> QED BY <3>3 DEF MonInv, MonTypeOK, IconsInv, IconAlive
  <2>3. IconIsMean
    BY DEF MonInv, SumInv, DigitsInv, IconIsMean
  <2> QED BY <2>1, <2>2, <2>3 DEF MonitorSound
<1> QED
  BY <1>1, MonInductive, PTL

\* Every variable has its type, whatever words the driver and Windows answer, 0xFFFFFFFF
\* among them: a sum stays a word, no more processors are counted than there are, and
\* the number an icon is drawn of has digits only.
THEOREM MonTypeCorrect == MonSpec => []MonTypeOK
<1>1. MonInv => MonTypeOK
  BY DEF MonInv
<1> QED
  BY <1>1, MonInductive, PTL

-----------------------------------------------------------------------------
(* The driver and the monitor program together.                             *)

\* A behaviour of the two is a behaviour of each of them.
LEMMA PartsOfAll == AllSpec => DriverInit /\ [][DriverNext]_driverVars /\ MonInit /\ [][MonNext]_monVars
<1>1. (DriverInit /\ MonitorRests) \/ (DriverRests /\ MonInit) => DriverInit /\ MonInit
  BY DEF MonitorRests, DriverRests
<1>2. [InDriver(DriverNext) \/ InMonitor(MonNext)]_allVars => [DriverNext]_driverVars /\ [MonNext]_monVars
  BY DEF InDriver, InMonitor, allVars
<1> QED
  BY <1>1, <1>2, PTL DEF AllSpec

\* Both parts have their types.
THEOREM DriverTypeCorrect == AllSpec => []DriverTypeOK
<1>1. MonSpec => []MonTypeOK
  BY MonTypeCorrect
<1>2. TypeOK /\ DevTypeOK /\ MonTypeOK => DriverTypeOK
  BY DEF DriverTypeOK
<1> QED
  BY <1>1, <1>2, PartsOfAll, DriverBoots, BootTyped, DeviceTyped, PTL DEF DriverSpec, MonSpec

=============================================================================
