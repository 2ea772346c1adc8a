---------------------------- MODULE ContextProof ----------------------------
(* What a thread takes to an AP and back is its own, for any threads, APs and   *)
(* machines: its FPU, SSE and AVX state (Fpu), its thread data, its pages, its   *)
(* EIP and its EFLAGS (Trap).  Each part is a theorem of its own specification.  *)
EXTENDS Fpu, Trap, FiniteSetTheorems, TLAPS

-----------------------------------------------------------------------------
(* Fpu.                                                                     *)

\* A thread on an AP has a record, and the AP for itself.
AwayInv ==
    /\ \A t \in Thread : away[t] # NoAp =>
          /\ t \in Recorded /\ live[t] /\ stage[away[t]] # "free"
          /\ \A u \in Thread : away[u] = away[t] => u = t
    /\ live[cur] /\ \A t \in Thread : t \notin Recorded => live[t]
    /\ ~sys.lazy => ~TS

\* What a processor may load has been saved.
SavedInv ==
    /\ \A p \in Enabled :
          /\ regs[p] # Zero
          /\ \A a \in Ap : apRegs[a][p] # Zero /\ (stage[a] # "free" => apState[a][p] # Zero)
          /\ \A t \in Thread : ~dirty[t] => area[t][p] # Zero
    /\ \A p \in WinParts : \A t \in Thread : saved[t][p] # Zero

\* Where the state of a thread is.
StateInv ==
    \A t \in Thread : work[t] # 0 => \A p \in Kept(t) :
        /\ away[t] = NoAp /\ t = cur => regs[p] = Own(t)
        /\ away[t] = NoAp /\ t # cur =>
              /\ p \in WinParts => saved[t][p] = Own(t)
              /\ p \notin WinParts => ~dirty[t] /\ area[t][p] = Own(t)
        /\ \A a \in Ap : away[t] = a =>
              IF stage[a] = "running" THEN apRegs[a][p] = Own(t) ELSE apState[a][p] = Own(t)

FpuInv == FpuTypeOK /\ AwayInv /\ SavedInv /\ StateInv

LEMMA PartFacts ==
    ASSUME FpuTypeOK
    PROVE  /\ sys.versions \in Nat \ {0} /\ WinParts \subseteq Enabled /\ Enabled \subseteq Parts
           /\ \A t \in Thread : Uses(t) \subseteq Enabled /\ Kept(t) \subseteq Uses(t)
           /\ \A t \in Thread : t \notin Recorded => Kept(t) \subseteq WinParts
           /\ \A t \in Thread : sys.lazy => Kept(t) \cap WinParts = {}
           /\ FpuSaveMethod(FALSE, FALSE) = Enabled /\ FpuSaveMethod(FALSE, TRUE) = Enabled
           /\ FpuSaveMethod(TRUE, FALSE) = Enabled
           /\ Enabled \ WinParts \subseteq FpuSaveMethod(TRUE, TRUE)
           /\ FpuSaveMethod(TRUE, TRUE) \subseteq Enabled
<1>1. sys \in Systems /\ sys.versions \in Nat \ {0}
  BY FpuAssumption DEF FpuTypeOK
<1>2. WinParts \subseteq Enabled /\ Enabled \subseteq Parts
  BY DEF WinParts, Enabled, Parts
<1>3. \A t \in Thread : Uses(t) \subseteq Enabled /\ Kept(t) \subseteq Uses(t)
  BY <1>2 DEF Uses, Kept
<1>4. \A t \in Thread : t \notin Recorded => Kept(t) \subseteq WinParts
  BY DEF Uses, Kept
<1>5. \A t \in Thread : sys.lazy => Kept(t) \cap WinParts = {}
  BY DEF Kept
<1>6. /\ FpuSaveMethod(FALSE, FALSE) = Enabled /\ FpuSaveMethod(FALSE, TRUE) = Enabled
      /\ FpuSaveMethod(TRUE, FALSE) = Enabled
  BY DEF FpuSaveMethod
<1>7. Enabled \ WinParts \subseteq FpuSaveMethod(TRUE, TRUE) /\ FpuSaveMethod(TRUE, TRUE) \subseteq Enabled
  BY DEF FpuSaveMethod, WinParts
<1> QED
  BY <1>1, <1>2, <1>3, <1>4, <1>5, <1>6, <1>7

LEMMA MoveFacts ==
    ASSUME NEW parts, NEW from \in [Parts -> Value], NEW to \in [Parts -> Value]
    PROVE  /\ Move(parts, from, to) \in [Parts -> Value]
           /\ \A p \in Parts : Move(parts, from, to)[p] = IF p \in parts THEN from[p] ELSE to[p]
  BY DEF Move

LEMMA ZeroFacts ==
    /\ Zero \in Value /\ Clean \in Value /\ Clean # Zero
    /\ \A t \in Thread, n \in Nat : <<t, n>> \in Value /\ <<t, n>> # Zero
  BY FpuAssumption DEF Zero, Clean, Value

LEMMA StepFacts ==
    ASSUME FpuTypeOK, NEW t \in Thread
    PROVE  Step(t) \in 1..sys.versions /\ Step(t) # 0 /\ Step(t) \in Nat
<1>1. sys.versions \in Nat \ {0}
  BY PartFacts
<1>2. work[t] \in 0..sys.versions
  BY DEF FpuTypeOK
<1>3. work[t] % sys.versions \in 0..(sys.versions - 1)
  BY <1>1, <1>2
<1> QED
  BY <1>1, <1>3 DEF Step

LEMMA InitFpu == FpuInit => FpuInv
<1> SUFFICES ASSUME FpuInit PROVE FpuInv
  OBVIOUS
<1>1. sys.versions \in Nat
  BY FpuAssumption DEF FpuInit
<1>2. FpuTypeOK
  <2>1. [p \in Parts |-> Zero] \in [Parts -> Value] /\ [p \in Parts |-> Clean] \in [Parts -> Value]
    BY ZeroFacts
  <2>2. regs \in [Parts -> Value] /\ saved \in [Thread -> [Parts -> Value]]
    BY <2>1 DEF FpuInit
  <2>3. area \in [Thread -> [Parts -> Value]]
    BY <2>1 DEF FpuInit
  <2>4. apState \in [Ap -> [Parts -> Value]] /\ apRegs \in [Ap -> [Parts -> Value]]
    BY <2>1 DEF FpuInit
  <2>5. work \in [Thread -> 0..sys.versions]
    BY <1>1 DEF FpuInit
  <2> QED BY <2>2, <2>3, <2>4, <2>5 DEF FpuInit, FpuTypeOK
<1>3. AwayInv
  BY FpuAssumption DEF FpuInit, AwayInv
<1>4. SavedInv
  BY <1>2, PartFacts, ZeroFacts DEF FpuInit, SavedInv
<1>5. StateInv
  BY DEF FpuInit, StateInv
<1> QED
  BY <1>2, <1>3, <1>4, <1>5 DEF FpuInv

\* The current thread computes, or Windows loads what it needs for it.
LEMMA ComputeFpu == FpuInv /\ (Compute \/ DeviceNotAvailable) => FpuInv'
<1> SUFFICES ASSUME FpuInv, Compute \/ DeviceNotAvailable PROVE FpuInv'
  OBVIOUS
<1> USE DEF FpuInv
<1>1. /\ FpuTypeOK /\ UNCHANGED <<sys, cur, live, area, dirty, away, stage, apState, apRegs>>
      /\ Enabled' = Enabled /\ WinParts' = WinParts /\ \A t \in Thread : Kept(t)' = Kept(t)
  BY DEF Compute, DeviceNotAvailable, recVars, apVars, Enabled, WinParts, Kept, Uses
<1>2. CASE Compute
  <2>1. /\ away[cur] = NoAp /\ cur \in Thread
        /\ work' = [work EXCEPT ![cur] = Step(cur)]
        /\ regs' = [p \in Parts |-> IF p \in Uses(cur) THEN <<cur, Step(cur)>> ELSE regs[p]]
        /\ UNCHANGED <<TS, owner, saved>>
    BY <1>1, <1>2 DEF Compute, FpuTypeOK
  <2>2. /\ work'[cur] = Step(cur) /\ work'[cur] \in 1..sys.versions
        /\ \A t \in Thread : t # cur => work'[t] = work[t]
        /\ work' \in [Thread -> 0..sys.versions]
    BY <1>1, <2>1, StepFacts, PartFacts DEF FpuTypeOK
  <2>3. /\ \A p \in Parts : regs'[p] = IF p \in Uses(cur) THEN <<cur, Step(cur)>> ELSE regs[p]
        /\ \A p \in Parts : p \in Uses(cur) => regs'[p] # Zero
        /\ regs' \in [Parts -> Value]
    BY <1>1, <2>1, StepFacts, ZeroFacts DEF FpuTypeOK
  <2>4. FpuTypeOK'
    BY <1>1, <2>1, <2>2, <2>3 DEF FpuTypeOK
  <2>5. AwayInv'
    BY <1>1, <2>1 DEF AwayInv
  <2>6. SavedInv'
    BY <1>1, <2>1, <2>3, PartFacts DEF SavedInv
  <2>7. StateInv'
    <3>1. ASSUME NEW p \in Kept(cur) PROVE regs'[p] = Own(cur)'
      BY <1>1, <2>1, <2>2, <2>3, PartFacts DEF Own
    <3>2. ASSUME NEW t \in Thread, t # cur PROVE Own(t)' = Own(t) /\ work'[t] = work[t]
      BY <2>2, <3>2 DEF Own
    <3> QED BY <1>1, <2>1, <3>1, <3>2, FpuAssumption DEF StateInv
  <2> QED BY <2>4, <2>5, <2>6, <2>7
<1>3. CASE DeviceNotAvailable
  <2>1. /\ TS /\ cur \in Thread /\ owner \in Thread
        /\ saved' = [saved EXCEPT ![owner] = Move(WinParts, regs, @)]
        /\ regs' = Move(WinParts, saved[cur], regs)
        /\ owner' = cur /\ TS' = FALSE /\ work' = work
    BY <1>1, <1>3 DEF DeviceNotAvailable, FpuTypeOK
  <2>2. sys.lazy
    BY <2>1 DEF AwayInv
  <2>3. /\ saved[owner] \in [Parts -> Value] /\ saved[cur] \in [Parts -> Value]
        /\ regs \in [Parts -> Value]
    BY <1>1, <2>1 DEF FpuTypeOK
  <2>4. /\ regs' \in [Parts -> Value]
        /\ \A p \in Parts : regs'[p] = IF p \in WinParts THEN saved[cur][p] ELSE regs[p]
    BY <2>1, <2>3, MoveFacts
  <2>5. /\ saved'[owner] \in [Parts -> Value]
        /\ \A p \in WinParts : saved'[owner][p] = regs[p]
        /\ \A t \in Thread : t # owner => saved'[t] = saved[t]
        /\ saved' \in [Thread -> [Parts -> Value]]
    <3> DEFINE new == Move(WinParts, regs, saved[owner])
    <3>1. new \in [Parts -> Value] /\ \A p \in WinParts : new[p] = regs[p]
      BY <1>1, <2>3, MoveFacts, PartFacts
    <3>2. saved' = [saved EXCEPT ![owner] = new] /\ saved \in [Thread -> [Parts -> Value]]
      BY <1>1, <2>1 DEF FpuTypeOK
    <3> HIDE DEF new
    <3> QED BY <2>1, <3>1, <3>2
  <2>6. FpuTypeOK'
    BY <1>1, <2>1, <2>4, <2>5 DEF FpuTypeOK
  <2>7. AwayInv'
    BY <1>1, <2>1, <2>2 DEF AwayInv
  <2>8. SavedInv'
    BY <1>1, <2>1, <2>4, <2>5, PartFacts DEF SavedInv
  <2>9. StateInv'
    <3>1. \A t \in Thread : Own(t)' = Own(t) /\ Kept(t) \cap WinParts = {} /\ Kept(t) \subseteq Parts
      BY <1>1, <2>1, <2>2, PartFacts DEF Own
    <3>2. \A t \in Thread : \A p \in Kept(t) : regs'[p] = regs[p]
      BY <2>4, <3>1
    <3> QED BY <1>1, <2>1, <3>1, <3>2 DEF StateInv
  <2> QED BY <2>6, <2>7, <2>8, <2>9
<1> QED
  BY <1>2, <1>3

\* A thread gets its record.
LEMMA CreateFpu == ASSUME FpuInv, NEW t \in Thread, Create(t) PROVE FpuInv'
<1> USE DEF FpuInv
<1>1. /\ FpuTypeOK /\ t \in Recorded /\ ~live[t] /\ t # cur /\ away[t] = NoAp
      /\ live' = [live EXCEPT ![t] = TRUE]
      /\ area' = [area EXCEPT ![t] = [p \in Parts |-> Zero]]
      /\ dirty' = [dirty EXCEPT ![t] = TRUE]
      /\ saved' = [saved EXCEPT ![t] = [p \in Parts |-> Clean]]
      /\ work' = [work EXCEPT ![t] = 0]
      /\ UNCHANGED <<sys, cur, TS, regs, owner, away, stage, apState, apRegs>>
      /\ Enabled' = Enabled /\ WinParts' = WinParts /\ \A u \in Thread : Kept(u)' = Kept(u)
  BY DEF Create, apVars, AwayInv, Enabled, WinParts, Kept, Uses
<1>2. FpuTypeOK'
  <2>1. [p \in Parts |-> Zero] \in [Parts -> Value] /\ [p \in Parts |-> Clean] \in [Parts -> Value]
    BY ZeroFacts
  <2>2. area' \in [Thread -> [Parts -> Value]] /\ saved' \in [Thread -> [Parts -> Value]]
    BY <1>1, <2>1 DEF FpuTypeOK
  <2>3. work' \in [Thread -> 0..sys.versions]
    <3>1. sys.versions \in Nat /\ work \in [Thread -> 0..sys.versions]
      BY <1>1, PartFacts DEF FpuTypeOK
    <3>2. work' = [work EXCEPT ![t] = 0]
      BY <1>1
    <3> QED BY <3>1, <3>2
  <2>4. live' \in [Thread -> BOOLEAN] /\ dirty' \in [Thread -> BOOLEAN]
    BY <1>1 DEF FpuTypeOK
  <2> QED BY <1>1, <2>2, <2>3, <2>4 DEF FpuTypeOK
<1>3. /\ work'[t] = 0 /\ dirty'[t] /\ live'[t]
      /\ \A p \in Parts : saved'[t][p] = Clean
      /\ \A u \in Thread : u # t => /\ work'[u] = work[u] /\ Own(u)' = Own(u) /\ area'[u] = area[u]
                                    /\ dirty'[u] = dirty[u] /\ saved'[u] = saved[u]
                                    /\ live'[u] = live[u]
  BY <1>1 DEF FpuTypeOK, Own
<1>4. AwayInv'
  BY <1>1, <1>3 DEF AwayInv
<1>5. SavedInv'
  BY <1>1, <1>3, ZeroFacts, PartFacts DEF SavedInv
<1>6. StateInv'
  BY <1>1, <1>3 DEF StateInv
<1> QED
  BY <1>2, <1>4, <1>5, <1>6

\* What switch_to_ap does to AP a for thread t.
LEMMA LoadFacts ==
    ASSUME FpuTypeOK, NEW t \in Thread, NEW a \in Ap, SwitchToAp(t, a)
    PROVE  /\ t \in Recorded /\ live[t] /\ away[t] = NoAp /\ stage[a] = "free"
           /\ away'[t] = a /\ stage'[a] = "loaded" /\ apRegs' = apRegs
           /\ \A p \in Enabled : apState'[a][p] = regs[p]
           /\ \A u \in Thread : u # t => away'[u] = away[u]
           /\ \A b \in Ap : b # a => stage'[b] = stage[b] /\ apState'[b] = apState[b]
           /\ away' \in [Thread -> Ap \cup {NoAp}]
           /\ stage' \in [Ap -> {"free", "loaded", "running", "cargo"}]
           /\ apState' \in [Ap -> [Parts -> Value]]
<1>1. /\ t \in Recorded /\ live[t] /\ away[t] = NoAp /\ stage[a] = "free"
      /\ away' = [away EXCEPT ![t] = a] /\ stage' = [stage EXCEPT ![a] = "loaded"]
      /\ apRegs' = apRegs
  BY DEF SwitchToAp, Managed
<1>2. /\ away \in [Thread -> Ap \cup {NoAp}]
      /\ stage \in [Ap -> {"free", "loaded", "running", "cargo"}]
      /\ apState \in [Ap -> [Parts -> Value]] /\ regs \in [Parts -> Value]
  BY DEF FpuTypeOK
<1>3. /\ away'[t] = a /\ away' \in [Thread -> Ap \cup {NoAp}]
      /\ \A u \in Thread : u # t => away'[u] = away[u]
  BY <1>1, <1>2
<1>4. /\ stage'[a] = "loaded" /\ stage' \in [Ap -> {"free", "loaded", "running", "cargo"}]
      /\ \A b \in Ap : b # a => stage'[b] = stage[b]
  BY <1>1, <1>2
<1> DEFINE new == FpuSave(FALSE, apState[a])
<1>5. new = Move(Enabled, regs, apState[a])
  BY PartFacts DEF FpuSave
<1>6. apState' = [apState EXCEPT ![a] = new]
  BY DEF SwitchToAp
<1> HIDE DEF new
<1>7. Enabled \subseteq Parts /\ apState[a] \in [Parts -> Value]
  BY <1>2, PartFacts
<1>8. new \in [Parts -> Value] /\ \A p \in Enabled : new[p] = regs[p]
  BY <1>2, <1>5, <1>7, MoveFacts
<1>9. /\ apState' \in [Ap -> [Parts -> Value]] /\ apState'[a] = new
      /\ \A b \in Ap : b # a => apState'[b] = apState[b]
  BY <1>2, <1>6, <1>8
<1> QED
  BY <1>1, <1>3, <1>4, <1>8, <1>9

\* The half of AwayInv, SavedInv and StateInv that is about the APs follows whenever
\* switch_to_ap has been called for the current thread, or nothing has.
LEMMA AwayFacts ==
    ASSUME FpuInv, UNCHANGED <<sys, live, work>>,
           UNCHANGED <<away, apVars>> \/ \E a \in Ap : SwitchToAp(cur, a)
    PROVE  /\ away' \in [Thread -> Ap \cup {NoAp}]
           /\ stage' \in [Ap -> {"free", "loaded", "running", "cargo"}]
           /\ apState' \in [Ap -> [Parts -> Value]] /\ apRegs' \in [Ap -> [Parts -> Value]]
           /\ \A u \in Thread : away'[u] # NoAp =>
                 /\ u \in Recorded /\ live[u] /\ stage'[away'[u]] # "free"
                 /\ \A v \in Thread : away'[v] = away'[u] => v = u
           /\ \A p \in Enabled, a \in Ap :
                 apRegs'[a][p] # Zero /\ (stage'[a] # "free" => apState'[a][p] # Zero)
           /\ \A u \in Thread : u # cur => away'[u] = away[u]
           /\ away'[cur] = NoAp => away[cur] = NoAp
           /\ \A u \in Thread : work[u] # 0 => \A p \in Kept(u), a \in Ap : away'[u] = a =>
                 IF stage'[a] = "running" THEN apRegs'[a][p] = Own(u) ELSE apState'[a][p] = Own(u)
<1> USE DEF FpuInv
<1>1. CASE UNCHANGED <<away, apVars>>
  <2>1. away' = away /\ stage' = stage /\ apState' = apState /\ apRegs' = apRegs
    BY <1>1 DEF apVars
  <2> QED BY <2>1 DEF FpuTypeOK, AwayInv, SavedInv, StateInv
<1>2. ASSUME NEW a \in Ap, SwitchToAp(cur, a)
      PROVE  /\ away' \in [Thread -> Ap \cup {NoAp}]
             /\ stage' \in [Ap -> {"free", "loaded", "running", "cargo"}]
             /\ apState' \in [Ap -> [Parts -> Value]] /\ apRegs' \in [Ap -> [Parts -> Value]]
             /\ \A u \in Thread : away'[u] # NoAp =>
                   /\ u \in Recorded /\ live[u] /\ stage'[away'[u]] # "free"
                   /\ \A v \in Thread : away'[v] = away'[u] => v = u
             /\ \A p \in Enabled, b \in Ap :
                   apRegs'[b][p] # Zero /\ (stage'[b] # "free" => apState'[b][p] # Zero)
             /\ \A u \in Thread : u # cur => away'[u] = away[u]
             /\ away'[cur] = NoAp => away[cur] = NoAp
             /\ \A u \in Thread : work[u] # 0 => \A p \in Kept(u), b \in Ap : away'[u] = b =>
                   IF stage'[b] = "running" THEN apRegs'[b][p] = Own(u)
                                            ELSE apState'[b][p] = Own(u)
  <2>1. /\ FpuTypeOK /\ cur \in Thread
        /\ cur \in Recorded /\ live[cur] /\ away[cur] = NoAp /\ stage[a] = "free"
        /\ away'[cur] = a /\ stage'[a] = "loaded" /\ apRegs' = apRegs
    BY <1>2, LoadFacts DEF FpuTypeOK
  <2>2. \A p \in Enabled : apState'[a][p] = regs[p]
    BY <1>2, <2>1, LoadFacts
  <2>3. /\ \A u \in Thread : u # cur => away'[u] = away[u]
        /\ \A b \in Ap : b # a => stage'[b] = stage[b] /\ apState'[b] = apState[b]
    BY <1>2, <2>1, LoadFacts
  <2>4. /\ away' \in [Thread -> Ap \cup {NoAp}]
        /\ stage' \in [Ap -> {"free", "loaded", "running", "cargo"}]
        /\ apState' \in [Ap -> [Parts -> Value]] /\ apRegs' \in [Ap -> [Parts -> Value]]
    BY <1>2, <2>1, LoadFacts DEF FpuTypeOK
  <2>5. \A u \in Thread : u # cur => away'[u] # a
    BY <2>1, <2>3, FpuAssumption DEF AwayInv
  <2>6. \A u \in Thread : away'[u] # NoAp =>
             /\ u \in Recorded /\ live[u] /\ stage'[away'[u]] # "free"
             /\ \A v \in Thread : away'[v] = away'[u] => v = u
    <3>1. ASSUME NEW u \in Thread, away'[u] # NoAp, u # cur
          PROVE  /\ u \in Recorded /\ live[u] /\ stage'[away'[u]] # "free"
                 /\ \A v \in Thread : away'[v] = away'[u] => v = u
      <4>1. away'[u] = away[u] /\ away[u] # a /\ away[u] \in Ap /\ away[u] # NoAp
        BY <2>3, <2>4, <2>5, <3>1
      <4>2. stage'[away[u]] = stage[away[u]]
        BY <2>3, <4>1
      <4> QED BY <2>1, <2>3, <3>1, <4>1, <4>2 DEF AwayInv
    <3>2. stage'[a] # "free" /\ \A v \in Thread : away'[v] = a => v = cur
      BY <2>1, <2>5
    <3> QED BY <2>1, <3>1, <3>2
  <2>7. \A p \in Enabled, b \in Ap :
             apRegs'[b][p] # Zero /\ (stage'[b] # "free" => apState'[b][p] # Zero)
    BY <2>1, <2>2, <2>3 DEF SavedInv
  <2>8. \A u \in Thread : work[u] # 0 => \A p \in Kept(u), b \in Ap : away'[u] = b =>
             IF stage'[b] = "running" THEN apRegs'[b][p] = Own(u) ELSE apState'[b][p] = Own(u)
    <3> SUFFICES ASSUME NEW u \in Thread, work[u] # 0, NEW p \in Kept(u), NEW b \in Ap,
                        away'[u] = b
                 PROVE  IF stage'[b] = "running" THEN apRegs'[b][p] = Own(u)
                                                 ELSE apState'[b][p] = Own(u)
      OBVIOUS
    <3>1. CASE u = cur
      <4>1. b = a /\ stage'[b] = "loaded"
        BY <2>1, <3>1
      <4>2. regs[p] = Own(u)
        BY <2>1, <3>1 DEF StateInv
      <4>3. p \in Enabled
        BY <2>1, PartFacts
      <4> QED BY <2>2, <4>1, <4>2, <4>3
    <3>2. CASE u # cur
      <4>1. b # a /\ away[u] = b
        BY <2>3, <2>5, <3>2
      <4>2. stage'[b] = stage[b] /\ apState'[b] = apState[b] /\ apRegs'[b] = apRegs[b]
        BY <2>1, <2>3, <4>1
      <4> QED BY <4>1, <4>2 DEF StateInv
    <3> QED BY <3>1, <3>2
  <2>9. away'[cur] = NoAp => away[cur] = NoAp
    BY <2>1
  <2> QED BY <2>3, <2>4, <2>6, <2>7, <2>8, <2>9
<1> QED
  BY <1>1, <1>2

\* thread_switch to thread t, with switch_to_ap between its halves or without.
LEMMA SwitchFpu ==
    ASSUME FpuInv, NEW t \in Thread, SwitchThreads(t),
           UNCHANGED <<away, apVars>> \/ \E a \in Ap : SwitchToAp(cur, a)
    PROVE  FpuInv'
<1> USE DEF FpuInv
<1>1. /\ FpuTypeOK /\ t # cur /\ live[t] /\ cur' = t /\ cur \in Thread
      /\ UNCHANGED <<sys, live, work>> /\ TS' = (owner' # t)
      /\ Enabled' = Enabled /\ WinParts' = WinParts /\ \A u \in Thread : Kept(u)' = Kept(u)
      /\ \A u \in Thread : Own(u)' = Own(u)
  BY DEF SwitchThreads, Enabled, WinParts, Kept, Uses, FpuTypeOK, Own
<1>2. /\ regs \in [Parts -> Value] /\ saved \in [Thread -> [Parts -> Value]]
      /\ area \in [Thread -> [Parts -> Value]] /\ dirty \in [Thread -> BOOLEAN]
      /\ saved[cur] \in [Parts -> Value] /\ saved[t] \in [Parts -> Value]
      /\ area[cur] \in [Parts -> Value] /\ area[t] \in [Parts -> Value]
      /\ owner \in Thread
  BY <1>1 DEF FpuTypeOK
\* The record of the thread that leaves.
<1>3. /\ area' \in [Thread -> [Parts -> Value]] /\ dirty' \in [Thread -> BOOLEAN]
      /\ \A u \in Thread : u # cur => area'[u] = area[u] /\ dirty'[u] = dirty[u]
      /\ cur \in Recorded => ~dirty'[cur] /\ \A p \in Enabled : area'[cur][p] = regs[p]
      /\ cur \notin Recorded => area' = area /\ dirty' = dirty
  <2>1. CASE cur \in Recorded
    <3> DEFINE new == FpuSave(TRUE, area[cur])
    <3>1. Managed(cur)
      BY <2>1 DEF Managed, AwayInv
    <3>2. area' = [area EXCEPT ![cur] = new] /\ dirty' = [dirty EXCEPT ![cur] = FALSE]
      BY <3>1 DEF SwitchThreads, SaveOld
    <3>3. new = Move(Enabled, regs, area[cur])
      BY <1>1, PartFacts DEF FpuSave
    <3> HIDE DEF new
    <3>4. new \in [Parts -> Value] /\ \A p \in Enabled : new[p] = regs[p]
      <4>1. Enabled \subseteq Parts
        BY <1>1, PartFacts
      <4> QED BY <1>2, <3>3, <4>1, MoveFacts
    <3> QED BY <1>1, <1>2, <2>1, <3>2, <3>4
  <2>2. CASE cur \notin Recorded
    BY <1>1, <1>2, <2>2 DEF SwitchThreads, SaveOld, Managed
  <2> QED BY <2>1, <2>2
\* The driver's parts of the thread that comes.
<1> DEFINE came == RestoreNew(t)
<1>4. /\ came \in [Parts -> Value] /\ \A p \in Enabled : came[p] # Zero
      /\ Managed(t) /\ ~dirty[t] => \A p \in Enabled \ WinParts : came[p] = area[t][p]
  <2>1. CASE Managed(t) /\ ~dirty[t]
    <3> DEFINE parts == FpuSaveMethod(TRUE, TRUE)
    <3>1. came = Move(parts, area[t], regs)
      BY <2>1 DEF RestoreNew, FpuRestore
    <3>2. Enabled \ WinParts \subseteq parts /\ Enabled \subseteq Parts
      BY <1>1, PartFacts
    <3> HIDE DEF came, parts
    <3>3. /\ came \in [Parts -> Value]
          /\ \A p \in Parts : came[p] = IF p \in parts THEN area[t][p] ELSE regs[p]
      <4>1. area[t] \in [Parts -> Value] /\ regs \in [Parts -> Value]
        BY <1>2
      <4>2. /\ Move(parts, area[t], regs) \in [Parts -> Value]
            /\ \A p \in Parts :
                  Move(parts, area[t], regs)[p] = IF p \in parts THEN area[t][p] ELSE regs[p]
        BY <4>1, MoveFacts
      <4> QED BY <3>1, <4>2
    <3>4. \A p \in Enabled : regs[p] # Zero /\ area[t][p] # Zero
      BY <2>1 DEF SavedInv
    <3> QED BY <3>2, <3>3, <3>4
  <2>2. CASE ~(Managed(t) /\ ~dirty[t])
    <3>1. came = regs
      BY <2>2 DEF RestoreNew
    <3>2. \A p \in Enabled : regs[p] # Zero
      BY DEF SavedInv
    <3> HIDE DEF came
    <3> QED BY <1>2, <2>2, <3>1, <3>2
  <2> QED BY <2>1, <2>2
\* Windows's parts of both.
<1>5. /\ regs' \in [Parts -> Value] /\ saved' \in [Thread -> [Parts -> Value]] /\ owner' \in Thread
      /\ ~sys.lazy => ~TS'
      /\ \A u \in Thread : u # cur => saved'[u] = saved[u]
      /\ \A p \in Enabled \ WinParts : regs'[p] = came[p]
      /\ sys.lazy => saved' = saved /\ \A p \in Enabled : regs'[p] = came[p]
      /\ ~sys.lazy => \A p \in WinParts : saved'[cur][p] = regs[p] /\ regs'[p] = saved[t][p]
  <2>1. CASE sys.lazy
    <3>1. regs' = came /\ saved' = saved /\ owner' = owner
      BY <2>1 DEF SwitchThreads
    <3> HIDE DEF came
    <3> QED BY <1>1, <1>2, <1>4, <2>1, <3>1
  <2>2. CASE ~sys.lazy
    <3> DEFINE new == Move(WinParts, regs, saved[cur])
    <3>1. /\ saved' = [saved EXCEPT ![cur] = new] /\ owner' = t
          /\ regs' = Move(WinParts, saved[t], came)
      BY <2>2 DEF SwitchThreads
    <3> HIDE DEF came
    <3>2. WinParts \subseteq Parts /\ Enabled \subseteq Parts
      BY <1>1, PartFacts
    <3>3. new \in [Parts -> Value] /\ \A p \in WinParts : new[p] = regs[p]
      BY <1>2, <3>2, MoveFacts
    <3>4. /\ regs' \in [Parts -> Value]
          /\ \A p \in Parts : regs'[p] = IF p \in WinParts THEN saved[t][p] ELSE came[p]
      <4>1. saved[t] \in [Parts -> Value] /\ came \in [Parts -> Value]
        BY <1>2, <1>4
      <4>2. /\ Move(WinParts, saved[t], came) \in [Parts -> Value]
            /\ \A p \in Parts : Move(WinParts, saved[t], came)[p] =
                                     IF p \in WinParts THEN saved[t][p] ELSE came[p]
        BY <4>1, MoveFacts
      <4> QED BY <3>1, <4>2
    <3> HIDE DEF new
    <3>5. /\ saved' \in [Thread -> [Parts -> Value]] /\ saved'[cur] = new
          /\ \A u \in Thread : u # cur => saved'[u] = saved[u]
      BY <1>1, <1>2, <3>1, <3>3
    <3> QED BY <1>1, <2>2, <3>1, <3>2, <3>3, <3>4, <3>5
  <2> QED BY <2>1, <2>2
<1> HIDE DEF came
<1>6. FpuTypeOK'
  <2>1. /\ away' \in [Thread -> Ap \cup {NoAp}]
        /\ stage' \in [Ap -> {"free", "loaded", "running", "cargo"}]
        /\ apState' \in [Ap -> [Parts -> Value]] /\ apRegs' \in [Ap -> [Parts -> Value]]
    BY <1>1, AwayFacts
  <2>2. TS' \in BOOLEAN
    BY <1>1
  <2>3. sys' \in Systems /\ live' \in [Thread -> BOOLEAN] /\ work' \in [Thread -> 0..sys'.versions]
    BY <1>1 DEF FpuTypeOK
  <2> QED BY <1>1, <1>3, <1>5, <2>1, <2>2, <2>3 DEF FpuTypeOK
<1>7. AwayInv'
  <2>1. \A u \in Thread : away'[u] # NoAp =>
             /\ u \in Recorded /\ live[u] /\ stage'[away'[u]] # "free"
             /\ \A v \in Thread : away'[v] = away'[u] => v = u
    BY <1>1, AwayFacts
  <2>2. \A u \in Thread : u \notin Recorded => live[u]
    BY DEF AwayInv
  <2> QED BY <1>1, <1>5, <2>1, <2>2 DEF AwayInv
<1>8. SavedInv'
  <2>1. WinParts \subseteq Enabled
    BY <1>1, PartFacts
  <2>2. \A p \in Enabled : regs[p] # Zero /\ \A u \in Thread : ~dirty[u] => area[u][p] # Zero
    BY DEF SavedInv
  <2>3. \A p \in WinParts, u \in Thread : saved[u][p] # Zero
    BY DEF SavedInv
  <2>4. \A p \in Enabled : regs'[p] # Zero
    BY <1>1, <1>4, <1>5, <2>1, <2>3
  <2>5. \A p \in Enabled, u \in Thread : ~dirty'[u] => area'[u][p] # Zero
    BY <1>1, <1>3, <2>2
  <2>6. \A p \in WinParts, u \in Thread : saved'[u][p] # Zero
    BY <1>1, <1>5, <2>1, <2>2, <2>3
  <2>7. \A p \in Enabled, a \in Ap :
             apRegs'[a][p] # Zero /\ (stage'[a] # "free" => apState'[a][p] # Zero)
    BY <1>1, AwayFacts
  <2> QED BY <1>1, <2>4, <2>5, <2>6, <2>7 DEF SavedInv
<1>9. StateInv'
  <2> SUFFICES ASSUME NEW u \in Thread, work[u] # 0, NEW p \in Kept(u)
               PROVE  /\ away'[u] = NoAp /\ u = t => regs'[p] = Own(u)
                      /\ away'[u] = NoAp /\ u # t =>
                            /\ p \in WinParts => saved'[u][p] = Own(u)
                            /\ p \notin WinParts => ~dirty'[u] /\ area'[u][p] = Own(u)
                      /\ \A a \in Ap : away'[u] = a =>
                            IF stage'[a] = "running" THEN apRegs'[a][p] = Own(u)
                                                     ELSE apState'[a][p] = Own(u)
    BY <1>1 DEF StateInv
  <2>1. /\ p \in Enabled /\ WinParts \subseteq Enabled
        /\ u \notin Recorded => p \in WinParts
        /\ sys.lazy => p \notin WinParts
    BY <1>1, PartFacts
  <2>2. /\ away'[u] = NoAp => away[u] = NoAp
    BY <1>1, AwayFacts
  <2>3. \A a \in Ap : away'[u] = a =>
            IF stage'[a] = "running" THEN apRegs'[a][p] = Own(u) ELSE apState'[a][p] = Own(u)
    BY <1>1, AwayFacts
  <2>4. ASSUME away[u] = NoAp, u = t PROVE regs'[p] = Own(u)
    <3>1. /\ p \in WinParts => saved[u][p] = Own(u)
          /\ p \notin WinParts => ~dirty[u] /\ area[u][p] = Own(u)
      BY <1>1, <2>4 DEF StateInv
    <3>2. p \notin WinParts => Managed(t)
      BY <1>1, <2>1, <2>4 DEF Managed
    <3> QED BY <1>4, <1>5, <2>1, <2>4, <3>1, <3>2
  <2>5. ASSUME away[u] = NoAp, u # t
        PROVE  /\ p \in WinParts => saved'[u][p] = Own(u)
               /\ p \notin WinParts => ~dirty'[u] /\ area'[u][p] = Own(u)
    <3>1. CASE u = cur
      <4>1. regs[p] = Own(u)
        BY <2>5, <3>1 DEF StateInv
      <4> QED BY <1>3, <1>5, <2>1, <3>1, <4>1
    <3>2. CASE u # cur
      <4>1. /\ p \in WinParts => saved[u][p] = Own(u)
            /\ p \notin WinParts => ~dirty[u] /\ area[u][p] = Own(u)
        BY <2>5, <3>2 DEF StateInv
      <4> QED BY <1>3, <1>5, <3>2, <4>1
    <3> QED BY <3>1, <3>2
  <2> QED BY <2>2, <2>3, <2>4, <2>5
<1> QED
  BY <1>6, <1>7, <1>8, <1>9

\* fly(): the current thread goes to AP a.
LEMMA FlyFpu == ASSUME FpuInv, NEW a \in Ap, Fly(a) PROVE FpuInv'
<1> USE DEF FpuInv
<1>1. /\ FpuTypeOK /\ cur \in Thread /\ SwitchToAp(cur, a)
      /\ UNCHANGED <<sys, cur, TS, regs, owner, saved, live, area, dirty, work>>
      /\ Enabled' = Enabled /\ WinParts' = WinParts /\ \A u \in Thread : Kept(u)' = Kept(u)
      /\ \A u \in Thread : Own(u)' = Own(u)
  BY DEF Fly, bspVars, Enabled, WinParts, Kept, Uses, FpuTypeOK, Own
<1>2. FpuTypeOK'
  BY <1>1, AwayFacts DEF FpuTypeOK
<1>3. AwayInv'
  BY <1>1, AwayFacts DEF AwayInv
<1>4. SavedInv'
  BY <1>1, AwayFacts DEF SavedInv
<1>5. StateInv'
  <2>1. /\ \A u \in Thread : away'[u] = NoAp => away[u] = NoAp
        /\ \A u \in Thread : work[u] # 0 => \A p \in Kept(u), b \in Ap : away'[u] = b =>
              IF stage'[b] = "running" THEN apRegs'[b][p] = Own(u) ELSE apState'[b][p] = Own(u)
    BY <1>1, AwayFacts
  <2> QED BY <1>1, <2>1 DEF StateInv
<1> QED
  BY <1>2, <1>3, <1>4, <1>5

\* reattach(): the current thread comes back from AP a.
LEMMA ReattachFpu == ASSUME FpuInv, NEW a \in Ap, Reattach(a) PROVE FpuInv'
<1> USE DEF FpuInv
<1>1. /\ FpuTypeOK /\ cur \in Thread /\ away[cur] = a /\ stage[a] = "cargo" /\ a # NoAp
      /\ UNCHANGED <<sys, cur, TS, owner, saved, live, area, dirty, apState, apRegs, work>>
      /\ Enabled' = Enabled /\ WinParts' = WinParts /\ \A u \in Thread : Kept(u)' = Kept(u)
      /\ \A u \in Thread : Own(u)' = Own(u)
      /\ away' = [away EXCEPT ![cur] = NoAp] /\ stage' = [stage EXCEPT ![a] = "free"]
  BY FpuAssumption DEF Reattach, Enabled, WinParts, Kept, Uses, FpuTypeOK, Own
<1>2. /\ away'[cur] = NoAp /\ away' \in [Thread -> Ap \cup {NoAp}]
      /\ \A u \in Thread : u # cur => away'[u] = away[u] /\ away[u] # a
      /\ stage'[a] = "free" /\ stage' \in [Ap -> {"free", "loaded", "running", "cargo"}]
      /\ \A b \in Ap : b # a => stage'[b] = stage[b]
  BY <1>1 DEF FpuTypeOK, AwayInv
<1>3. regs' \in [Parts -> Value] /\ \A p \in Enabled : regs'[p] = apState[a][p]
  <2>1. regs' = FpuRestore(FALSE, apState[a])
    BY DEF Reattach
  <2>2. regs' = Move(Enabled, apState[a], regs)
    BY <1>1, <2>1, PartFacts DEF FpuRestore
  <2>3. regs \in [Parts -> Value] /\ apState[a] \in [Parts -> Value] /\ Enabled \subseteq Parts
    BY <1>1, PartFacts DEF FpuTypeOK
  <2> QED BY <2>2, <2>3, MoveFacts
<1>4. FpuTypeOK'
  BY <1>1, <1>2, <1>3 DEF FpuTypeOK
<1>5. AwayInv'
  <2>1. \A u \in Thread : away'[u] # NoAp => u # cur /\ away'[u] = away[u] /\ away[u] \in Ap
    BY <1>1, <1>2 DEF FpuTypeOK
  <2>2. \A u \in Thread : away'[u] # NoAp => stage'[away'[u]] = stage[away[u]]
    BY <1>2, <2>1
  <2>3. \A u, v \in Thread : away'[u] # NoAp /\ away'[v] = away'[u] => v = u
    BY <2>1 DEF AwayInv
  <2> QED BY <1>1, <2>1, <2>2, <2>3 DEF AwayInv
<1>6. SavedInv'
  BY <1>1, <1>2, <1>3 DEF SavedInv
<1>7. StateInv'
  <2> SUFFICES ASSUME NEW u \in Thread, work[u] # 0, NEW p \in Kept(u)
               PROVE  /\ away'[u] = NoAp /\ u = cur => regs'[p] = Own(u)
                      /\ away'[u] = NoAp /\ u # cur =>
                            /\ p \in WinParts => saved[u][p] = Own(u)
                            /\ p \notin WinParts => ~dirty[u] /\ area[u][p] = Own(u)
                      /\ \A b \in Ap : away'[u] = b =>
                            IF stage'[b] = "running" THEN apRegs[b][p] = Own(u)
                                                     ELSE apState[b][p] = Own(u)
    BY <1>1 DEF StateInv
  <2>1. p \in Enabled
    BY <1>1, PartFacts
  <2>2. CASE u = cur
    <3>1. apState[a][p] = Own(u)
      BY <1>1, <2>2 DEF StateInv
    <3> QED BY <1>2, <1>3, <2>1, <2>2, <3>1, FpuAssumption
  <2>3. CASE u # cur
    BY <1>2, <2>3 DEF StateInv
  <2> QED BY <2>2, <2>3
<1> QED
  BY <1>4, <1>5, <1>6, <1>7

\* The AP loads, computes and saves.
LEMMA ApFpu ==
    ASSUME FpuInv, NEW a \in Ap, ApSwitchtask(a) \/ ApCompute(a) \/ ApSwitchBack(a)
    PROVE  FpuInv'
<1> USE DEF FpuInv
<1>1. /\ FpuTypeOK /\ UNCHANGED <<sys, cur, TS, regs, owner, saved, live, area, dirty, away>>
      /\ Enabled' = Enabled /\ WinParts' = WinParts /\ \A u \in Thread : Kept(u)' = Kept(u)
      /\ Enabled \subseteq Parts
  BY PartFacts DEF ApSwitchtask, ApCompute, ApSwitchBack, bspVars, recVars, Enabled, WinParts,
                   Kept, Uses
<1>2. /\ apState \in [Ap -> [Parts -> Value]] /\ apRegs \in [Ap -> [Parts -> Value]]
      /\ apState[a] \in [Parts -> Value] /\ apRegs[a] \in [Parts -> Value]
      /\ stage \in [Ap -> {"free", "loaded", "running", "cargo"}]
  BY <1>1 DEF FpuTypeOK
<1>3. CASE ApSwitchtask(a)
  <2> DEFINE new == Move(Enabled, apState[a], apRegs[a])
  <2>1. /\ stage[a] = "loaded" /\ stage' = [stage EXCEPT ![a] = "running"]
        /\ apRegs' = [apRegs EXCEPT ![a] = new] /\ UNCHANGED <<apState, work>>
    BY <1>3 DEF ApSwitchtask
  <2>2. new \in [Parts -> Value] /\ \A p \in Enabled : new[p] = apState[a][p]
    <3>1. apState[a] \in [Parts -> Value] /\ apRegs[a] \in [Parts -> Value]
      BY <1>2
    <3>2. /\ new \in [Parts -> Value]
          /\ \A p \in Parts : new[p] = IF p \in Enabled THEN apState[a][p] ELSE apRegs[a][p]
      BY <3>1, MoveFacts
    <3> QED BY <1>1, <3>2
  <2> HIDE DEF new
  <2>3. /\ apRegs' \in [Ap -> [Parts -> Value]]
        /\ \A p \in Enabled : apRegs'[a][p] = apState[a][p]
        /\ stage'[a] = "running" /\ stage' \in [Ap -> {"free", "loaded", "running", "cargo"}]
        /\ \A b \in Ap : b # a => stage'[b] = stage[b] /\ apRegs'[b] = apRegs[b]
    BY <1>2, <2>1, <2>2
  <2>4. FpuTypeOK'
    BY <1>1, <2>1, <2>3 DEF FpuTypeOK
  <2>5. AwayInv'
    BY <1>1, <2>3 DEF AwayInv, FpuTypeOK
  <2>6. SavedInv'
    BY <1>1, <2>1, <2>3 DEF SavedInv
  <2>7. StateInv'
    <3>1. \A u \in Thread : Own(u)' = Own(u) /\ Kept(u) \subseteq Enabled
      BY <1>1, <2>1, PartFacts DEF Own
    <3> QED BY <1>1, <2>1, <2>3, <3>1 DEF StateInv
  <2> QED BY <2>4, <2>5, <2>6, <2>7
<1>4. CASE ApSwitchBack(a)
  <2> DEFINE new == Move(Enabled, apRegs[a], apState[a])
  <2>1. /\ stage[a] = "running" /\ stage' = [stage EXCEPT ![a] = "cargo"]
        /\ apState' = [apState EXCEPT ![a] = new] /\ UNCHANGED <<apRegs, work>>
    BY <1>4 DEF ApSwitchBack
  <2>2. new \in [Parts -> Value] /\ \A p \in Enabled : new[p] = apRegs[a][p]
    <3>1. apRegs[a] \in [Parts -> Value] /\ apState[a] \in [Parts -> Value]
      BY <1>2
    <3>2. /\ new \in [Parts -> Value]
          /\ \A p \in Parts : new[p] = IF p \in Enabled THEN apRegs[a][p] ELSE apState[a][p]
      BY <3>1, MoveFacts
    <3> QED BY <1>1, <3>2
  <2> HIDE DEF new
  <2>3. /\ apState' \in [Ap -> [Parts -> Value]]
        /\ \A p \in Enabled : apState'[a][p] = apRegs[a][p]
        /\ stage'[a] = "cargo" /\ stage' \in [Ap -> {"free", "loaded", "running", "cargo"}]
        /\ \A b \in Ap : b # a => stage'[b] = stage[b] /\ apState'[b] = apState[b]
    BY <1>2, <2>1, <2>2
  <2>4. FpuTypeOK'
    BY <1>1, <2>1, <2>3 DEF FpuTypeOK
  <2>5. AwayInv'
    BY <1>1, <2>3 DEF AwayInv, FpuTypeOK
  <2>6. SavedInv'
    BY <1>1, <2>1, <2>3 DEF SavedInv
  <2>7. StateInv'
    <3>1. \A u \in Thread : Own(u)' = Own(u) /\ Kept(u) \subseteq Enabled
      BY <1>1, <2>1, PartFacts DEF Own
    <3> QED BY <1>1, <2>1, <2>3, <3>1 DEF StateInv
  <2> QED BY <2>4, <2>5, <2>6, <2>7
<1>5. CASE ApCompute(a)
  <2>1. PICK t \in Recorded :
          /\ away[t] = a /\ stage[a] = "running"
          /\ work' = [work EXCEPT ![t] = Step(t)]
          /\ apRegs' = [apRegs EXCEPT ![a] =
                [p \in Parts |-> IF p \in Uses(t) THEN <<t, Step(t)>> ELSE @[p]]]
          /\ UNCHANGED <<stage, apState>>
    BY <1>5 DEF ApCompute
  <2> DEFINE new == [p \in Parts |-> IF p \in Uses(t) THEN <<t, Step(t)>> ELSE apRegs[a][p]]
  <2>2. apRegs' = [apRegs EXCEPT ![a] = new]
    BY <2>1, Zenon
  <2>3. t \in Thread /\ Step(t) \in 1..sys.versions /\ Step(t) \in Nat
    BY <1>1, <2>1, FpuAssumption, StepFacts
  <2>4. /\ new \in [Parts -> Value] /\ \A p \in Uses(t) \cap Parts : new[p] = <<t, Step(t)>>
        /\ \A p \in Enabled : new[p] # Zero
    <3>1. \A p \in Enabled : apRegs[a][p] # Zero
      BY DEF SavedInv
    <3>2. <<t, Step(t)>> \in Value /\ <<t, Step(t)>> # Zero
      BY <2>3, ZeroFacts
    <3> QED BY <1>1, <1>2, <3>1, <3>2
  <2> HIDE DEF new
  <2>5. /\ apRegs' \in [Ap -> [Parts -> Value]] /\ apRegs'[a] = new
        /\ \A b \in Ap : b # a => apRegs'[b] = apRegs[b]
    BY <1>2, <2>2, <2>4
  <2>6. /\ work'[t] = Step(t) /\ work' \in [Thread -> 0..sys.versions]
        /\ \A u \in Thread : u # t => work'[u] = work[u] /\ Own(u)' = Own(u)
    <3>1. work \in [Thread -> 0..sys.versions] /\ sys.versions \in Nat
      BY <1>1, PartFacts DEF FpuTypeOK
    <3> QED BY <2>1, <2>3, <3>1 DEF Own
  <2>7. FpuTypeOK'
    BY <1>1, <2>1, <2>5, <2>6 DEF FpuTypeOK
  <2>8. AwayInv'
    BY <1>1, <2>1 DEF AwayInv
  <2>9. SavedInv'
    BY <1>1, <2>1, <2>4, <2>5 DEF SavedInv
  <2>10. StateInv'
    <3> SUFFICES ASSUME NEW u \in Thread, work'[u] # 0, NEW p \in Kept(u)
                 PROVE  /\ away[u] = NoAp /\ u = cur => regs[p] = Own(u)'
                        /\ away[u] = NoAp /\ u # cur =>
                              /\ p \in WinParts => saved[u][p] = Own(u)'
                              /\ p \notin WinParts => ~dirty[u] /\ area[u][p] = Own(u)'
                        /\ \A b \in Ap : away[u] = b =>
                              IF stage[b] = "running" THEN apRegs'[b][p] = Own(u)'
                                                      ELSE apState[b][p] = Own(u)'
      BY <1>1, <2>1 DEF StateInv
    <3>1. CASE u = t
      <4>1. p \in Uses(t) \cap Parts
        BY <1>1, <3>1, PartFacts
      <4>2. apRegs'[a][p] = Own(u)'
        BY <2>4, <2>5, <2>6, <3>1, <4>1 DEF Own
      <4> QED BY <2>1, <3>1, <4>2, FpuAssumption
    <3>2. CASE u # t
      <4>1. away[u] # a
        BY <2>1, <2>3, <3>2, FpuAssumption DEF AwayInv
      <4> QED BY <2>5, <2>6, <3>2, <4>1 DEF StateInv
    <3> QED BY <3>1, <3>2
  <2> QED BY <2>7, <2>8, <2>9, <2>10
<1> QED
  BY <1>3, <1>4, <1>5

LEMMA NextFpu == FpuInv /\ [FpuNext]_fpuVars => FpuInv'
<1>1. ASSUME FpuInv, UNCHANGED fpuVars PROVE FpuInv'
  <2>1. /\ UNCHANGED <<sys, cur, TS, regs, owner, saved, live, area, dirty, away, stage>>
        /\ UNCHANGED <<apState, apRegs, work>>
    BY <1>1 DEF fpuVars, bspVars, apVars, recVars
  <2>2. FpuTypeOK' /\ AwayInv'
    BY <1>1, <2>1 DEF FpuInv, FpuTypeOK, AwayInv
  <2>3. SavedInv'
    BY <1>1, <2>1 DEF FpuInv, SavedInv, Enabled, WinParts
  <2>4. StateInv'
    BY <1>1, <2>1 DEF FpuInv, StateInv, Kept, Uses, Own, Enabled, WinParts
  <2> QED BY <2>2, <2>3, <2>4 DEF FpuInv
<1>2. ASSUME FpuInv, NEW t \in Thread, ThreadSwitch(t) PROVE FpuInv'
  BY <1>2, SwitchFpu DEF ThreadSwitch
<1>3. ASSUME FpuInv, NEW a \in Ap, NEW t \in Thread, ThreadSwitchAutorun(t, a) PROVE FpuInv'
  BY <1>3, SwitchFpu DEF ThreadSwitchAutorun
<1> QED
  BY <1>1, <1>2, <1>3, ComputeFpu, CreateFpu, FlyFpu, ReattachFpu, ApFpu DEF FpuNext

LEMMA FpuInductive == FpuSpec => []FpuInv
<1> QED
  BY InitFpu, NextFpu, PTL DEF FpuSpec

\* The FPU, SSE and AVX state a thread finds is the one it left, whichever processor
\* it executes on and however it came there (FpuSave, FpuRestore, switch_to_ap,
\* switch_to_bsp, thread_switch, _switchtask, _switch_back), and no processor loads
\* an area nothing was saved to: for any threads, APs and machines of the model.
THEOREM StateIsOwn == FpuSpec => []OwnState
<1>1. FpuInv => OwnState
  <2> SUFFICES ASSUME FpuInv PROVE OwnState
    OBVIOUS
  <2>1. NoZeroState
    BY DEF FpuInv, SavedInv, NoZeroState
  <2>2. ASSUME NEW t \in Thread, work[t] # 0, NEW p \in Kept(t)
        PROVE  /\ t = cur /\ away[t] = NoAp => regs[p] = Own(t)
               /\ \A a \in Ap : away[t] = a /\ stage[a] = "running" => apRegs[a][p] = Own(t)
    BY <2>2 DEF FpuInv, StateInv
  <2> QED BY <2>1, <2>2 DEF OwnState
<1> QED
  BY <1>1, FpuInductive, PTL

-----------------------------------------------------------------------------
(* Trap.                                                                    *)

\* gdata.bsp_thread follows the current thread; tdata.thread_ptr is the thread whose
\* context the AP has, until the next load.
PtrInv ==
    /\ act \in Process /\ bspThread = act
    /\ at \in [Process -> Cpu \cup {NoCpu}]
    /\ threadPtr \in [Cpu -> Process]
    /\ mode \in [Cpu -> {"free", "loaded", "running", "notify", "cargo", "busy"}]
    /\ DOMAIN pd = Cpu /\ \A c \in Cpu : pd[c].of \in Process
    /\ \A t \in Process, c \in Cpu : at[t] = c =>
          mode[c] # "free" /\ threadPtr[c] = t /\ pd[c].of = t

\* Once a processor has loaded its CR3, the TLB has only what the tables have said
\* since the thread was loaded.
TlbInv ==
    /\ tlb \in [Cpu -> [Page -> Frame \cup {Absent}]]
    /\ pte \in [Process -> [Page -> Frame \cup {Absent}]]
    /\ since \in [Cpu -> [Page -> SUBSET (Frame \cup {Absent})]]
    /\ \A t \in Process, c \in Cpu : at[t] = c =>
          /\ \A p \in Page : pte[t][p] \in since[c][p] \cup {Absent}
          /\ mode[c] # "loaded" => \A p \in Page : tlb[c][p] \in since[c][p] \cup {Absent}

TrapInv == PtrInv /\ TlbInv

LEMMA InitTrap == TrapInit => TrapInv
<1> SUFFICES ASSUME TrapInit PROVE TrapInv
  OBVIOUS
<1>1. \A t \in Process, c \in Cpu : at[t] # c
  BY TrapAssumption DEF TrapInit
<1>2. PtrInv
  BY <1>1 DEF TrapInit, PtrInv
<1>3. TlbInv
  <2>1. tlb \in [Cpu -> [Page -> Frame \cup {Absent}]]
    BY DEF TrapInit
  <2>2. pte \in [Process -> [Page -> Frame \cup {Absent}]]
    BY DEF TrapInit
  <2>3. since \in [Cpu -> [Page -> SUBSET (Frame \cup {Absent})]]
    BY DEF TrapInit
  <2> QED BY <1>1, <2>1, <2>2, <2>3 DEF TlbInv
<1> QED
  BY <1>2, <1>3 DEF TrapInv

\* The frame AP c reaches a page of its thread by is one the page has had since.
LEMMA WalkFacts ==
    ASSUME TrapInv, NEW c \in Cpu, NEW p \in Page
    PROVE  /\ Walk(c, p) \in Frame \cup {Absent}
           /\ \A t \in Process : at[t] = c /\ mode[c] # "loaded" =>
                 Walk(c, p) \in since[c][p] \cup {Absent}
<1>1. pd[c].of \in Process /\ \A t \in Process : at[t] = c => pd[c].of = t
  BY DEF TrapInv, PtrInv
<1>2. tlb[c][p] \in Frame \cup {Absent} /\ pte[pd[c].of][p] \in Frame \cup {Absent}
  BY <1>1 DEF TrapInv, TlbInv
<1>3. \A t \in Process : at[t] = c /\ mode[c] # "loaded" =>
           /\ pte[t][p] \in since[c][p] \cup {Absent}
           /\ tlb[c][p] \in since[c][p] \cup {Absent}
  BY DEF TrapInv, TlbInv
<1> QED
  BY <1>1, <1>2, <1>3 DEF Walk

\* Steps that leave the APs and the memory alone.
LEMMA RestTrap ==
    TrapInv /\ (BspExecute \/ NoFreeCpu \/ \E t \in Process : SwitchAway(t)) => TrapInv'
<1> SUFFICES ASSUME TrapInv, BspExecute \/ NoFreeCpu \/ \E t \in Process : SwitchAway(t)
             PROVE  TrapInv'
  OBVIOUS
<1>1. /\ UNCHANGED <<at, mode, threadPtr, pd, tlb, pte, since>>
      /\ act' \in Process /\ bspThread' = act'
  BY DEF BspExecute, NoFreeCpu, SwitchAway, cpuVars, memVars, TrapInv, PtrInv
<1>2. PtrInv'
  BY <1>1 DEF TrapInv, PtrInv
<1>3. TlbInv'
  BY <1>1 DEF TrapInv, TlbInv
<1> QED
  BY <1>2, <1>3 DEF TrapInv

\* Windows brings a page in or takes it out.
LEMMA PageInTrap ==
    ASSUME TrapInv, NEW p, PageIn(p), UNCHANGED <<act, bspThread, at, cpuVars>>
    PROVE  TrapInv'
<1>1. PICK f \in Frame :
         /\ pte' = [pte EXCEPT ![act][p] = f]
         /\ since' = [c \in Cpu |->
               IF at[act] = c THEN [since[c] EXCEPT ![p] = @ \cup {f}] ELSE since[c]]
  BY DEF PageIn
<1>2. /\ UNCHANGED <<act, bspThread, at, mode, threadPtr, pd, tlb>> /\ act \in Process
      /\ pte \in [Process -> [Page -> Frame \cup {Absent}]]
      /\ since \in [Cpu -> [Page -> SUBSET (Frame \cup {Absent})]]
  BY DEF cpuVars, TrapInv, PtrInv, TlbInv
<1>3. PtrInv'
  BY <1>2 DEF TrapInv, PtrInv
<1>4. /\ pte' \in [Process -> [Page -> Frame \cup {Absent}]]
      /\ \A t \in Process, q \in Page :
            pte'[t][q] = IF t = act /\ q = p THEN f ELSE pte[t][q]
  BY <1>1, <1>2
<1>5. /\ since' \in [Cpu -> [Page -> SUBSET (Frame \cup {Absent})]]
      /\ \A c \in Cpu, q \in Page : since[c][q] \subseteq since'[c][q]
      /\ \A c \in Cpu : at[act] = c /\ p \in Page => f \in since'[c][p]
  BY <1>1, <1>2
<1>6. TlbInv'
  <2>1. ASSUME NEW t \in Process, NEW c \in Cpu, at[t] = c
        PROVE  /\ \A q \in Page : pte'[t][q] \in since'[c][q] \cup {Absent}
               /\ mode[c] # "loaded" => \A q \in Page : tlb[c][q] \in since'[c][q] \cup {Absent}
    <3>1. ASSUME NEW q \in Page PROVE pte'[t][q] \in since'[c][q] \cup {Absent}
      <4>1. pte[t][q] \in since[c][q] \cup {Absent} /\ since[c][q] \subseteq since'[c][q]
        BY <1>5, <2>1 DEF TrapInv, TlbInv
      <4>2. CASE t = act /\ q = p
        BY <1>4, <1>5, <2>1, <4>2
      <4>3. CASE ~(t = act /\ q = p)
        BY <1>4, <4>1, <4>3
      <4> QED BY <4>2, <4>3
    <3>2. ASSUME mode[c] # "loaded", NEW q \in Page PROVE tlb[c][q] \in since'[c][q] \cup {Absent}
      <4>1. tlb[c][q] \in since[c][q] \cup {Absent} /\ since[c][q] \subseteq since'[c][q]
        BY <1>5, <2>1, <3>2 DEF TrapInv, TlbInv
      <4> QED BY <4>1
    <3> QED BY <3>1, <3>2
  <2>2. tlb \in [Cpu -> [Page -> Frame \cup {Absent}]]
    BY DEF TrapInv, TlbInv
  <2> QED BY <1>2, <1>4, <1>5, <2>1, <2>2 DEF TlbInv
<1> QED
  BY <1>3, <1>6 DEF TrapInv

LEMMA PageOutTrap ==
    ASSUME TrapInv, NEW t \in Process, NEW p \in Page, PageOut(t, p) PROVE TrapInv'
<1>1. /\ UNCHANGED <<act, bspThread, at, mode, threadPtr, pd, tlb, since>>
      /\ pte \in [Process -> [Page -> Frame \cup {Absent}]]
      /\ pte' = [pte EXCEPT ![t][p] = Absent]
  BY DEF PageOut, ctxVars, cpuVars, TrapInv, TlbInv
<1>2. PtrInv'
  BY <1>1 DEF TrapInv, PtrInv
<1>3. /\ pte' \in [Process -> [Page -> Frame \cup {Absent}]]
      /\ \A u \in Process, q \in Page : pte'[u][q] = pte[u][q] \/ pte'[u][q] = Absent
  BY <1>1
<1>4. TlbInv'
  BY <1>1, <1>3 DEF TrapInv, TlbInv
<1> QED
  BY <1>2, <1>4 DEF TrapInv

\* A thread is loaded on AP c, or comes back from it.
LEMMA LoadTrap ==
    ASSUME TrapInv, NEW c \in Cpu, LoadCpu(c), act' \in Process /\ bspThread' = act'
    PROVE  TrapInv'
<1>1. /\ act \in Process /\ at[act] = NoCpu /\ mode[c] = "free"
      /\ at \in [Process -> Cpu \cup {NoCpu}] /\ threadPtr \in [Cpu -> Process]
      /\ mode \in [Cpu -> {"free", "loaded", "running", "notify", "cargo", "busy"}]
      /\ DOMAIN pd = Cpu /\ \A d \in Cpu : pd[d].of \in Process
  BY DEF LoadCpu, TrapInv, PtrInv
<1>2. /\ at' = [at EXCEPT ![act] = c] /\ mode' = [mode EXCEPT ![c] = "loaded"]
      /\ threadPtr' = [threadPtr EXCEPT ![c] = act]
      /\ since' = [since EXCEPT ![c] = [p \in Page |-> {pte[act][p]}]]
      /\ tlb' = tlb /\ pte' = pte /\ pde' = pde
  BY DEF LoadCpu, memVars
<1>3. \A t \in Process : at[t] # c
  BY <1>1 DEF TrapInv, PtrInv
<1>4. /\ DOMAIN pd' = Cpu /\ pd'[c].of = act /\ \A d \in Cpu : pd'[d].of \in Process
      /\ \A d \in Cpu : d # c => pd'[d] = pd[d]
  <2> DEFINE new == CopyPd
  <2>1. pd' = [pd EXCEPT ![c] = new]
    BY DEF LoadCpu
  <2>2. new.of = act
    BY DEF CopyPd
  <2> HIDE DEF new
  <2>3. DOMAIN pd' = Cpu /\ pd'[c] = new /\ \A d \in Cpu : d # c => pd'[d] = pd[d]
    BY <1>1, <2>1
  <2> QED BY <1>1, <2>2, <2>3
<1>5. /\ at' \in [Process -> Cpu \cup {NoCpu}] /\ at'[act] = c
      /\ \A t \in Process : t # act => at'[t] = at[t] /\ at[t] # c
  BY <1>1, <1>2, <1>3
<1>6. /\ mode' \in [Cpu -> {"free", "loaded", "running", "notify", "cargo", "busy"}]
      /\ threadPtr' \in [Cpu -> Process] /\ mode'[c] = "loaded" /\ threadPtr'[c] = act
      /\ \A d \in Cpu : d # c => mode'[d] = mode[d] /\ threadPtr'[d] = threadPtr[d]
  BY <1>1, <1>2
<1>7. PtrInv'
  <2>1. ASSUME NEW t \in Process, NEW d \in Cpu, at'[t] = d
        PROVE  mode'[d] # "free" /\ threadPtr'[d] = t /\ pd'[d].of = t
    <3>1. CASE t = act
      BY <1>4, <1>5, <1>6, <2>1, <3>1
    <3>2. CASE t # act
      <4>1. at[t] = d /\ d # c
        BY <1>5, <2>1, <3>2
      <4> QED BY <1>4, <1>6, <4>1 DEF TrapInv, PtrInv
    <3> QED BY <3>1, <3>2
  <2> QED BY <1>4, <1>5, <1>6, <2>1 DEF PtrInv
<1>8. TlbInv'
  <2>1. /\ pte \in [Process -> [Page -> Frame \cup {Absent}]]
        /\ since \in [Cpu -> [Page -> SUBSET (Frame \cup {Absent})]]
        /\ tlb \in [Cpu -> [Page -> Frame \cup {Absent}]]
    BY DEF TrapInv, TlbInv
  <2>2. [p \in Page |-> {pte[act][p]}] \in [Page -> SUBSET (Frame \cup {Absent})]
    BY <1>1, <2>1
  <2>3. /\ since' \in [Cpu -> [Page -> SUBSET (Frame \cup {Absent})]]
        /\ since'[c] = [p \in Page |-> {pte[act][p]}]
        /\ \A d \in Cpu : d # c => since'[d] = since[d]
    BY <1>2, <2>1, <2>2
  <2>4. ASSUME NEW t \in Process, NEW d \in Cpu, at'[t] = d
        PROVE  /\ \A p \in Page : pte[t][p] \in since'[d][p] \cup {Absent}
               /\ mode'[d] # "loaded" => \A p \in Page : tlb[d][p] \in since'[d][p] \cup {Absent}
    <3>1. CASE t = act
      BY <1>5, <1>6, <2>3, <2>4, <3>1
    <3>2. CASE t # act
      <4>1. at[t] = d /\ d # c
        BY <1>5, <2>4, <3>2
      <4>2. since'[d] = since[d] /\ mode'[d] = mode[d]
        BY <1>6, <2>3, <4>1
      <4> QED BY <4>1, <4>2 DEF TrapInv, TlbInv
    <3> QED BY <3>1, <3>2
  <2> QED BY <1>2, <2>1, <2>3, <2>4 DEF TlbInv
<1> QED
  BY <1>7, <1>8 DEF TrapInv

LEMMA UnloadTrap == ASSUME TrapInv, NEW c \in Cpu, Unload(c) PROVE TrapInv'
<1>1. /\ act \in Process /\ at[act] = c /\ UNCHANGED <<act, bspThread, threadPtr, pd, tlb, pte>>
      /\ at' = [at EXCEPT ![act] = NoCpu] /\ mode' = [mode EXCEPT ![c] = "free"]
      /\ since' = [since EXCEPT ![c] = [p \in Page |-> {}]]
  BY DEF Unload, memVars, TrapInv, PtrInv
<1>2. /\ at \in [Process -> Cpu \cup {NoCpu}]
      /\ mode \in [Cpu -> {"free", "loaded", "running", "notify", "cargo", "busy"}]
      /\ since \in [Cpu -> [Page -> SUBSET (Frame \cup {Absent})]]
      /\ \A t \in Process : t # act => at[t] # c
  BY <1>1 DEF TrapInv, PtrInv, TlbInv
<1>3. /\ at' \in [Process -> Cpu \cup {NoCpu}]
      /\ mode' \in [Cpu -> {"free", "loaded", "running", "notify", "cargo", "busy"}]
      /\ \A d \in Cpu : d # c => mode'[d] = mode[d]
      /\ \A t \in Process : at'[t] \in Cpu => t # act /\ at'[t] = at[t] /\ at[t] # c
  BY <1>1, <1>2, TrapAssumption
<1>4. /\ since' \in [Cpu -> [Page -> SUBSET (Frame \cup {Absent})]]
      /\ \A d \in Cpu : d # c => since'[d] = since[d]
  BY <1>1, <1>2
<1>5. PtrInv'
  BY <1>1, <1>3 DEF TrapInv, PtrInv
<1>6. TlbInv'
  <2>1. ASSUME NEW t \in Process, NEW d \in Cpu, at'[t] = d
        PROVE  at[t] = d /\ mode'[d] = mode[d] /\ since'[d] = since[d]
    BY <1>3, <1>4, <2>1
  <2>2. ASSUME NEW t \in Process, NEW d \in Cpu, at'[t] = d
        PROVE  /\ \A p \in Page : pte[t][p] \in since'[d][p] \cup {Absent}
               /\ mode'[d] # "loaded" => \A p \in Page : tlb[d][p] \in since'[d][p] \cup {Absent}
    <3>1. at[t] = d /\ mode'[d] = mode[d] /\ since'[d] = since[d]
      BY <2>1, <2>2
    <3> QED BY <3>1 DEF TrapInv, TlbInv
  <2>3. tlb \in [Cpu -> [Page -> Frame \cup {Absent}]] /\ pte \in [Process -> [Page -> Frame \cup {Absent}]]
    BY DEF TrapInv, TlbInv
  <2> QED BY <1>1, <1>4, <2>2, <2>3 DEF TlbInv
<1> QED
  BY <1>5, <1>6 DEF TrapInv

\* _switchtask.
LEMMA EnterTrap == ASSUME TrapInv, NEW c \in Cpu, EnterUser(c) PROVE TrapInv'
<1>1. /\ UNCHANGED <<act, bspThread, at, threadPtr, pd, pte, since>>
      /\ mode' = [mode EXCEPT ![c] = "running"]
      /\ tlb' = [tlb EXCEPT ![c] = [p \in Page |-> Absent]]
  BY DEF EnterUser, ctxVars, memVars
<1>2. /\ mode \in [Cpu -> {"free", "loaded", "running", "notify", "cargo", "busy"}]
      /\ tlb \in [Cpu -> [Page -> Frame \cup {Absent}]]
  BY DEF TrapInv, PtrInv, TlbInv
<1>3. /\ mode' \in [Cpu -> {"free", "loaded", "running", "notify", "cargo", "busy"}]
      /\ \A d \in Cpu : d # c => mode'[d] = mode[d]
      /\ mode'[c] = "running"
  BY <1>1, <1>2
<1>4. /\ tlb' \in [Cpu -> [Page -> Frame \cup {Absent}]]
      /\ \A p \in Page : tlb'[c][p] = Absent
      /\ \A d \in Cpu : d # c => tlb'[d] = tlb[d]
  BY <1>1, <1>2
<1>5. PtrInv'
  BY <1>1, <1>3 DEF TrapInv, PtrInv
<1>6. TlbInv'
  BY <1>1, <1>3, <1>4 DEF TrapInv, TlbInv
<1> QED
  BY <1>5, <1>6 DEF TrapInv

\* Whatever else AP c does, it has loaded its CR3 and its TLB takes what the tables say.
LEMMA CpuTrap ==
    ASSUME TrapInv, NEW c \in Cpu,
           \/ Notify(c) \/ KernelFault(c)
           \/ \E t \in Process : CpuExecute(t, c) \/ CpuUse(t, c) \/ ErrorIsr(t, c) \/ Int3Isr(t, c)
    PROVE  TrapInv'
<1>1. /\ UNCHANGED <<act, bspThread, at, threadPtr, pd, pte, since>>
      /\ mode[c] \in {"running", "notify"}
      /\ \E m \in {"running", "notify", "cargo", "busy"} : mode' = [mode EXCEPT ![c] = m]
  <2>1. mode = [mode EXCEPT ![c] = mode[c]]
    BY DEF TrapInv, PtrInv
  <2> QED
    BY <2>1 DEF Notify, KernelFault, CpuExecute, CpuUse, ErrorIsr, Int3Isr, SwitchBack, CpuOp,
                ctxVars, memVars
<1>2. tlb' = tlb \/ \E p : tlb' = [tlb EXCEPT ![c][p] = Walk(c, p)]
  <2>1. CASE Notify(c) \/ KernelFault(c)
    BY <2>1 DEF Notify, KernelFault, SwitchBack
  <2>2. ASSUME NEW t \in Process, CpuExecute(t, c) \/ ErrorIsr(t, c) \/ Int3Isr(t, c)
        PROVE  tlb' = tlb
    BY <2>2 DEF CpuExecute, ErrorIsr, Int3Isr, SwitchBack
  <2>3. ASSUME NEW t \in Process, CpuUse(t, c)
        PROVE  \E p : tlb' = [tlb EXCEPT ![c][p] = Walk(c, p)]
    BY <2>3 DEF CpuUse
  <2> QED BY <2>1, <2>2, <2>3
<1>3. /\ mode \in [Cpu -> {"free", "loaded", "running", "notify", "cargo", "busy"}]
      /\ tlb \in [Cpu -> [Page -> Frame \cup {Absent}]]
  BY DEF TrapInv, PtrInv, TlbInv
<1>4. /\ mode' \in [Cpu -> {"free", "loaded", "running", "notify", "cargo", "busy"}]
      /\ mode'[c] \notin {"free", "loaded"}
      /\ \A d \in Cpu : d # c => mode'[d] = mode[d]
  BY <1>1, <1>3
<1>5. PtrInv'
  BY <1>1, <1>4 DEF TrapInv, PtrInv
<1>6. /\ tlb' \in [Cpu -> [Page -> Frame \cup {Absent}]]
      /\ \A d \in Cpu : d # c => tlb'[d] = tlb[d]
      /\ \A q \in Page : tlb'[c][q] = tlb[c][q] \/ tlb'[c][q] = Walk(c, q)
  <2>1. CASE tlb' = tlb
    BY <1>3, <2>1
  <2>2. ASSUME NEW p, tlb' = [tlb EXCEPT ![c][p] = Walk(c, p)]
        PROVE  /\ tlb' \in [Cpu -> [Page -> Frame \cup {Absent}]]
               /\ \A d \in Cpu : d # c => tlb'[d] = tlb[d]
               /\ \A q \in Page : tlb'[c][q] = tlb[c][q] \/ tlb'[c][q] = Walk(c, q)
    <3> DEFINE new == [tlb[c] EXCEPT ![p] = Walk(c, p)]
    <3>1. tlb' = [tlb EXCEPT ![c] = new] /\ tlb[c] \in [Page -> Frame \cup {Absent}]
      BY <1>3, <2>2
    <3>2. /\ new \in [Page -> Frame \cup {Absent}]
          /\ \A q \in Page : new[q] = tlb[c][q] \/ new[q] = Walk(c, q)
      BY <3>1, WalkFacts
    <3> HIDE DEF new
    <3> QED BY <1>3, <3>1, <3>2
  <2> QED BY <1>2, <2>1, <2>2
<1>7. TlbInv'
  <2>1. ASSUME NEW t \in Process, NEW d \in Cpu, at[t] = d, mode'[d] # "loaded", NEW q \in Page
        PROVE  tlb'[d][q] \in since[d][q] \cup {Absent}
    <3>1. CASE d = c
      <4>1. mode[c] # "loaded"
        BY <1>1
      <4>2. Walk(c, q) \in since[c][q] \cup {Absent}
        BY <2>1, <3>1, <4>1, WalkFacts
      <4>3. tlb[c][q] \in since[c][q] \cup {Absent}
        BY <2>1, <3>1, <4>1 DEF TrapInv, TlbInv
      <4> QED BY <1>6, <3>1, <4>2, <4>3
    <3>2. CASE d # c
      BY <1>4, <1>6, <2>1, <3>2 DEF TrapInv, TlbInv
    <3> QED BY <3>1, <3>2
  <2> QED BY <1>1, <1>6, <2>1 DEF TrapInv, TlbInv
<1> QED
  BY <1>5, <1>7 DEF TrapInv

LEMMA NextTrap == TrapInv /\ [TrapNext]_trapVars => TrapInv'
<1>1. ASSUME TrapInv, UNCHANGED trapVars PROVE TrapInv'
  BY <1>1 DEF trapVars, ctxVars, cpuVars, memVars, TrapInv, PtrInv, TlbInv
<1>2. ASSUME TrapInv, BspUse \/ TouchStack PROVE TrapInv'
  <2>1. CASE \E p : PageIn(p) /\ UNCHANGED <<act, bspThread, at, cpuVars>>
    BY <1>2, <2>1, PageInTrap
  <2>2. CASE UNCHANGED <<act, bspThread, at, cpuVars, memVars, since>>
    BY <1>2, <2>2 DEF cpuVars, memVars, TrapInv, PtrInv, TlbInv
  <2>3. UNCHANGED <<act, bspThread, at, cpuVars>>
    BY <1>2 DEF BspUse, TouchStack, ctxVars
  <2>4. (\E p : PageIn(p)) \/ UNCHANGED <<memVars, since>>
    BY <1>2 DEF BspUse, TouchStack
  <2> QED BY <2>1, <2>2, <2>3, <2>4
<1>3. ASSUME TrapInv, NEW c \in Cpu, LoadByFly(c) PROVE TrapInv'
  <2>1. LoadCpu(c) /\ act' = act /\ bspThread' = bspThread
    BY <1>3 DEF LoadByFly
  <2> QED BY <1>3, <2>1, LoadTrap DEF TrapInv, PtrInv
<1>4. ASSUME TrapInv, NEW c \in Cpu, NEW t \in Process, LoadAtSwitch(t, c) PROVE TrapInv'
  <2>1. LoadCpu(c) /\ act' = t /\ bspThread' = t
    BY <1>4 DEF LoadAtSwitch
  <2> QED BY <1>4, <2>1, LoadTrap
<1> QED
  BY <1>1, <1>2, <1>3, <1>4, RestTrap, PageOutTrap, UnloadTrap, EnterTrap, CpuTrap DEF TrapNext

LEMMA TrapInductive == TrapSpec => []TrapInv
<1> QED
  BY InitTrap, NextTrap, PTL DEF TrapSpec

\* thread_data() is the data of the thread that asks for it, on the BSP and on any AP.
THEOREM DataIsOwn == TrapSpec => []ThreadDataIsOwn
<1>1. TrapInv => ThreadDataIsOwn
  BY TrapAssumption DEF TrapInv, PtrInv, ThreadDataIsOwn, ThreadData
<1> QED
  BY <1>1, TrapInductive, PTL

\* The AP of a thread uses no translation from before the thread was loaded, and no
\* other process's (copy_pd, _switchtask).
THEOREM TranslatesOwn == TrapSpec => []TranslatesSinceLoad
<1>1. TrapInv => TranslatesSinceLoad
  BY DEF TrapInv, PtrInv, TlbInv, TranslatesSinceLoad
<1> QED
  BY <1>1, TrapInductive, PTL

-----------------------------------------------------------------------------
(* The EIP and the flags of Trap.                                           *)

\* What t has executed, and that its context says so.
Plains(t) == {n \in 1..Len(done[t]) : At(t, n).op = "plain"}
System(t) == IF at[t] = NoCpu THEN crs[t].flags.system ELSE procState[at[t]].flags.system
Follows(t) ==
    /\ done[t] = [n \in 1..Len(done[t]) |-> n]
    /\ at[t] = NoCpu \/ mode[at[t]] # "busy" =>
          /\ Context(t).eip = Len(done[t]) + 1
          /\ Context(t).flags.arith = Cardinality(Plains(t)) % 2
    /\ System(t) = t

RegsInv ==
    /\ crs \in [Process -> Regs] /\ procState \in [Cpu -> Regs] /\ core \in [Cpu -> Regs]
    /\ done \in [Process -> Seq(Nat)]

ExecInv == RegsInv /\ \A t \in Process : Follows(t)

LEMMA RegsFacts ==
    ASSUME NEW r \in Regs
    PROVE  /\ r.eip \in Nat /\ r.flags.arith \in 0..1 /\ r.flags.system \in Process \cup Cpu
           /\ Advance(r) \in Regs /\ Advance(r).eip = r.eip + 1 /\ Advance(r).flags = r.flags
           /\ Computed(r) \in Regs /\ Computed(r).eip = r.eip + 1
           /\ Computed(r).flags.arith = 1 - r.flags.arith
           /\ Computed(r).flags.system = r.flags.system
<1>1. r.eip \in Nat /\ r.flags.arith \in 0..1 /\ r.flags.system \in Process \cup Cpu
  BY DEF Regs, Flags
<1>2. /\ Advance(r) \in Regs /\ Advance(r).eip = r.eip + 1 /\ Advance(r).flags = r.flags
  BY DEF Regs, Flags, Advance
<1> DEFINE a == Advance(r)
<1>3. Computed(r) = [a EXCEPT !.flags = [a.flags EXCEPT !.arith = 1 - a.flags.arith]]
  BY DEF Computed
<1> HIDE DEF a
<1>4. a \in Regs /\ a.eip = r.eip + 1 /\ a.flags = r.flags
  BY <1>2 DEF a
<1>5. /\ Computed(r) \in Regs /\ Computed(r).eip = a.eip
      /\ Computed(r).flags.arith = 1 - a.flags.arith
      /\ Computed(r).flags.system = a.flags.system
  BY <1>3, <1>4 DEF Regs, Flags
<1> QED
  BY <1>1, <1>2, <1>4, <1>5

LEMMA ContextTyped ==
    ASSUME PtrInv, RegsInv, NEW t \in Process
    PROVE  Context(t) \in Regs
  BY DEF PtrInv, RegsInv, Context

\* A thread that has not moved on.
LEMMA StaysFollowing ==
    ASSUME NEW t \in Process, Follows(t), prog' = prog, done'[t] = done[t],
           at[t] = NoCpu \/ mode[at[t]] # "busy", Context(t) \in Regs,
           Context(t)'.eip = Context(t).eip, Context(t)'.flags.arith = Context(t).flags.arith,
           System(t)' = t
    PROVE  Follows(t)'
<1>1. Plains(t)' = Plains(t)
  BY DEF Plains, At
<1> QED
  BY <1>1 DEF Follows

\* A thread nobody has touched.
LEMMA RestsFollowing ==
    ASSUME NEW t \in Process, Follows(t), prog' = prog, done'[t] = done[t], at'[t] = at[t],
           at[t] # NoCpu => mode'[at[t]] = mode[at[t]], Context(t)' = Context(t),
           System(t)' = System(t)
    PROVE  Follows(t)'
<1>1. Plains(t)' = Plains(t)
  BY DEF Plains, At
<1> QED
  BY <1>1 DEF Follows

\* A thread that has executed the instruction at its EIP.
LEMMA ExecutesFollowing ==
    ASSUME RegsInv, NEW t \in Process, Follows(t), prog' = prog,
           at[t] = NoCpu \/ mode[at[t]] # "busy", Context(t) \in Regs,
           Executed(t, Context(t).eip),
           Context(t)'.eip = Context(t).eip + 1,
           Context(t)'.flags.arith = IF At(t, Context(t).eip).op = "plain"
                                     THEN 1 - Context(t).flags.arith ELSE Context(t).flags.arith,
           System(t)' = t
    PROVE  /\ Follows(t)' /\ done' \in [Process -> Seq(Nat)]
           /\ \A u \in Process : u # t => done'[u] = done[u]
<1> DEFINE d == done[t]
           e == Context(t).eip
           n == Cardinality(Plains(t))
<1>1. d \in Seq(Nat) /\ Len(d) \in Nat /\ e = Len(d) + 1 /\ e \in Nat
  BY DEF RegsInv, Follows
<1>2. /\ done'[t] = Append(d, e) /\ done' \in [Process -> Seq(Nat)]
      /\ \A u \in Process : u # t => done'[u] = done[u]
  BY <1>1 DEF RegsInv, Executed
<1>3. d = [i \in 1..Len(d) |-> i] /\ Context(t).flags.arith = n % 2
  BY DEF Follows
<1>4. Len(done'[t]) = e /\ \A i \in 1..e : done'[t][i] = i
  BY <1>1, <1>2, <1>3
<1>5. done'[t] = [i \in 1..Len(done'[t]) |-> i]
  BY <1>1, <1>2, <1>4
<1>6. Plains(t) \subseteq 1..Len(d) /\ e \notin Plains(t)
  BY <1>1 DEF Plains
<1>7. IsFiniteSet(Plains(t)) /\ n \in Nat
  <2>1. IsFiniteSet(1..Len(d))
    BY <1>1, FS_Interval
  <2> QED BY <1>6, <2>1, FS_Subset, FS_CardinalityType
<1>8. Plains(t)' = IF At(t, e).op = "plain" THEN Plains(t) \cup {e} ELSE Plains(t)
  <2>1. Plains(t)' = {i \in 1..e : At(t, i).op = "plain"}
    BY <1>4 DEF Plains, At
  <2>2. 1..e = (1..Len(d)) \cup {e}
    BY <1>1
  <2> QED BY <2>1, <2>2 DEF Plains
<1>9. Cardinality(Plains(t)') % 2 = IF At(t, e).op = "plain" THEN 1 - (n % 2) ELSE n % 2
  <2>1. CASE At(t, e).op = "plain"
    <3>1. Cardinality(Plains(t) \cup {e}) = n + 1
      <4> HIDE DEF e
      <4> QED BY <1>6, <1>7, FS_AddElement
    <3>2. Cardinality(Plains(t)') = n + 1
      BY <1>8, <2>1, <3>1
    <3> QED BY <1>7, <2>1, <3>2
  <2>2. CASE At(t, e).op # "plain"
    BY <1>8, <2>2
  <2> QED BY <2>1, <2>2
<1>10. Context(t)'.eip = Len(done'[t]) + 1
  BY <1>4
<1>11. Context(t)'.flags.arith = Cardinality(Plains(t)') % 2
  BY <1>3, <1>9
<1>12. Follows(t)'
  BY <1>5, <1>10, <1>11 DEF Follows
<1> QED
  BY <1>2, <1>12

LEMMA InitExec == TrapInit => ExecInv
<1> SUFFICES ASSUME TrapInit PROVE ExecInv
  OBVIOUS
<1>1. \A x \in Process \cup Cpu : Start(x) \in Regs
  BY DEF Start, Regs, Flags
<1>2. RegsInv
  BY <1>1 DEF TrapInit, RegsInv
<1>3. ASSUME NEW t \in Process PROVE Follows(t)
  <2>1. done[t] = << >> /\ at[t] = NoCpu /\ crs[t] = Start(t)
    BY DEF TrapInit
  <2>2. Plains(t) = {} /\ Cardinality(Plains(t)) = 0
    BY <2>1, FS_EmptySet DEF Plains
  <2>3. Context(t).eip = 1 /\ Context(t).flags.arith = 0 /\ Context(t).flags.system = t
    BY <2>1 DEF Context, Start
  <2>4. System(t) = t
    BY <2>1 DEF System, Start
  <2> QED BY <2>1, <2>2, <2>3, <2>4 DEF Follows
<1> QED
  BY <1>2, <1>3 DEF ExecInv

\* The BSP executes an instruction of the current thread.
LEMMA BspExec ==
    ASSUME TrapInv, ExecInv, at[act] = NoCpu, NEW r \in Regs, crs' = [crs EXCEPT ![act] = r],
           r.eip = crs[act].eip + 1, r.flags.system = crs[act].flags.system,
           r.flags.arith = IF At(act, crs[act].eip).op = "plain"
                           THEN 1 - crs[act].flags.arith ELSE crs[act].flags.arith,
           Executed(act, crs[act].eip), UNCHANGED <<prog, at, mode, procState, core>>
    PROVE  ExecInv'
<1>0. PICK t \in Process : t = act
  BY DEF TrapInv, PtrInv
<1>1. /\ RegsInv /\ PtrInv /\ Follows(t) /\ at[t] = NoCpu /\ Executed(t, crs[t].eip)
      /\ crs' = [crs EXCEPT ![t] = r] /\ r.eip = crs[t].eip + 1
      /\ r.flags.system = crs[t].flags.system
      /\ r.flags.arith = IF At(t, crs[t].eip).op = "plain"
                         THEN 1 - crs[t].flags.arith ELSE crs[t].flags.arith
  BY <1>0 DEF ExecInv, TrapInv
<1>2. /\ crs'[t] = r /\ crs' \in [Process -> Regs]
      /\ \A u \in Process : u # t => crs'[u] = crs[u]
  BY <1>1 DEF RegsInv
<1>3. Context(t) = crs[t] /\ Context(t)' = r /\ crs[t] \in Regs
  BY <1>1, <1>2 DEF Context, RegsInv
<1>4. System(t)' = t
  BY <1>1, <1>2 DEF Follows, System
<1>5. /\ Follows(t)' /\ done' \in [Process -> Seq(Nat)]
      /\ \A u \in Process : u # t => done'[u] = done[u]
  BY <1>1, <1>3, <1>4, ExecutesFollowing
<1>6. ASSUME NEW u \in Process, u # t PROVE Follows(u)'
  <2>1. Context(u)' = Context(u) /\ System(u)' = System(u)
    BY <1>2, <1>6 DEF Context, System
  <2>2. Follows(u)
    BY DEF ExecInv
  <2> QED BY <1>5, <1>6, <2>1, <2>2, RestsFollowing
<1>7. RegsInv'
  BY <1>1, <1>2, <1>5 DEF RegsInv
<1> QED
  BY <1>5, <1>6, <1>7 DEF ExecInv

\* AP c executes an instruction of its thread.
LEMMA CpuExec ==
    ASSUME TrapInv, ExecInv, NEW t \in Process, NEW c \in Cpu, at[t] = c, mode[c] = "running",
           NEW r \in Regs, core' = [core EXCEPT ![c] = r], r.eip = core[c].eip + 1,
           r.flags.arith = IF At(t, core[c].eip).op = "plain"
                           THEN 1 - core[c].flags.arith ELSE core[c].flags.arith,
           Executed(t, core[c].eip), UNCHANGED <<prog, at, mode, crs, procState>>
    PROVE  ExecInv'
<1>1. /\ RegsInv /\ PtrInv /\ Follows(t) /\ c # NoCpu
      /\ \A u \in Process : u # t => at[u] # c
  BY TrapAssumption DEF ExecInv, TrapInv, PtrInv
<1>2. /\ core'[c] = r /\ core' \in [Cpu -> Regs]
      /\ \A d \in Cpu : d # c => core'[d] = core[d]
  BY <1>1 DEF RegsInv
<1>3. Context(t) = core[c] /\ Context(t)' = r /\ core[c] \in Regs
  BY <1>1, <1>2 DEF Context, RegsInv
<1>4. System(t)' = t
  BY <1>1 DEF Follows, System
<1>5. /\ Follows(t)' /\ done' \in [Process -> Seq(Nat)]
      /\ \A u \in Process : u # t => done'[u] = done[u]
  BY <1>1, <1>3, <1>4, ExecutesFollowing
<1>6. ASSUME NEW u \in Process, u # t PROVE Follows(u)'
  <2>1. at[u] # c /\ at[u] \in Cpu \cup {NoCpu}
    BY <1>1, <1>6 DEF PtrInv
  <2>2. Context(u)' = Context(u) /\ System(u)' = System(u)
    BY <1>2, <2>1 DEF Context, System
  <2>3. Follows(u)
    BY DEF ExecInv
  <2> QED BY <1>5, <1>6, <2>2, <2>3, RestsFollowing
<1>7. RegsInv'
  BY <1>1, <1>2, <1>5 DEF RegsInv
<1> QED
  BY <1>5, <1>6, <1>7 DEF ExecInv

\* An exception of a thread on AP c, after the instruction or before it.
LEMMA SwitchBackExec ==
    ASSUME TrapInv, ExecInv, NEW t \in Process, NEW c \in Cpu, at[t] = c, mode[c] = "running",
           NEW e \in Nat, SwitchBack(c, e), mode' = [mode EXCEPT ![c] = "notify"],
           \/ e = core[c].eip /\ done' = done
           \/ e = core[c].eip + 1 /\ Executed(t, core[c].eip) /\ At(t, core[c].eip).op # "plain"
    PROVE  ExecInv'
<1>1. /\ RegsInv /\ PtrInv /\ Follows(t) /\ c # NoCpu
      /\ \A u \in Process : u # t => at[u] # c
  BY TrapAssumption DEF ExecInv, TrapInv, PtrInv
<1> DEFINE r == [eip |-> e, flags |-> [arith |-> core[c].flags.arith,
                                       system |-> procState[c].flags.system]]
<1>2. /\ procState' = [procState EXCEPT ![c] = r] /\ core' = [core EXCEPT ![c] = Start(c)]
      /\ UNCHANGED <<prog, at, crs>>
  BY DEF SwitchBack, ctxVars
<1>3. core[c] \in Regs /\ procState[c] \in Regs
  BY <1>1 DEF RegsInv
<1>4. r \in Regs /\ Start(c) \in Regs
  BY <1>3 DEF Regs, Flags, Start
<1>5. r.eip = e /\ r.flags.arith = core[c].flags.arith /\ r.flags.system = procState[c].flags.system
  OBVIOUS
<1> HIDE DEF r
<1>6. /\ procState'[c] = r /\ procState' \in [Cpu -> Regs] /\ core' \in [Cpu -> Regs]
      /\ \A d \in Cpu : d # c => core'[d] = core[d] /\ procState'[d] = procState[d]
  BY <1>1, <1>2, <1>4 DEF RegsInv
<1>7. mode'[c] = "notify" /\ \A d \in Cpu : d # c => mode'[d] = mode[d]
  BY <1>1 DEF PtrInv
<1>8. Context(t) = core[c] /\ Context(t)' = r /\ at'[t] = c
  BY <1>1, <1>2, <1>6, <1>7 DEF Context
<1>9. System(t)' = t
  BY <1>1, <1>2, <1>5, <1>6 DEF Follows, System
<1>10. /\ Follows(t)' /\ done' \in [Process -> Seq(Nat)]
       /\ \A u \in Process : u # t => done'[u] = done[u]
  <2>1. CASE e = core[c].eip /\ done' = done
    <3>1. Follows(t)'
      BY <1>1, <1>2, <1>3, <1>5, <1>8, <1>9, <2>1, StaysFollowing
    <3> QED BY <1>1, <2>1, <3>1 DEF RegsInv
  <2>2. CASE e = core[c].eip + 1 /\ Executed(t, core[c].eip) /\ At(t, core[c].eip).op # "plain"
    BY <1>1, <1>2, <1>3, <1>5, <1>8, <1>9, <2>2, ExecutesFollowing
  <2> QED BY <2>1, <2>2
<1>11. ASSUME NEW u \in Process, u # t PROVE Follows(u)'
  <2>1. at[u] # c /\ at[u] \in Cpu \cup {NoCpu}
    BY <1>1, <1>11 DEF PtrInv
  <2>2. Context(u)' = Context(u) /\ System(u)' = System(u)
    BY <1>2, <1>6, <1>7, <2>1 DEF Context, System
  <2>3. Follows(u)
    BY DEF ExecInv
  <2> QED BY <1>2, <1>7, <1>10, <1>11, <2>1, <2>2, <2>3, RestsFollowing
<1>12. RegsInv'
  BY <1>1, <1>2, <1>6, <1>10 DEF RegsInv
<1> QED
  BY <1>10, <1>11, <1>12 DEF ExecInv

\* The current thread is loaded on AP c, with fly() executed or at a switch.
LEMMA LoadExec ==
    ASSUME TrapInv, ExecInv, NEW c \in Cpu, LoadCpu(c), NEW r \in Regs,
           procState' = [procState EXCEPT ![c] = r], r.flags = crs[act].flags,
           \/ r.eip = crs[act].eip /\ done' = done
           \/ r.eip = crs[act].eip + 1 /\ Executed(act, crs[act].eip)
              /\ At(act, crs[act].eip).op # "plain"
    PROVE  ExecInv'
<1>0. PICK t \in Process : t = act
  BY DEF TrapInv, PtrInv
<1>1. /\ RegsInv /\ PtrInv /\ Follows(t) /\ c # NoCpu
      /\ at[t] = NoCpu /\ mode[c] = "free" /\ UNCHANGED <<prog, crs, core>>
      /\ at' = [at EXCEPT ![t] = c] /\ mode' = [mode EXCEPT ![c] = "loaded"]
      /\ r.flags = crs[t].flags
      /\ \/ r.eip = crs[t].eip /\ done' = done
         \/ r.eip = crs[t].eip + 1 /\ Executed(t, crs[t].eip) /\ At(t, crs[t].eip).op # "plain"
  BY <1>0, TrapAssumption DEF ExecInv, TrapInv, LoadCpu
<1>2. \A u \in Process : at[u] # c
  BY <1>1 DEF PtrInv
<1>3. /\ at'[t] = c /\ \A u \in Process : u # t => at'[u] = at[u]
      /\ mode'[c] = "loaded" /\ \A d \in Cpu : d # c => mode'[d] = mode[d]
  BY <1>1 DEF PtrInv
<1>4. /\ procState'[c] = r /\ procState' \in [Cpu -> Regs]
      /\ \A d \in Cpu : d # c => procState'[d] = procState[d]
  BY <1>1 DEF RegsInv
<1>5. Context(t) = crs[t] /\ Context(t)' = r /\ crs[t] \in Regs
  BY <1>1, <1>3, <1>4 DEF Context, RegsInv
<1>6. System(t)' = t
  BY <1>1, <1>3, <1>4 DEF Follows, System
<1>7. /\ Follows(t)' /\ done' \in [Process -> Seq(Nat)]
      /\ \A u \in Process : u # t => done'[u] = done[u]
  <2>1. CASE r.eip = crs[t].eip /\ done' = done
    <3>1. Follows(t)'
      BY <1>1, <1>5, <1>6, <2>1, StaysFollowing
    <3> QED BY <1>1, <2>1, <3>1 DEF RegsInv
  <2>2. CASE r.eip = crs[t].eip + 1 /\ Executed(t, crs[t].eip)
             /\ At(t, crs[t].eip).op # "plain"
    BY <1>1, <1>5, <1>6, <2>2, ExecutesFollowing
  <2> QED BY <1>1, <2>1, <2>2
<1>8. ASSUME NEW u \in Process, u # t PROVE Follows(u)'
  <2>1. at[u] # c /\ at[u] \in Cpu \cup {NoCpu}
    BY <1>1, <1>2 DEF PtrInv
  <2>2. Context(u)' = Context(u) /\ System(u)' = System(u)
    BY <1>1, <1>3, <1>4, <1>8, <2>1 DEF Context, System
  <2>3. Follows(u)
    BY DEF ExecInv
  <2> QED BY <1>1, <1>3, <1>7, <1>8, <2>1, <2>2, <2>3, RestsFollowing
<1>9. RegsInv'
  BY <1>1, <1>4, <1>7 DEF RegsInv
<1> QED
  BY <1>7, <1>8, <1>9 DEF ExecInv

\* reattach(): the current thread comes back from AP c.
LEMMA UnloadExec == ASSUME TrapInv, ExecInv, NEW c \in Cpu, Unload(c) PROVE ExecInv'
<1>0. PICK t \in Process : t = act
  BY DEF TrapInv, PtrInv
<1>1. /\ RegsInv /\ PtrInv /\ Follows(t) /\ c # NoCpu
      /\ at[t] = c /\ mode[c] = "cargo" /\ UNCHANGED <<prog, procState, core, done>>
      /\ at' = [at EXCEPT ![t] = NoCpu] /\ mode' = [mode EXCEPT ![c] = "free"]
      /\ crs' = [crs EXCEPT ![t] = procState[c]]
  BY <1>0, TrapAssumption DEF ExecInv, TrapInv, Unload
<1>2. \A u \in Process : u # t => at[u] # c
  BY <1>1 DEF PtrInv
<1>3. /\ at'[t] = NoCpu /\ \A u \in Process : u # t => at'[u] = at[u]
      /\ \A d \in Cpu : d # c => mode'[d] = mode[d]
  BY <1>1 DEF PtrInv
<1>4. /\ crs'[t] = procState[c] /\ crs' \in [Process -> Regs]
      /\ \A u \in Process : u # t => crs'[u] = crs[u]
  BY <1>1 DEF RegsInv
<1>5. Context(t) = procState[c] /\ Context(t)' = procState[c] /\ procState[c] \in Regs
  BY <1>1, <1>3, <1>4 DEF Context, RegsInv
<1>6. System(t)' = t
  BY <1>1, <1>3, <1>4 DEF Follows, System
<1>7. Follows(t)'
  BY <1>1, <1>5, <1>6, StaysFollowing
<1>8. ASSUME NEW u \in Process, u # t PROVE Follows(u)'
  <2>1. at[u] # c /\ at[u] \in Cpu \cup {NoCpu}
    BY <1>1, <1>2, <1>8 DEF PtrInv
  <2>2. Context(u)' = Context(u) /\ System(u)' = System(u)
    BY <1>1, <1>3, <1>4, <1>8, <2>1 DEF Context, System
  <2>3. Follows(u)
    BY DEF ExecInv
  <2> QED BY <1>1, <1>3, <1>8, <2>1, <2>2, <2>3, RestsFollowing
<1>9. RegsInv'
  BY <1>1, <1>4 DEF RegsInv
<1> QED
  BY <1>7, <1>8, <1>9 DEF ExecInv

\* _switchtask, and the AP's own loop after it.
LEMMA LoopExec ==
    ASSUME TrapInv, ExecInv, NEW c \in Cpu, EnterUser(c) \/ Notify(c) PROVE ExecInv'
<1>1. /\ RegsInv /\ PtrInv /\ c # NoCpu /\ UNCHANGED <<prog, at, crs, procState, done>>
      /\ \E m \in {"running", "cargo"} : mode' = [mode EXCEPT ![c] = m]
  BY TrapAssumption DEF ExecInv, TrapInv, EnterUser, Notify, ctxVars
<1>2. /\ mode'[c] \in {"running", "cargo"} /\ mode[c] \in {"loaded", "notify"}
      /\ \A d \in Cpu : d # c => mode'[d] = mode[d]
  BY <1>1 DEF PtrInv, EnterUser, Notify
<1> DEFINE r == [procState[c] EXCEPT !.flags.system = c]
<1>3. procState[c] \in Regs
  BY <1>1 DEF RegsInv
<1>4. r \in Regs /\ r.eip = procState[c].eip /\ r.flags.arith = procState[c].flags.arith
  BY <1>3 DEF Regs, Flags
<1>5. \/ core' = core /\ mode'[c] = "cargo"
      \/ core' = [core EXCEPT ![c] = r]
  BY <1>1 DEF EnterUser, Notify, PtrInv
<1> HIDE DEF r
<1>6. /\ core' \in [Cpu -> Regs] /\ \A d \in Cpu : d # c => core'[d] = core[d]
      /\ mode'[c] = "running" => core'[c] = r
  BY <1>1, <1>4, <1>5 DEF RegsInv
<1>7. ASSUME NEW u \in Process, at[u] = c PROVE Follows(u)'
  <2>1. Context(u) = procState[c] /\ Context(u)' \in {procState[c], r}
    BY <1>1, <1>2, <1>6, <1>7 DEF Context
  <2>2. Follows(u) /\ System(u)' = System(u)
    BY <1>1 DEF ExecInv, System
  <2>3. System(u)' = u
    BY <2>2 DEF Follows
  <2> QED BY <1>1, <1>2, <1>3, <1>4, <1>7, <2>1, <2>2, <2>3, StaysFollowing
<1>8. ASSUME NEW u \in Process, at[u] # c PROVE Follows(u)'
  <2>1. at[u] \in Cpu \cup {NoCpu}
    BY <1>1 DEF PtrInv
  <2>2. Context(u)' = Context(u) /\ System(u)' = System(u)
    BY <1>1, <1>2, <1>6, <1>8, <2>1 DEF Context, System
  <2>3. Follows(u)
    BY DEF ExecInv
  <2> QED BY <1>1, <1>2, <1>8, <2>1, <2>2, <2>3, RestsFollowing
<1>9. RegsInv'
  BY <1>1, <1>6 DEF RegsInv
<1> QED
  BY <1>7, <1>8, <1>9 DEF ExecInv

\* The stack page of a thread is not there: the context that AP c keeps of it is no
\* longer its own, but for the bits of the system.
LEMMA KernelFaultExec ==
    ASSUME TrapInv, ExecInv, NEW c \in Cpu, KernelFault(c) PROVE ExecInv'
<1>1. /\ RegsInv /\ PtrInv /\ c # NoCpu /\ UNCHANGED <<prog, at, crs, done>>
      /\ mode' = [mode EXCEPT ![c] = "busy"] /\ SwitchBack(c, 0)
  BY TrapAssumption DEF ExecInv, TrapInv, KernelFault, SwitchBack, ctxVars, Lost
<1> DEFINE r == [eip |-> 0, flags |-> [arith |-> core[c].flags.arith,
                                       system |-> procState[c].flags.system]]
<1>2. procState' = [procState EXCEPT ![c] = r] /\ core' = [core EXCEPT ![c] = Start(c)]
  BY <1>1 DEF SwitchBack
<1>3. core[c] \in Regs /\ procState[c] \in Regs
  BY <1>1 DEF RegsInv
<1>4. r \in Regs /\ Start(c) \in Regs /\ r.flags.system = procState[c].flags.system
  BY <1>3 DEF Regs, Flags, Start
<1> HIDE DEF r
<1>5. /\ procState'[c] = r /\ procState' \in [Cpu -> Regs] /\ core' \in [Cpu -> Regs]
      /\ \A d \in Cpu : d # c => core'[d] = core[d] /\ procState'[d] = procState[d]
  BY <1>1, <1>2, <1>4 DEF RegsInv
<1>6. mode'[c] = "busy" /\ \A d \in Cpu : d # c => mode'[d] = mode[d]
  BY <1>1 DEF PtrInv
<1>7. ASSUME NEW u \in Process, at[u] = c PROVE Follows(u)'
  <2>1. Follows(u)
    BY DEF ExecInv
  <2>2. System(u)' = u
    BY <1>1, <1>4, <1>5, <1>7, <2>1 DEF Follows, System
  <2> QED BY <1>1, <1>6, <1>7, <2>1, <2>2 DEF Follows
<1>8. ASSUME NEW u \in Process, at[u] # c PROVE Follows(u)'
  <2>1. at[u] \in Cpu \cup {NoCpu}
    BY <1>1 DEF PtrInv
  <2>2. Context(u)' = Context(u) /\ System(u)' = System(u)
    BY <1>1, <1>5, <1>6, <1>8, <2>1 DEF Context, System
  <2>3. Follows(u)
    BY DEF ExecInv
  <2> QED BY <1>1, <1>6, <1>8, <2>1, <2>2, <2>3, RestsFollowing
<1>9. RegsInv'
  BY <1>1, <1>5 DEF RegsInv
<1> QED
  BY <1>7, <1>8, <1>9 DEF ExecInv

\* The memory and the current thread do not matter.
LEMMA RestExec ==
    ASSUME ExecInv, UNCHANGED <<prog, crs, at, mode, procState, core, done>> PROVE ExecInv'
<1>1. RegsInv'
  BY DEF ExecInv, RegsInv
<1>2. ASSUME NEW u \in Process PROVE Follows(u)'
  <2>1. Context(u)' = Context(u) /\ System(u)' = System(u)
    BY DEF Context, System
  <2>2. Follows(u)
    BY DEF ExecInv
  <2> QED BY <2>1, <2>2, RestsFollowing
<1> QED
  BY <1>1, <1>2 DEF ExecInv

\* Where a routine drops a word, the processor has pushed one.
LEMMA SavedEipIsOwn ==
    ASSUME NEW v \in 0..31, Isr(v) \in {"error", "error_code"}, NEW e
    PROVE  SavedEip(v, e) = e
<1>1. Isr(v) = "error_code" <=> v \in PushesCode
  BY DEF Isr, PushesCode
<1> QED
  BY <1>1 DEF SavedEip

LEMMA NextExec == TrapInv /\ ExecInv /\ [TrapNext]_trapVars => ExecInv'
<1> SUFFICES ASSUME TrapInv, ExecInv, [TrapNext]_trapVars PROVE ExecInv'
  OBVIOUS
<1>1. act \in Process /\ RegsInv /\ crs[act] \in Regs
  BY DEF TrapInv, PtrInv, ExecInv, RegsInv
<1>2. CASE BspExecute
  <2>1. PICK op \in {"plain", "trap", "int3", "land"} :
           /\ BspOp(op)
           /\ crs' = [crs EXCEPT ![act] = IF op = "plain" THEN Computed(crs[act])
                                          ELSE Advance(crs[act])]
    BY <1>1, <1>2 DEF BspExecute, RegsInv
  <2> DEFINE r == IF op = "plain" THEN Computed(crs[act]) ELSE Advance(crs[act])
  <2>2. /\ r \in Regs /\ r.eip = crs[act].eip + 1 /\ r.flags.system = crs[act].flags.system
        /\ r.flags.arith = IF op = "plain" THEN 1 - crs[act].flags.arith ELSE crs[act].flags.arith
    BY <1>1, RegsFacts
  <2>3. crs' = [crs EXCEPT ![act] = r]
    BY <2>1
  <2> HIDE DEF r
  <2>4. at[act] = NoCpu /\ At(act, crs[act].eip).op = op
    BY <2>1 DEF BspOp
  <2>5. Executed(act, crs[act].eip) /\ UNCHANGED <<prog, at, mode, procState, core>>
    BY <1>2 DEF BspExecute, cpuVars
  <2> QED BY <2>2, <2>3, <2>4, <2>5, BspExec
<1>3. CASE BspUse \/ NoFreeCpu
  <2> DEFINE r == Advance(crs[act])
  <2>1. r \in Regs /\ r.eip = crs[act].eip + 1 /\ r.flags = crs[act].flags
    BY <1>1, RegsFacts
  <2>2. crs' = [crs EXCEPT ![act] = r]
    BY <1>1, <1>3 DEF BspUse, NoFreeCpu, RegsInv
  <2>3. at[act] = NoCpu /\ At(act, crs[act].eip).op # "plain"
    BY <1>3 DEF BspUse, NoFreeCpu, BspOp
  <2>4. Executed(act, crs[act].eip) /\ UNCHANGED <<prog, at, mode, procState, core>>
    BY <1>3 DEF BspUse, NoFreeCpu, cpuVars
  <2> HIDE DEF r
  <2> QED BY <2>1, <2>2, <2>3, <2>4, BspExec
<1>4. CASE TouchStack
  BY <1>4, RestExec DEF TouchStack, ctxVars, cpuVars
<1>5. ASSUME NEW t \in Process, SwitchAway(t) PROVE ExecInv'
  BY <1>5, RestExec DEF SwitchAway, cpuVars
<1>6. ASSUME NEW t \in Process, NEW p \in Page, PageOut(t, p) PROVE ExecInv'
  BY <1>6, RestExec DEF PageOut, ctxVars, cpuVars
<1>7. ASSUME NEW c \in Cpu, LoadByFly(c) PROVE ExecInv'
  <2> DEFINE r == Advance(crs[act])
  <2>1. r \in Regs /\ r.eip = crs[act].eip + 1 /\ r.flags = crs[act].flags
    BY <1>1, RegsFacts
  <2>2. /\ LoadCpu(c) /\ procState' = [procState EXCEPT ![c] = r]
        /\ Executed(act, crs[act].eip) /\ At(act, crs[act].eip).op # "plain"
    BY <1>7 DEF LoadByFly, BspOp
  <2> HIDE DEF r
  <2> QED BY <2>1, <2>2, LoadExec
<1>8. ASSUME NEW t \in Process, NEW c \in Cpu, LoadAtSwitch(t, c) PROVE ExecInv'
  BY <1>1, <1>8, LoadExec DEF LoadAtSwitch
<1>9. ASSUME NEW c \in Cpu, Unload(c) PROVE ExecInv'
  BY <1>9, UnloadExec
<1>10. ASSUME NEW c \in Cpu, EnterUser(c) \/ Notify(c) PROVE ExecInv'
  BY <1>10, LoopExec
<1>11. ASSUME NEW c \in Cpu, KernelFault(c) PROVE ExecInv'
  BY <1>11, KernelFaultExec
<1>12. ASSUME NEW t \in Process, NEW c \in Cpu, CpuExecute(t, c) PROVE ExecInv'
  <2>1. core[c] \in Regs
    BY <1>1 DEF RegsInv
  <2>2. PICK op \in {"plain", "fly"} :
           /\ CpuOp(t, c, op)
           /\ core' = [core EXCEPT ![c] = IF op = "plain" THEN Computed(core[c])
                                          ELSE Advance(core[c])]
    BY <1>1, <1>12 DEF CpuExecute, RegsInv
  <2> DEFINE r == IF op = "plain" THEN Computed(core[c]) ELSE Advance(core[c])
  <2>3. /\ r \in Regs /\ r.eip = core[c].eip + 1
        /\ r.flags.arith = IF op = "plain" THEN 1 - core[c].flags.arith ELSE core[c].flags.arith
    BY <2>1, RegsFacts
  <2>4. core' = [core EXCEPT ![c] = r]
    BY <2>2
  <2> HIDE DEF r
  <2>5. at[t] = c /\ mode[c] = "running" /\ At(t, core[c].eip).op = op
    BY <2>2 DEF CpuOp, Runs
  <2>6. Executed(t, core[c].eip) /\ UNCHANGED <<prog, at, mode, crs, procState>>
    BY <1>12 DEF CpuExecute, ctxVars
  <2> QED BY <2>3, <2>4, <2>5, <2>6, CpuExec
<1>13. ASSUME NEW t \in Process, NEW c \in Cpu, CpuUse(t, c) PROVE ExecInv'
  <2> DEFINE r == Advance(core[c])
  <2>1. core[c] \in Regs /\ r \in Regs /\ r.eip = core[c].eip + 1 /\ r.flags = core[c].flags
    BY <1>1, RegsFacts DEF RegsInv
  <2>2. core' = [core EXCEPT ![c] = r]
    BY <1>1, <1>13 DEF CpuUse, RegsInv
  <2>3. at[t] = c /\ mode[c] = "running" /\ At(t, core[c].eip).op # "plain"
    BY <1>13 DEF CpuUse, CpuOp, Runs
  <2>4. Executed(t, core[c].eip) /\ UNCHANGED <<prog, at, mode, crs, procState>>
    BY <1>13 DEF CpuUse, ctxVars
  <2> HIDE DEF r
  <2> QED BY <2>1, <2>2, <2>3, <2>4, CpuExec
<1>14. ASSUME NEW t \in Process, NEW c \in Cpu, ErrorIsr(t, c) PROVE ExecInv'
  <2>1. PICK v \in 0..31, n \in {0, 1} :
           /\ Isr(v) \in {"error", "error_code"} /\ n \in Behind(v)
           /\ \/ CpuOp(t, c, "trap")
              \/ CpuOp(t, c, "use") /\ v = 14
           /\ SwitchBack(c, SavedEip(v, core[c].eip + n))
           /\ IF n = 1 THEN Executed(t, core[c].eip) ELSE UNCHANGED done
    BY <1>14 DEF ErrorIsr, Behind
  <2>2. SwitchBack(c, core[c].eip + n)
    BY <2>1, SavedEipIsOwn
  <2>3. /\ at[t] = c /\ mode[c] = "running" /\ mode' = [mode EXCEPT ![c] = "notify"]
        /\ At(t, core[c].eip).op # "plain"
    BY <1>14, <2>1 DEF ErrorIsr, CpuOp, Runs
  <2>4. core[c].eip \in Nat
    BY <1>1 DEF RegsInv, Regs
  <2>5. CASE n = 1
    <3>1. core[c].eip + 1 \in Nat
      BY <2>4
    <3>2. SwitchBack(c, core[c].eip + 1) /\ Executed(t, core[c].eip)
      BY <2>1, <2>2, <2>5
    <3> QED BY <2>3, <3>1, <3>2, SwitchBackExec
  <2>6. CASE n = 0
    <3>1. core[c].eip + 0 = core[c].eip
      BY <2>4
    <3>2. SwitchBack(c, core[c].eip) /\ done' = done
      BY <2>1, <2>2, <2>6, <3>1
    <3> QED BY <2>3, <2>4, <3>2, SwitchBackExec
  <2> QED BY <2>1, <2>5, <2>6
<1>15. ASSUME NEW t \in Process, NEW c \in Cpu, Int3Isr(t, c) PROVE ExecInv'
  <2>1. core[c].eip \in Nat
    BY <1>1 DEF RegsInv, Regs
  <2>2. mode' = [mode EXCEPT ![c] = "notify"]
    BY <1>15 DEF Int3Isr
  <2>3. CASE /\ CpuOp(t, c, "land") /\ SwitchBack(c, core[c].eip + 1)
             /\ Executed(t, core[c].eip)
    <3>1. /\ at[t] = c /\ mode[c] = "running" /\ At(t, core[c].eip).op # "plain"
      BY <2>3 DEF CpuOp, Runs
    <3>2. core[c].eip + 1 \in Nat
      BY <2>1
    <3> QED BY <2>2, <2>3, <3>1, <3>2, SwitchBackExec
  <2>4. CASE /\ CpuOp(t, c, "int3") /\ SwitchBack(c, core[c].eip + 1 - 1)
             /\ UNCHANGED done
    <3>1. at[t] = c /\ mode[c] = "running"
      BY <2>4 DEF CpuOp, Runs
    <3>2. core[c].eip + 1 - 1 = core[c].eip
      BY <2>1
    <3> QED BY <2>1, <2>2, <2>4, <3>1, <3>2, SwitchBackExec
  <2> QED BY <1>15, <2>3, <2>4 DEF Int3Isr
<1>16. CASE UNCHANGED trapVars
  BY <1>16, RestExec DEF trapVars, ctxVars, cpuVars
<1> QED
  BY <1>2, <1>3, <1>4, <1>5, <1>6, <1>7, <1>8, <1>9, <1>10, <1>11, <1>12, <1>13, <1>14, <1>15,
     <1>16 DEF TrapNext

LEMMA ExecMeansOnce == PtrInv /\ ExecInv => ExecutedOnce /\ FlagsMerged
<1> SUFFICES ASSUME PtrInv, ExecInv PROVE ExecutedOnce /\ FlagsMerged
  OBVIOUS
<1>1. ExecutedOnce
  BY DEF ExecInv, Follows, ExecutedOnce
<1>2. ASSUME NEW t \in Process, at[t] = NoCpu \/ mode[at[t]] # "running"
      PROVE  Context(t).flags.system = t
  BY <1>2 DEF ExecInv, Follows, System, Context
<1>3. FlagsMerged
  BY <1>2 DEF ExecInv, Follows, Plains, FlagsMerged
<1> QED
  BY <1>1, <1>3

LEMMA ExecIsInvariant == TrapSpec => []ExecInv
<1>1. TrapInit => ExecInv
  BY InitExec
<1>2. TrapInv /\ ExecInv /\ [TrapNext]_trapVars => ExecInv'
  BY NextExec
<1>3. TrapSpec => []TrapInv
  BY TrapInductive
<1> QED
  BY <1>1, <1>2, <1>3, PTL DEF TrapSpec

\* Every instruction is executed once and in order, on whatever processor and
\* whatever exceptions send the thread back: the saved EIP is that of the instruction
\* to be executed next (_error_isr_code, _int3_isr, switch_to_ap, switch_to_bsp).
THEOREM ExecutesOnce == TrapSpec => []ExecutedOnce
<1>1. TrapInv /\ ExecInv => ExecutedOnce
  BY ExecMeansOnce DEF TrapInv
<1>2. TrapSpec => []TrapInv
  BY TrapInductive
<1> QED
  BY <1>1, <1>2, ExecIsInvariant, PTL

\* EFLAGS: the bits of the system are those Windows gave the thread, the others those
\* its own instructions left (eflags_mask in switch_back).
THEOREM MergesFlags == TrapSpec => []FlagsMerged
<1>1. TrapInv /\ ExecInv => FlagsMerged
  BY ExecMeansOnce DEF TrapInv
<1>2. TrapSpec => []TrapInv
  BY TrapInductive
<1> QED
  BY <1>1, <1>2, ExecIsInvariant, PTL

-----------------------------------------------------------------------------
(* The types of Trap.                                                       *)

\* What the other invariants do not say: programs stay, directories have pages.
MemInv ==
    /\ prog \in [Process -> Programs]
    /\ pd \in [Cpu -> [of : Process, entries : SUBSET Page]]
    /\ pde \in [Process -> SUBSET Page]

\* An access is to a page.
LEMMA UsesPage ==
    ASSUME MemInv, NEW t \in Process, NEW eip, At(t, eip).op = "use"
    PROVE  At(t, eip).page \in Page
<1>1. prog[t] \in Seq(Instruction)
  BY TrapAssumption DEF MemInv
<1>2. eip \in 1..Len(prog[t])
  BY DEF At
<1>3. prog[t][eip] \in Instruction
  BY <1>1, <1>2
<1>4. At(t, eip) \in Instruction
  BY <1>2, <1>3 DEF At
<1>5. \E p \in Page : At(t, eip) = Use(p)
  BY <1>4 DEF Instruction, Plain, Int3, FlyOp, LandOp, Use, Trap
<1> QED
  BY <1>5 DEF Use

LEMMA NextMem == TrapInv /\ MemInv /\ [TrapNext]_trapVars => MemInv'
<1> SUFFICES ASSUME TrapInv, MemInv, [TrapNext]_trapVars PROVE MemInv'
  OBVIOUS
<1>1. act \in Process
  BY DEF TrapInv, PtrInv
<1>2. prog' = prog
  BY DEF TrapNext, BspExecute, BspUse, TouchStack, NoFreeCpu, SwitchAway, PageOut, LoadByFly, LoadAtSwitch,
         LoadCpu, Unload, EnterUser, Notify, KernelFault, CpuExecute, CpuUse, ErrorIsr, Int3Isr, SwitchBack,
         trapVars
<1>3. pde' = pde \/ \E p \in Page : pde' = [pde EXCEPT ![act] = @ \cup {p}]
  <2>1. CASE BspUse
    <3>1. At(act, crs[act].eip).page \in Page
      BY <1>1, <2>1, UsesPage DEF BspUse, BspOp
    <3> QED BY <2>1, <3>1 DEF BspUse, PageIn, memVars
  <2>2. CASE TouchStack
    BY <2>2, TrapAssumption DEF TouchStack, PageIn
  <2> QED
    BY <2>1, <2>2 DEF TrapNext, BspExecute, NoFreeCpu, SwitchAway, PageOut, LoadByFly, LoadAtSwitch,
       LoadCpu, Unload, EnterUser, Notify, KernelFault, CpuExecute, CpuUse, ErrorIsr, Int3Isr, SwitchBack,
       trapVars, memVars
<1>4. pd' = pd \/ \E c \in Cpu : pd' = [pd EXCEPT ![c] = CopyPd]
  BY DEF TrapNext, BspExecute, BspUse, TouchStack, NoFreeCpu, SwitchAway, PageOut, LoadByFly, LoadAtSwitch,
         LoadCpu, Unload, EnterUser, Notify, KernelFault, CpuExecute, CpuUse, ErrorIsr, Int3Isr, SwitchBack,
         trapVars, cpuVars
<1>5. pde' \in [Process -> SUBSET Page]
  BY <1>1, <1>3 DEF MemInv
<1>6. CopyPd \in [of : Process, entries : SUBSET Page]
  BY <1>1 DEF CopyPd, MemInv
<1>7. pd' \in [Cpu -> [of : Process, entries : SUBSET Page]]
  BY <1>4, <1>6 DEF MemInv
<1> QED
  BY <1>2, <1>5, <1>7 DEF MemInv

\* Every variable of Trap keeps its type.
THEOREM TrapTypeCorrect == TrapSpec => []TrapTypeOK
<1>1. TrapInit => MemInv
  BY TrapAssumption DEF TrapInit, MemInv
<1>2. TrapInv /\ ExecInv /\ MemInv => TrapTypeOK
  BY DEF TrapInv, PtrInv, TlbInv, ExecInv, RegsInv, MemInv, TrapTypeOK
<1> QED
  BY <1>1, <1>2, NextMem, TrapInductive, ExecIsInvariant, PTL DEF TrapSpec

=============================================================================
