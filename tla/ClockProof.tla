----------------------------- MODULE ClockProof -----------------------------
(* The driver's clock, delays and usage register, for every width of a word, every   *)
(* processor and every number of samples.                                            *)
EXTENDS MCContext, ContextProof, WellFoundedInduction

-----------------------------------------------------------------------------
(* Arithmetic.                                                              *)

LEMMA DivMod ==
    ASSUME NEW a \in Nat, NEW d \in Nat \ {0}
    PROVE  a \div d \in Nat /\ a % d \in 0..(d - 1) /\ a = d * (a \div d) + (a % d)
OBVIOUS

LEMMA TimesMono ==
    ASSUME NEW a \in Nat, NEW b \in Nat, NEW c \in Nat, a <= b
    PROVE  c * a <= c * b /\ a * c <= b * c /\ c * a \in Nat /\ a * c \in Nat
OBVIOUS

LEMMA DivUnique ==
    ASSUME NEW a \in Nat, NEW d \in Nat \ {0}, NEW q \in Nat, NEW r \in 0..(d - 1), a = d * q + r
    PROVE  a \div d = q /\ a % d = r
OBVIOUS

\* The quotient is the largest that fits.
LEMMA DivBound ==
    ASSUME NEW a \in Nat, NEW d \in Nat \ {0}, NEW q \in Nat
    PROVE  d * q <= a <=> q <= a \div d
OBVIOUS

LEMMA SubSeqFacts ==
    ASSUME NEW S, NEW s \in Seq(S), NEW b \in S, NEW n \in 1..(Len(s) + 1),
           NEW t, t = SubSeq(<<b>> \o s, 1, n)
    PROVE  /\ t \in Seq(S) /\ Len(t) = n /\ t[1] = b
           /\ \A i \in 1..(n - 1) : t[i + 1] = s[i]
OBVIOUS

-----------------------------------------------------------------------------
(* The counter and the delays.                                              *)

\* Both halves are reached only when the whole is.
LEMMA ReachedIsLater ==
    ASSUME NEW t \in Nat, NEW until \in Nat, Reached(t, until)
    PROVE  t >= until
<1> DEFINE W == Word
<1>1. W \in Nat \ {0}
  BY ClockAssumption
<1> HIDE DEF W
<1>2. /\ t \div W \in Nat /\ t % W \in 0..(W - 1) /\ t = W * (t \div W) + (t % W)
      /\ until \div W \in Nat /\ until % W \in 0..(W - 1) /\ until = W * (until \div W) + (until % W)
  BY <1>1, DivMod
<1>3. t \div W >= until \div W /\ t % W >= until % W
  BY DEF Reached, Hi, Lo, W
<1>4. W * (until \div W) <= W * (t \div W)
  BY <1>1, <1>2, <1>3, TimesMono
<1> QED
  BY <1>1, <1>2, <1>3, <1>4

\* The product that mdelay, udelay and the AP's timeout compute.
LEMMA ProductFacts ==
    ASSUME NEW n \in Nat, NEW c \in Nat
    PROVE  Product(n, c) \in 0..(Word - 1) /\ (n * c < Word => Product(n, c) = n * c)
<1>1. Word \in Nat \ {0} /\ n * c \in Nat
  BY ClockAssumption
<1> DEFINE p == n * c
<1>2. p \in Nat
  BY <1>1
<1> HIDE DEF p
<1>3. p % Word \in 0..(Word - 1) /\ (p < Word => p % Word = p)
  BY <1>1, <1>2
<1> QED
  BY <1>3 DEF Product, p

\* The frequency CPUID tells is a word.
LEMMA FreqFits ==
    ASSUME NEW c \in Clocks
    PROVE  TscFreq(c) \in 0..(Word - 1)
<1>1. /\ Word \in Nat \ {0} /\ Kilo \in Nat \ {0}
      /\ c.eax \in Nat /\ c.ebx \in Nat /\ c.ecx \in Nat /\ c.mhz \in Nat
  BY ClockAssumption
<1>2. c.mhz * Kilo \in Nat /\ c.ecx \div Kilo \in Nat
  BY <1>1, DivMod
<1>3. (c.ecx \div Kilo) * c.ebx \in Nat
  BY <1>1, <1>2
<1>4. ASSUME NEW p \in Nat, NEW e \in Nat \ {0}, p < Word PROVE p \div e \in 0..(Word - 1)
  <2>1. p \div e \in Nat /\ p = e * (p \div e) + (p % e) /\ p % e \in Nat
    BY DivMod
  <2>2. p \div e <= p
    <3>1. 1 * (p \div e) <= e * (p \div e)
      BY <2>1, TimesMono
    <3>2. e * (p \div e) \in Nat
      BY <2>1
    <3> QED BY <2>1, <3>1, <3>2
  <2> QED BY <1>1, <1>4, <2>1, <2>2
<1>5. CASE c.eax = 0
  BY <1>1, <1>5 DEF TscFreq
<1>6. CASE c.eax # 0 /\ c.ecx = 0
  BY <1>1, <1>2, <1>6 DEF TscFreq
<1>7. CASE c.eax # 0 /\ c.ecx # 0
  BY <1>1, <1>3, <1>4, <1>7 DEF TscFreq
<1> QED
  BY <1>5, <1>6, <1>7

-----------------------------------------------------------------------------
(* Bits.                                                                    *)

\* The body of the recursion of Pow2.
Doubles(f, i) == IF i = 0 THEN 1 ELSE 2 * f[i - 1]

LEMMA Induction ==
    ASSUME NEW P, 0 \in P, \A n \in Nat : n \in P => n + 1 \in P
    PROVE  Nat \subseteq P
<1> DEFINE lt == OpToRel(<, Nat)
           T  == Nat \ P
<1>1. SUFFICES ASSUME T # {} PROVE FALSE
  OBVIOUS
<1>2. IsWellFoundedOn(lt, Nat)
  BY NatLessThanWellFounded
<1>3. PICK m \in T : \A n \in T : <<n, m>> \notin lt
  <2> HIDE DEF lt
  <2> QED BY <1>1, <1>2, WFMin
<1>4. lt = {p \in Nat \X Nat : p[1] < p[2]}
  BY DEF OpToRel
<1> HIDE DEF lt
<1>5. \A n \in T : ~(n < m)
  BY <1>3, <1>4
<1>6. m # 0 /\ m - 1 \in Nat /\ m - 1 \notin T
  BY <1>5
<1> QED
  BY <1>6

\* The recursion of Pow2 has a solution.
LEMMA DoublesExists ==
    ASSUME NEW n \in Nat
    PROVE  \E f : f = [i \in 0..n |-> Doubles(f, i)]
<1> DEFINE P == {m \in Nat : \E f : f = [i \in 0..m |-> Doubles(f, i)]}
<1>1. 0 \in P
  <2>1. [i \in 0..0 |-> 1] = [i \in 0..0 |-> Doubles([j \in 0..0 |-> 1], i)]
    BY DEF Doubles
  <2> QED BY <2>1
<1>2. ASSUME NEW m \in Nat, m \in P PROVE m + 1 \in P
  <2>1. PICK f : f = [i \in 0..m |-> Doubles(f, i)]
    BY <1>2
  <2> DEFINE g == [i \in 0..(m + 1) |-> IF i = m + 1 THEN Doubles(f, m + 1) ELSE f[i]]
  <2>2. \A i \in 0..m : g[i] = f[i] /\ f[i] = Doubles(f, i)
    BY <2>1
  <2>3. ASSUME NEW i \in 0..(m + 1) PROVE g[i] = Doubles(g, i)
    <3>1. i # 0 => i - 1 \in 0..m /\ g[i - 1] = f[i - 1]
      BY <2>2
    <3>2. Doubles(g, i) = Doubles(f, i)
      BY <3>1 DEF Doubles
    <3>3. i # m + 1 => i \in 0..m
      OBVIOUS
    <3> QED BY <2>2, <3>2, <3>3
  <2>4. g = [i \in 0..(m + 1) |-> Doubles(g, i)]
    <3>1. g = [i \in 0..(m + 1) |-> g[i]]
      OBVIOUS
    <3> QED BY <2>3, <3>1
  <2>5. \E h : h = [i \in 0..(m + 1) |-> Doubles(h, i)]
    <3> HIDE DEF g
    <3> QED BY <2>4
  <2> QED BY <2>5
<1>3. Nat \subseteq P
  <2> HIDE DEF P
  <2> QED BY <1>1, <1>2, Induction
<1> QED
  BY <1>3

LEMMA Pow2Def ==
    Pow2[0] = 1 /\ \A i \in 0..Samples : Pow2[i + 1] = 2 * Pow2[i]
<1>1. Samples \in Nat
  BY ClockAssumption
<1>2. Pow2 = CHOOSE f : f = [i \in 0..(Samples + 1) |-> Doubles(f, i)]
  BY DEF Pow2, Doubles
<1>3. \E f : f = [i \in 0..(Samples + 1) |-> Doubles(f, i)]
  BY <1>1, DoublesExists
<1>4. Pow2 = [i \in 0..(Samples + 1) |-> Doubles(Pow2, i)]
  <2> DEFINE Q(f) == f = [i \in 0..(Samples + 1) |-> Doubles(f, i)]
  <2>1. \E f : Q(f)
    BY <1>3
  <2>2. Pow2 = CHOOSE f : Q(f)
    BY <1>2
  <2>3. Q(Pow2)
    <3> HIDE DEF Q
    <3> QED BY <2>1, <2>2
  <2> QED BY <2>3
<1>5. \A i \in 0..(Samples + 1) : Pow2[i] = Doubles(Pow2, i)
  BY <1>4
<1>6. \A i \in 0..Samples : i + 1 \in 0..(Samples + 1) /\ i + 1 # 0 /\ (i + 1) - 1 = i
  BY <1>1
<1> QED
  BY <1>1, <1>5, <1>6 DEF Doubles

LEMMA Pow2Positive == \A i \in 0..(Samples + 1) : Pow2[i] \in Nat \ {0}
<1> DEFINE P == {n \in Nat : n <= Samples + 1 => Pow2[n] \in Nat \ {0}}
<1>1. Samples \in Nat
  BY ClockAssumption
<1>2. 0 \in P
  BY Pow2Def
<1>3. ASSUME NEW n \in Nat, n \in P PROVE n + 1 \in P
  BY <1>1, <1>3, Pow2Def
<1> HIDE DEF P
<1>4. Nat \subseteq P
  BY <1>2, <1>3, Induction
<1> QED
  BY <1>1, <1>4 DEF P

\* The register is a multiple of the value of each bit below, twice.
LEMMA RegisterMultiple ==
    ASSUME NEW i \in 0..(Samples - 1)
    PROVE  \E k \in Nat \ {0} : Register = (2 * Pow2[i + 1]) * k
<1>1. Samples \in Nat \ {0} /\ i + 1 \in 0..Samples
  BY ClockAssumption
<1> DEFINE d == 2 * Pow2[i + 1]
           P == {n \in Nat : i + 2 + n <= Samples + 1 => \E k \in Nat \ {0} : Pow2[i + 2 + n] = d * k}
<1>2. d \in Nat \ {0}
  BY <1>1, Pow2Positive
<1>3. 0 \in P
  <2>1. i + 2 <= Samples + 1 => Pow2[i + 2] = d * 1
    BY <1>1, <1>2, Pow2Def
  <2> QED BY <2>1
<1>4. ASSUME NEW n \in Nat, n \in P PROVE n + 1 \in P
  <2> SUFFICES ASSUME i + 2 + (n + 1) <= Samples + 1
               PROVE  \E k \in Nat \ {0} : Pow2[i + 2 + (n + 1)] = d * k
    OBVIOUS
  <2>1. PICK k \in Nat \ {0} : Pow2[i + 2 + n] = d * k
    <3>1. i + 2 + n <= Samples + 1
      BY <1>1
    <3> QED BY <1>4, <3>1
  <2>2. i + 2 + n \in 0..Samples /\ (i + 2 + n) + 1 = i + 2 + (n + 1)
    BY <1>1
  <2>3. Pow2[i + 2 + (n + 1)] = 2 * (d * k)
    BY <2>1, <2>2, Pow2Def
  <2>4. 2 * (d * k) = d * (2 * k) /\ 2 * k \in Nat \ {0}
    <3> HIDE DEF d
    <3> QED BY <1>2
  <2> QED BY <2>3, <2>4
<1>5. Samples - 1 - i \in P
  <2> HIDE DEF P
  <2>1. Samples - 1 - i \in Nat
    BY <1>1
  <2> QED BY <1>3, <1>4, <2>1, Induction
<1>6. i + 2 + (Samples - 1 - i) = Samples + 1
  BY <1>1
<1> QED
  BY <1>1, <1>5, <1>6 DEF Register

LEMMA RegisterEven == \E h \in Nat \ {0} : Register = 2 * h
<1>1. Samples \in 0..Samples /\ Samples \in 0..(Samples + 1)
  BY ClockAssumption
<1> QED
  BY <1>1, Pow2Def, Pow2Positive DEF Register

Bit(u, i) == (u \div Pow2[i]) % 2

\* A shift with a new bit stays in the register ...
LEMMA ShiftFits ==
    ASSUME NEW u \in Nat, NEW b \in {0, 1}
    PROVE  ((2 * u) % Register) + b \in 0..(Register - 1) /\ Bit(((2 * u) % Register) + b, 0) = b
<1>1. PICK h \in Nat \ {0} : Register = 2 * h
  BY RegisterEven
<1>2. PICK q \in Nat, r \in 0..(h - 1) : u = h * q + r
  BY <1>1, DivMod
<1>3. 2 * u = (2 * h) * q + 2 * r /\ 2 * r \in 0..(2 * h - 1)
  BY <1>1, <1>2
<1>4. (2 * u) % Register = 2 * r
  <2> DEFINE a == 2 * u
             m == 2 * r
  <2>1. a \in Nat /\ Register \in Nat \ {0} /\ m \in 0..(Register - 1) /\ a = Register * q + m
    BY <1>1, <1>3
  <2>2. a % Register = m
    <3> HIDE DEF a, m
    <3> QED BY <2>1, DivUnique
  <2> QED BY <2>2
<1>5. Bit(2 * r + b, 0) = b
  <2>1. (2 * r + b) \div 1 = 2 * r + b
    BY <1>2
  <2>2. (2 * r + b) % 2 = b
    BY <1>2
  <2> QED BY <2>1, <2>2, Pow2Def DEF Bit
<1>6. 2 * r + b \in 0..(2 * h - 1)
  BY <1>1, <1>2
<1> QED
  BY <1>1, <1>4, <1>5, <1>6

\* ... and moves every other bit up by one.
LEMMA ShiftMoves ==
    ASSUME NEW u \in Nat, NEW b \in {0, 1}, NEW i \in 0..(Samples - 1)
    PROVE  Bit(((2 * u) % Register) + b, i + 1) = Bit(u, i)
<1> DEFINE p == Pow2[i]
<1>1. p \in Nat \ {0} /\ Pow2[i + 1] = 2 * p
  <2>1. i \in 0..Samples /\ i \in 0..(Samples + 1)
    BY ClockAssumption
  <2> QED BY <2>1, Pow2Def, Pow2Positive
<1>2. PICK k \in Nat \ {0} : Register = (2 * (2 * p)) * k
  BY <1>1, RegisterMultiple
<1> HIDE DEF p
<1>3. PICK q \in Nat, r \in 0..(p - 1) : u = p * q + r /\ u \div p = q
  BY <1>1, DivMod
<1>4. 2 * k \in Nat \ {0}
  OBVIOUS
<1>5. PICK e \in Nat, f \in 0..(2 * k - 1) : q = (2 * k) * e + f
  BY <1>4, DivMod
<1>6. (2 * u) % Register = (2 * p) * f + 2 * r
  <2>1. 2 * u = (2 * p) * q + 2 * r
    BY <1>1, <1>3
  <2>2. (2 * p) * q = Register * e + (2 * p) * f
    <3>1. (2 * p) * ((2 * k) * e + f) = ((2 * (2 * p)) * k) * e + (2 * p) * f
      BY <1>1, <1>4
    <3> QED BY <1>2, <1>5, <3>1
  <2>3. (2 * p) * f \in Nat /\ (2 * p) * f <= (2 * p) * (2 * k - 1)
    <3>1. f <= 2 * k - 1 /\ f \in Nat /\ 2 * k - 1 \in Nat /\ 2 * p \in Nat
      BY <1>1, <1>4
    <3> QED BY <3>1, TimesMono
  <2>4. (2 * p) * (2 * k - 1) = Register - 2 * p
    BY <1>1, <1>2
  <2>5. Register \in Nat \ {0}
    BY <1>1, <1>2
  <2>6. (2 * p) * f + 2 * r \in 0..(Register - 1)
    BY <1>1, <1>3, <2>3, <2>4, <2>5
  <2>7. 2 * u = Register * e + ((2 * p) * f + 2 * r)
    BY <2>1, <2>2, <2>3, <2>5
  <2>8. 2 * u \in Nat
    OBVIOUS
  <2> QED BY <2>5, <2>6, <2>7, <2>8, DivUnique
<1>7. (((2 * p) * f + 2 * r) + b) \div (2 * p) = f
  <2>1. 2 * r + b \in 0..(2 * p - 1) /\ 2 * p \in Nat \ {0} /\ f \in Nat
    BY <1>1, <1>3
  <2>2. (2 * p) * f \in Nat
    BY <2>1
  <2>3. ((2 * p) * f + 2 * r) + b = (2 * p) * f + (2 * r + b)
    BY <1>3, <2>2
  <2>4. (2 * p) * f + (2 * r + b) \in Nat
    BY <2>1, <2>2
  <2> QED BY <2>1, <2>3, <2>4, DivUnique
<1>8. q % 2 = f % 2
  <2>1. PICK g \in Nat, s \in 0..1 : f = 2 * g + s /\ f % 2 = s
    <3>1. f \in Nat /\ f % 2 \in 0..1 /\ f \div 2 \in Nat /\ f = 2 * (f \div 2) + (f % 2)
      BY <1>4
    <3> QED BY <3>1
  <2>2. k * e \in Nat /\ (2 * k) * e = 2 * (k * e)
    OBVIOUS
  <2>3. q = 2 * (k * e + g) + s /\ k * e + g \in Nat
    BY <1>5, <2>1, <2>2
  <2> QED BY <2>1, <2>3, DivUnique
<1> QED
  BY <1>1, <1>3, <1>6, <1>7, <1>8 DEF Bit, p

-----------------------------------------------------------------------------
(* The inductive invariant.                                                 *)

\* What ClockAssumption says, one by one.
LEMMA Constants ==
    /\ Word \in Nat \ {0} /\ Kilo \in Nat \ {0} /\ Period \in Nat \ {0} /\ Samples \in Nat \ {0}
    /\ SleepMs \in Nat /\ DefaultMs \in 0..(Word - 1) /\ Late \subseteq Nat /\ Delays \subseteq Nat
    /\ \A c \in Clocks : c.freq \in Nat \ {0} /\ c.start \in Nat
    /\ Samples <= 100 /\ Register \in Nat \ {0}
<1>1. Samples + 1 \in 0..(Samples + 1)
  BY ClockAssumption
<1> QED
  BY <1>1, ClockAssumption, Pow2Positive DEF Register

\* The delay that is waited for.
WaitInv ==
    cpc \in {"delay", "returned"} =>
        /\ wait.until = wait.from + wait.ticks /\ wait.from <= tsc
        /\ wait.ticks = Product(wait.count, IF wait.unit = "ms" THEN msClock ELSE usClock)
        /\ cpc = "returned" => tsc >= wait.until

\* The samples taken are the low bits of stats_usage, and the bits above are 0 still.
Shows(u, s) ==
    /\ Len(s) <= Samples
    /\ \A i \in 0..(Samples - 1) : Bit(u, i) = IF i < Len(s) THEN s[i + 1] ELSE 0

SampleInv == \A a \in Core : Shows(usage[a], taken[a])

\* Nothing is sampled before the timer runs.
BeforeInv == cpc \in {"cpuid", "boot", "delay", "returned"} => taken = [a \in Core |-> <<>>]

ClockInv == ClockTypeOK /\ WaitInv /\ SampleInv /\ BeforeInv

LEMMA InitClock == ClockInit => ClockInv
<1> SUFFICES ASSUME ClockInit PROVE ClockInv
  OBVIOUS
<1>1. 0 \in 0..(Register - 1) /\ <<>> \in Seq({0, 1}) /\ Len(<<>>) = 0
  BY Constants
<1>2. DefaultMs \div Kilo \in 0..(Word - 1)
  <2>1. /\ DefaultMs \in Nat /\ DefaultMs \div Kilo \in Nat
        /\ DefaultMs = Kilo * (DefaultMs \div Kilo) + (DefaultMs % Kilo) /\ DefaultMs % Kilo \in Nat
    BY Constants, DivMod
  <2>2. 1 * (DefaultMs \div Kilo) <= Kilo * (DefaultMs \div Kilo)
    BY <2>1, Constants, TimesMono
  <2> QED BY <2>1, <2>2, Constants
<1>3. ClockTypeOK
  BY <1>1, <1>2, Constants DEF ClockInit, ClockTypeOK, NoWait
<1>4. \A i \in 0..(Samples - 1) : Bit(0, i) = 0
  <2> SUFFICES ASSUME NEW i \in 0..(Samples - 1) PROVE Bit(0, i) = 0
    OBVIOUS
  <2>1. Pow2[i] \in Nat \ {0}
    BY Constants, Pow2Positive
  <2>2. 0 \div Pow2[i] = 0
    BY <2>1
  <2> QED BY <2>2 DEF Bit
<1>5. SampleInv
  BY <1>1, <1>4, Constants DEF ClockInit, SampleInv, Shows
<1> QED
  BY <1>3, <1>5 DEF ClockInit, ClockInv, WaitInv, BeforeInv

\* What no step of the AP or of the counter changes.
LEMMA OtherSteps ==
    ASSUME ClockInv,
           \/ ReadFreq \/ DelayEnds \/ StartMonitor \/ Tick
           \/ \E n \in Delays, unit \in {"ms", "us"} : Delay(unit, n)
           \/ \E a \in Core : ApLocks(a) \/ ApUnlocks(a) \/ ApGiven(a) \/ ApDone(a)
           \/ UNCHANGED clockVars
    PROVE  ClockInv'
<1> USE Constants DEF ClockInv, ClockTypeOK, WaitInv, BeforeInv, coreVars
<1>1. SampleInv'
  BY DEF SampleInv, ReadFreq, DelayEnds, StartMonitor, Tick, Delay, ApLocks, ApUnlocks, ApGiven,
         ApDone, ApDoneAt, clockVars
<1>2. CASE ReadFreq
  <2>1. TscFreq(clock) \in 0..(Word - 1)
    BY FreqFits
  <2>2. (TscFreq(clock) * Kilo) % Word \in 0..(Word - 1)
    BY <2>1, ProductFacts DEF Product
  <2> QED BY <1>1, <1>2, <2>1, <2>2 DEF ReadFreq
<1>3. CASE \E n \in Delays, unit \in {"ms", "us"} : Delay(unit, n)
  <2>1. PICK n \in Delays, unit \in {"ms", "us"} : Delay(unit, n)
    BY <1>3
  <2> DEFINE ticks == Product(n, IF unit = "ms" THEN msClock ELSE usClock)
  <2>2. n \in Nat /\ ticks \in Nat
    <3> DEFINE clk == IF unit = "ms" THEN msClock ELSE usClock
    <3>1. n \in Nat /\ clk \in Nat
      OBVIOUS
    <3> HIDE DEF clk
    <3>2. Product(n, clk) \in 0..(Word - 1)
      BY <3>1, ProductFacts
    <3> QED BY <3>1, <3>2 DEF clk
  <2>3. /\ wait' = [unit |-> unit, count |-> n, from |-> tsc, until |-> tsc + ticks, ticks |-> ticks]
        /\ cpc' = "delay" /\ cpc = "boot"
    BY <2>1 DEF Delay, Until
  <2>4. UNCHANGED <<clock, tsc, msClock, usClock, tscLast, coreVars>>
    BY <2>1 DEF Delay
  <2>5. ClockTypeOK'
    <3> HIDE DEF ticks
    <3> QED BY <2>2, <2>3, <2>4
  <2>6. WaitInv'
    <3>1. wait'.ticks = ticks /\ wait'.unit = unit /\ wait'.count = n /\ wait'.from = tsc
          /\ wait'.until = tsc + ticks
      BY <2>3
    <3> QED BY <2>2, <2>3, <2>4, <3>1
  <2> QED BY <1>1, <2>3, <2>4, <2>5, <2>6
<1>4. CASE DelayEnds
  <2>1. wait.until \in Nat /\ tsc >= wait.until
    BY <1>4, ReachedIsLater DEF DelayEnds
  <2> QED BY <1>1, <1>4, <2>1 DEF DelayEnds
<1>5. CASE StartMonitor
  BY <1>1, <1>5 DEF StartMonitor, NoWait
<1>6. CASE Tick
  BY <1>1, <1>6 DEF Tick
<1>7. CASE \E a \in Core : ApLocks(a) \/ ApUnlocks(a) \/ ApGiven(a) \/ ApDone(a)
  <2>1. /\ cpc = "run" /\ UNCHANGED <<clock, tsc, msClock, usClock, cpc, wait, tscLast, usage, taken>>
        /\ \/ UNCHANGED lastActive
           \/ \E a \in Core : lastActive' = [lastActive EXCEPT ![a] = tsc]
        /\ \E a \in Core, s \in {"ready", "busy", "sleep", "running"} : apStatus' = [apStatus EXCEPT ![a] = s]
    BY <1>7 DEF ApLocks, ApUnlocks, ApGiven, ApDone, ApDoneAt
  <2>2. lastActive' \in [Core -> 0..tsc] /\ tsc \in 0..tsc
    <3>1. tsc \in Nat /\ lastActive \in [Core -> 0..tsc]
      OBVIOUS
    <3>2. tsc \in 0..tsc
      BY <3>1
    <3> DEFINE T == 0..tsc
    <3>3. lastActive \in [Core -> T] /\ tsc \in T
      BY <3>1, <3>2
    <3> HIDE DEF T, ClockInv, ClockTypeOK
    <3>4. lastActive' \in [Core -> T]
      BY <2>1, <3>3
    <3> QED BY <3>2, <3>4 DEF T
  <2>3. apStatus' \in [Core -> {"ready", "busy", "sleep", "running"}]
    BY <2>1
  <2>4. ClockTypeOK'
    BY <2>1, <2>2, <2>3
  <2>5. WaitInv' /\ BeforeInv'
    BY <2>1
  <2> QED BY <1>1, <2>4, <2>5
<1>8. CASE UNCHANGED clockVars
  BY <1>1, <1>8 DEF clockVars
<1> QED
  BY <1>2, <1>3, <1>4, <1>5, <1>6, <1>7, <1>8

\* One sample more in the register, and among the last.
Shifted(u, b) == ((2 * u) % Register) + b
Newest(b, s)  == SubSeq(<<b>> \o s, 1, IF Len(s) < Samples THEN Len(s) + 1 ELSE Samples)

LEMMA SampleStep ==
    ASSUME NEW u \in 0..(Register - 1), NEW b \in {0, 1}, NEW s \in Seq({0, 1}), Shows(u, s)
    PROVE  /\ Shifted(u, b) \in 0..(Register - 1) /\ Newest(b, s) \in Seq({0, 1})
           /\ Shows(Shifted(u, b), Newest(b, s))
<1> DEFINE v == Shifted(u, b)
           t == Newest(b, s)
           n == IF Len(s) < Samples THEN Len(s) + 1 ELSE Samples
<1>1. Len(s) \in Nat /\ n \in 1..(Len(s) + 1) /\ n <= Samples
  BY Constants
<1>2. t \in Seq({0, 1}) /\ Len(t) = n /\ t[1] = b /\ \A i \in 1..(n - 1) : t[i + 1] = s[i]
  BY <1>1, SubSeqFacts DEF Newest
<1>3. v \in 0..(Register - 1) /\ Bit(v, 0) = b
  <2>1. u \in Nat
    BY Constants
  <2> QED BY <2>1, ShiftFits DEF Shifted
<1> HIDE DEF n, v, t
<1>4. ASSUME NEW i \in 0..(Samples - 1) PROVE Bit(v, i) = IF i < Len(t) THEN t[i + 1] ELSE 0
  <2>1. CASE i = 0
    BY <1>1, <1>2, <1>3, <2>1 DEF Shows
  <2>2. CASE i # 0
    <3>1. i - 1 \in 0..(Samples - 1) /\ (i - 1) + 1 = i
      BY <2>2, Constants
    <3>2. Bit(v, i) = Bit(u, i - 1)
      <4>1. u \in Nat
        BY Constants
      <4>2. Bit(v, (i - 1) + 1) = Bit(u, i - 1)
        BY <3>1, <4>1, ShiftMoves DEF Shifted, v
      <4> QED BY <3>1, <4>2
    <3>3. Bit(u, i - 1) = IF i - 1 < Len(s) THEN s[i] ELSE 0
      BY <3>1 DEF Shows
    <3>4. i - 1 < Len(s) <=> i < n
      BY <1>1, Constants DEF n
    <3>5. i < n => t[i + 1] = s[i]
      BY <1>1, <1>2, <2>2
    <3> QED BY <1>2, <3>2, <3>3, <3>4, <3>5
  <2> QED BY <2>1, <2>2
<1> QED
  BY <1>1, <1>2, <1>3, <1>4 DEF Shows, v, t

LEMMA MonitorStep ==
    ASSUME ClockInv, NEW t \in Late, Monitor(t)
    PROVE  ClockInv'
<1> USE Constants DEF ClockInv
<1>1. MonitorBase(t, Period + t) /\ cpc = "run" /\ cpc' \in {"run", "fault"}
  BY DEF Monitor, MonitorBase
<1> DEFINE ms == TscDiv(tsc - tscLast, Period + t)
<1>2. ms \in Nat
  <2>1. tsc - tscLast \in Nat /\ Period + t \in Nat \ {0}
    BY DEF ClockTypeOK
  <2> QED BY <2>1, DivMod DEF TscDiv
<1>3. msClock' \in 0..(Word - 1) /\ usClock' \in 0..(Word - 1)
  <2> HIDE DEF ms
  <2>1. CASE ms >= Word
    BY <1>1, <2>1 DEF MonitorBase, ClockTypeOK, ms
  <2>2. CASE ms < Word
    <3>1. ms \div Kilo \in Nat /\ ms = Kilo * (ms \div Kilo) + (ms % Kilo) /\ ms % Kilo \in Nat
      BY <1>2, DivMod
    <3>2. 1 * (ms \div Kilo) <= Kilo * (ms \div Kilo)
      BY <3>1, TimesMono
    <3>3. ms \div Kilo \in 0..(Word - 1)
      BY <1>2, <2>2, <3>1, <3>2
    <3>4. msClock' = ms /\ usClock' = ms \div Kilo
      BY <1>1, <1>2, <2>2 DEF MonitorBase, ms
    <3> QED BY <1>2, <2>2, <3>3, <3>4
  <2> QED BY <1>2, <2>1, <2>2
<1>4. /\ tscLast' = tsc /\ UNCHANGED <<clock, tsc, wait, apStatus, lastActive>>
      /\ usage' = [a \in Core |-> ((2 * usage[a]) % Register) + Counts(apStatus[a])]
      /\ taken' = [a \in Core |-> SubSeq(<<Counts(apStatus[a])>> \o taken[a], 1,
                                         IF Len(taken[a]) < Samples THEN Len(taken[a]) + 1 ELSE Samples)]
  BY <1>1 DEF MonitorBase
<1>5. ASSUME NEW a \in Core
      PROVE  usage'[a] \in 0..(Register - 1) /\ taken'[a] \in Seq({0, 1}) /\ Shows(usage'[a], taken'[a])
  <2>1. usage[a] \in 0..(Register - 1) /\ Counts(apStatus[a]) \in {0, 1} /\ taken[a] \in Seq({0, 1})
    BY DEF ClockTypeOK, Counts
  <2>2. usage'[a] = Shifted(usage[a], Counts(apStatus[a])) /\ taken'[a] = Newest(Counts(apStatus[a]), taken[a])
    BY <1>4 DEF Shifted, Newest
  <2>3. Shows(usage[a], taken[a])
    BY DEF SampleInv
  <2> QED BY <2>1, <2>2, <2>3, SampleStep
<1>6. ClockTypeOK'
  <2>1. usage' \in [Core -> 0..(Register - 1)] /\ taken' \in [Core -> Seq({0, 1})]
    BY <1>4, <1>5
  <2>2. tscLast' \in 0..tsc' /\ lastActive' \in [Core -> 0..tsc']
    <3>1. tsc \in Nat /\ lastActive \in [Core -> 0..tsc] /\ tsc' = tsc
      BY <1>4 DEF ClockTypeOK
    <3> HIDE DEF ClockInv
    <3> QED BY <1>4, <3>1
  <2>3. clock' \in Clocks /\ tsc' \in Nat /\ cpc' \in {"run", "fault"}
    BY <1>1, <1>4 DEF ClockTypeOK
  <2> HIDE DEF ms
  <2> QED BY <1>3, <1>4, <2>1, <2>2, <2>3 DEF ClockTypeOK
<1>7. SampleInv'
  BY <1>5 DEF SampleInv
<1> QED
  BY <1>1, <1>6, <1>7 DEF WaitInv, BeforeInv

LEMMA Inductive == ClockSpec => []ClockInv
<1>1. ClockInv /\ [ClockNext]_clockVars => ClockInv'
  BY OtherSteps, MonitorStep DEF ClockNext
<1> QED
  BY <1>1, InitClock, PTL DEF ClockSpec

-----------------------------------------------------------------------------
(* The theorems.                                                            *)

\* Every variable has its type: no clock exceeds a word, no usage the register.
THEOREM ClockTypeCorrect == ClockSpec => []ClockTypeOK
<1>1. ClockInv => ClockTypeOK
  BY DEF ClockInv
<1> QED
  BY <1>1, Inductive, PTL

\* For any counter and processor: mdelay and udelay wait the ticks they computed, though
\* delay_loop compares the halves of the counter one by one, and as long as they should
\* where the product fits a word and the clock is not slower than the processor.
THEOREM DelaysSuffice == ClockSpec => []DelayLongEnough
<1>1. ClockInv => DelayLongEnough
  <2> SUFFICES ASSUME ClockInv, cpc = "returned"
               PROVE  /\ tsc - wait.from >= wait.ticks
                      /\ wait.unit = "ms" /\ msClock >= clock.freq /\ wait.count * msClock < Word =>
                            tsc - wait.from >= wait.count * clock.freq
                      /\ wait.unit = "us" /\ usClock * Kilo >= clock.freq /\ wait.count * usClock < Word =>
                            (tsc - wait.from) * Kilo >= wait.count * clock.freq
    BY DEF DelayLongEnough
  <2>1. /\ clock.freq \in Nat /\ Kilo \in Nat /\ msClock \in Nat /\ usClock \in Nat /\ tsc \in Nat
        /\ wait.count \in Nat /\ wait.from \in Nat /\ wait.ticks \in Nat
    BY Constants DEF ClockInv, ClockTypeOK
  <2>2. /\ tsc >= wait.from + wait.ticks
        /\ wait.ticks = Product(wait.count, IF wait.unit = "ms" THEN msClock ELSE usClock)
    BY DEF ClockInv, WaitInv
  <2>3. ASSUME wait.unit = "ms", msClock >= clock.freq, wait.count * msClock < Word
        PROVE  wait.ticks >= wait.count * clock.freq
    <3>1. wait.ticks = wait.count * msClock
      BY <2>1, <2>2, <2>3, ProductFacts
    <3> QED BY <2>1, <2>3, <3>1, TimesMono
  <2>4. ASSUME wait.unit = "us", usClock * Kilo >= clock.freq, wait.count * usClock < Word
        PROVE  (tsc - wait.from) * Kilo >= wait.count * clock.freq
    <3> DEFINE n == wait.count
               u == usClock
               d == tsc - wait.from
               f == clock.freq
    <3>1. wait.ticks = n * u
      BY <2>1, <2>2, <2>4, ProductFacts
    <3>2. n \in Nat /\ u \in Nat /\ f \in Nat /\ d \in Nat /\ n * u <= d /\ f <= u * Kilo
      BY <2>1, <2>2, <2>4, <3>1
    <3> HIDE DEF n, u, d, f
    <3>3. n * u \in Nat /\ u * Kilo \in Nat
      BY <2>1, <3>2
    <3>4. (n * u) * Kilo <= d * Kilo /\ n * f <= n * (u * Kilo)
      BY <2>1, <3>2, <3>3, TimesMono
    <3>5. (n * u) * Kilo = n * (u * Kilo) /\ n * (u * Kilo) \in Nat /\ n * f \in Nat /\ d * Kilo \in Nat
      BY <2>1, <3>2
    <3>6. n * f <= d * Kilo
      BY <3>4, <3>5
    <3> QED BY <3>5, <3>6 DEF n, d, f
  <2>5. wait.count * clock.freq \in Nat
    BY <2>1
  <2> QED BY <2>1, <2>2, <2>3, <2>4, <2>5
<1> QED
  BY <1>1, Inductive, PTL

\* For any counter: an AP goes to sleep only when as many ticks as were computed have
\* passed since it had a thread, and not before SleepMs where they fit a word.
THEOREM SleepsCorrectly == ClockSpec => SleepsWhenIdle
<1>1. ASSUME ClockInv, [ClockNext]_clockVars, NEW a \in Core,
             apStatus[a] # "sleep", apStatus'[a] = "sleep"
      PROVE  /\ tsc - lastActive[a] >= Product(SleepMs, msClock)
             /\ msClock >= clock.freq /\ SleepMs * msClock < Word =>
                   tsc - lastActive[a] >= SleepMs * clock.freq
  <2>1. Rings(a)
    BY <1>1 DEF ClockNext, ClockInv, ClockTypeOK, ReadFreq, Delay, DelayEnds, StartMonitor, Tick, Monitor,
                MonitorBase, ApLocks, ApUnlocks, ApGiven, ApDone, ApDoneAt, clockVars, coreVars
  <2>2. /\ tsc \in Nat /\ lastActive[a] \in Nat /\ msClock \in Nat /\ SleepMs \in Nat /\ clock.freq \in Nat
        /\ Product(SleepMs, msClock) \in Nat
    <3>1. msClock \in Nat /\ SleepMs \in Nat
      BY <1>1, Constants DEF ClockInv, ClockTypeOK
    <3>2. Product(SleepMs, msClock) \in Nat
      BY <3>1, ProductFacts
    <3> QED BY <1>1, <3>1, <3>2, Constants DEF ClockInv, ClockTypeOK
  <2>3. tsc >= lastActive[a] + Product(SleepMs, msClock)
    BY <2>1, <2>2, ReachedIsLater DEF Rings, Until
  <2>4. ASSUME msClock >= clock.freq, SleepMs * msClock < Word
        PROVE  Product(SleepMs, msClock) >= SleepMs * clock.freq /\ SleepMs * clock.freq \in Nat
    <3>1. Product(SleepMs, msClock) = SleepMs * msClock
      BY <2>2, <2>4, ProductFacts
    <3> QED BY <2>2, <2>4, <3>1, TimesMono
  <2> QED BY <2>2, <2>3, <2>4
<1>2. ClockInv /\ [ClockNext]_clockVars =>
         [ \A a \in Core :
             apStatus[a] # "sleep" /\ apStatus'[a] = "sleep" =>
                /\ tsc - lastActive[a] >= Product(SleepMs, msClock)
                /\ msClock >= clock.freq /\ SleepMs * msClock < Word =>
                      tsc - lastActive[a] >= SleepMs * clock.freq ]_clockVars
  BY <1>1
<1> QED
  BY <1>2, Inductive, PTL DEF ClockSpec, SleepsWhenIdle

\* A processor whose ticks in a millisecond leave the timer's quotient a word, also when
\* the timer runs as late as the tolerance: all up to some 4 THz.
Fits == \A c \in Clocks : c.freq * (Period + 1) <= Word * Period

LEMMA Quotient ==
    ASSUME NEW f \in Nat \ {0}, NEW d \in Nat \ {0}, NEW p \in Nat \ {0}, p <= d,
           NEW x \in Nat, f * d <= x, x <= f * (d + 1) - 1
    PROVE  f <= x \div d /\ ((x \div d) - f) * p < f
<1> DEFINE q == x \div d
<1>1. q \in Nat /\ d * q <= x
  BY DivMod
<1>2. f <= q
  <2>1. f * d = d * f
    OBVIOUS
  <2> QED BY <2>1, DivBound
<1> HIDE DEF q
<1>3. q - f \in Nat /\ (q - f) * d = d * q - f * d /\ f * (d + 1) = f * d + f
  BY <1>1, <1>2
<1>4. d * q \in Nat /\ f * d \in Nat
  BY <1>1
<1>5. (q - f) * d < f
  BY <1>1, <1>3, <1>4
<1>6. (q - f) * p <= (q - f) * d
  BY <1>3, TimesMono
<1>7. (q - f) * p \in Nat /\ (q - f) * d \in Nat
  BY <1>3
<1> QED
  BY <1>2, <1>5, <1>6, <1>7 DEF q

TracksInv ==
    /\ cpc # "fault"
    /\ cpc = "run" /\ taken # [a \in Core |-> <<>>] =>
          clock.freq <= msClock /\ (msClock - clock.freq) * Period <= clock.freq

LEMMA MonitorTracks ==
    ASSUME Fits, ClockInv, NEW t \in Late, Monitor(t)
    PROVE  TracksInv'
<1> DEFINE f == clock.freq
           d == Period + t
           x == tsc - tscLast
           q == x \div d
<1>1. /\ f \in Nat \ {0} /\ Period \in Nat \ {0} /\ Word \in Nat \ {0} /\ t \in Nat
      /\ d \in Nat \ {0} /\ Period <= d /\ f * (Period + 1) <= Word * Period
  BY Constants DEF Fits, ClockInv, ClockTypeOK
<1>2. x \in f * d .. f * (d + 1) - 1 /\ f * d \in Nat /\ f * (d + 1) \in Nat
  <2>1. x \in f * (Period + t) .. f * (Period + t + 1) - 1
    BY DEF Monitor, MonitorBase
  <2> QED BY <1>1, <2>1
<1>3. x \in Nat /\ f * d <= x /\ x <= f * (d + 1) - 1
  <2> HIDE DEF f, d, x
  <2> QED BY <1>2
<1> HIDE DEF f, d, x
<1>4. f <= q /\ (q - f) * Period < f
  BY <1>1, <1>3, Quotient
<1>5. q \in Nat
  BY <1>1, <1>3, DivMod
<1> HIDE DEF q
<1>6. q < Word
  <2> SUFFICES ASSUME q >= Word PROVE FALSE
    BY <1>1, <1>5
  <2>1. (q - f) * Period = q * Period - f * Period /\ f * (Period + 1) = f * Period + f
    BY <1>1, <1>5
  <2>2. Word * Period <= q * Period
    BY <1>1, <1>5, TimesMono
  <2>3. q * Period \in Nat /\ f * Period \in Nat /\ Word * Period \in Nat
    BY <1>1, <1>5
  <2> QED BY <1>1, <1>4, <2>1, <2>2, <2>3
<1>7. MonitorBase(t, d) /\ TscDiv(x, d) = q
  BY <1>1 DEF Monitor, TscDiv, q, d
<1>8. cpc' = "run" /\ msClock' = q /\ clock' = clock
  <2>1. ~(q >= Word)
    BY <1>1, <1>5, <1>6
  <2> QED BY <1>7, <2>1 DEF MonitorBase, x
<1>9. (q - f) * Period <= f
  <2>1. (q - f) * Period \in Nat
    BY <1>1, <1>4, <1>5
  <2> QED BY <1>1, <1>4, <2>1
<1> QED
  BY <1>4, <1>8, <1>9 DEF TracksInv, f

\* For any processor up to the limit: after its first run the timer keeps the clock at the
\* processor's or above by less than one part of Period, late or not, and never faults.
THEOREM ClockTracksTsc == Fits => (ClockSpec => []ClockTracks)
<1> SUFFICES ASSUME Fits PROVE ClockSpec => []ClockTracks
  OBVIOUS
<1>1. ClockInit => TracksInv
  BY DEF ClockInit, TracksInv
<1>2. ClockInv /\ TracksInv /\ [ClockNext]_clockVars => TracksInv'
  <2> SUFFICES ASSUME ClockInv, TracksInv, [ClockNext]_clockVars PROVE TracksInv'
    OBVIOUS
  <2>1. CASE \E t \in Late : Monitor(t)
    BY <2>1, MonitorTracks
  <2>2. CASE ReadFreq \/ DelayEnds \/ \E n \in Delays, unit \in {"ms", "us"} : Delay(unit, n)
    BY <2>2 DEF ReadFreq, DelayEnds, Delay, TracksInv, coreVars
  <2>3. CASE StartMonitor
    BY <2>3 DEF StartMonitor, TracksInv, ClockInv, BeforeInv, coreVars
  <2>4. CASE \/ Tick \/ UNCHANGED clockVars
             \/ \E a \in Core : ApLocks(a) \/ ApUnlocks(a) \/ ApGiven(a) \/ ApDone(a)
    BY <2>4 DEF Tick, ApLocks, ApUnlocks, ApGiven, ApDone, ApDoneAt, clockVars, TracksInv, coreVars
  <2> QED BY <2>1, <2>2, <2>3, <2>4 DEF ClockNext
<1>3. TracksInv => ClockTracks
  BY DEF TracksInv, ClockTracks
<1> QED
  BY <1>1, <1>2, <1>3, Inductive, PTL DEF ClockSpec

\* For any number of samples: the usage the driver reports is the share of the samples in
\* which the AP was busy, computed from the bits of a register that is shifted and cut off.
THEOREM UsageCorrect == ClockSpec => []UsageIsShare
<1>1. ASSUME ClockInv, NEW a \in Core
      PROVE  LET n == Cardinality({i \in DOMAIN taken[a] : taken[a][i] = 1})
             IN  ApUsage(usage[a]) = n * (100 \div Samples) /\ ApUsage(usage[a]) <= 100
  <2> DEFINE u == usage[a]
             s == taken[a]
             Bits == {i \in 0..(Samples - 1) : Bit(u, i) = 1}
             Ones == {i \in DOMAIN s : s[i] = 1}
  <2>1. s \in Seq({0, 1}) /\ Shows(u, s) /\ Samples \in Nat \ {0} /\ Samples <= 100
    BY <1>1, Constants DEF ClockInv, ClockTypeOK, SampleInv
  <2> HIDE DEF u, s
  <2>2. Len(s) \in 0..Samples /\ DOMAIN s = 1..Len(s)
    BY <2>1 DEF Shows
  <2>3. \A i \in 0..(Samples - 1) : Bit(u, i) = IF i < Len(s) THEN s[i + 1] ELSE 0
    BY <2>1 DEF Shows
  <2>4. IsFiniteSet(Bits) /\ Cardinality(Bits) \in Nat /\ Cardinality(Bits) <= Samples
    <3>1. IsFiniteSet(0..(Samples - 1)) /\ Cardinality(0..(Samples - 1)) = Samples
      BY <2>1, FS_Interval
    <3>2. Bits \subseteq 0..(Samples - 1)
      OBVIOUS
    <3> HIDE DEF Bits
    <3> QED BY <3>1, <3>2, FS_Subset, FS_CardinalityType
  <2>5. Cardinality(Ones) = Cardinality(Bits)
    <3> DEFINE next == [i \in Bits |-> i + 1]
    <3>1. \A i \in Bits : i + 1 \in Ones
      BY <2>1, <2>2, <2>3
    <3>2. \A j \in Ones : j - 1 \in Bits /\ (j - 1) + 1 = j
      <4> SUFFICES ASSUME NEW j \in Ones PROVE j - 1 \in Bits /\ (j - 1) + 1 = j
        OBVIOUS
      <4>1. j \in 1..Len(s) /\ s[j] = 1
        BY <2>2
      <4>2. j - 1 \in 0..(Samples - 1) /\ (j - 1) + 1 = j /\ j - 1 < Len(s)
        BY <2>1, <2>2, <4>1
      <4> QED BY <2>3, <4>1, <4>2
    <3>3. \A i, j \in Bits : i + 1 = j + 1 => i = j
      OBVIOUS
    <3>4. next \in Bijection(Bits, Ones)
      <4> HIDE DEF Bits, Ones
      <4> QED BY <3>1, <3>2, <3>3 DEF Bijection, Injection, Surjection, IsInjective
    <3>5. ExistsBijection(Bits, Ones)
      BY <3>4 DEF ExistsBijection
    <3> HIDE DEF Bits, Ones
    <3> QED BY <2>4, <3>5, FS_Bijection
  <2>6. ApUsage(u) = (100 \div Samples) * Cardinality(Bits)
    BY DEF ApUsage, ApUsageOf, Bit
  <2>7. 100 \div Samples \in Nat /\ Samples * (100 \div Samples) <= 100
    <3>1. 100 \div Samples \in Nat /\ 100 % Samples \in 0..(Samples - 1)
          /\ 100 = Samples * (100 \div Samples) + (100 % Samples)
      BY <2>1, DivMod
    <3>2. Samples * (100 \div Samples) \in Nat
      BY <2>1, <3>1
    <3> QED BY <2>1, <3>1, <3>2
  <2> DEFINE k == 100 \div Samples
             c == Cardinality(Bits)
  <2>8. k \in Nat /\ c \in Nat /\ c <= Samples /\ Samples * k <= 100
    BY <2>4, <2>7
  <2> HIDE DEF k, c
  <2>9. k * c = c * k /\ c * k <= Samples * k /\ c * k \in Nat /\ Samples * k \in Nat
    BY <2>1, <2>8, TimesMono
  <2>10. c * k <= 100
    BY <2>8, <2>9
  <2> HIDE DEF Bits, Ones
  <2> QED BY <2>5, <2>6, <2>9, <2>10 DEF k, c, u, s, Ones
<1>2. ClockInv => UsageIsShare
  BY <1>1 DEF UsageIsShare
<1> QED
  BY <1>2, Inductive, PTL

-----------------------------------------------------------------------------
(* What an AP takes over, together.                                         *)

\* A behaviour of the three is a behaviour of each of them.
LEMMA PartsOfContext == ContextSpec => FpuSpec /\ TrapSpec /\ ClockSpec
<1>1. \/ FpuInit  /\ TrapRests /\ ClockRests
      \/ FpuRests /\ TrapInit  /\ ClockRests
      \/ FpuRests /\ TrapRests /\ ClockInit
      => FpuInit /\ TrapInit /\ ClockInit
  BY DEF FpuRests, TrapRests, ClockRests
<1>2. [ \/ TrapRests /\ ClockRests /\ FpuNext /\ OnlySaved /\ UNCHANGED <<trapVars, clockVars>>
        \/ FpuRests /\ ClockRests /\ TrapNext /\ UNCHANGED <<fpuVars, clockVars>>
        \/ FpuRests /\ TrapRests /\ ClockNext /\ UNCHANGED <<fpuVars, trapVars>>
      ]_<<fpuVars, trapVars, clockVars>> => [FpuNext]_fpuVars /\ [TrapNext]_trapVars /\ [ClockNext]_clockVars
  OBVIOUS
<1> QED
  BY <1>1, <1>2, PTL DEF ContextSpec, FpuSpec, TrapSpec, ClockSpec

\* All three parts have their types.
THEOREM ContextTypeCorrect == ContextSpec => []ContextTypeOK
<1>1. FpuInv => FpuTypeOK
  BY DEF FpuInv
<1>2. FpuTypeOK /\ TrapTypeOK /\ ClockTypeOK => ContextTypeOK
  BY DEF ContextTypeOK
<1> QED
  BY <1>1, <1>2, PartsOfContext, FpuInductive, TrapTypeCorrect, ClockTypeCorrect, PTL

=============================================================================
