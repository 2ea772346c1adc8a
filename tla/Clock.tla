-------------------------------- MODULE Clock --------------------------------
(***************************************************************************)
(* Time in the driver: the counter of the processor (vxd_timer.c), how     *)
(* many of its ticks are a millisecond, and the timer that corrects this   *)
(* and samples how busy the APs are (monitor_proc).                        *)
(*                                                                         *)
(* The counter has two words, and the compiler no type for it: a delay is  *)
(* computed in one word, and the halves are compared one by one.           *)
(***************************************************************************)
EXTENDS Naturals, Sequences, FiniteSets

CONSTANTS
    Word,      \* 2^32
    Kilo,      \* 1000
    Period,    \* AP_MONITOR_TIMEOUT, in ms
    Late,      \* tardiness Windows tells the timer, in ms
    Samples,   \* samples ap_usage looks at
    SleepMs,   \* sleep_delay_ms
    DefaultMs, \* tsc_ms_clock before anything is known
    Clocks,    \* processors: ticks per ms, CPUID leaves 15H and 16H, the counter at first
    Delays,    \* arguments of mdelay and udelay
    Core,      \* APs
    MaxTsc     \* bound: the last tick

ASSUME ClockAssumption ==
    /\ {Word, Kilo, Period, Samples, DefaultMs, MaxTsc} \subseteq Nat \ {0}
    /\ SleepMs \in Nat /\ Late \subseteq Nat /\ Delays \subseteq Nat
    /\ Clocks \subseteq [freq : Nat \ {0}, eax : Nat, ebx : Nat, ecx : Nat, mhz : Nat, start : Nat]
    /\ Samples <= 100 /\ DefaultMs < Word

VARIABLES
    clock,      \* the processor
    tsc,        \* its counter
    msClock, usClock, \* tsc_ms_clock, tsc_us_clock
    cpc,        \* where the driver is
    wait,       \* the delay it is in or has been in
    tscLast,    \* tsc_last
    apStatus,    \* tdata.status
    lastActive, \* tdata.last_active
    usage,      \* tdata.stats_usage
    taken       \* what the last samples were, the newest first

clockVars == <<clock, tsc, msClock, usClock, cpc, wait, tscLast, apStatus, lastActive, usage, taken>>
coreVars  == <<apStatus, lastActive, usage, taken>>

NoWait == [unit |-> "ms", count |-> 0, from |-> 0, until |-> 0, ticks |-> 0]

ClockInit ==
    /\ clock \in Clocks /\ tsc = clock.start
    /\ msClock = DefaultMs /\ usClock = DefaultMs \div Kilo
    /\ cpc = "cpuid" /\ wait = NoWait /\ tscLast = 0
    /\ apStatus = [a \in Core |-> "ready"] /\ lastActive = [a \in Core |-> 0]
    /\ usage = [a \in Core |-> 0] /\ taken = [a \in Core |-> <<>>]

Lo(t) == t % Word
Hi(t) == t \div Word

-----------------------------------------------------------------------------
(* vxd_timer.c and cpuid.c.                                                 *)

\* cpuid_tsc_freq: kHz, 0 if CPUID does not tell or a product exceeds a word.
TscFreq(c) ==
    IF c.eax = 0 THEN 0
    ELSE IF c.ecx = 0 THEN IF c.mhz * Kilo < Word THEN c.mhz * Kilo ELSE 0
    ELSE IF (c.ecx \div Kilo) * c.ebx < Word THEN ((c.ecx \div Kilo) * c.ebx) \div c.eax ELSE 0

\* Mutant of Reached: one of the halves is enough.
ReachedEither(t, until) == Hi(t) > Hi(until) \/ Lo(t) >= Lo(until)

\* delay_loop and tsc_ring: both halves are reached.
Reached(t, until) == Hi(t) >= Hi(until) /\ Lo(t) >= Lo(until)

\* Mutant of Until: the carry into the high half is lost.
UntilNoCarry(t, ticks) == (Hi(t) * Word) + ((Lo(t) + ticks) % Word)

\* When a number of ticks from t is over.
Until(t, ticks) == t + ticks

\* mdelay and udelay, and the period after which an AP sleeps: one word.
Product(n, c) == (n * c) % Word

\* tsc_div: nothing for zero; a quotient of more than a word is a fault.
TscDiv(diff, d) == IF d = 0 THEN 0 ELSE diff \div d

-----------------------------------------------------------------------------

\* Device_Init: the clock, where CPUID tells it.
ReadFreq ==
    /\ cpc = "cpuid"
    /\ IF TscFreq(clock) # 0
       THEN msClock' = (TscFreq(clock) * Kilo) % Word /\ usClock' = TscFreq(clock)
       ELSE UNCHANGED <<msClock, usClock>>
    /\ cpc' = "boot"
    /\ UNCHANGED <<clock, tsc, wait, tscLast, coreVars>>

\* smp_init_bsp waits, in ms or us.
Delay(unit, n) ==
    /\ cpc = "boot"
    /\ LET ticks == Product(n, IF unit = "ms" THEN msClock ELSE usClock)
       IN  wait' = [unit |-> unit, count |-> n, from |-> tsc, until |-> Until(tsc, ticks), ticks |-> ticks]
    /\ cpc' = "delay"
    /\ UNCHANGED <<clock, tsc, msClock, usClock, tscLast, coreVars>>

DelayEnds ==
    /\ cpc = "delay" /\ Reached(tsc, wait.until)
    /\ cpc' = "returned"
    /\ UNCHANGED <<clock, tsc, msClock, usClock, wait, tscLast, coreVars>>

\* Device_Init reads the counter and starts the timer.
StartMonitor ==
    /\ cpc = "returned"
    /\ tscLast' = tsc /\ wait' = NoWait
    /\ cpc' = "run"
    /\ UNCHANGED <<clock, tsc, msClock, usClock, coreVars>>

Tick ==
    /\ tsc < MaxTsc
    /\ tsc' = tsc + 1
    /\ UNCHANGED <<clock, msClock, usClock, cpc, wait, tscLast, coreVars>>

Counts(s) == IF s \in {"busy", "running"} THEN 1 ELSE 0

\* The value of bit i.
Pow2[i \in 0..(Samples + 1)] == IF i = 0 THEN 1 ELSE 2 * Pow2[i - 1]

\* stats_usage has more bits than ap_usage reads.
Register == Pow2[Samples + 1]

\* monitor_proc, late by t ms.  It reads the status without taking the lock.
MonitorBase(t, divisor) ==
    /\ cpc = "run"
    /\ tsc - tscLast \in clock.freq * (Period + t) .. clock.freq * (Period + t + 1) - 1
    /\ LET ms == TscDiv(tsc - tscLast, divisor)
       IN  IF ms >= Word THEN cpc' = "fault" /\ UNCHANGED <<msClock, usClock>>
                         ELSE msClock' = ms /\ usClock' = ms \div Kilo /\ UNCHANGED cpc
    /\ tscLast' = tsc
    /\ usage' = [a \in Core |-> ((2 * usage[a]) % Register) + Counts(apStatus[a])]
    /\ taken' = [a \in Core |-> SubSeq(<<Counts(apStatus[a])>> \o taken[a], 1,
                                       IF Len(taken[a]) < Samples THEN Len(taken[a]) + 1 ELSE Samples)]
    /\ UNCHANGED <<clock, tsc, wait, apStatus, lastActive>>

\* Mutant of Monitor: on time, always.
MonitorPunctual(t) == MonitorBase(t, Period)

Monitor(t) == MonitorBase(t, Period + t)

\* ap_usage, which also the program calls through the driver.
ApUsageOf(n, bits) ==
    (100 \div Samples) * Cardinality({i \in 0..(n - 1) : (bits \div Pow2[i]) % 2 = 1})

\* Mutant of ApUsage: one sample too many.
ApUsageMore(bits) == ApUsageOf(Samples + 1, bits)

ApUsage(bits) == ApUsageOf(Samples, bits)

-----------------------------------------------------------------------------
(* An AP, as far as it concerns the timer: smp_ap_main.                     *)

ApLocks(a) ==
    /\ cpc = "run" /\ apStatus[a] = "ready"
    /\ apStatus' = [apStatus EXCEPT ![a] = "busy"]
    /\ UNCHANGED <<clock, tsc, msClock, usClock, cpc, wait, tscLast, lastActive, usage, taken>>

Rings(a) == Reached(tsc, Until(lastActive[a], Product(SleepMs, msClock)))

\* Idle for long enough, or not.
ApUnlocks(a) ==
    /\ cpc = "run" /\ apStatus[a] = "busy"
    /\ apStatus' = [apStatus EXCEPT ![a] = IF Rings(a) THEN "sleep" ELSE "ready"]
    /\ UNCHANGED <<clock, tsc, msClock, usClock, cpc, wait, tscLast, lastActive, usage, taken>>

\* A thread is loaded (Migration), and done.
ApGiven(a) ==
    /\ cpc = "run" /\ apStatus[a] \in {"ready", "sleep"}
    /\ apStatus' = [apStatus EXCEPT ![a] = "running"]
    /\ UNCHANGED <<clock, tsc, msClock, usClock, cpc, wait, tscLast, lastActive, usage, taken>>

ApDoneAt(a, t) ==
    /\ cpc = "run" /\ apStatus[a] = "running"
    /\ apStatus' = [apStatus EXCEPT ![a] = "ready"]
    /\ lastActive' = [lastActive EXCEPT ![a] = t]
    /\ UNCHANGED <<clock, tsc, msClock, usClock, cpc, wait, tscLast, usage, taken>>

ApDone(a) == ApDoneAt(a, tsc)

ClockNext ==
    \/ ReadFreq \/ DelayEnds \/ StartMonitor \/ Tick
    \/ \E n \in Delays, unit \in {"ms", "us"} : Delay(unit, n)
    \/ \E t \in Late : Monitor(t)
    \/ \E a \in Core : ApLocks(a) \/ ApUnlocks(a) \/ ApGiven(a) \/ ApDone(a)

ClockSpec == ClockInit /\ [][ClockNext]_clockVars

-----------------------------------------------------------------------------
(* Properties.                                                              *)

ClockTypeOK ==
    /\ clock \in Clocks /\ tsc \in Nat
    /\ msClock \in 0..(Word - 1) /\ usClock \in 0..(Word - 1)
    /\ cpc \in {"cpuid", "boot", "delay", "returned", "run", "fault"}
    /\ wait \in [unit : {"ms", "us"}, count : Nat, from : Nat, until : Nat, ticks : Nat]
    /\ tscLast \in 0..tsc
    /\ apStatus \in [Core -> {"ready", "busy", "sleep", "running"}]
    /\ lastActive \in [Core -> 0..tsc] /\ usage \in [Core -> 0..(Register - 1)]
    /\ taken \in [Core -> Seq({0, 1})]

\* A delay lasts as many ticks as were computed, although the halves of the counter are
\* compared one by one; and as long as it should, if the product fits a word and the
\* clock is not slower than the processor.
DelayLongEnough ==
    cpc = "returned" =>
        /\ tsc - wait.from >= wait.ticks
        /\ wait.unit = "ms" /\ msClock >= clock.freq /\ wait.count * msClock < Word =>
              tsc - wait.from >= wait.count * clock.freq
        /\ wait.unit = "us" /\ usClock * Kilo >= clock.freq /\ wait.count * usClock < Word =>
              (tsc - wait.from) * Kilo >= wait.count * clock.freq

\* After its first run the timer keeps the clock at the processor's, or above by less
\* than one part of Period: also when it runs late; and its division does not fault.
ClockTracks ==
    /\ cpc # "fault"
    /\ cpc = "run" /\ taken # [a \in Core |-> <<>>] =>
          clock.freq <= msClock /\ (msClock - clock.freq) * Period <= clock.freq

\* The usage the driver reports is the share of its last samples in which the AP had a
\* thread or held the lock: never more than 100.
UsageIsShare ==
    \A a \in Core : LET n == Cardinality({i \in DOMAIN taken[a] : taken[a][i] = 1})
                    IN  ApUsage(usage[a]) = n * (100 \div Samples) /\ ApUsage(usage[a]) <= 100

\* An AP goes to sleep only when it has had no thread for SleepMs, if the product fits
\* a word and the clock is not slower than the processor.
SleepsWhenIdle ==
    [][ \A a \in Core :
          apStatus[a] # "sleep" /\ apStatus'[a] = "sleep" =>
             /\ tsc - lastActive[a] >= Product(SleepMs, msClock)
             /\ msClock >= clock.freq /\ SleepMs * msClock < Word =>
                   tsc - lastActive[a] >= SleepMs * clock.freq ]_clockVars

=============================================================================
