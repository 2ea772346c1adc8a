----------------------------- MODULE CpuMonitor -----------------------------
(***************************************************************************)
(* mcpuinfo, the program that shows how busy the processors are.  One      *)
(* thread fetches the numbers, from the library, or from Windows where     *)
(* there is none; the other has the window, updates its text and its icon  *)
(* by a timer, and ends both.                                              *)
(***************************************************************************)
EXTENDS Naturals, Sequences, FiniteSets

CONSTANTS
    Procs,    \* dwNumberOfProcessors
    Percents, \* usages that are reported
    DWord,    \* 2^32
    Icon,     \* icons of the graphics system
    NoIcon

ASSUME CpuMonitorAssumption ==
    /\ Procs \in Nat \ {0} /\ NoIcon \notin Icon
    /\ DWord \in Nat \ {0} /\ Percents \subseteq 0..(DWord - 1)

VARIABLES
    source,   \* where the usage comes from: "libsmp", "nt" or "9x"
    mainPc,   \* the thread with the window
    fetchPc,  \* the other
    dll,      \* the library is loaded
    run,      \* fecher_run
    stats,    \* cpu_stats: last_timer # 0 and result
    asked,    \* n of fetcher_libsmp_thread
    answer,   \* data, as returned
    unit,     \* i of update_stats
    sum,      \* sum
    count,    \* c
    lastSum,  \* last_sum
    alive,    \* icons that are not destroyed
    loadIcon, oldIcon,
    shown,    \* the icon of the window and of the tray
    digits,   \* what the icon says, the last digit first
    seen,     \* history: the statistics as the last update read them, one by one
    drawn     \* history: for how many processors the icon was drawn

fetchVars == <<fetchPc, stats, asked, answer>>
sumVars   == <<unit, sum, count, seen>>
iconVars  == <<lastSum, alive, loadIcon, oldIcon, shown, digits, drawn>>
winVars   == <<sumVars, iconVars>>
monVars   == <<source, mainPc, dll, run, fetchVars, winVars>>

Unit    == 0..(Procs - 1)
Usage   == 0..(DWord - 1)
NoSum   == DWord - 1    \* -1
NoUsage == DWord - 1    \* 0xFFFFFFFF
NoData  == [known |-> FALSE, result |-> 0]
NoneRead == [u \in Unit |-> NoData]

MonInit ==
    /\ source \in {"libsmp", "nt", "9x"}
    /\ mainPc = "start" /\ fetchPc = "none"
    /\ dll = FALSE /\ run = FALSE
    /\ stats = NoneRead /\ asked = 0 /\ answer = 0
    /\ unit = 0 /\ sum = 0 /\ count = 0 /\ seen = NoneRead
    /\ lastSum = NoSum
    /\ alive = {} /\ loadIcon = NoIcon /\ oldIcon = NoIcon /\ shown = NoIcon
    /\ digits = <<>> /\ drawn = 0

-----------------------------------------------------------------------------
(* The thread that fetches.                                                 *)

\* smpcon() loads the library or not, and is_nt() is asked first which thread to start;
\* the first icon; perf_fetcher_start.
OpenWindow ==
    /\ mainPc = "start"
    /\ dll' \in BOOLEAN /\ (source # "nt" => dll' = (source = "libsmp"))
    \* counterIconSegments may fail.
    /\ loadIcon' \in Icon \cup {NoIcon} /\ shown' = loadIcon' /\ alive' = {loadIcon'} \ {NoIcon}
    /\ run' = TRUE
    \* CreateThread may fail.
    /\ fetchPc' \in {"loop", "none"}
    /\ mainPc' = "window"
    /\ UNCHANGED <<source, stats, asked, answer, sumVars, lastSum, oldIcon, digits, drawn>>

\* fetcher_libsmp_thread: all processors, until one is refused.
FetchRound ==
    /\ fetchPc = "loop" /\ run /\ source = "libsmp"
    /\ fetchPc' = "ask"
    /\ UNCHANGED <<source, mainPc, dll, run, stats, asked, answer, winVars>>

\* smpcon_stats: answered for the processors there are.  Where Windows does not tell
\* bsp_usage, the driver reports success all the same, with no percentage.
Answered(n) == n < Procs
Answers(n)  == Percents \cup (IF n = 0 THEN {NoUsage} ELSE {})

FetchAsk ==
    /\ fetchPc = "ask"
    /\ IF Answered(asked)
       THEN fetchPc' = "store" /\ answer' \in Answers(asked) /\ UNCHANGED asked
       ELSE fetchPc' = "loop" /\ asked' = 0 /\ UNCHANGED answer
    /\ UNCHANGED <<source, mainPc, dll, run, stats, winVars>>

\* last_timer, then result: the window may read between the two.
FetchTimer ==
    /\ fetchPc = "store"
    /\ stats' = [stats EXCEPT ![asked].known = TRUE]
    /\ fetchPc' = "result"
    /\ UNCHANGED <<source, mainPc, dll, run, asked, answer, winVars>>

\* Mutant of FetchResult: n is not counted.
FetchResultSame ==
    /\ fetchPc = "result"
    /\ stats' = [stats EXCEPT ![asked].result = answer]
    /\ fetchPc' = (IF source = "libsmp" THEN "ask" ELSE "loop") /\ answer' = 0
    /\ UNCHANGED <<source, mainPc, dll, run, asked, winVars>>

\* Windows 98 has no second processor to ask for.
FetchResult ==
    /\ fetchPc = "result"
    /\ stats' = [stats EXCEPT ![asked].result = answer]
    /\ IF source = "libsmp" THEN asked' = asked + 1 /\ fetchPc' = "ask"
                            ELSE fetchPc' = "loop" /\ UNCHANGED asked
    /\ answer' = 0
    /\ UNCHANGED <<source, mainPc, dll, run, winVars>>

\* perf_nt_read_cpu, the processors that Windows lists, in its order.  The first time
\* there is no result, and then last_timer is not 0 any more: one store matters.
FetchNt(u) ==
    /\ fetchPc = "loop" /\ run /\ source = "nt"
    /\ IF stats[u].known
       THEN \E p \in Percents : stats' = [stats EXCEPT ![u].result = p]
       ELSE stats' = [stats EXCEPT ![u].known = TRUE]
    /\ UNCHANGED <<source, mainPc, fetchPc, dll, run, asked, answer, winVars>>

\* fetcher_9x_thread: what Windows 98 says of its processor; nothing when it does not.
Fetch9x ==
    /\ fetchPc = "loop" /\ run /\ source = "9x"
    /\ fetchPc' = "store" /\ answer' \in Percents
    /\ UNCHANGED <<source, mainPc, dll, run, stats, asked, winVars>>

FetchEnds ==
    /\ fetchPc = "loop" /\ ~run
    /\ fetchPc' = "ended"
    /\ UNCHANGED <<source, mainPc, dll, run, stats, asked, answer, winVars>>

-----------------------------------------------------------------------------
(* The thread with the window.                                              *)

\* What update_stats is to compute, of statistics that it has read: the sum in a word of
\* the usages that are known, and their mean.
Known(st) == {u \in Unit : st[u].known}

SumOf(st) ==
    LET f[n \in 0..Procs] ==
            IF n = 0 THEN 0 ELSE f[n - 1] + (IF st[n - 1].known THEN st[n - 1].result ELSE 0)
    IN  f[Procs]

Mean(total, n) == IF n = 0 THEN 0 ELSE total \div n

\* counterIcon: up to three digits, from the last on; not more than 100, and not less
\* than 0, as which an int reads the upper half of the words.
Clamp(n) == IF n >= DWord \div 2 THEN 0 ELSE IF n > 100 THEN 100 ELSE n

CounterDigits(n) ==
    CASE n < 10               -> <<n>>
      [] n >= 10 /\ n < 100   -> <<n % 10, n \div 10>>
      [] n >= 100             -> <<n % 10, (n \div 10) % 10, (n \div 100) % 10>>

\* The timer: update_stats begins.
UpdateStarts ==
    /\ mainPc = "window"
    /\ mainPc' = "update"
    /\ unit' = 0 /\ sum' = 0 /\ count' = 0 /\ seen' = NoneRead
    /\ UNCHANGED <<source, dll, run, fetchVars, iconVars>>

\* perf_cpu_load of one processor, while the other thread goes on.  It reads last_timer
\* and result; as the former stays known, what it finds is what is there at the latter.
ReadUnit ==
    /\ mainPc = "update" /\ unit < Procs
    /\ IF stats[unit].known
       THEN sum' = (sum + stats[unit].result) % DWord /\ count' = count + 1
       ELSE UNCHANGED <<sum, count>>
    /\ seen' = [seen EXCEPT ![unit] = stats[unit]]
    /\ unit' = unit + 1
    /\ UNCHANGED <<source, mainPc, dll, run, fetchVars, iconVars>>

\* The rest of update_stats: a new icon when the sum has changed, and the one before
\* the last is destroyed.  counterIconSegments may fail.
UpdateEnds ==
    /\ mainPc = "update" /\ unit = Procs
    /\ mainPc' = "window"
    /\ UNCHANGED <<source, dll, run, fetchVars, sumVars>>

UpdateSame == UpdateEnds /\ sum = lastSum /\ UNCHANGED iconVars

UpdateIcon(new, destroyed) ==
    /\ UpdateEnds /\ sum # lastSum
    /\ lastSum' = sum
    /\ digits' = CounterDigits(Clamp(Mean(sum, count))) /\ drawn' = Cardinality(Known(seen))
    /\ shown' = new /\ loadIcon' = new /\ oldIcon' = loadIcon
    /\ alive' = (alive \cup {new}) \ {destroyed}

UpdateFails(destroyed) ==
    /\ UpdateEnds /\ sum # lastSum
    /\ lastSum' = sum
    /\ digits' = <<>> /\ drawn' = 0
    /\ shown' = NoIcon /\ loadIcon' = NoIcon /\ oldIcon' = loadIcon
    /\ alive' = alive \ {destroyed}

UpdateStats ==
    \/ UpdateStarts \/ ReadUnit \/ UpdateSame
    \/ \E new \in Icon \ alive : UpdateIcon(new, oldIcon)
    \/ UpdateFails(oldIcon)

\* perf_fetcher_stop begins to wait.
Close ==
    /\ mainPc = "window"
    /\ run' = FALSE
    /\ mainPc' = "stopping"
    /\ UNCHANGED <<source, fetchVars, dll, winVars>>

LeaveBase ==
    /\ shown' = NoIcon /\ digits' = <<>> /\ alive' = alive \ {oldIcon, loadIcon}
    /\ dll' = FALSE
    /\ mainPc' = "ended"
    /\ UNCHANGED <<source, fetchVars, run, sumVars, lastSum, loadIcon, oldIcon, drawn>>

\* Mutant of Leave: the fetcher is told to stop, but not waited for.
LeaveAtOnce == mainPc = "stopping" /\ LeaveBase

\* The fetcher has ended, or there was none: the icons and the library go.
Leave == mainPc = "stopping" /\ fetchPc \in {"ended", "none"} /\ LeaveBase

Fetcher ==
    \/ FetchRound \/ FetchAsk \/ FetchTimer \/ FetchResult \/ Fetch9x \/ FetchEnds
    \/ \E u \in Unit : FetchNt(u)

MonNext == OpenWindow \/ Fetcher \/ UpdateStats \/ Close \/ Leave

MonSpec == MonInit /\ [][MonNext]_monVars

-----------------------------------------------------------------------------
(* Properties.                                                              *)

\* The number the digits stand for.
Number(s) == s[1] + (IF Len(s) > 1 THEN 10 * s[2] ELSE 0) + (IF Len(s) > 2 THEN 100 * s[3] ELSE 0)

MonTypeOK ==
    /\ source \in {"libsmp", "nt", "9x"}
    /\ mainPc \in {"start", "window", "update", "stopping", "ended"}
    /\ fetchPc \in {"none", "loop", "ask", "store", "result", "ended"}
    /\ {dll, run} \subseteq BOOLEAN
    /\ stats \in [Unit -> [known : BOOLEAN, result : Usage]]
    /\ seen \in [Unit -> [known : BOOLEAN, result : Usage]]
    /\ asked \in 0..Procs /\ answer \in Usage
    /\ {unit, count, drawn} \subseteq 0..Procs /\ {sum, lastSum} \subseteq Usage
    /\ alive \subseteq Icon /\ {loadIcon, oldIcon, shown} \subseteq Icon \cup {NoIcon}
    /\ digits \in Seq(0..9)

\* The fetcher calls the library, through a pointer that smpcon_free clears, only while
\* it is loaded.
AsksWhileLoaded == fetchPc = "ask" => dll

\* The window and the tray never have an icon that is destroyed; the program holds no
\* more than two, and none when it has ended.
IconAlive ==
    /\ shown \in alive \cup {NoIcon}
    /\ Cardinality(alive) <= 2
    /\ mainPc = "ended" => alive = {}

\* What the icon says is the mean of what the last update found, though the fetcher went
\* on between its reads and though an icon is drawn only when the sum has changed: unless
\* a processor has become known that was not when the icon was drawn, or the icon
\* says nothing.  (A sum that reads as "none yet" is not drawn either.)
IconIsMean ==
    mainPc = "window" /\ digits # <<>> /\ drawn = Cardinality(Known(seen)) =>
        Number(digits) = Clamp(Mean(SumOf(seen) % DWord, Cardinality(Known(seen))))

\* The two threads of the program, between which only run and the wait for the
\* fetcher's end lie, agree on what is there and what it means.
MonitorSound == AsksWhileLoaded /\ IconAlive /\ IconIsMean

\* A program that is told to end does: the thread it waits for, without a limit, comes
\* out of its loop over the processors.
CloseEnds == (mainPc = "stopping") ~> (mainPc = "ended")

=============================================================================
