------------------------------- MODULE Device -------------------------------
(***************************************************************************)
(* The driver from Device_Init to the programs that use it: what it finds  *)
(* and enables, the start of the APs (Boot), what it reports, and the      *)
(* library that asks and passes it on.                                     *)
(*                                                                         *)
(* A program must not be told of a register, a processor or a function     *)
(* that nobody enabled, started or handles.  Which of them are there is    *)
(* decided in many places: CPUID, system.ini, the version of Windows, the  *)
(* MP table, and every way Device_Init can end.                            *)
(***************************************************************************)
EXTENDS Boot

CONSTANTS
    Machines, \* what Device_Init can find
    Settings  \* what system.ini can say

\* Bits of CPUID, by what the processor means by them.
Bit == {"FXSR", "MMX", "MSR", "PAE", "TSC", "CX8", "HTT", "SSE", "SSE2", "LAHF", "SSSE3",
        "XSAVE", "OSXSAVE", "AVX", "AVX512F"}

\* What a memory range may hold where the MP floating pointer is searched.
Pointer == {"nothing", "wrong", "table"}

ASSUME DeviceAssumption ==
    /\ Machines \subseteq [leaf : Nat, cpuid : BOOLEAN, bits : SUBSET Bit, hidden : BOOLEAN,
                           win95 : BOOLEAN, mpfp : Seq(Pointer), memory : BOOLEAN]
    /\ Settings \subseteq [noavx : BOOLEAN, nosse : BOOLEAN, one : BOOLEAN]
    \* AVX comes with the rest, what is newer than SSE with SSE (LAHF is told with those of
    \* 64 bits), and only the operating system switches XSAVE on.
    /\ \A m \in Machines : /\ "AVX" \in m.bits => {"SSE", "XSAVE", "FXSR"} \subseteq m.bits
                           /\ m.bits \cap {"SSE2", "LAHF", "SSSE3"} # {} => "SSE" \in m.bits
                           /\ "SSE" \in m.bits => "FXSR" \in m.bits
                           /\ "OSXSAVE" \notin m.bits

VARIABLES
    machine,
    ini,         \* noavx, nosse, and whether max_cpus is 1
    dpc,         \* where Device_Init is
    cr4,         \* CR4 of the BSP: what the operating system supports
    cpuFlags,    \* cpu_flags
    noSysFxsave, \* no_sys_fxsave
    xsaveFlags,  \* xsave_flags # 0
    hooks,       \* what Windows calls the driver for
    kernelFlat,  \* kernel_flat # 0
    noTable,     \* smp_init has set cpu_count without a table
    smpValid,    \* smp_valid
    initSucc,    \* smp_init_succ
    lib          \* the library in a process

devVars == <<machine, ini, dpc, cr4, cpuFlags, noSysFxsave, xsaveFlags, hooks, kernelFlat,
             noTable, smpValid, initSucc>>

NoLib == [state |-> "none", vxd |-> "none", cpus |-> 0, address |-> FALSE, features |-> {}]

DevInit ==
    /\ machine \in Machines /\ ini \in Settings
    /\ dpc = "settings"
    \* Windows 98 knows SSE.
    /\ cr4 = IF machine.win95 THEN {} ELSE {"FXSR"} \cap machine.bits
    /\ cpuFlags = {} /\ noSysFxsave = FALSE /\ xsaveFlags = FALSE
    /\ hooks = {} /\ kernelFlat = FALSE /\ noTable = FALSE
    /\ smpValid = FALSE /\ initSucc = FALSE
    /\ lib = NoLib

\* CPUID(1) with the given CR4: XSAVE shows when it is enabled, and on some machines
\* AVX only then.
Cpuid(m, cr) ==
    (m.bits \ (IF m.hidden /\ "XSAVE" \notin cr THEN {"AVX"} ELSE {}))
        \cup (IF "XSAVE" \in cr THEN {"OSXSAVE"} ELSE {})

\* What cpuid_smp.h calls FXSR, MMX, TSC and MSR: it numbers the last two one too high.
Needed == {"FXSR", "MMX", "MSR", "PAE"}

-----------------------------------------------------------------------------
(* Device_Init.                                                             *)

ReadSettings ==
    /\ dpc = "settings"
    /\ ini' = [ini EXCEPT !.noavx = ini.noavx \/ ini.nosse]
    /\ dpc' = "cpuid"
    /\ UNCHANGED <<machine, cr4, cpuFlags, noSysFxsave, xsaveFlags, hooks, kernelFlat, noTable,
                   smpValid, initSucc>>

\* No CPUID, or only leaf 0.
NoCpuid ==
    /\ dpc = "cpuid" /\ (~machine.cpuid \/ machine.leaf = 0)
    /\ dpc' = "refused"
    /\ UNCHANGED <<machine, ini, cr4, cpuFlags, noSysFxsave, xsaveFlags, hooks, kernelFlat, noTable,
                   smpValid, initSucc>>

HasCpuid == dpc = "cpuid" /\ machine.cpuid /\ machine.leaf >= 1

WantsXsave == HasCpuid /\ {"FXSR", "XSAVE"} \subseteq Cpuid(machine, cr4) /\ ~ini.noavx

\* enable_simd switches the AVX state on before it knows whether there is one: without,
\* xsetbv is a general protection fault, in Windows's own start.
XsetbvFaults ==
    /\ WantsXsave /\ "AVX" \notin machine.bits
    /\ cr4' = cr4 \cup {"FXSR", "XSAVE"} /\ cpuFlags' = Cpuid(machine, cr4)
    /\ noSysFxsave' = machine.win95
    /\ dpc' = "fault"
    /\ UNCHANGED <<machine, ini, xsaveFlags, hooks, kernelFlat, noTable, smpValid, initSucc>>

\* enable_simd: the flags are read again, as AVX may show only now.
EnableXsave ==
    /\ WantsXsave /\ "AVX" \in machine.bits
    /\ cr4' = cr4 \cup {"FXSR", "XSAVE"}
    /\ cpuFlags' = Cpuid(machine, cr4')
    /\ xsaveFlags' = ("AVX" \in cpuFlags')
    /\ noSysFxsave' = machine.win95
    /\ dpc' = "needs"
    /\ UNCHANGED <<machine, ini, hooks, kernelFlat, noTable, smpValid, initSucc>>

\* enable_simd without AVX: SSE, where there is something to enable.
EnableSse ==
    /\ HasCpuid
    /\ LET flags == Cpuid(machine, cr4)
       IN  /\ "XSAVE" \in flags /\ "FXSR" \in flags => ini.noavx
           /\ cpuFlags' = flags
           /\ cr4' = IF "FXSR" \in flags /\ ~ini.nosse THEN cr4 \cup {"FXSR"} ELSE cr4
           /\ noSysFxsave' = ("FXSR" \in flags /\ machine.win95)
    /\ dpc' = "needs"
    /\ UNCHANGED <<machine, ini, xsaveFlags, hooks, kernelFlat, noTable, smpValid, initSucc>>

TooOld ==
    /\ dpc = "needs" /\ ~(Needed \subseteq cpuFlags)
    /\ dpc' = "refused"
    /\ UNCHANGED <<machine, ini, cr4, cpuFlags, noSysFxsave, xsaveFlags, hooks, kernelFlat, noTable,
                   smpValid, initSucc>>

Suffices == dpc = "needs" /\ Needed \subseteq cpuFlags
WantsSmp == "HTT" \in cpuFlags /\ ~ini.one

\* smp_get_mpfp: the first range with a pointer whose checksum is right.
Mpfp ==
    LET found == SelectSeq(machine.mpfp, LAMBDA p : p # "nothing")
    IN  IF found = <<>> THEN "nothing" ELSE Head(found)

\* smp_init comes back early: without a table it sets cpu_count, without a kernel or
\* with something else than a table it does not.
SmpEarly ==
    /\ Suffices /\ WantsSmp /\ (Mpfp # "table" \/ ~machine.memory)
    /\ hooks' = hooks \cup {"thread_switch"}
    /\ noTable' = (Mpfp = "nothing")
    /\ dpc' = "report"
    /\ UNCHANGED <<machine, ini, cr4, cpuFlags, noSysFxsave, xsaveFlags, kernelFlat, smpValid,
                   initSucc>>

\* ts_init, then smp_init finds the table and has its kernel: Boot.
SmpStarts ==
    /\ Suffices /\ WantsSmp /\ Mpfp = "table" /\ machine.memory
    /\ hooks' = hooks \cup {"thread_switch"}
    /\ kernelFlat' = TRUE
    /\ dpc' = "smp"
    /\ UNCHANGED <<machine, ini, cr4, cpuFlags, noSysFxsave, xsaveFlags, noTable, smpValid,
                   initSucc>>

\* smp_switch_install and the timer, when the APs are there.
SmpReturns ==
    /\ dpc = "smp" /\ bpc \in {"single", "done"}
    /\ IF bpc = "done" THEN /\ hooks' = hooks \cup {"int3", "pf", "timer"}
                            /\ smpValid' = TRUE
                       ELSE UNCHANGED <<hooks, smpValid>>
    /\ dpc' = "report"
    /\ UNCHANGED <<machine, ini, cr4, cpuFlags, noSysFxsave, xsaveFlags, kernelFlat, noTable,
                   initSucc>>

\* Without APs the driver still saves the registers that Windows does not know.
OneProcessorBase(hook) ==
    /\ Suffices /\ ~WantsSmp
    /\ hooks' = hooks \cup hook
    /\ dpc' = "report"
    /\ UNCHANGED <<machine, ini, cr4, cpuFlags, noSysFxsave, xsaveFlags, kernelFlat, noTable,
                   smpValid, initSucc>>

\* Mutant of OneProcessor: only with APs.
OneProcessorUnhooked == OneProcessorBase({})

OneProcessor == OneProcessorBase(IF "SSE" \in cpuFlags THEN {"thread_switch"} ELSE {})

Report ==
    /\ dpc = "report"
    /\ initSucc' = TRUE
    /\ dpc' = "done"
    /\ UNCHANGED <<machine, ini, cr4, cpuFlags, noSysFxsave, xsaveFlags, hooks, kernelFlat, noTable,
                   smpValid>>

DeviceInit ==
    \/ ReadSettings \/ NoCpuid \/ XsetbvFaults \/ EnableXsave \/ EnableSse \/ TooOld
    \/ SmpEarly \/ SmpStarts \/ SmpReturns \/ OneProcessor \/ Report

-----------------------------------------------------------------------------
(* Device_IO_Control, as the library calls it.                              *)

DiocCount == IF noTable THEN 1 ELSE cpuCount

\* Mutant of DiocFeatures: the bits as CPUID has them.
DiocFeaturesRaw == cpuFlags

DiocFeatures ==
    {"SMPVXD"} \cup ({"MMX", "SSE"} \cap cpuFlags) \cup (IF xsaveFlags THEN {"AVX"} ELSE {})

\* DIOC_SMP_CPU_STATS: whose usage it returns for processor u, Dos for none.  Where
\* ttable has a hole the code compares u with the word at address 24, the interrupt
\* vector 6 of DOS, which is no such number.
DiocStatsIn(ids, u) ==
    IF u = 0 THEN Bsp
    ELSE LET at == {a \in Id \cap ids : index[a] = u}
         IN  IF at = {} THEN Dos ELSE CHOOSE a \in at : \A b \in at : a <= b

\* Mutant of DiocStats: the last is left out.
DiocStatsShort(u) == DiocStatsIn(0..(ttableMax - 1), u)

DiocStats(u) == DiocStatsIn(0..ttableMax, u)

-----------------------------------------------------------------------------
(* The library in a process.                                                *)

\* smp9x_init, when the driver answers.
Smp9xInitBase(least) ==
    /\ lib.state = "none" /\ initSucc
    /\ LET usable == DiocCount >= least /\ kernelFlat
       IN  lib' = [state |-> "loaded", vxd |-> IF usable THEN "open" ELSE "stale",
                   cpus |-> DiocCount, address |-> usable, features |-> DiocFeatures]

\* Mutant of Smp9xInit: one processor is enough.
Smp9xInitOne == Smp9xInitBase(1)

Smp9xInit == Smp9xInitBase(2)

\* smp9x_init, when there is no driver or it refuses.
Smp9xNoDriver ==
    /\ lib.state = "none" /\ dpc = "refused"
    /\ lib' = [NoLib EXCEPT !.state = "loaded"]

Smp9xClose ==
    /\ lib.state = "loaded"
    /\ lib' = [lib EXCEPT !.state = "closed", !.vxd = "none", !.address = FALSE]

\* smp9x_cpus, and the number and mask of smp9x_GetSystemInfo; Windows says 1.
Cpus == IF lib.cpus = 0 THEN 1 ELSE lib.cpus
Mask == 0..(Cpus - 1)

\* smp9x_GetCurrentProcessorNumber on processor p: cpuindex.
CurrentProcessorNumber(p) == IF lib.address /\ p # Bsp THEN index[p] ELSE 0

\* smp9x_stats.
Stats(u) == IF lib.vxd = "open" THEN DiocStats(u) ELSE Dos

\* IsProcessorFeaturePresentCPUID: the bit that is tested.  For SSE3 it is that of leaf
\* 0x80000001, and what cpuid_smp.h calls MCE is CX8.
TestedBit ==
    [COMPARE_EXCHANGE_DOUBLE |-> "CX8", MMX |-> "MMX", XMMI |-> "SSE", RDTSC |-> "MSR",
     XMMI64 |-> "SSE2", SSE3 |-> "LAHF", SSSE3 |-> "SSSE3", XSAVE |-> "OSXSAVE",
     AVX |-> "AVX", AVX512F |-> "AVX512F"]
SseFeature == {"XMMI", "XMMI64", "SSE3", "SSSE3"}
AvxFeature == {"XSAVE", "AVX"}

\* smp9x_IsProcessorFeaturePresent on Windows 95 and 98.
IsProcessorFeaturePresent(f) ==
    /\ machine.cpuid /\ TestedBit[f] \in Cpuid(machine, cr4)
    /\ f \in SseFeature /\ machine.win95 => "SSE" \in lib.features
    /\ f \in AvxFeature => "AVX" \in lib.features
    /\ f # "AVX512F"

-----------------------------------------------------------------------------

\* Device_Init waits for smp_init; started APs run on.
BootStep ==
    /\ (dpc = "smp" /\ BspNext) \/ \E a \in Id : ApNext(a)
    /\ UNCHANGED <<devVars, lib>>
DriverStep == DeviceInit /\ UNCHANGED <<vars, lib>>
LibStep    == (Smp9xInit \/ Smp9xNoDriver \/ Smp9xClose) /\ UNCHANGED <<vars, devVars>>

driverVars == <<vars, devVars, lib>>
DriverInit == Init /\ DevInit
DriverNext == BootStep \/ DriverStep \/ LibStep
DriverSpec == DriverInit /\ [][DriverNext]_driverVars

-----------------------------------------------------------------------------
(* Properties.                                                              *)

DevTypeOK ==
    /\ machine \in Machines
    /\ ini \in [noavx : BOOLEAN, nosse : BOOLEAN, one : BOOLEAN]
    /\ dpc \in {"settings", "cpuid", "needs", "smp", "report", "done", "refused", "fault"}
    /\ cr4 \subseteq {"FXSR", "XSAVE"} /\ cpuFlags \subseteq Bit
    /\ {noSysFxsave, xsaveFlags, kernelFlat, noTable, smpValid, initSucc} \subseteq BOOLEAN
    /\ hooks \subseteq {"thread_switch", "int3", "pf", "timer"}
    /\ lib \in [state : {"none", "loaded", "closed"}, vxd : {"none", "open", "stale"}, cpus : Nat,
                address : BOOLEAN, features : SUBSET {"SMPVXD", "MMX", "SSE", "AVX"}]

\* The registers of SSE and AVX, and whether a program can use them: they are enabled,
\* and saved for each thread, by Windows or by thread_switch.
SseEnabled == "FXSR" \in cr4
SseSaved   == machine.win95 => noSysFxsave /\ "thread_switch" \in hooks
AvxEnabled == "XSAVE" \in cr4
AvxSaved   == xsaveFlags /\ "thread_switch" \in hooks

\* A program that asks IsProcessorFeaturePresent of the library first does not execute
\* an instruction that nobody enabled, nor lose registers that nobody saves; except for
\* SSE on Windows 95 with nosse.  The answer depends on CPUID, the settings, the
\* version of Windows and every way Device_Init can end.
ReportedIsUsable ==
    lib.state = "loaded" =>
        /\ \A f \in SseFeature : IsProcessorFeaturePresent(f) =>
              (machine.win95 /\ ini.nosse) \/ (SseEnabled /\ SseSaved)
        /\ \A f \in AvxFeature : IsProcessorFeaturePresent(f) => AvxEnabled /\ AvxSaved

\* "CPU and OS supports SSE", smp9x.h says of the bit in the driver's answer.
SseReportedIsEnabled == lib.state = "loaded" /\ "SSE" \in lib.features => SseEnabled

\* A library that calls the code of the kernel page and sends threads to the APs finds
\* the handlers installed, an AP that is free, and its handle open: fly() is an int3,
\* which would end the program.
FlyHandled ==
    lib.address =>
        /\ lib.vxd = "open" /\ smpValid
        /\ {"thread_switch", "int3", "pf"} \subseteq hooks
        /\ freeCnt >= 1 /\ \A a \in Aps : apc[a] \in Up

\* The processors on which the process can run.
Runs == {Bsp} \cup (IF lib.address THEN Aps ELSE {})

\* The numbers of the processors are those the system information counts, each once, and
\* the usage is answered for these and for no others, for that processor; a program
\* that counts until it gets none ends after the last.
NumbersAgree ==
    lib.state = "loaded" =>
        /\ {CurrentProcessorNumber(p) : p \in Runs} = Mask
        /\ \A p, q \in Runs : CurrentProcessorNumber(p) = CurrentProcessorNumber(q) => p = q
        /\ lib.vxd = "open" => \A u \in 0..(MaxId + 2) :
              /\ Stats(u) # Dos <=> u < Cpus
              /\ \A p \in Runs : CurrentProcessorNumber(p) = u => Stats(u) = p

=============================================================================
