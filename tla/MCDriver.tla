------------------------------ MODULE MCDriver ------------------------------
(* The driver on small tables and machines, and the monitor program.  The two share    *)
(* nothing that is modelled: a behaviour is one of either, while the other rests in one *)
(* of its initial states.                                                               *)
EXTENDS Device, CpuMonitor

Processor(id, usable, bsp) == [processor |-> TRUE, id |-> id, usable |-> usable, bsp |-> bsp]
Apic == [processor |-> FALSE, id |-> 0, usable |-> TRUE, bsp |-> FALSE]

\* The BSP has id 1, in the middle.
SmallTables ==
    { <<Processor(1, TRUE, TRUE), Processor(0, FALSE, FALSE), Apic>>,
      <<Processor(1, TRUE, TRUE), Processor(0, TRUE, FALSE), Processor(3, TRUE, FALSE), Apic>>,
      <<Processor(3, TRUE, FALSE), Apic, Processor(2, FALSE, FALSE), Processor(1, TRUE, TRUE),
        Processor(0, TRUE, FALSE)>>,
      <<Processor(0, TRUE, FALSE), Processor(1, TRUE, TRUE), Processor(3, TRUE, FALSE),
        Processor(2, TRUE, FALSE)>> }
SmallLimits == {2, 3, 32}

\* Processors: the newest, one without AVX, one with XSAVE only (which faults), a Pentium II and one
\* that lacks PAE; AVX shows at once or when XSAVE is enabled.
New       == Bit \ {"OSXSAVE"}
Old       == New \ {"XSAVE", "AVX", "AVX512F", "SSSE3"}
OnlyXsave == New \ {"AVX", "AVX512F"}
NoSse     == {"FXSR", "MMX", "MSR", "PAE", "TSC", "CX8"}
NoPae     == Old \ {"PAE", "HTT"}
Processors == { <<New, TRUE>>, <<New, FALSE>>, <<Old, FALSE>>, <<OnlyXsave, FALSE>>, <<NoSse, FALSE>>,
                <<NoPae, FALSE>>, <<New \ {"HTT"}, FALSE>> }

Machine(b, w, p, mem) ==
    [leaf |-> 7, cpuid |-> TRUE, bits |-> b[1], hidden |-> b[2], win95 |-> w, mpfp |-> p, memory |-> mem]
SmallMachines ==
    { Machine(b, w, <<"nothing", "table">>, TRUE) : b \in Processors, w \in BOOLEAN }
        \cup { Machine(<<New, FALSE>>, TRUE, p, TRUE) : p \in {<<"nothing">>, <<"wrong", "table">>} }
        \cup { Machine(<<New, FALSE>>, TRUE, <<"table">>, FALSE),
               [Machine(<<Old, FALSE>>, FALSE, <<>>, TRUE) EXCEPT !.leaf = 0],
               [Machine(<<Old, FALSE>>, FALSE, <<>>, TRUE) EXCEPT !.cpuid = FALSE] }
AllSettings == [noavx : BOOLEAN, nosse : BOOLEAN, one : BOOLEAN]

DriverRests  == DriverInit /\ dpc = "settings" /\ machine = (CHOOSE m \in Machines : TRUE)
                           /\ ini = (CHOOSE s \in Settings : TRUE)
                           /\ mp = (CHOOSE t \in Tables : TRUE) /\ maxCpus = 2
MonitorRests == MonInit /\ source = "9x"

allVars == <<driverVars, monVars>>

InDriver(A)  == A /\ MonitorRests /\ UNCHANGED monVars
InMonitor(A) == A /\ DriverRests /\ UNCHANGED driverVars

\* Processors execute their instructions, and time passes, so that an idle AP goes to
\* sleep; Windows schedules the threads of the monitor program.
BspStep     == dpc = "smp" /\ BspNext /\ UNCHANGED <<devVars, lib>>
ApStep(a)   == ApNext(a) /\ UNCHANGED <<devVars, lib>>
ApSleeps(a) == MainSleeps(a) /\ UNCHANGED <<devVars, lib>>
Fairness ==
    /\ WF_allVars(InDriver(BspStep))
    /\ \A a \in Id : WF_allVars(InDriver(ApStep(a))) /\ SF_allVars(InDriver(ApSleeps(a)))
    /\ WF_allVars(InMonitor(Fetcher)) /\ WF_allVars(InMonitor(Leave))

\* The types of all three.
DriverTypeOK == TypeOK /\ DevTypeOK /\ MonTypeOK

AllSpec ==
    /\ (DriverInit /\ MonitorRests) \/ (DriverRests /\ MonInit)
    /\ [][InDriver(DriverNext) \/ InMonitor(MonNext)]_allVars
    /\ Fairness

=============================================================================
