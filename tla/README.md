# A formal model of smp.vxd

smp.vxd is a driver that gives Windows 98, which knows one processor, the use
of the others. Windows goes on running on the bootstrap processor (BSP). The
driver starts the application processors (APs) on a small kernel of its own and
moves single threads of a program to them and back: a thread calls `fly()`, or
is in autorun mode and is moved at a thread switch; it computes on an AP; it
calls `land()`, or does something only Windows can do, and is moved back.

This directory holds TLA+ modules translated from the source, the TLC
configurations that check them on small instances and proofs, checked by
TLAPS, that hold for every instance.

## 1 Inventory

| component | source | state | operations | hard because |
|---|---|---|---|---|
| Migration | `taskswitch.c`, `smp_proc.c` | `ttable[].data` (status, thread id, contexts), `ts_thread` records, `gdata.ap_free_cnt`, `act_tid` | `switch_to_ap`, `switch_to_bsp`, `thread_switch`, int3 and page fault callbacks, `smp_elevate`, `smp_ap_main` | all processors at once on one status word; the counter is not locked |
| AP kernel | `apkernel.asm` | AP registers, TLB, GDT, TSS, `init_state` | boot entry, `_switchtask`, `switch_back`, exception stubs, `fly`, `land`, `reattach`, `thread_data` | saves and restores contexts on the AP while the BSP may destroy the thread |
| Thread records | `taskswitch.c`, `smp.c` | `ts_ht`, 4 chains or more of `ts_thread` pages | create, destroy, get | APs read the chains while the BSP changes them |
| AP boot and wake-up | `smp_init.c`, `apboot.asm` | MP tables, `ttable`, local APIC, the boot lock | parse tables, INIT/STARTUP, NMI | two processors and an APIC, bounded waits |
| Device control | `smp.c` | `smp_init_succ`, `smp_valid`, hooks, CPU features, CR4 | VxD messages, DeviceIoControl | what is reported is decided in many places, and `Device_Init` can end in many ways |
| Clock and usage | `vxd_timer.c`, `smp.c` | TSC clocks, usage bit histories | `monitor_proc`, `tsc_*` | 64-bit arithmetic in 32-bit halves; status read without the lock |
| FPU state | `taskswitch.c`, `cpuid.c` | `fpu_state`, `dirty`, CR0.TS, XCR0 | save, restore | lazy FPU of Windows, extra AVX state |
| Page directories | `paging.c` | one PD per AP | `copy_pd` | a copy that ages |
| User library | `smp9x.c` | thread list, idle lock, the handle of the driver | idle procedure, `CreateThread`, `ExitThread`, ... | runs in ring 3 on any processor |
| libsmp | `libsmp/` | critical sections | try-enter, thunks | operating system structures changed from an AP |
| Export generator | `libsmp/generator.c` | the parser's buffers, lists of functions | `parse_list`, the two output files | what it gets wrong shows in programs linked with its output |
| CPU monitor | `mcpuinfo/` | statistics, icons, two threads | fetch, draw, close | the threads share a library handle, a flag and statistics without a lock |
| Fatal error screen, debug output | `vxd_terror.c`, `vxd_debug.c` | text | print | output only |
| Thunks and headers | `vxd_lib.c`, `vmm.h`, `vpicd.h` | none | call Windows | nothing to check |
| Tests | `tests/` | none | compute | users of the library |

How they meet: the program (through smp9x) calls DeviceIoControl to elevate a
thread and `int3` to ask for a move; the VMM of Windows calls the driver at
thread switches, thread creation and destruction, int3 and page faults; the BSP
and the APs share `ttable[].data` and `gdata`; the idle lock lies in the
program's memory and is written by both sides in ring 0 and polled in ring 3.

What has to be right: no thread runs twice, none is lost, no context is copied
from a stale place, a destroyed thread takes its AP with it only until the AP
has noticed, the BSP never waits for ever with its scheduler stopped, and the
free APs stay known. The hazards are listed with their lines in `PROJECT.json`.
By component, what makes it correct:

- Migration, AP kernel: the status word is a lock; records and slots agree; a
  thread executes once; its steps are neither lost nor repeated (`Handoff`);
  every handler ends and every landed thread returns; the free APs are counted.
- Thread records: each record is once in the chain of its bucket, nothing freed
  is linked, a lookup finds what is there.
- Boot: an AP boots with its own variables from intact memory; memory is given
  back; all APs are up and counted when it returns, and it returns.
- Device control: what a program is told of (SSE, AVX, processors, `fly()`) is
  enabled, saved, started and handled.
- Clock and usage: a delay is not shorter than asked; the clock follows the
  processor's; usage is the share of the samples.
- FPU state: a thread finds the state it left, on whatever processor.
- AP kernel, page directories: an exception loses and repeats no instruction;
  an AP uses no translation from before its thread was loaded.
- User library: a thread's record is its own from creation to end, and the ids
  it hands out are those of the threads it started.
- libsmp: the critical section has one owner, whatever is an AP and what the BSP.
- Generator: what the format says is what is exported.
- CPU monitor: no icon and no library is used when it is gone; the program ends.

## 2 Plan

The order in which the modules were written, all of it done:

1. Core: `Migration`, its promise `Handoff`, proofs of the invariants and of the
   refinement.
2. Around it: `ThreadTable` (the hash chains against the AP's walk without a
   lock) and `Boot` (MP table, INIT/STARTUP, the shared boot memory), with proofs.
3. What a thread takes along: `Fpu` and `Trap`, and `Clock`, which decides when
   an AP sleeps and how busy it is; proofs about them.
4. What programs see: `Device` (which contains `Boot`), `ThreadList`, `CritSect`
   with its promise `Mutex`, `Generator`, `CpuMonitor`; proofs about them.

`Migration` composes with the others through what they promise. `Device` extends
`Boot`: the boot is the step `smp_init` of `Device_Init`, and `DriverBoots` proves
that it is still the boot of `Boot`. `Boot` ends in the state `Migration` starts
from (`BootComplete`: status words released, the count of free APs right).
`Migration` gives `ThreadTable` what its guards say (`Ownership`: a thread is
destroyed or looked up, not both, since both happen under the lock of its AP),
and `Fpu` and `Trap` the order of load, execution and return of a thread, in
which the two then say what happens to registers and memory.

## 3 Modules

| module | what it is |
|---|---|
| `Handoff` | abstract: a thread has one home and one context, moving changes the home only |
| `Migration` | detailed: status word, contexts, records, handlers, AP loop; properties and fairness at its end |
| `ThreadTable` | `ts_ht`: create and destroy on the BSP, get on the APs, each pointer read or written in a step |
| `Boot` | `smp_init`, `smp_init_bsp`, `apboot.asm`, `_kernel_boot` |
| `Device` | `Device_Init` with `Boot` inside, DeviceIoControl, and how smp9x asks |
| `Fpu` | which thread's FPU, SSE and AVX state is in which registers and areas |
| `Trap` | exceptions on an AP, EFLAGS, page directories and TLB, `thread_data` |
| `Clock` | `tsc_*`, delays, `monitor_proc`, `ap_usage`, when an AP sleeps |
| `CritSect`, `Mutex` | a critical section with `TryEnterCrst`; abstract: a reentrant mutex |
| `ThreadList` | the records smp9x keeps of threads it creates |
| `Generator` | `generator.c`: the parser of the export lists and the files it writes |
| `CpuMonitor` | the two threads of `mcpuinfo` |
| `MCMigration`, `MCThreadTable`, `MCDriver`, `MCContext`, `MCLibsmp` | values of the constants for TLC |
| `MigrationProof`, `HandoffProof`, `ThreadTableProof`, `DriverProof`, `ContextProof`, `ClockProof`, `LibsmpProof`, `GeneratorProof` | the theorems, section 6 |

An operator whose comment starts with "Mutant of" is not part of a model: it is
the named definition with a plausible bug, and TLC finds a property violated
when it takes the place of the definition.

### Migration: how it corresponds to the code

The BSP executes one instruction stream. In ring 3 (`bpc = "ring3"`) the current
thread `act_tid` takes a step, or Windows enters the driver: `Int3Fly`,
`Int3Reattach` (the int3 hook), `ThreadSwitch`, `ThreadSwitchAutorun` (the
thread switch callback), `CreateThread`, `DestroyThread`, `DestroyMigrated`
(Thread_Init and Destroy_Thread), `Elevate` (DeviceIoControl), `PageFault`. A
handler that needs a lock then takes steps of its own until it returns:

    lock -> body -> [wake] -> [inc] -> unlock -> [decload -> dec] -> ring3

that is, the exchange that takes the lock, the code under the lock, the NMI, the
store of the increment, the exchange that releases, the load and the store of
the decrement. Each AP goes round `main -> switch -> [inc] -> unlock`, and from
there to `hlt -> halted`, to `switchtask -> user`, or back to `main`.

| TLA+ | code |
|---|---|
| `status[a]` | `ttable[a].data->status` |
| `slot[a]` | `tdata.thread_id`, `tdata.thread_ptr` |
| `pctx[a]` | `tdata.proc_state` and `tdata.fpu_state` |
| `rctx[a]` | the registers of AP a; `InitState` in its own loop |
| `bctx[t]` | the client registers of t on the BSP; `Trampoline` while it idles there |
| `where[t]` | the client EIP of t: user code, between `_fly`'s tests and its int3, the idle loop, `reattach` |
| `bs`, `aps[a]` | the local `s` of the lock holder |
| `idleLock[t]` | `*smp_bsp_idle_lock` |

Abstractions and assumptions:

- A context is one value; a computing thread replaces it by another.
- `gdata.bsp_thread` is the record of `act_tid`, so it is not a variable; the
  idle procedure is set exactly when the mode is not system (the library passes
  both), so it is `IdleProc`.
- Thread_Init and Destroy_Thread come for a thread that is not current, as the
  VMM sends them. A ring-0 handler is not preempted by another thread of the BSP.
- The flag BLOCKED and the range of EIP (`taskswitch.c:148,156`) are left to
  chance: when they forbid the move, `ThreadSwitch` is the step. So is
  the time an AP idles before it sleeps (`tsc_ring`).
- `ttable` is scanned in ascending order over the entries with data, `NextAp`.
- `++` and `--` on `ap_free_cnt` are a load and a store. The load is merged into
  the step before it where that step writes nothing the load could see.
- `ap_free_cnt` is 32 bits wide; `Word` is its modulus, small in the runs.
- A local that is dead is reset so that states do not differ in it.
- Contents of page directories, exceptions and flags are in `Trap`, the FPU
  ownership of Windows in `Fpu`.

### Handoff

`home[t]` is the BSP, an AP or nowhere, `ctx[t]` the only context of t, `tainted`
the APs with a destroyed thread. Loading the AP is `Fly`, the last write of
`switch_to_bsp` under the lock is `Land`, the release with S_DIRCARD is
`Destroy`, and the AP's move from S_DIRCARD to S_READY is `Clear`. The mapping is at
the end of `Migration`: the context of a thread that is away is in the AP's
registers while the AP executes it and in `pctx` otherwise.

### ThreadTable

A cell is a bucket or a page's `next`: what `tindex` points at in create and
destroy. The BSP's local variables are `bop`, `bpc`, `barg`, `bpage` (`ts`,
`garbage`) and `tindex`; an AP has `look` and `cur`. A page that is
freed either keeps its contents, and is zeroed when it is allocated again, or is
unmapped at once: an AP whose walk stands on it reads what is there, or faults in
its own kernel and is lost (`Fault`). One turn of the AP's loop reads `tid` and `next`
of one record; on the linked records neither can change in between except `next`,
and then either order is a behaviour of two turns. Bucket numbers and
`% 113` are the constant `Hash`. `DestroyStart` and `Get` exclude each other for
one thread, by the lock of its AP.

### Boot

The memory at 0x8000 is a record: whose code, whose variables, which jump. The
BSP's `k` is the entry of the MP table, `i` the id being started. The APs step
through `apboot.asm`: registers from the variables in real mode, the kernel's
address into the far jump, GDT and IDT from the variables after paging, jump,
`_kernel_boot`, unlock, and then round `smp_ap_main` until they sleep. The contents of
GDT, TSS and stack are only told apart by whose they are. INIT resets any
processor; STARTUP starts one that was reset and is ignored by one that runs; the
first of the two may be lost. The search for the MP floating pointer, wrong
signatures and the failure to allocate the kernel page are in `Device`. A machine
without other processors is the table without usable APs.

### Device

`machine` is what `Device_Init` can find (CPUID, version of Windows, MP pointers,
memory) and `ini` what system.ini says. `dpc` goes through `Device_Init`: settings,
CPUID, the needs, `smp` (while the steps are those of `Boot`), report. Each early
return is an action that leaves the variables as they are by then: hooks are
installed, or `kernel_flat` is set, before a later step fails. `lib` is the
library in one process: whether it has a handle, what it was told. `Cpuid(m, cr)` is
leaf 1 as it reads with a given CR4: on some processors AVX shows only once
XSAVE is enabled. `IsProcessorFeaturePresent`, `CurrentProcessorNumber`, `Mask`,
`Cpus` and `Stats` are the functions of smp9x and of the calls they make.
`XsetbvFaults` is what `enable_simd` does on a processor with XSAVE and no AVX.

### Fpu

A register state is a function from the parts (x87, SSE, AVX) to values
`<<thread, version>>`; the version tells states of one thread apart. `FpuSaveMethod`
is the choice of instruction: which parts `fpu_save` and `fpu_restore` move.
Windows is external: it moves its own parts (all but AVX, on Windows 95 x87 only),
at a switch or, where `sys.lazy`, at the first use, which `DeviceNotAvailable` is.
`ThreadSwitch` has the callback and Windows's half in one step: the callback
saves the registers of the thread that leaves before Windows loads those of the
next. `Create` zeroes the record's page, which is why `dirty` exists.

### Trap

A program is a sequence of instructions, so that it can be said that each is
executed once; `Use(p)` touches a page, `Trap(v)` raises exception v on an AP.
`SavedEip` says what `switch_back` finds on the stack when an exception enters a
given stub (`Isr`), with or without an error code; a debug exception comes before the
instruction or behind it (`Behind`). INTO enters as 13 does, since its gate is one of
ring 0, and the vectors of the dummy routine change nothing, so neither is a step. EFLAGS has a bit of the
program and one of the system (`eflags_mask`). `pd[c]` is the copy that `copy_pd` makes:
it shares page tables with Windows (`pte` is read through it) but not the entries
Windows adds later (`pde`). `tlb[c]` is flushed in `EnterUser` only. If the page
with the idle lock is gone when the AP writes it, the exception is one of the
kernel (`KernelFault`), and the AP is lost; nothing in the code prevents it.

### Clock

`Word` is 2^32, `Kilo` 1000; products are computed in a word, halves compared one
by one. The shift register of a processor's usage history is a number modulo a power of
two (`Pow2`). `tsc_div` faults where the quotient does not fit a word. Time is the
action that advances `tsc`; the timer comes every `Period` or as late as Windows
says.

### CritSect, ThreadList

`TryEnterCrst` is modelled instruction by instruction where another processor can
come between: `cas` and `store` are the two halves of a cmpxchg without a lock
prefix. The BSP switches threads between instructions only. Calls of kernel32 are
external and one step each, since Windows does not let two threads into it here; on an AP they trap, so
the thread goes on on the BSP. Threads in `Autorun` move at any switch.

In `ThreadList` a record is a piece of heap; the list changes only inside `cs`, so each change is
one step; `Unlink` takes a record out of it. A thread can end before its creator has returned from CreateThread: its record
is then free, or already that of another creator, when its own creator stores the
handle there and reads the id. Two histories say where that shows: `late` has the creators whose last
call came back with the id of a thread that had ended, `spoiled` the records that
hold the handle of one. `IdsAreOwn` is about all others, while these things happen:
a creator that is late gives no other a wrong id, and the list answers rightly as soon as no
spoiled record is in the heap. Allocation, memset and linking are one step, as the
first two touch only a piece of heap that nobody else has; where HeapAlloc fails, the
memset of NULL ends the program.

### Generator, CpuMonitor

A word of a list is one symbol; the parser's states, buffers and lists are the
code's. The format, for comparison, is defined without a parser: by positions in the
text from which the carriage returns are taken (`Clean`), by the line that ends at one
and the words that start in it (`Listed`).

In `CpuMonitor` the statistics, the library handle `dll` and the flag `run` are
shared by the fetching thread and the window without a lock. `update_stats` reads one
processor in a step (`ReadUnit`), so the fetcher may write between its reads; `seen`
records what each of them found. `DWord` is 2^32: the sum wraps around, and
`counterIcon` takes the upper half of the words for less than 0. For the BSP the
driver answers 0xFFFFFFFF with success where Windows does not tell the usage (`NoUsage`,
`smp.c:368-380`). It is the same number as the -1 of `last_sum` (`NoSum`): an update whose
sum is that word, when none was drawn before, draws nothing. `IconIsMean` says which
number the icon shows, of exactly the processors the last update found known; it leaves
out an icon that says nothing, as after such an update, and one drawn when fewer
processors were known, which stays if the new one's usage is 0 and so the sum the same.

## 4 Runs

| run | instance | properties |
|---|---|---|
| `migration_exact` | 2 threads, 2 APs, autorun, nobody destroyed | `LockExclusion`, `ExclusiveExecution`, `ReattachFindsCargo`, `FreeCountExact` |
| `migration_destroy` | 2 threads, 1 AP, 2 contexts, all modes, one destroyed and created again | `Ownership`, `IInv`, `FollowsStates`, `ImplementsHandoff` |
| `migration_return` | 1 thread, 2 APs, autorun, destroyed and created again, fairness | `HandlerReturns`, `LandedReturns`, `DiscardedRecovers` |
| `table` | 5 threads in buckets of 2 and 3, those of the latter destroyed, 4 pages, 1 AP | `TableInv`, `LookupFinds` |
| `driver` | ids 0 to 3, BSP 1, 4 tables, 3 limits, 19 machines, all settings; the monitor with 2 processors, 3 icons and words of 8 bits; fairness | `DriverTypeOK`, `TrampolineIntact`, `BootsAsItself`, `BootComplete`, `ReportedIsUsable`, `FlyHandled`, `NumbersAgree`, `MonitorSound`, `BootReturns`, `CloseEnds` |
| `context` | 3 threads of which 2 have records, 1 AP, 5 systems; 2 programs, 2 pages, 2 frames; 5 clocks with words of 4 bits | `ContextTypeOK`, `OwnState`, `ExecutedOnce`, `FlagsMerged`, `TranslatesSinceLoad`, `ThreadDataIsOwn`, `DelayLongEnough`, `ClockTracks`, `UsageIsShare`, `SleepsWhenIdle` |
| `libsmp` | a section with 3 threads, entered twice at most; 2 creators, 2 threads, 2 records; lists of up to 9 symbols | `LibsmpTypeOK`, `FieldsAgree`, `RecordsSound`, `IdsAreOwn`, `ParsesFormat`, `ExportsSound`, `ImplementsMutex` |
| `lost_wakeup` | 1 thread, 1 AP, fairness | `LoadedRuns` is violated |
| `lost_count` | 2 threads, 2 APs, one destroyed | `FlyFindsFreeAp` is violated |
| `table_miss` | as `table` | `IdleProcNotified` is violated |
| `try_enter` | as `libsmp`, the threads that try are moved automatically | `MutualExclusion` is violated |
| `sse_reported` | as `driver` | `SseReportedIsEnabled` is violated |

`MCDriver`, `MCContext` and `MCLibsmp` hold parts that share no variable. Their
specification lets one part go on in a behaviour while the others rest in an
initial state: as no step of one can change a variable of another, all reachable
states of each part are reached, and nothing is gained by interleaving them.
Some properties are conjunctions of what belongs together: `BootComplete` of
`MemoryRestored`, `AllUp` and `Counted`; `MonitorSound` of `AsksWhileLoaded`,
`IconAlive` and `IconIsMean`; `OwnState` includes `NoZeroState`; `RecordsSound` is
`ListSound` and `ChildReadsOwn`; `ExportsSound` is `HooksDefined` and `StubsPopArgs`;
`DriverTypeOK`, `ContextTypeOK`, `LibsmpTypeOK` are the type invariants of the parts.

Bounds, and why they are enough:

- Migration. APs with ids 1 and 3 leave a hole in `ttable`; two threads compete
  for one AP, or one destroyed thread for two. One thread has no idle lock, the other has.
  `Word` is the modulus of `ap_free_cnt`; it is at least one more than the number
  of APs. Two threads with two APs and destruction is too large for TLC; the proofs
  cover it.
- Table. Three records in a bucket give a first, a middle and a last one to
  remove, and one page more than the chain holds gives one to reuse. Pages are
  symmetric.
- Driver. The tables have a hole, an unusable processor, the BSP in the middle of
  the ids, ids out of order and no AP at all; the limits stop before, at and after
  their length. The machines have each way `Device_Init` can end and each group of
  CPU features, on both kinds of Windows. The monitor has the usages 100 and
  "not told"; with the 0 of the start and words modulo 256 the sums are 0, 99, 100, 200
  and 255, so that one wraps around, one looks like "none yet" and one mean like
  less than 0.
- Context. Two states of a thread are enough to tell the one it left from an older
  one; with two frames for four pages of two processes a frame is taken from
  one and given to the other. On the system with a lazy Windows one state, and the
  thread without a record does not compute (`OnlySaved`). A word of 4 bits and
  ticks up to `MaxTsc` = 23 carry into the high half during delays, sleep and the
  timer's period.
- Libsmp. `MaxDepth` = 2 enters a section twice; two records and two creators
  let one reuse what another freed. `MaxText` = 9 is a library, a function with flags and
  one more line; lists of more than 6 symbols start with a library
  (`LongListsNamed`). Creators, children and records are symmetric.

`CHECK_DEADLOCK FALSE` is in the last three because a boot ends, a program
ends, and a bounded clock or list is full.

`FreeCountExact` is checked where nobody is destroyed, and `FreeCountCorrect` proves
it there for every instance. With destruction it is
false: `lost_count` shows the lost increment. So in the run of `FreeCountExact` only the
BSP changes the counter, and what it says is that the handlers count each AP once; the race of
two processors is what `FlyFindsFreeAp` is about.

`DelayLongEnough` promises the length asked for only if the products fit a word, and the
ticks computed otherwise: the overflow is in the model, and no property demands that it does
not happen. `FieldsAgree` and `ImplementsMutex` hold for threads that the program moves by
itself: there the write-back and the late store of the owner are what could go wrong, while
the missing lock prefix shows in `MutualExclusion`.

The violation runs are disagreements of the code with its own words:

- **lost_wakeup** (`smp_proc.c:153-158`). `switch_to_ap` sends the NMI before it
  releases the lock, "to prevent deadlock". But the AP releases *its* lock with
  S_SLEEP before `sti; hlt`. If the BSP takes the lock between the two, the NMI
  comes too early and the AP halts in S_LOADED.
- **lost_count** (`smp_proc.c:149`, `taskswitch.c:470,519`). Two processors change
  `ap_free_cnt` at once; `fly()` then takes a free AP for none.
- **table_miss** (`smp_proc.c:131`). The AP of a landed thread must notify its idle
  procedure, but finds the thread by a walk without a lock. If the BSP destroys a
  thread of the same bucket and the page is used again, the walk ends in the
  zeroed record: the AP goes to S_CARGO with the idle lock set. In `migration_return`
  threads of other records are not destroyed, so `LandedReturns` holds.
- **try_enter** (`tryentercriticalsection.c`). The cmpxchg without lock prefix is
  enough as long as all who try execute on one processor at a time. A thread that is moved
  automatically may be on an AP between its halves.
- **sse_reported** (`smp.c:435`). With nosse on Windows 95 the driver does not
  enable SSE and still reports it from CPUID.

What the code says of S_DIRCARD, that the process is done, is not checked: the
thread may still be executing on the AP until the AP sees the word. What matters
of it is in `Ownership` and `DiscardedRecovers`.

## 5 Fairness

`Fairness` in `Migration`. Processors go on (weak fairness of the AP's own loop,
not of the moment at which a thread lands, and of the BSP's handler). A
processor that retries a locked exchange gets the word at some time if it is
free again and again (strong fairness of `ApLock` and `BspLock`): this is what
the hardware's bus arbitration gives, and the code relies on it, for it has no
back-off. Windows schedules every thread again and again, for long enough to
poll the idle lock and to execute the int3 (strong fairness of
`Scheduled`, `IdlePoll`, `Int3Reattach`). Nothing makes a thread land.

`Fairness` in `MCDriver`. The BSP goes on in `smp_init` and each AP in its boot code
(weak fairness), and an AP that idles goes to sleep (strong fairness of `MainSleeps`:
the TSC runs on, and `last_active` does not). That the second STARTUP arrives when the first
did not is not fairness but an assumption on the APIC, in `SendStartup2`. In the monitor
Windows schedules the fetching thread and the wait for its end; nothing makes the
user close the window.

## 6 Proofs

All theorems are for every value of the constants that the named ASSUMEs allow.

`MigrationProof`, `HandoffProof`. `IInv` is `TypeOK`,
`LockExclusion` and `Ownership` strengthened by what the holders of locks know:
`HandlerInv` (a handler in `switch_to_ap` has a thread on the BSP, one in
`switch_to_bsp` or destroy has one on the AP whose lock it takes), `HolderInv` (the
local `s`), `ExecuteInv` (an AP executes in S_RUNNING or S_DIRCARD only), `WhereInv`
(the BSP side is in the idle loop exactly while the thread is away), `IdleInv` (the
idle lock reads 0 only when the thread has landed) and `ContextInv`. `Ownership`
alone is not inductive: that the slot of an AP names the thread a handler is
about to unload follows from `HandlerInv`, and that `ApSwitchBack` saves into the
right slot from `ExecuteInv`. The state of an AP is `Logical(a)`: the word, or,
while it reads S_BUSY, the `s` of the holder, and `LockExclusion` says whose. Each
part is proved to be preserved by the APs' steps, the threads' steps, the thread
switch and the handlers, and `InductiveInvariant` puts them together.
`LockIsExclusive`, `ThreadIsOwned`, `ThreadExecutesOnce`, `ReattachInTime` follow
from it, `StatesFollowed` and `MigrationImplementsHandoff` are proved step by step
from it. `HomesExclusive` is about `Handoff`, and so holds in what implements it.

`FreeCountCorrect` is `FreeCountExact` for every instance, under the hypothesis that
no step is `DestroyMigrated`. `FreeCountExact` corrects the number of free APs by the update a BSP handler is in the
middle of; `CountInv` adds that no AP is about to give itself back, so that only the BSP
changes the counter and what it loaded is still there when it stores. The hypothesis is
on the steps and not on the constants, since to destroy a thread that is not away does no harm;
`lost_count` shows that it is needed.

`ThreadTableProof`. `TableInv` is not inductive: that create finds an existing
record before it reaches the end of the chain needs to know that the record lies
ahead of it. `Strong` adds a numbering `pos` of the cells that goes up along the
links (`Ordered`), a search of the BSP below its record (`Searching`) and, where no
other thread of the bucket is destroyed (`Undisturbed`), the walks of the APs
below theirs (`Walking`). Linking a record extends the numbering, everything else
keeps it. `TableCorrect` and `LookupSucceeds` follow; that `Undisturbed` is needed
is what `table_miss` shows.

`DriverProof`, boot. `BootInv` says how far an AP is by its id: those below `i` are up,
those above are parked, so at most one is in the boot code, and its status is
busy until it leaves (`OrderInv`). `CountInv` counts `ttable` with the library's
theorems on cardinality; `ParseInv` is why no AP is entered twice, `PhaseInv` what
the low memory holds, `LoadedInv` what a processor has loaded from it.

`DriverProof`, device. `DriverBoots`: the driver's own steps leave the variables of `Boot`
alone, so `BootInv` holds in the driver. `DevInv` adds what each place in
`Device_Init` has done so far (`InitInv`), the numbering of the processors
(`IndexInv`), what is enabled when it is recorded (`EnabledInv`) and what the library
was told (`LibInv`). `ReportsAreUsable`, `FlyIsHandled` and `NumbersCorrect` follow.

`DriverProof`, monitor. `MonitorSound` does not say why the fetching thread may use the
library when it asks. `MonInv` adds what each place of the two threads implies for the
other's (`ThreadsInv`: the fetching thread is in a round only where the library is
loaded, and has ended when the window has), that the icons alive are the last one
loaded and the one before it (`IconsInv`) and that the digits drawn are of the last sum and of the processors known then (`DigitsInv`).
`SumInv` says what an update that is under way has added up: the sum in a word, and
the number, of the known ones among the processors it has read. The lemmas it rests on say
what one more reading does to both, for any number of processors, and what the remainder
modulo a word keeps. Neither theorem restricts the answers: every word may be
a usage, and 0xFFFFFFFF is one of them.

`ContextProof`. `FpuInv` says where the state of a thread is at each moment
(`StateInv`): in the registers of its processor, or, for the driver's parts, in its
record, which is then not `dirty`, or, for Windows's parts, with Windows; that a thread
on an AP has the AP for itself (`AwayInv`); and that what can be loaded has been
saved (`SavedInv`). `OwnState` alone says nothing of a thread that does not execute. `TrapInv`
relates the TLB and the page tables to what a page was since the load, and
`thread_ptr` to the thread on the AP; `MemInv` says which frames tables and TLBs can
name, which the type invariant of `Trap` needs. `ExecInv` is on top of it: the context
of a thread, wherever it is, is behind the last instruction it executed and has the
parity of the plain ones among them, and the bits of the system that Windows gave it are
in its client registers or in `proc_state` (`Follows`), also while the AP executes with
its own, which `FlagsMerged` does not say. One lemma per kind of step (`BspExec`, `CpuExec`,
`SwitchBackExec`, `LoadExec`, `UnloadExec`, `LoopExec`, `KernelFaultExec`) keeps it; that
`_error_isr_code` drops a word exactly where the processor pushes one is `SavedEipIsOwn`.

`ClockProof`. The products of `Clock` multiply variables, where SMT has nothing to
offer; lemmas on quotients and remainders (`DivMod` and what follows from it) and on
shifting a register modulo a power of two do that part once, and the steps cite them.
`ClockInv` is what a wait has measured (`WaitInv`), what the history of a processor
holds of the samples taken (`SampleInv`), and that nothing is sampled before the timer
runs (`BeforeInv`). `DelaysSuffice`, `SleepsCorrectly` and
`UsageCorrect` follow. `ClockTracksTsc` has the hypothesis `Fits`, that the quotient
fits a word when the timer is as late as it may be: beyond it `tsc_div` is a division
that faults, and there is no clock to speak of.

`LibsmpProof`, section. The theorems have the hypothesis `ManualTries`: no thread that
tries a section is moved automatically. `FieldsAgree` is not inductive: it does
not say that what a thread read in `cas` is still there when it executes `store`.
`CasInv` does, and it holds because a thread that tries is on the BSP then
(`PlaceInv`), where nobody else executes between the two halves; `HeldInv` relates
the fields to the threads that are in or on their way in. `SectionIsMutex` is the
refinement, with `depth` for `depth`. `try_enter` shows that the hypothesis is needed.

`LibsmpProof`, thread list. `ListInv` adds to `RecordsSound` where the record of each
creator and of each child is while they go through their code (`MakerInv`, `ChildInv`,
`GotInv`), that a record is its creator's own until the thread it is for ends (`Holds`),
and that creator and list know a thread by the same record, id and handle but for
the creators in `late` and the records in `spoiled` (`OwnInv`). The list is a sequence without repetition; what appending
to it and `Unlink` do to its elements is in two lemmas.

`GeneratorProof`. `GenInv` says what the parser has done of the text before its position:
the list holds what the complete lines say (`Done`), and the buffers are the part of
the line being read that precedes it (`Current`, `InLine`), for each of the parser's states.
The lemmas say what a blank, a word, the first symbol of a line and the end of one do to
both sides. Once the output is written `Done` is `ParsesFormat`; `ExportsCorrect` follows
from what is written of each entry of the list.

`MCDriver`, `MCContext` and `MCLibsmp` hold parts that rest while another goes on, so a
behaviour of the whole is a behaviour of each part (lemmas `PartsOf...`), and the
theorems about the parts give those about the whole: `DriverTypeCorrect`,
`ContextTypeCorrect` and `LibsmpTypeCorrect`; the last has the hypothesis of the section.

Where a recursive function or an unbounded text needs induction, the proofs use the
least counterexample: a set of naturals that is not empty has a least element
(`NaturalsInduction` and `WellFoundedInduction` of the library, in the form that speaks
of sets). That such a function exists at all, which TLA+'s CHOOSE leaves open, is proved for each.

Assumed: the named ASSUMEs on the constants: threads, APs, contexts, records and
null values are told apart; finitely many APs, at least one, and a counter that can hold
their number (`Migration`); an MP table names an AP once (`Boot`); AVX comes with SSE and
XSAVE, and later extensions with SSE (`Device`); words, periods and frequencies are
positive, the default timeout fits a word, and a history has at most 100 samples (`Clock`);
the monitor has at least one processor and usages that are words (`CpuMonitor`);
a word of a list is neither a blank nor the end of a line (`Generator`).

Model-checked only: the liveness properties (`HandlerReturns`, `LandedReturns`,
`DiscardedRecovers`, `BootReturns`, `CloseEnds`), which need fairness and ENABLED and are
out of the prover's reach.

## 7 Not modelled

- Fatal error screen and debug output (`vxd_terror.c`, `vxd_debug.c`): text, no state
  the rest depends on.
- Thunks and headers of Windows (`vxd_lib.c`, `vmm.h`, `vpicd.h`): each function
  forwards to a service; the headers are the vendor's.
- The test programs: users of the library.
- Of components modelled in part: allocation failures in `smp_init` other than that of
  the kernel page, which the code does not test for either; the debug timer and
  the reading of the BSP's usage from Windows, of which only the answers are there; the helpers of `paging.c` that compute an
  entry; wrappers of smp9x that only call `land()` and forward; of `mcpuinfo` the
  identification of the processor, the layout, and the parsing of Windows's performance data.
- What Windows does when it switches threads lazily and moves one of them in
  between is not in the repository: `Fpu` models such a Windows, but `OwnState`
  is then about the driver's own parts only.
