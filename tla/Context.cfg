SPECIFICATION ContextSpec
CONSTANTS
    t1 = t1
    t2 = t2
    w1 = w1
    NoThread = NoThread
    NoAp = NoAp
    NoCpu = NoCpu
    Thread <- Threads
    Recorded <- Saved
    Ap = {1}
    Systems <- Machines
    Process <- Saved
    Cpu = {1}
    Programs <- TwoPrograms
    Page = {"heap", "stack"}
    LockPage = "stack"
    Frame = {1, 2}
    Word = 16
    Kilo = 2
    Period = 3
    Late = {0, 2}
    Samples = 3
    SleepMs = 3
    DefaultMs = 2
    Delays = {1, 5}
    Core = {a}
    MaxTsc = 23
    Clocks <- SmallClocks
INVARIANTS
    ContextTypeOK
    OwnState
    ExecutedOnce
    FlagsMerged
    TranslatesSinceLoad
    ThreadDataIsOwn
    DelayLongEnough
    ClockTracks
    UsageIsShare
PROPERTIES
    SleepsWhenIdle
CHECK_DEADLOCK FALSE
