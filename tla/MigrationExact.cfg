SPECIFICATION Spec
CONSTANTS
    t1 = t1
    t2 = t2
    c1 = c1
    c2 = c2
    NoThread = NoThread
    NoAp = NoAp
    Trampoline = Trampoline
    InitState = InitState
    Thread <- TwoThreads
    Ap <- TwoAps
    Context <- OneContext
    Computes <- Nothing
    Mortal <- Nobody
    Locked <- OnlyT1
    Modes <- Autorun
    Word = 8
INVARIANTS LockExclusion ExclusiveExecution ReattachFindsCargo FreeCountExact
