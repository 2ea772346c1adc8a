SPECIFICATION Spec
CONSTANTS
    t1 = t1
    t2 = t2
    c1 = c1
    c2 = c2
    NoThread = NoThread
    NoAp = NoAp
    Trampoline = Trampoline
    InitState = InitState
    Thread <- TwoThreads
    Ap <- TwoAps
    Context <- OneContext
    Computes <- Nothing
    Mortal <- OnlyT1
    Locked <- OnlyT1
    Modes <- Manual
    Word = 3
INVARIANTS FlyFindsFreeAp
