SPECIFICATION FairSpec
CONSTANTS
    t1 = t1
    t2 = t2
    c1 = c1
    c2 = c2
    NoThread = NoThread
    NoAp = NoAp
    Trampoline = Trampoline
    InitState = InitState
    Thread <- OneThread
    Ap <- OneAp
    Context <- OneContext
    Computes <- Nothing
    Mortal <- Nobody
    Locked <- OnlyT1
    Modes <- Autorun
    Word = 2
PROPERTIES LoadedRuns
