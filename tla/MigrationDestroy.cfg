SPECIFICATION Spec
CONSTANTS
    t1 = t1
    t2 = t2
    c1 = c1
    c2 = c2
    NoThread = NoThread
    NoAp = NoAp
    Trampoline = Trampoline
    InitState = InitState
    Thread <- TwoThreads
    Ap <- OneAp
    Context <- TwoContexts
    Computes <- OneStep
    Mortal <- OnlyT1
    Locked <- OnlyT1
    Modes <- AllModes
    Word = 2
INVARIANTS Ownership IInv
PROPERTIES FollowsStates ImplementsHandoff
