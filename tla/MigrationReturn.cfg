SPECIFICATION FairSpec
CONSTANTS
    t1 = t1
    t2 = t2
    c1 = c1
    c2 = c2
    NoThread = NoThread
    NoAp = NoAp
    Trampoline = Trampoline
    InitState = InitState
    Thread <- OneThread
    Ap <- TwoAps
    Context <- OneContext
    Computes <- Nothing
    Mortal <- OnlyT1
    Locked <- OnlyT1
    Modes <- Autorun
    Word = 3
PROPERTIES HandlerReturns LandedReturns DiscardedRecovers
