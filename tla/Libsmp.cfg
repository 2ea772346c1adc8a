SPECIFICATION LibsmpSpec
CONSTANTS
    t1 = t1
    t2 = t2
    t3 = t3
    k1 = k1
    k2 = k2
    c1 = c1
    c2 = c2
    r1 = r1
    r2 = r2
    NoThread = NoThread
    NoChild = NoChild
    NoRecord = NoRecord
    Thread <- ThreeThreads
    Tries <- OnlyManual
    Autorun <- OnlyT3
    MaxDepth = 2
    Creator <- Creators
    Child <- Children
    Record <- Records
    Word <- TwoWords
    Args <- WordArgs
    FlagsIn <- WordFlags
    HasDot <- WordDots
    MaxText = 9
SYMMETRY Alike
INVARIANTS
    LibsmpTypeOK
    FieldsAgree
    RecordsSound
    IdsAreOwn
    ParsesFormat
    ExportsSound
PROPERTIES
    ImplementsMutex
CHECK_DEADLOCK FALSE
