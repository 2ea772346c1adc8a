SPECIFICATION Spec
CONSTANTS
    t1 = t1
    t2 = t2
    t3 = t3
    t4 = t4
    t5 = t5
    p1 = p1
    p2 = p2
    p3 = p3
    p4 = p4
    b1 = b1
    b2 = b2
    NoThread = NoThread
    Null = Null
    Thread <- Threads
    Page <- Pages
    Bucket <- Buckets
    Hash <- Mod2
    Ap <- OneAp
    Mortal <- OneChain
SYMMETRY SymPages
INVARIANTS
    TableInv
    LookupFinds
