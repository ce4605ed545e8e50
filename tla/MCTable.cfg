SPECIFICATION Spec
CONSTANTS
    Ids = {1, 2}
    Vals <- MCVals
    Preds <- MCPreds
    Kinds <- AllKinds
    NoRow = NoRow
    Bad = Bad
    Threw = Threw
    Idle = Idle
    Pending = Pending
    CacheCapacity = 1
    Threads = {t1, t2}
INVARIANTS CacheCoherent
PROPERTIES Linearizable
