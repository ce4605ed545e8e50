SPECIFICATION Spec
CONSTANTS
    Keys <- MCKeys
    Values = {a, b}
    Nodes = {n1, n2, n3, n4}
    CacheCapacity = 3
    MinCapacity = 4
    Hash <- MCHash
SYMMETRY NodeAndValueSymmetry
INVARIANTS IndexIsInStep HoldsTheMostRecent ProbingEnds ChurnDoesNotGrow
