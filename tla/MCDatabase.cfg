SPECIFICATION Spec
CONSTANTS
    Threads = {t1, t2, t3}
    Names <- MCNames
    Objects = {o1, o2, o3}
    None = None
    MinCapacity = 4
    Hash <- MCHash
SYMMETRY DatabaseSymmetry
INVARIANTS CountsAreExact LivesAsLongAsItsHandles
PROPERTIES NamesChangeByTheirCalls
