SPECIFICATION Spec
CONSTANTS
    Nobody = Nobody
    Clients = {c1, c2}
    Workers = {w1, w2}
    Fds = {3, 4}
    MaxQueries = 3
    MaxPending = 1
    MaxStops = 0
    StopBeforeRun = FALSE
    PeersMayStall = TRUE
SYMMETRY WorkerAndClientSymmetry
INVARIANTS OneTaskPerConnection DescriptorsAreOurs RepliesInOrder
