SPECIFICATION Spec
CONSTANTS
    Nobody = Nobody
    Clients = {c1}
    Workers = {w1}
    Fds = {3}
    MaxQueries = 2
    MaxPending = 2
    MaxStops = 0
    StopBeforeRun = FALSE
    PeersMayStall = TRUE
INVARIANTS NothingFollowsATruncatedReply
