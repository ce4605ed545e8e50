SPECIFICATION FairSpec
CONSTANTS
    Nobody = Nobody
    Clients = {c1}
    Workers = {w1}
    Fds = {3}
    MaxQueries = 1
    MaxPending = 1
    MaxStops = 1
    StopBeforeRun = TRUE
    PeersMayStall = FALSE
PROPERTIES StopIsHonoured
