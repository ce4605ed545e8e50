SPECIFICATION FairSpec
CONSTANTS
    Nobody = Nobody
    Clients = {c1, c2}
    Workers = {w1}
    Fds = {3}
    MaxQueries = 2
    MaxPending = 2
    MaxStops = 1
    StopBeforeRun = FALSE
    PeersMayStall = FALSE
PROPERTIES AcceptedIsAnswered DroppedIsClosed StopIsHonoured
