SPECIFICATION QueueFairSpec
CONSTANTS
    Producers = {p1, p2}
    Nodes = {n1, n2, n3, n4}
    Null = Null
    MaxPushes = 3
INVARIANTS PopsInExchangeOrder NodesAreOwned NotReadyMeansUnlinked
PROPERTIES EveryItemArrives
