SPECIFICATION FairSpec
CONSTANTS
    Workers = {w1, w2, w3}
    Submitters = {s1, s2}
    MaxTasks = 4
INVARIANTS StartedInOrder NoIdleBehindBacklog GracefulDestruction
PROPERTIES EveryTaskFinishes DestructorReturns
