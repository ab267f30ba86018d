SPECIFICATION FairSpec
CONSTANTS
    Runs = {r1, r2}
    MaxStops = 2
    None = None
CHECK_DEADLOCK FALSE
INVARIANT TypeOK
INVARIANT WorkerOwnsCall
INVARIANT ResultIsOwn
INVARIANT OneTurnAtATime
INVARIANT ProcessIsCurrent
PROPERTY IsWorkerRuntime
PROPERTY EveryCallEnds
