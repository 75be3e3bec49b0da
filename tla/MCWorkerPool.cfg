CONSTANTS
    MaxWorkers = 3
    WorkerCounts = {0, 1, 2, 3, 4}
    MaxRows = 5
    RowCounts = {0, 2, 5}
    Generations = {0, 1}
SPECIFICATION FairSpec
INVARIANTS
    PoolInv
    CallerOwnsCanvas
    ThreadsAccounted
PROPERTIES
    DestroyIsQuiet
    ImplementsForkJoin
    CallsReturn
