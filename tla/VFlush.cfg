SPECIFICATION Spec
CONSTANTS
    t1 = t1
    t2 = t2
    ds1 = ds1
    ds2 = ds2
    b1 = b1
    b2 = b2
    b3 = b3
    b4 = b4
    b5 = b5
    Null = Null
    NoThread = NoThread
    Threads <- TwoThreads
    Datasets <- TwoDatasets
    Owner <- OwnThread
    DatasetOf <- EvenBands
    Blocks = {b1, b2, b3, b4}
    Bands = {1, 2}
    Offs = {1}
    HashSet = {2}
    CacheMaxes = {1}
    NValues = 2
    BlocksToFreeSize = 64
    MaxDirtyCount = 2
    MaxCacheUsed = 0
    Ops = {"writeFull", "flushCache"}
    Failures = {}
INVARIANTS
    FlushedIsOnDisk
SYMMETRY BlockSymmetry
