SPECIFICATION Spec
CONSTANTS
    t1 = t1
    t2 = t2
    ds1 = ds1
    ds2 = ds2
    b1 = b1
    b2 = b2
    b3 = b3
    b4 = b4
    b5 = b5
    Null = Null
    NoThread = NoThread
    Threads <- TwoThreads
    Datasets <- TwoDatasets
    Owner <- OwnThread
    DatasetOf <- EvenBands
    Blocks = {b1, b2, b3, b4}
    Bands = {1, 2}
    Offs = {1, 2}
    HashSet = {2}
    CacheMaxes = {1, 2}
    NValues = 1
    BlocksToFreeSize = 1
    MaxDirtyCount = 2
    MaxCacheUsed = 0
    Ops = {"readBlock", "dropCache", "suppress", "reopen", "flushBlock", "flushCacheBlock"}
    Failures = {}
INVARIANTS
    OwnerSafe
    CachedBlockFound
    BlocksToFreeInBounds
    CacheBounded
SYMMETRY BlockSymmetry
