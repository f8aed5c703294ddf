SPECIFICATION Spec
CONSTANTS
    t1 = t1
    t2 = t2
    ds1 = ds1
    ds2 = ds2
    b1 = b1
    b2 = b2
    b3 = b3
    b4 = b4
    b5 = b5
    Null = Null
    NoThread = NoThread
    Threads <- OneThread
    Datasets <- TwoDatasets
    Owner <- OneOwner
    DatasetOf <- EvenBands
    Blocks = {b1, b2, b3, b4}
    Bands = {1, 2}
    Offs = {1}
    HashSet = {2}
    CacheMaxes = {1, 2}
    NValues = 2
    BlocksToFreeSize = 64
    MaxDirtyCount = 2
    MaxCacheUsed = 3
    Ops = {"read", "readBlock", "write", "writeFull", "flushCache", "dropCache", "close", "suppress", "flushBlock", "flushCacheBlock", "flushDirtyBlocks", "setCacheMax", "reopen", "disable"}
    Failures = {"Internalize", "AdoptBlock"}
INVARIANTS
    ReadsLastWrite
    FlushedIsOnDisk
    NoDanglingPointer
PROPERTIES
    DisabledFlushKeepsDirty
SYMMETRY BlockSymmetry
