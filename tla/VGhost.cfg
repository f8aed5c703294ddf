SPECIFICATION Spec
CONSTANTS
    None = None
    t1 = t1
    t2 = t2
    v = v
    w = w
    f = f
    g = g
    A = A
    p1 = p1
    p2 = p2
    p3 = p3
    p4 = p4
    Threads = {t1, t2}
    TopProxies = {p1, p2, p3, p4}
    Files = {v, w, f, g}
    Kind <- MCKind
    Source <- MCSource
    Ram <- MCRam
    File <- MCFile
    Owner <- MCOwner
    Shared <- MCShared
    Maker <- MCMaker
    MaxSize = 2
    MaxRAMUsage = 1
    MayFail = {f}
    MaxRefs = 5
INVARIANTS
    PoolGoesWithLastProxy
