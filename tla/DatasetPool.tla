------------------------------ MODULE DatasetPool ------------------------------
(***************************************************************************)
(* gcore/gdalproxypool.cpp: the singleton GDALDatasetPool, a bounded LRU   *)
(* list of open datasets, and the GDALProxyPoolDataset objects that use    *)
(* it.  Each operation on a proxy takes a reference on a dataset of the    *)
(* pool, which is opened if need be, and drops it afterwards.              *)
(*                                                                         *)
(* A dataset of the pool may hold a proxy of its own (an inner proxy),     *)
(* used while the dataset is in use and destroyed when it is closed.  An   *)
(* inner proxy is named by the handle of the dataset that holds it.  A PRF *)
(* dataset creates it when it is opened, a VRT when it is first read       *)
(* (VRTSimpleSource::OpenSource()).                                        *)
(*                                                                         *)
(* hDLMutex protects the pool; it is released while a dataset is opened.   *)
(* A step is a section of the code that holds it; only the loop that       *)
(* evicts for memory holds it over several steps.                          *)
(***************************************************************************)
EXTENDS Integers, Sequences, FiniteSets, SequencesExt

CONSTANTS
    Threads,        \* a thread is also its own responsible PID
    TopProxies,     \* GDALProxyPoolDataset objects that no dataset of the pool
                    \* holds
    File, Owner, Shared, Maker, \* their file name (with the open options),
                    \* m_pszOwner, bShared, and the thread that makes them
    Files,
    Kind,           \* format of a file: "vrt", "prf" or "plain"
    Source,         \* the file of the inner proxy of a VRT or PRF
    Ram,            \* GetEstimatedRAMUsage() of a dataset on a file
    MaxSize,        \* maxSize
    MaxRAMUsage,    \* nMaxRAMUsage; 0 for no limit
    MayFail,        \* files that GDALDataset::Open() may fail to open
    MaxRefs,        \* bound on poolRefCount
    None            \* nullptr

ASSUME ProxiesAssumption ==
    /\ File \in [TopProxies -> Files]
    /\ Shared \in [TopProxies -> BOOLEAN]
    /\ DOMAIN Owner = TopProxies
    /\ Maker \in [TopProxies -> Threads]
    /\ Kind \in [Files -> {"vrt", "prf", "plain"}]
    /\ Source \in [Files -> Files \cup {None}]
    /\ \A f \in Files : Kind[f] # "plain" =>
            Source[f] # None /\ Kind[Source[f]] = "plain"
    /\ Ram \in [Files -> Nat]
    /\ MayFail \subseteq Files
ASSUME PoolAssumption == MaxSize \in Nat \ {0, 1} /\ MaxRAMUsage \in Nat /\ MaxRefs \in Nat

Entries == 1..MaxSize

(* Names of open datasets: there are at most as many as entries, and one   *)
(* more that is about to be stored.                                        *)
Handles == 1..MaxSize + 1

(* What a dataset passes to the constructor of its inner proxy. *)
InnerProxies == [file : Files, owner : Handles \cup {None}, pid : Threads,
                 shared : BOOLEAN]

(* There are finitely many threads and proxies, no proxy that the program  *)
(* makes is an inner one, and nullptr is none of them.                     *)
ASSUME NamesAssumption ==
    /\ IsFiniteSet(Threads) /\ IsFiniteSet(TopProxies)
    /\ TopProxies \cap Handles = {}
    /\ None \notin Threads /\ None \notin Handles /\ None \notin InnerProxies

VARIABLES
    singleton,      \* the pool exists
    poolRefCount,   \* GDALDatasetPool::refCount
    list,           \* entries from firstEntry to lastEntry
    entry,          \* GDALProxyPoolCacheEntry
    nRAMUsage,
    hDLMutex,       \* holder of the mutex between steps
    pid,            \* responsiblePID of each top-level proxy that exists
    inner,          \* inner proxy of each dataset
    open,           \* datasets not closed
    use,            \* per thread: the proxies it is using, innermost last, with
                    \* the entry and the dataset that it got
    pc, call,       \* where a thread is in a call, and on which proxy
    prevented       \* the thread between PreventDestroy() and ForceDestroy()

vars == <<singleton, poolRefCount, list, entry, nRAMUsage, hDLMutex, pid, inner,
          open, use, pc, call, prevented>>

FreeEntry == [file |-> None, owner |-> None, pid |-> None, ds |-> None,
              ram |-> 0, refCount |-> 0]
NoCall == [proxy |-> None, entry |-> None, create |-> FALSE]

Init ==
    /\ singleton = FALSE
    /\ poolRefCount = 0
    /\ list = <<>>
    /\ entry = [e \in Entries |-> FreeEntry]
    /\ nRAMUsage = 0
    /\ hDLMutex = None
    /\ pid = [p \in TopProxies |-> None]
    /\ inner = [h \in Handles |-> None]
    /\ open = {}
    /\ use = [t \in Threads |-> <<>>]
    /\ pc = [t \in Threads |-> "idle"]
    /\ call = [t \in Threads |-> NoCall]
    /\ prevented = None

Alive == {p \in TopProxies : pid[p] # None}

(* What a proxy passes to the pool. *)
ParamsOf(x) ==
    IF x \in TopProxies
    THEN [file |-> File[x], owner |-> Owner[x], pid |-> pid[x],
          shared |-> Shared[x]]
    ELSE inner[x]

(* A proxy is a dataset: one thread uses it at a time. *)
IsUsed(x) ==
    \E t \in Threads : \/ pc[t] # "idle" /\ call[t].proxy = x
                       \/ \E i \in DOMAIN use[t] : use[t][i].proxy = x

(* The proxies that thread t can call: a top-level proxy, or the inner     *)
(* proxy of the dataset that it is using.                                  *)
Callable(t) ==
    IF use[t] = <<>> THEN Alive
    ELSE LET h == Last(use[t]).ds IN IF inner[h] = None THEN {} ELSE {h}

-----------------------------------------------------------------------------
(* Closing datasets.  These operators work on a record of the part of the  *)
(* state that GDALClose() changes.                                         *)

PoolState == [entry |-> entry, inner |-> inner, ram |-> nRAMUsage, open |-> open]

SetPoolState(s) ==
    /\ entry' = s.entry
    /\ inner' = s.inner
    /\ nRAMUsage' = s.ram
    /\ open' = s.open

(* Entry e loses its dataset, its name and its owner, but not its place. *)
EmptiedKeepsRam(s, e) ==
    LET d == s.entry[e] IN
    [entry |-> [s.entry EXCEPT ![e] = [d EXCEPT !.file = None, !.owner = None,
                                                !.ds = None, !.ram = 0]],
     inner |-> [h \in Handles |-> IF h = d.ds THEN None ELSE s.inner[h]],
     ram   |-> s.ram,
     open  |-> s.open \ {d.ds}]

Emptied(s, e) ==
    [EmptiedKeepsRam(s, e) EXCEPT !.ram = @ - s.entry[e].ram]

(* Places in the list of the entries that _CloseDatasetIfZeroRefCount()    *)
(* may close for a proxy with parameters x; it closes the first one.       *)
Closable(s, x) ==
    {i \in DOMAIN list :
        LET e == s.entry[list[i]]
        IN  e.file = x.file /\ e.owner = x.owner /\ e.ds # None /\ e.refCount = 0}

(* GDALClose() of the dataset of entry e, if any: the inner proxy of the   *)
(* dataset is destroyed with it.  refCountOfDisabledRefCount is positive   *)
(* then, so that the inner proxy does not release the pool.                *)
Closed(s, e) ==
    LET h == s.entry[e].ds
        s1 == Emptied(s, e)
        sources == IF h = None \/ s.inner[h] = None THEN {}
                   ELSE Closable(s1, s.inner[h])
    IN  IF sources = {} THEN s1 ELSE Emptied(s1, list[Min(sources)])

CloseDatasetIfZeroRefCountForgotten(s, x) == s

CloseDatasetIfZeroRefCount(s, x) ==
    LET places == Closable(s, x)
    IN  IF places = {} THEN s ELSE Closed(s, list[Min(places)])

(* The places of the candidates of EvictEntryWithZeroRefCount(): the last  *)
(* one is evicted.                                                         *)
EvictableInUse(needsRam) ==
    {i \in DOMAIN list : ~needsRam \/ entry[list[i]].ram > 0}

Evictable(needsRam) ==
    {i \in EvictableInUse(needsRam) : entry[list[i]].refCount = 0}

(* The pool is deleted: ~GDALDatasetPool() closes every dataset, and the   *)
(* inner proxies leave the pool alone (bInDestruction).                    *)
DeletePool ==
    /\ singleton' = FALSE
    /\ poolRefCount' = 0
    /\ list' = <<>>
    /\ SetPoolState([entry |-> [e \in Entries |-> FreeEntry],
                     inner |-> [h \in Handles |-> None], ram |-> 0,
                     open |-> {}])

-----------------------------------------------------------------------------
(* The life of a proxy *)

MutexFree == hDLMutex = None

Idle(t) == pc[t] = "idle"

(* refCountOfDisabledRefCount of thread t, outside opening and closing. *)
Disabled(t) == prevented = t

(* The references on the pool after Ref() in a constructor. *)
Ref == poolRefCount + 1

(* The constructor: Ref() creates the pool for the first proxy. *)
NewProxy(t, p) ==
    /\ Idle(t) /\ use[t] = <<>>
    /\ p \notin Alive /\ t = Maker[p]
    /\ prevented = None
    /\ MutexFree
    /\ poolRefCount < MaxRefs
    /\ singleton' = TRUE
    /\ poolRefCount' = Ref
    /\ pid' = [pid EXCEPT ![p] = t]
    /\ UNCHANGED <<list, entry, nRAMUsage, hDLMutex, inner, open, use, pc, call,
                   prevented>>

(* The first read of a VRT: GDALProxyPoolDataset::Create() constructs the  *)
(* inner proxy, then opens its dataset.  No counting is disabled here.     *)
CreateSource(t) ==
    /\ Idle(t) /\ use[t] # <<>>
    /\ MutexFree
    /\ poolRefCount < MaxRefs
    /\ LET u == Last(use[t])
       IN  /\ Kind[entry[u.entry].file] = "vrt"
           /\ inner[u.ds] = None
           /\ inner' = [inner EXCEPT ![u.ds] =
                  [file |-> Source[entry[u.entry].file], owner |-> u.ds,
                   pid |-> t, shared |-> TRUE]]
           /\ call' = [call EXCEPT ![t] = [proxy |-> u.ds, entry |-> None,
                                           create |-> TRUE]]
    /\ poolRefCount' = Ref
    /\ pc' = [pc EXCEPT ![t] = "ref"]
    /\ UNCHANGED <<singleton, list, entry, nRAMUsage, hDLMutex, pid, open, use,
                   prevented>>

(* The destructor of proxy x: of a top-level proxy, or, when the driver    *)
(* manager calls CloseDependentDatasets(), of an inner one.  It first      *)
(* closes the dataset of the proxy.                                        *)
DeleteProxy(t, x) ==
    /\ Idle(t) /\ use[t] = <<>>
    /\ prevented \in {None, t}
    /\ \/ x \in Alive
       \/ Disabled(t) /\ x \in open /\ inner[x] # None
    /\ ~IsUsed(x)
    /\ MutexFree
    /\ SetPoolState(CloseDatasetIfZeroRefCount(PoolState, ParamsOf(x)))
    /\ pc' = [pc EXCEPT ![t] = "unref"]
    /\ call' = [call EXCEPT ![t].proxy = x]
    /\ UNCHANGED <<singleton, poolRefCount, list, hDLMutex, pid, use, prevented>>

(* Create() deletes the new proxy when its dataset cannot be opened. *)
AbandonSource(t) ==
    /\ pc[t] = "abandon"
    /\ MutexFree
    /\ SetPoolState(CloseDatasetIfZeroRefCount(PoolState, inner[call[t].proxy]))
    /\ pc' = [pc EXCEPT ![t] = "unref"]
    /\ UNCHANGED <<singleton, poolRefCount, list, hDLMutex, pid, use, call,
                   prevented>>

(* The end of the destructor, Unref(): the last top-level proxy deletes    *)
(* the pool.                                                               *)
UnrefCountAlways(t) == 1
UnrefCount(t) == IF Disabled(t) THEN 0 ELSE 1

Unref(t) ==
    /\ pc[t] = "unref"
    /\ MutexFree
    /\ LET x == call[t].proxy
       IN  /\ pid' = [p \in TopProxies |-> IF p = x THEN None ELSE pid[p]]
           /\ IF UnrefCount(t) = 1 /\ poolRefCount = 1
              THEN DeletePool
              ELSE /\ poolRefCount' = poolRefCount - UnrefCount(t)
                   /\ inner' = [h \in Handles |-> IF h = x THEN None
                                                   ELSE inner[h]]
                   /\ UNCHANGED <<singleton, list, entry, nRAMUsage, open>>
    /\ pc' = [pc EXCEPT ![t] = "idle"]
    /\ call' = [call EXCEPT ![t] = NoCall]
    /\ UNCHANGED <<hDLMutex, use, prevented>>

-----------------------------------------------------------------------------
(* Using a proxy: RefUnderlyingDataset() .. UnrefUnderlyingDataset() *)

(* Thread t enters _RefDataset() for proxy x. *)
Calls(t, x) ==
    /\ MutexFree
    /\ \/ Idle(t) /\ prevented = None /\ x \in Callable(t) /\ ~IsUsed(x)
       \/ pc[t] = "ref" /\ call[t].proxy = x

(* Thread t leaves _RefDataset() for proxy x with entry e, whose dataset   *)
(* is h: if there is none, RefUnderlyingDataset() releases the entry.      *)
Returns(t, x, e, h) ==
    IF h # None
    THEN /\ use' = [use EXCEPT ![t] = Append(@, [proxy |-> x, entry |-> e,
                                                 ds |-> h])]
         /\ pc' = [pc EXCEPT ![t] = "idle"]
         /\ call' = [call EXCEPT ![t] = NoCall]
    ELSE /\ pc' = [pc EXCEPT ![t] = "release"]
         /\ call' = [call EXCEPT ![t].proxy = x, ![t].entry = e]
         /\ UNCHANGED use

PcAfterFailure(t) ==
    [pc EXCEPT ![t] = IF call[t].create THEN "abandon" ELSE "idle"]
CallAfterFailure(t) ==
    IF call[t].create THEN call ELSE [call EXCEPT ![t] = NoCall]

(* The places of the entries that a proxy with parameters x can use: the   *)
(* first one is taken.                                                     *)
MatchesWhileUsed(x) ==
    {i \in DOMAIN list :
        LET e == entry[list[i]]
        IN  /\ e.refCount >= 0
            /\ e.file = x.file
            /\ x.shared => e.pid = x.pid /\ e.owner = x.owner}

MatchesLoading(x) ==
    {i \in DOMAIN list :
        LET e == entry[list[i]]
        IN  /\ e.file = x.file
            /\ IF x.shared THEN e.pid = x.pid /\ e.owner = x.owner
                           ELSE e.refCount = 0}

Matches(x) ==
    {i \in MatchesLoading(x) : entry[list[i]].refCount >= 0}

(* The list once the entry at place i is the first one. *)
ToFront(i) ==
    [j \in DOMAIN list |-> IF j = 1 THEN list[i]
                           ELSE IF j <= i THEN list[j - 1] ELSE list[j]]

(* The dataset is in the pool.  Without bForceOpen (FlushCache()) a call   *)
(* has no other effect: a miss returns nullptr.                            *)
RefHit(t, x) ==
    /\ Calls(t, x)
    /\ Matches(ParamsOf(x)) # {}
    /\ LET i == Min(Matches(ParamsOf(x)))
           e == list[i]
       IN  /\ list' = ToFront(i)
           /\ entry' = [entry EXCEPT ![e].refCount = @ + 1]
           /\ Returns(t, x, e, entry[e].ds)
    /\ UNCHANGED <<singleton, poolRefCount, nRAMUsage, hDLMutex, pid, inner,
                   open, prevented>>

(* Entry e is reserved for x in pool state s, and hDLMutex is released for *)
(* the time that the dataset is opened.                                    *)
Reserve(t, x, s, e) ==
    LET params == ParamsOf(x) IN
    /\ SetPoolState([s EXCEPT !.entry[e] =
           [file |-> params.file, owner |-> params.owner, pid |-> params.pid,
            ds |-> None, ram |-> 0, refCount |-> -1]])
    /\ pc' = [pc EXCEPT ![t] = "open"]
    /\ call' = [call EXCEPT ![t].proxy = x, ![t].entry = e]
    /\ UNCHANGED <<singleton, poolRefCount, hDLMutex, pid, use, prevented>>

RefNew(t, x) ==
    /\ Calls(t, x)
    /\ Matches(ParamsOf(x)) = {}
    /\ Len(list) < MaxSize
    /\ list' = <<Len(list) + 1>> \o list
    /\ Reserve(t, x, PoolState, Len(list) + 1)

RefEvict(t, x) ==
    /\ Calls(t, x)
    /\ Matches(ParamsOf(x)) = {}
    /\ Len(list) = MaxSize
    /\ Evictable(FALSE) # {}
    /\ LET i == Max(Evictable(FALSE))
       IN  /\ list' = ToFront(i)
           /\ Reserve(t, x, Closed(PoolState, list[i]), list[i])

(* "Too many threads are running for the current value of the dataset      *)
(* pool size": there is nothing to release.                                *)
RefTooMany(t, x) ==
    /\ Calls(t, x)
    /\ Matches(ParamsOf(x)) = {}
    /\ Len(list) = MaxSize
    /\ Evictable(FALSE) = {}
    /\ pc' = PcAfterFailure(t)
    /\ call' = CallAfterFailure(t)
    /\ UNCHANGED <<singleton, poolRefCount, list, entry, nRAMUsage, hDLMutex,
                   pid, inner, open, use, prevented>>

FreeHandle == CHOOSE h \in Handles : h \notin open

(* The inner proxy that GDALDataset::Open() makes for a new dataset of     *)
(* entry e: counting is disabled and the PID is the one of the caller's    *)
(* proxy.                                                                  *)
NewInner(e) ==
    IF Kind[entry[e].file] = "prf"
    THEN [file |-> Source[entry[e].file], owner |-> None,
          pid |-> entry[e].pid, shared |-> FALSE]
    ELSE None

(* GDALDataset::Open() returns a dataset and hDLMutex is acquired again. *)
OpenSucceeds(t) ==
    /\ pc[t] = "open"
    /\ MutexFree
    /\ LET e == call[t].entry
           r == Ram[entry[e].file]
           h == FreeHandle
       IN  /\ entry' = [entry EXCEPT ![e].ds = h, ![e].refCount = 1, ![e].ram = r]
           /\ nRAMUsage' = nRAMUsage + r
           /\ open' = open \cup {h}
           /\ inner' = [inner EXCEPT ![h] = NewInner(e)]
           /\ IF MaxRAMUsage > 0 /\ r > 0
              THEN /\ hDLMutex' = t
                   /\ pc' = [pc EXCEPT ![t] = "trim"]
                   /\ UNCHANGED <<call, use>>
              ELSE /\ Returns(t, call[t].proxy, e, h)
                   /\ UNCHANGED hDLMutex
    /\ UNCHANGED <<singleton, poolRefCount, list, pid, prevented>>

OpenFails(t) ==
    /\ pc[t] = "open"
    /\ MutexFree
    /\ LET e == call[t].entry
       IN  /\ entry[e].file \in MayFail
           /\ entry' = [entry EXCEPT ![e].refCount = 1]
           /\ Returns(t, call[t].proxy, e, None)
    /\ UNCHANGED <<singleton, poolRefCount, list, nRAMUsage, hDLMutex, pid,
                   inner, open, prevented>>

(* The loop that closes unused datasets while the pool holds too much      *)
(* memory, with hDLMutex held.                                             *)
TooMuchRam(e) ==
    /\ nRAMUsage > MaxRAMUsage
    /\ nRAMUsage # entry[e].ram
    /\ Evictable(TRUE) # {}

Trim(t) ==
    /\ pc[t] = "trim"
    /\ TooMuchRam(call[t].entry)
    /\ SetPoolState(Closed(PoolState, list[Max(Evictable(TRUE))]))
    /\ UNCHANGED <<singleton, poolRefCount, list, hDLMutex, pid, use, pc, call,
                   prevented>>

EndTrim(t) ==
    /\ pc[t] = "trim"
    /\ ~TooMuchRam(call[t].entry)
    /\ hDLMutex' = None
    /\ Returns(t, call[t].proxy, call[t].entry, entry[call[t].entry].ds)
    /\ UNCHANGED <<singleton, poolRefCount, list, entry, nRAMUsage, pid, inner,
                   open, prevented>>

(* RefUnderlyingDataset() got an entry without a dataset. *)
Release(t) ==
    /\ pc[t] = "release"
    /\ MutexFree
    /\ entry' = [entry EXCEPT ![call[t].entry].refCount = @ - 1]
    /\ pc' = PcAfterFailure(t)
    /\ call' = CallAfterFailure(t)
    /\ UNCHANGED <<singleton, poolRefCount, list, nRAMUsage, hDLMutex, pid,
                   inner, open, use, prevented>>

(* UnrefUnderlyingDataset(), at the end of the operation on the proxy. *)
UnrefDataset(t) ==
    /\ Idle(t) /\ use[t] # <<>>
    /\ MutexFree
    /\ entry' = [entry EXCEPT ![Last(use[t]).entry].refCount = @ - 1]
    /\ use' = [use EXCEPT ![t] = Front(@)]
    /\ UNCHANGED <<singleton, poolRefCount, list, nRAMUsage, hDLMutex, pid,
                   inner, open, pc, call, prevented>>

-----------------------------------------------------------------------------
(* ~GDALDriverManager(): no thread uses a dataset any more. *)

AllIdle == \A t \in Threads : Idle(t) /\ use[t] = <<>>

PreventDestroy(t) ==
    /\ AllIdle
    /\ prevented = None
    /\ singleton
    /\ prevented' = t
    /\ UNCHANGED <<singleton, poolRefCount, list, entry, nRAMUsage, hDLMutex,
                   pid, inner, open, use, pc, call>>

(* Every dataset has dropped its references to others. *)
ForceDestroy(t) ==
    /\ Idle(t)
    /\ prevented = t
    /\ Alive = {} /\ \A h \in Handles : inner[h] = None
    /\ prevented' = None
    /\ DeletePool
    /\ UNCHANGED <<hDLMutex, pid, use, pc, call>>

Next ==
    \E t \in Threads :
        \/ \E p \in TopProxies : NewProxy(t, p)
        \/ CreateSource(t)
        \/ \E x \in TopProxies \cup Handles :
              \/ DeleteProxy(t, x)
              \/ RefHit(t, x)
              \/ RefNew(t, x)
              \/ RefEvict(t, x)
              \/ RefTooMany(t, x)
        \/ AbandonSource(t)
        \/ Unref(t)
        \/ OpenSucceeds(t)
        \/ OpenFails(t)
        \/ Trim(t)
        \/ EndTrim(t)
        \/ Release(t)
        \/ UnrefDataset(t)
        \/ PreventDestroy(t)
        \/ ForceDestroy(t)

Spec == Init /\ [][Next]_vars

-----------------------------------------------------------------------------
(* Properties *)

(* Every variable keeps its type. *)
TypeOK ==
    /\ singleton \in BOOLEAN
    /\ poolRefCount \in 0..MaxRefs
    /\ ToSet(list) = 1..Len(list) /\ Len(list) <= MaxSize /\ IsInjective(list)
    /\ \A e \in Entries :
          /\ entry[e].file \in Files \cup {None}
          /\ entry[e].ds \in Handles \cup {None}
          /\ entry[e].refCount \in -1..Cardinality(Threads) * 2
    /\ hDLMutex \in Threads \cup {None}
    /\ pid \in [TopProxies -> Threads \cup {None}]
    /\ open \subseteq Handles
    /\ pc \in [Threads -> {"idle", "ref", "open", "trim", "release", "abandon",
                           "unref"}]
    /\ prevented \in Threads \cup {None}

Uses == {u \in Threads \X (1..2) : u[2] <= Len(use[u[1]])}
UseAt(u) == use[u[1]][u[2]]

(* _RefDataset() and UnrefDataset() keep refCount equal to the number of   *)
(* calls that hold the entry, and -1 exactly while one thread opens its    *)
(* dataset without hDLMutex: no reference is lost or dropped twice on any  *)
(* path, the failed ones included.                                         *)
RefCountExact ==
    \A e \in Entries :
        LET holders == {u \in Uses : UseAt(u).entry = e}
            calls(where) == {t \in Threads : pc[t] \in where /\ call[t].entry = e}
        IN  IF calls({"open"}) # {}
            THEN /\ entry[e].refCount = -1
                 /\ Cardinality(calls({"open"})) = 1 /\ holders = {}
            ELSE entry[e].refCount = Cardinality(holders)
                                     + Cardinality(calls({"trim", "release"}))

(* nRAMUsage, which decides about trimming, is the memory of the open      *)
(* datasets, also when closing a VRT closes its source on the way.         *)
RamUsageExact ==
    nRAMUsage = Cardinality(UNION {{e} \X (1..entry[e].ram) : e \in Entries})

(* The entries of the pool agree with what the threads hold and with what  *)
(* is open.                                                                *)
EntriesConsistent == TypeOK /\ RefCountExact /\ RamUsageExact

(* The dataset that a proxy got from RefUnderlyingDataset() stays open, and *)
(* stays the dataset of the entry that UnrefUnderlyingDataset() releases,  *)
(* until the proxy gives it back: eviction, trimming and the destructors   *)
(* of other proxies pass it over.                                          *)
InUseStaysOpen ==
    \A u \in Uses : /\ UseAt(u).ds \in open
                    /\ entry[UseAt(u).entry].ds = UseAt(u).ds

(* Two proxies use one dataset at the same time only if one of them is     *)
(* shared; two shared ones were made by the same thread for the same       *)
(* owner (the comment on pszOwner above GDALProxyPoolDataset()).           *)
SharedByOneOwner ==
    \A u, v \in Uses :
        LET x == ParamsOf(UseAt(u).proxy)
            y == ParamsOf(UseAt(v).proxy)
        IN  u # v /\ UseAt(u).ds = UseAt(v).ds =>
                /\ x.shared \/ y.shared
                /\ x.shared /\ y.shared => x.owner = y.owner /\ x.pid = y.pid

(* A dataset stays in the pool only as long as a proxy on it exists: there *)
(* are at most as many open datasets of a file and an owner as proxies,    *)
(* even when several were opened because hDLMutex is released meanwhile.   *)
(* It holds where no file is used by both shared and other proxies, and    *)
(* where one thread makes the proxies of a file and an owner:              *)
(* CloseDatasetIfZeroRefCount() looks at neither bShared nor the PID.      *)
NoOrphanDataset ==
    \A f \in Files, o \in {entry[e].owner : e \in Entries} :
        Cardinality({e \in Entries : /\ entry[e].file = f /\ entry[e].owner = o
                                     /\ entry[e].ds # None})
        <= Cardinality({p \in Alive : File[p] = f /\ Owner[p] = o})
           + Cardinality({h \in Handles : inner[h] # None
                            /\ inner[h].file = f /\ inner[h].owner = o})

(* The pool exists as long as a proxy or a call on it does, whatever       *)
(* refCountOfDisabledRefCount hides from its count; RefDataset() and       *)
(* CloseDatasetIfZeroRefCount() use the singleton unchecked.               *)
PoolOutlivesProxies ==
    ~singleton => /\ Alive = {} /\ \A h \in Handles : inner[h] = None
                  /\ AllIdle

(* "Taken by toplevel GDALProxyPoolDataset in its constructor and released *)
(* in its destructor": the pool goes with its last top-level proxy.        *)
PoolGoesWithLastProxy == Alive = {} /\ prevented = None => ~singleton
==============================================================================
