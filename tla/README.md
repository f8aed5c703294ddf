# The shared state of GDAL in TLA+

GDAL reads and writes geospatial rasters and vectors in some two hundred
formats. Most of its code is sequential: codecs, geometry, numeric algorithms,
command line programs. This project models the parts in which threads meet:

* the **raster block cache**, a single least-recently-used list of the blocks of
  every band of every open dataset, in which a thread that needs memory evicts,
  and writes to disk, the blocks of the others;
* the **worker thread pool** that overviews, warping, compression and the global
  pool use, and one of its users, the **parallel gzip writer**;
* the **dataset pool**, a bounded list of open datasets behind proxies;
* the **streaming HTTP reader**, a download thread and a reader around a ring
  buffer.

Each is modelled at the level of its atomic operations and critical sections and
checked with TLC; all of them are also the subject of TLAPS proofs, for any number
of threads, blocks, bands, jobs, proxies and entries, and for streams, chunks and
buffers of any size.

Paths below are relative to `src/`.

## 1. Inventory

### 1.1 Components of the core

| Component | State | Operations | Hard because |
|---|---|---|---|
| Global block list, `gcore/gdalrasterblock.cpp` | `poNewest`, `poOldest`, `poPrevious`/`poNext` and `bMustDetach` of each block, lock `hRBLock` | constructor, `RecycleFor()`, `Touch()`, `Detach()`, destructor | links shared with the free lists; `Touch()` tests `poNewest` outside the lock |
| Limit and eviction, same file | `nCacheUsed`, `nCacheMax`, `nDisableDirtyBlockFlushCounter`, `nLockCount`, `bDirty`, `pData` | `Internalize()`, `FlushCacheBlock()`, `FlushDirtyBlocks()`, `GDALSetCacheMax64()`, `Write()`, `TakeLock()`, `DropLockForRemovalFromStorage()` | any thread evicts blocks of any dataset; claims blocks by compare-and-exchange; writes after it has released the lock |
| Block storage of a band, `gcore/gdalabstractbandblockcache.cpp`, array and hash set variants | slots, `psListBlocksToFree`, `nKeepAliveCounter`, `m_nDirtyBlocks` | `CreateBlock()`, `AdoptBlock()`, `UnreferenceBlock()`, `TryGetLockedBlockRef()`, `FlushBlock()`, `FlushCache()`, `AddBlockToFreeList()`, `FreeDanglingBlocks()`, `WaitCompletionPendingTasks()` | evictors enter it from other threads while the owner flushes or destroys it |
| `GDALRasterBand`, `gcore/gdalrasterband.cpp`, `gcore/rasterio.cpp` | `eFlushBlockErr` | `RasterIO()`, `Fill()`, `GetLockedBlockRef()`, `FlushBlock()`, `FlushCache()`, `DropCache()`, destructor | error paths in the middle of a multi-step protocol |
| Read/write mutex of `GDALDataset`, `gcore/gdaldataset.cpp` | `hMutex`, `oMapThreadToMutexTakenCount` | `EnterReadWrite()`, `LeaveReadWrite()`, `TemporarilyDropReadWriteLock()`, `ReacquireReadWriteLock()` | two threads evicting each other's dirty blocks (#6163) |

They interact as follows. `RasterIO()` takes the mutex of its dataset and asks
for each block with `GetLockedBlockRef()`. A block found in the storage of the
band is locked (`nLockCount`) and touched. Otherwise a block is created or
recycled, the mutex is dropped for the time of `Internalize()`, which charges the
block to `nCacheUsed`, takes old blocks off the list under `hRBLock`, then, after
it has released `hRBLock`, writes the dirty ones through the driver of *their*
dataset and pushes them on the free list of *their* band. Then the new block is
adopted by the band and read from disk. The owner of a band that flushes or
destroys it meets evictors at three places: the exchange of `nLockCount`,
`hRBLock`, and `nKeepAliveCounter`.

What makes the cache correct:

* the lists are lists, in LRU order, and never cross (1.1 first row);
* a block is used, evicted or flushed by one party at a time, is found by its
  owner as long as it is cached, and nobody keeps a pointer to a deleted one;
* a band outlives the evictors of its blocks, and a flushed band is empty;
* `nCacheUsed` and `m_nDirtyBlocks` count what they say; the limit is kept;
* reads return the last write, a flush puts it on disk, errors are reported;
* no call waits forever.

The other components:

| Component | State | Operations | Hard because |
|---|---|---|---|
| `CPLWorkerThreadPool`, `CPLJobQueue`, `port/cpl_worker_thread_pool.cpp`, `gcore/gdal_thread_pool.cpp` | `jobQueue`, `nPendingJobs`, `psWaitingWorkerThreadsList`, `nWaitingWorkerThreads`, `aWT`, `eState`; a mutex and condition variable per pool, per worker and per queue | `Setup()`, `SubmitJob()`, `SubmitJobs()`, `GetNextJob()`, `WaitCompletion()`, `WaitEvent()`, `WakeUpWaitEvent()`, destructor | lost wake-ups; jobs that submit jobs to the same pool and wait; threads that cannot be created; destruction while workers fall asleep |
| `VSIGZipWriteHandleMT`, `port/cpl_vsil_gzip.cpp` | lists of free buffers and of finished, CRC-finished and free jobs, three sequence numbers | `Write()`, `ProcessCompletedJobs()`, `Close()`, two tasks of the pool | results out of order, recycled buffers, a failed write in the middle |
| `GDALDatasetPool`, `GDALProxyPoolDataset`, `gcore/gdalproxypool.cpp` | list of entries with `refCount`, `nRAMUsage`, `refCount` of the singleton, `refCountOfDisabledRefCount` | `_RefDataset()`, `UnrefDataset()`, `CloseDatasetIfZeroRefCount()`, `Ref()`, `Unref()`, `PreventDestroy()`, `ForceDestroy()` | opening without the mutex; opening and closing datasets that hold proxies themselves re-enters the pool |
| `VSICurlStreamingHandle`, `port/cpl_vsil_curl_streaming.cpp` | ring buffer, `nRingBufferFileOffset`, download flags, cache of the first bytes, `fileSize` | `Seek()`, `Read()`, `StartDownload()`, `StopDownload()`, callbacks of libcurl | two threads waiting on each other; restarts; failed transfers that are retried |

The gzip writer uses the thread pool through its promise (`JobPool`); the dataset
pool is entered again from VRT and PRF datasets that it opens; the driver manager
destroys the dataset pool.

What makes them correct: every job is run once, in order, and every wait ends; a
compressed stream is the concatenation of its chunks, with their CRC, or an error
is reported; a dataset in use stays open and the pool outlives its users; a
streaming read returns the bytes of the file at its offset or says why not.

The list of hazards, each with its line and its properties, is in
`PROJECT.json`.

### 1.2 The rest of the repository

`PROJECT.json` lists the other parts with the reason why they are not modelled.
Those with protocols of their own are the thread-safe dataset
(`gcore/gdalthreadsafedataset.cpp`) with `lru11`, the two users of the thread pool
that are not modelled (GTiff compression, multi-threaded warping) and the layer
pool. Drivers, vector code, algorithms, programs, bindings and vendored libraries
are codecs, numeric code, wrappers or third-party code.

## 2. Modules

| Module | Role |
|---|---|
| `BlockLru` | what the list promises: a sequence of blocks, most recently used first, and its two operations |
| `RasterBlockList` | the pointers: global list and free lists; implements `BlockLru` |
| `RasterBlockListProofs` | TLAPS proofs about the pointers |
| `RasterBlockCache` | threads, bands, datasets and evictions, on top of the operators of `BlockLru` |
| `RasterBlockCacheControl` | TLAPS: `hRBLock`, the rounds of an eviction, types, and which thread is where in which call |
| `RasterBlockCacheOwnership` | TLAPS: users, claims and lock counts of the blocks |
| `RasterBlockCacheStorage` | TLAPS: where the blocks are, keep-alive counters, life of the bands; then memory of the blocks, `nCacheUsed`, dirty blocks, the type invariant |
| `JobPool` | what the thread pool promises: jobs are started in submission order, at most `NThreads` at a time, each ends once, after its children |
| `WorkerThreadPool` | threads, mutexes, condition variables and queues of the pool; implements `JobPool` |
| `WorkerThreadPoolProofs` | TLAPS proofs about the counters and waits of the pool, and that it implements the safety part of `JobPool` |
| `GzipWriter` | the parallel gzip writer, on top of `JobPool` |
| `GzipWriterProofs` | TLAPS proofs about its buffers, Job objects and output |
| `DatasetPool` | the pool of open datasets and its proxies |
| `DatasetPoolProofs` | TLAPS proofs about its entries, reference counts and proxies |
| `CurlStreaming` | reader, download thread and ring buffer |
| `CurlStreamingProofs` | TLAPS proofs about the ring buffer and what `Read()` returns |
| `MCRasterBlockList`, `MCRasterBlockCache`, `MCWorkerThreadPool`, `MCGzipWriter`, `MCDatasetPool`, `MCCurlStreaming` | instances for TLC |


### 2.1 RasterBlockList

One action per critical section. `Touch(b)` stands for `Touch()` and for the end
of `Internalize()`, `Detach(b)` for the eviction or flushing of a block,
`AddBlockToFreeList(b)`, `Recycle(d)`, `TakeDanglingBlocks(d)` and
`FreeDanglingBlock(d)` for the free list of a band, `New(b)` and `Delete(b)` for
the constructor and the destructor. `TouchUnlocked` and `DetachUnlocked` make the
conditional stores of the code in its order. `state[b]` summarises which thread
may do what to a block, which is the business of `RasterBlockCache`. `newer` is a
history variable: the order in which the blocks of the list were last touched,
against which the links are compared. A free list is owned by the thread of its
band, so `Recycle` and `FreeDanglingBlock` of one band do not overlap; pushes by
evictors overlap with everything.

### 2.2 RasterBlockCache

`pc[t]` is the program counter of thread `t`; an action is one access to shared
state (an atomic increment, an exchange, one critical section) or, under
`hRBLock`, one stage of a scan. Stages under `hRBLock` are separate steps because
lock counts, dirty flags and slots change under the feet of the scan.

| Action | Code |
|---|---|
| `StartIO`, `WaitPendingTasks`, `EnterReadWrite` | `RasterIO()`, `Fill()`, and `GetLockedBlockRef()` called by the application (`readBlock`) |
| `TryGetLockedBlockRef`, `TakeLock`, `TakeLockFailed`, `Touch`, `TouchLocked` | the block is found in its band |
| `CreateBlock`, `CreateBlockFails` | it is not: `CreateBlock()`, `AddLock()`, `TemporarilyDropReadWriteLock()` |
| `InternalizeLock`, `Scan`, `Exchange`, `ExchangeOther`, `Fallback`, `FallbackEnds`, `Detach`, `UnreferenceBlock`, `Scanned` | `Internalize()` under `hRBLock`: the two passes of its scan, the claim, the removal |
| `FreeNext`, `WriteEvicted`, `Release`, `KeepAliveDec`, `FreeEnds` | the blocks taken are written and released |
| `Allocate`, `ReacquireReadWriteLock`, `AdoptBlock`, `ReadBlock`, `WriteLocked`, `DropLock`, `Discard`, `Failed` | the rest of `GetLockedBlockRef()` and of its callers, with their error paths |
| `StartFlush`, `FlushCache`, `FlushStorage`, `FlushNext`, `FlushBlock`, `ClaimFlush`, `FlushWait`, `FlushDetach`, `FlushWrite`, `FlushIO`, `Delete`, `FlushEnds`, `Destroy`, `Flushed`, `Reopen` | `FlushBlock()`, `FlushCache()`, `DropCache()`, closing with and without writing, opening again |
| `StartGlobal`, `SetCacheMaxLoop`, `FlushCacheBlock`, `FlushScan`, `FlushExchange`, `FlushScanEnds`, `FlushedOne` | `GDALFlushCacheBlock()`, `FlushDirtyBlocks()`, `GDALSetCacheMax64()` |
| `EnterDisableDirtyBlockFlush`, `LeaveDisableDirtyBlockFlush` | the same |

A definition that covers the array and the hash set storage is mapped to one of
the two files; where they differ (`FlushStorage`, `FlushNext`, `ClaimFlush`,
`AdoptBlock`) it tests `HashSet`.

Abstractions, and why they lose nothing the properties speak of:

* *One owner per dataset.* GDAL's threading rule (`doc/source/user/multithreading.rst`);
  `Owner` says which thread. Everything else is open to every thread.
* *Sizes in blocks.* All blocks have one size, so `nCacheUsed` counts blocks and
  an evicted block can always give its memory to the new one.
* *Pixels* are one number per block; a write stores the next number modulo
  `NValues`, so that an old version can be told from a new one. `disk` is what
  `IWriteBlock()` stored last, `last` what the application wrote last. `pData` is
  `NoData` when the pointer is null; memory just allocated is 0.
* *The driver* is external: `IReadBlock()` and `IWriteBlock()` read and write
  `disk` or fail when `Failures` says so. `WriteEvicted`, `FlushIO` and
  `ReadBlock` make the call and the surrounding `EnterReadWrite()` and
  `LeaveReadWrite()` in one step: nothing of what they touch can be accessed
  while the mutex is held. For the same reason the mutex acquisitions that the
  code releases at once (at the start of `EnterReadWrite(GF_Read)`, and in
  `TemporarilyDropReadWriteLock()` of a thread that does not own the mutex) are
  left out.
* *The condition variable* of `WaitCompletionPendingTasks()` is its predicate,
  `nKeepAliveCounter = 0`. The signal is sent under `hCondMutex`, which the wait
  holds when it tests the predicate, so no wake-up is lost.
* *Free lists* are popped, pushed and emptied in one step; their links are the
  subject of `RasterBlockList`.
* *Addresses* are reused: `CreateBlock` may build a block at the address of a
  deleted one, so a pointer that is kept too long is seen to point to nothing, or
  to another block.
* *Left out:* the debugging sleeps, the dirty block flushing log, the retrieval
  of `GDAL_CACHEMAX`, the grid of subblocks (except that allocating one can
  fail), `GDAL_ENABLE_READ_WRITE_MUTEX=NO`, bands without dataset.

Operators that are used nowhere, whose name ends in `Forgotten`, `Ignored`,
`Unbounded`, ..., are the operator below them with a mistake in it. Each property
is shown to fail when the mistake named for it in `PROJECT.json` is made.

### 2.3 WorkerThreadPool and JobPool

An action is one critical section of `m_mutex`, of a worker's mutex or of the mutex
of a `CPLJobQueue`. `m_mutex` stays held between actions only where the code takes
the mutex of a worker under it (`notify`). The wait on a condition variable is
three states: asleep, woken, and back with the mutex; `NotifyOne` chooses any
sleeper of `m_cv`, and `SpuriousWakeUp` ends a wait without notification.
`Spurious` says which waits can end so: those on `m_cv` of the pool, on a queue, or
on the condition variable of a worker. The first two evaluate their condition
again; a worker goes on as if it had been notified.

| Action | Code |
|---|---|
| `GDALGetGlobalThreadPool`, `SetupLazy`, `Setup` | `Setup()` that only raises the limit, and `Setup()` that creates the threads and waits for them |
| `SubmitJob`, `Notify`, `SubmitJobs`, `BatchNext` | submission by a client; `BatchNext` is the loop that wakes workers up one by one |
| `SubmitNested`, `EnqueueNested`, `SubmitJobsNested` | submission by a job: run at once by its submitter unless a worker waits or can be created; the test and the enqueueing are two critical sections |
| `GetNextJob`, `FallAsleep`, `WakeUp` | the worker's loop |
| `JobWaits`, `JobReturns`, `DeclareJobFinished`, `WakeUpWaitEvent` | inside and after a job |
| `WaitCompletion`, `WaitEvent`, `WaitAgain`, `QueueWaitCompletion`, `QueueWaitEvent`, `QueueWaitAgain` | the waits on the pool and on a queue |
| `Destroy`, `Stop`, `NotifyStop`, `Join`, `Destroyed` | the destructor |

A job is a name; what it does is to submit its children through a queue of its
own, to wait for them, perhaps to call `WakeUpWaitEvent()`, and to return. A job
that runs inside another is on the stack of its worker. The pool is not used
before `Setup()` has returned or after its destructor has been entered. Left out:
the initialisation callback of `Setup()` and a failed `malloc()` of a list cell
(`CPLWTS_ERROR`).

The refinement maps the first job of each worker's stack to `running`, the others
to `inline`.

### 2.4 GzipWriter

The writing thread is `pc`; sections under `sMutex_` are steps. The bytes of the
stream are numbered, so that the file, a buffer and a CRC are sequences of
numbers, and lost, repeated or exchanged bytes are seen. `DeflateTask` and
`CRCTask` end by pushing their Job on a list, before `JobPool` finishes the job.
`WriteChunk` and the trailer may fail `MaxErrors` times, counted by `nErrors`. The
constructor's write of the gzip header is part of `Init`: it may fail too, and
`header`, which nobody in the code looks at, remembers it. zlib and the formats of
header, trailer and SOZip index are abstracted; of the index the places of the
chunks are kept. Left out: a failing `Setup()` of the pool (then `poPool_` is null and the
writer works alone) and a failing `Close()` of the base handle.

### 2.5 DatasetPool

A step is a section that holds `hDLMutex`; opening a dataset (`open`) is between
two of them. `entry[e]` has the fields of `GDALProxyPoolCacheEntry` that matter,
`list` the order of the entries. A walk of the list is the set of the
places whose entries satisfy its condition (`Closable`, `Evictable`, `Matches`), of
which it takes the first; `EvictEntryWithZeroRefCount()`, which walks on to the end,
takes the last. A dataset may hold an inner proxy, named by its handle: a PRF
creates it when it is opened, with counting of pool references disabled, a VRT when
it is first read, with counting enabled; an inner proxy is one of a plain file, so
there is one level of nesting. Closing a dataset destroys its inner proxy, which
closes that proxy's dataset: `Closed` and `CloseDatasetIfZeroRefCount` follow this
recursion under one hold of the mutex. `use[t]` is the stack of datasets that thread
`t` is using.

| Action | Code |
|---|---|
| `NewProxy`, `CreateSource`, `DeleteProxy`, `AbandonSource`, `Unref` | constructors and destructor, `VRTSimpleSource::OpenSource()` |
| `RefHit`, `RefNew`, `RefEvict`, `RefTooMany`, `OpenSucceeds`, `OpenFails`, `Trim`, `EndTrim`, `Release` | `RefUnderlyingDataset()` and `_RefDataset()` |
| `UnrefDataset` | `UnrefUnderlyingDataset()` |
| `PreventDestroy`, `ForceDestroy` | the destructor of the driver manager |

A proxy has one `cacheEntry`, so one thread uses it at a time. What the proxies
forward to the dataset is not modelled, `FlushCache()` being the case of `RefHit`
that does not open.

### 2.6 CurlStreaming

The handle is one that `Open()` has returned. The byte of the file at offset `i` is
`i`, so every copy through ring and cache can be compared with the file. `Header`,
`Receive`, `Write`, `SleepFull`, `WakeFull`, `PerformReturns`, `End` and
`EndStopped` are the download thread, of which libcurl is external: it passes
chunks of any size and fails at any time. `Seek`, `ClearErr`, `Read` and the steps
after it (`Begin`, `UseCache`, `Start`, `Skip`, `SkipWake`, `FillStart`, `Fill`,
`FillWake`, `Finish`, `StopDownload`, `Stopped`) are the reader. `rWaits` and
`pWaits` say which thread sleeps, so a signal sent before the wait is lost, as it
is in the code. Left out: opening (`Exists()`, `GetFileSize()`, `SEEK_END`), the
detour of object store handlers through `CanRestartOnError()`, and failing to
create the thread.

### 2.7 Instances and bounds

`MCRasterBlockList` has four blocks, three of one band and one of another: enough
for a block in the middle of the list, at both ends, and in two lists at the same
time.

`MCRasterBlockCache` has datasets `ds1` and `ds2`, each used by a thread of its
own (or both by one thread in `single`); band 2 belongs to `ds2`,
the other bands to `ds1`, and band 2 is stored in a hash set, so the two storages
evict each other. The constants are:

* `Blocks`: one address more than can be alive at a time is enough for reuse; 3 or
  4. When all are taken `CreateBlock()` fails, so running out of memory is covered.
* `CacheMaxes`: 1 forces an eviction at almost every request of the other thread;
  0 and 2 let `GDALSetCacheMax64()` and several blocks per round happen.
* `Offs`: one offset per band, two where a window or a round spans several blocks.
* `BlocksToFreeSize`: 64 as in the code, 1 in `drop` so that the array fills.
* `MaxDirtyCount` bounds `m_nDirtyBlocks`, which the code may leave too high (see
  section 3); `MaxCacheUsed` bounds `nCacheUsed`, which failed allocations leave
  too high. Both are guards: of new writes and of failures.
* `Ops` and `Failures` select the operations and failures of a run.

Block addresses are interchangeable, so all runs but `live` use them as a
symmetry set.

`MCPool.cfg`: one client that makes every call, two workers, two jobs that submit
one job each, and a job submitted through the queue of the client: both workers
can wait for children at the same time, a batch wakes more than one worker, and
the limit can be raised while jobs run. `MaxRemaining` 1 lets a wait end with a job
left. Thread creation fails except for the first thread (see section 3), and the
waits on the pool and on queues may wake up by themselves, but not those of the
workers (see section 3). Instances with three workers and seven jobs, and with
two clients, have been checked once; they take longer and show the same. So has the
instance with `Spurious = {"pool", "worker"}`: `PoolConsistent`, `NoWakeUpLost` and
`CompletionMeansDone` hold there too.

`MCGzip.cfg`: two workers, three buffers, nine bytes in chunks of two: more chunks
than buffers, so that `Write()` waits for one, a last chunk that is not full, and
writes that span chunks; a header that may be missing and two other failing writes.

`MCDatasetPool.cfg`: two threads, a pool of two entries, two shared proxies of a
VRT, one of a PRF, one of the source of the PRF. A thread that reads the VRT needs
both entries, so evictions and `RefTooMany` happen; a memory limit of 1 makes
trimming happen. `MaxRefs` bounds the references that are never dropped.

`MCStreaming.cfg`: a file of five bytes, a ring and a cache of three, so the ring
wraps, the cache fills and forward seeks skip more than the ring holds; two
failures and one retry, so that a retry can succeed, fail, or be refused.

## 3. Runs

Passing:

| Run | States | Shows |
|---|---|---|
| `list` | 1.8 k | LRU order of the links; free lists that never meet; no released block lost; the pointers implement `BlockLru!LruSpec` under the mapping `lru <- Walk(poNewest)` |
| `evict` | 1.6 M | two threads read, fill, close and reopen, and evict each other, with a driver that may fail, while the limit changes and any thread flushes dirty blocks: lock counts, keep-alive counters and `nCacheUsed` exact at every step, and what the owner of a band relies on (`OwnerSafe`) |
| `drop` | 1.0 M | blocks locked by the application, `DropCache()`, `FlushBlock()`, `FlushCacheBlock()`, closing without writing; rounds of several blocks with the array full; the cache comes back within its limit |
| `single` | 1.3 M | with one thread the cache is transparent, allocation failures included: reads give the last write, a flush stores it; disabled flushing keeps dirty blocks |
| `live` | 0.3 M | every call returns; `m_nDirtyBlocks` exact as long as every dirty block is written |
| `pool` | 0.3 M | one client, workers that wake up only when notified: counters and list of waiting workers exact (`PoolConsistent`), no wake-up lost, no two threads waiting for each other's mutex, a wait that returns has waited for what it says, every call returns, `JobPool` implemented with its fairness |
| `gzip` | 0.7 M | the file is the stream in order with CRC, size and SOZip index; no buffer or Job in two places; failed writes of chunks and trailer reported; every call returns |
| `dataset_pool` | 0.2 M | reference counts and memory count exact, datasets in use stay open, owners are kept apart, no dataset without a proxy, the pool outlives its proxies |
| `streaming` | 0.6 M | reads return the bytes of the file, ring and size are right, short reads have a reason, every call returns |

Several properties are conjunctions of named invariants: `OwnerSafe`
(`NoDanglingPointer`, `TouchesCachedBlock`, `AdoptsIntoEmptySlot`,
`FlushEmptiesBand`, `MutexHeldOnlyInCall`), `PoolConsistent`, `BuffersConsistent`,
`EntriesConsistent`, `StreamConsistent`. The latter four contain the type invariant
of their module and are where its inductive invariant starts.
A run has the properties that its operations can disturb. `CPLAssert(refCount == 0)`
of `~GDALDatasetPool()` follows from `EntriesConsistent` and `PoolOutlivesProxies`.

`pool`, `gzip` and `streaming` do not check for deadlock: a destroyed pool, a
deleted writer and a closed handle have no next step, and a client need not do
anything. `CallsReturn` says what deadlock checking would.

**Fairness.** In `RasterBlockCache` `FairSpec` assumes strong fairness of each
thread's `Step`, not of `Start`: a thread inside a call keeps running, and if it
waits for a mutex or a counter that becomes free again and again, it gets it.
Operating systems schedule threads so; the mutexes are not strictly fair, but a
thread starved forever by an unfair mutex is not a fault of this code. Threads may
stop calling GDAL at any time. With `nCacheMax = 0` `CallsReturn` does not hold:
`Internalize()` frees one dirty block per round and repeats while the cache is over
the limit, and another thread that keeps writing can keep it there for good. `live`
uses a limit of one block.

The other modules need weak fairness only: of each client inside a call and of each
worker (`WorkerThreadPool`), of the writing thread inside a call, of the pool and of
its tasks (`GzipWriter`), of the reader inside a call and of the download thread
(`CurlStreaming`). Jobs are assumed to return, and libcurl to deliver or fail
rather than to stall forever; a stall without a low-speed limit does block `Read()`.
No fairness is assumed of the calls themselves, of `WakeUpWaitEvent()` or of
spurious wake-ups.

Violations: each run checks one statement of the code's comments or documentation
that the code does not keep. `PROJECT.json` quotes the statements.

| Run | What happens |
|---|---|
| `v_flush` | a writer does not wait for pending evictions: an evictor writes the old version of a block after the owner wrote and flushed the new one |
| `v_ghost` | a VRT of the pool creates the proxy of its source on first read, when counting is enabled, and destroys it when counting is disabled: the reference on the pool is never dropped |
| `v_http` | a download of a file that is known to exist (from the properties an earlier handle has cached, or from an earlier download) and that is answered by an HTTP error is neither detected nor retried: the error page is handed out as data |

The models have more behaviours of this kind, for which no run is kept. They can
be seen by changing a constant of a run; the passing runs and the hypotheses of the
theorems exclude them:

* `NoCircularWait`, and with it `CallsReturn` and the fairness of `ImplementsJobPool`,
  fail with `"worker"` in `Spurious`: a worker that wakes up by itself (line 534 of
  `port/cpl_worker_thread_pool.cpp`) is still listed as waiting, holds its own mutex
  and waits for `m_mutex` (line 536); a submitter that has taken it off the list holds
  `m_mutex` and waits for the worker's mutex (lines 215 and 307). Both are stuck.
  `std::condition_variable` allows such wake-ups and the wait has no predicate.
* `CallsReturn` of `WorkerThreadPool` fails with three clients in `WaitEvent()`, one
  worker and one job: the end of the job and the worker's falling asleep call
  `m_cv.notify_one()` once each, and the third client is not woken.
* The write of the gzip header may fail and everything that follows succeed: `Write()`
  and `Close()` report success on a file without header. `ErrorReported` without its
  last disjunct, `~header`, fails.
* `CacheUsedExact` fails with `Failures = {"Internalize"}`: `Internalize()` charges
  a block, fails to allocate it, and nobody undoes the charge.
* `NoDanglingPointer` fails with two threads and that failure: the block is
  unlocked and deleted, though it is in the list and another thread may have
  claimed it in between.
* `ReadsLastWrite` fails with two threads: an eviction that starts after
  `EnterReadWrite(GF_Read)` has waited has taken the dirty block away and not
  written it, and the reader gets the old pixels from disk. It is the weakness
  that the comment in `Internalize()` describes. `single` shows that one thread
  alone never meets it.
* `FlushCache()` of a band emits the pending error of an evicted block, resets
  `eFlushBlockErr` and returns what the `FlushCache()` of the storage returns, which
  starts from the member that was reset: `eGlobalErr` is `FALSE` when the thread is at
  `flushed`, and the caller gets `CE_None`.
* `ReadsAtRingOffset` fails with `StartSeesGap = TRUE`: `StartDownload()` reads the
  flags without the mutex, between the two stores that end a download, and starts
  a second one over it.
* `DirtyCountExact` fails after `DropCache()` or a write error: a dirty block
  that is deleted and not written stays counted in `m_nDirtyBlocks`.
* `MutexHeldOnlyInCall` fails when `Fill()` cannot get a block: it returns
  without `LeaveReadWrite()`.
* A write error met by an evictor while the destructor of the band waits for it
  sets `eFlushBlockErr` after `FlushCache()` has reported it; nobody reads it.
* With `ThreadFailures = {"first"}` a job is left in the queue of a pool without
  threads.
* `NoTaskOnDeleted` without its premise `nRet = 0` fails: after a failed write in
  `Close()` the destructor deletes Job objects that CRC tasks still use.

## 4. Proofs

`RasterBlockListProofs`, for any sets of blocks and bands, from
`NullAssumption` (null is not the address of a block) and `BandOfAssumption` (each
address belongs to a band):

* `TypeCorrect`: `Spec => []TypeOK`.
* `LruOrder`: `Spec => [](NewerIsTotalOrder /\ ListIsLruOrder)`.
* `FreeListsSafe`: `Spec => [](ListAssertions /\ FreeListsDisjoint)`.

The inductive invariant `IInv` is the conjunction of these with
`UnusedIsUnlinked`. The LRU order is not inductive alone: `Touch()` of a new block
stores through its links, so they must be null, which depends on how blocks leave
the free lists, which depends on the free lists not crossing the list. The argument
goes through the order: `AdjacentUnique` and `AdjacentRemoved` say what removing an
element does to the neighbours in a strict total order, `DetachKeepsOrder` and
`TouchKeepsOrder` that the stores of the code do the same to the links, and
`DetachElsewhere` and `TouchElsewhere` that they change no other link.

`RasterBlockCacheControl`, for any sets of threads, datasets, bands and blocks,
from `NamesAssumption` (null and the absence of an owner are no block and no
thread) and `BoundsAssumption` (the array has at least one element):

* `BlocksToFreeBounded`: `Spec => []BlocksToFreeInBounds`. The strengthening
  `RoundInv` says that there is room for one more block as long as the scan goes
  on, which is what the two `break`s of the loop ensure, and that the array is empty
  when a round starts.
* `DisabledFlushIsKept`: `SingleThread => (Spec => DisabledFlushKeepsDirty)`. The
  strengthening `DisableInv` says that, while flushing is disabled, the scan
  remembers no dirty block of another dataset and its candidate is clean. One thread
  is needed: `bDirty` is read before the exchange, without a lock on the block, and
  another thread may disable flushing, or write the block, in between.

### 4.1 Blocks, their users and their bands

The rest of `RasterBlockCacheControl`, `RasterBlockCacheOwnership` and
`RasterBlockCacheStorage` prove, from the same assumptions, `BandsAssumption` (bands
and offsets are positive, 0 standing for none; both are finite sets) and
`FiniteAssumption` (threads and block addresses are finite sets):

| Theorem | Statement |
|---|---|
| `LockCountIsExact` | `AllocationsSucceed => (Spec => []LockCountExact)` |
| `CachedBlocksAreFound` | `AllocationsSucceed => (Spec => []CachedBlockFound)` |
| `KeepAliveIsExact` | `AllocationsSucceed => (Spec => []KeepAliveExact)` |
| `NoPointerDangles` | `AllocationsSucceed => (Spec => []NoDanglingPointer)` |
| `OwnersAreSafe` | `AllocationsSucceed /\ NoFill => (Spec => []OwnerSafe)` |
| `MemoryIsCounted` | `AllocationsSucceed => (Spec => []CacheUsedExact)` |
| `TypesHold` | `AllocationsSucceed => (Spec => []TypeOK)` |
| `DirtyCountIsExact` | `AllocationsSucceed /\ DirtyIsWritten => (Spec => []DirtyCountExact)` |
| `ReadersSeeLastWrite` | `AllocationsSucceed /\ WritesSucceed /\ SingleThread => (Spec => []ReadsLastWrite)` |
| `FlushReachesDisk` | `AllocationsSucceed /\ WritesSucceed /\ SingleThread => (Spec => []FlushedIsOnDisk)` |

`AllocationsSucceed` says that `Failures` has neither `Internalize` nor
`AdoptBlock`; failing reads and writes of the driver, and `CreateBlock()` without a
free address, are included. Without it the statements are false of the code, as
section 3 says: when its allocation fails, `GetLockedBlockRef()` deletes a block
that another thread may have claimed. `NoFill` is needed only for
`MutexHeldOnlyInCall`, for the reason given there too. `DirtyIsWritten` says that
`IWriteBlock()` does not fail and that no call discards a cache (`dropCache`,
`suppress`): after a failed write `FlushCache()`, and always `DropCache()`, deletes
dirty blocks that stay counted in `m_nDirtyBlocks`. The runs `evict` and `drop`
satisfy the first hypothesis, `drop` the second too, `live` all three.

`WritesSucceed` and `SingleThread` are what the pixels need: after a failed write
they are lost, and with two threads `ReadsLastWrite` fails as section 3 says and
`FlushedIsOnDisk` as run `v_flush` shows. Reads may fail, and a cache may be
dropped. Run `single` has allocations fail instead of `AllocationsSucceed`; it checks
the two statements beyond what is proved.

The inductive invariant has seven layers, the first three each on top of the one
before; `AliveInv`, `MemInv` and `PixelInv` on top of `FiledInv`, `DirtyInv` on top of
`AliveInv`:

* `ControlInv`: types; `hRBLock` and the rounds; which operation is at which label
  (`CallOf`), that owners work on bands of their own datasets, that a scan pointer
  is in the list and a round has no holes (`ScanOf`).
* `OwnInv` (theorem `Ownership`): what the block of a thread is (`KeysOf`), the
  storage of a hash set that `FlushCache()` has moved away (`OldSetOf`), list,
  slots and free lists refer to block objects of the right key (`StoreInv`), a
  block is in one place (`Exclusive`), and
  `nLockCount` is 1 for a user less 1 for a claim or a free list (`LocksExact`).
  `LockCountExact` is not inductive alone: an exchange from 0 to -1 claims a block
  nobody uses only because blocks in free lists and in rounds have -1 already; that
  in turn needs that the slots and the list never name a recycled block.
* `FiledInv` (theorem `Storage`): every block object is in the list, claimed, in a
  free list or new (`Placed`); a block of the list is in its slot or held
  (`Found`); the slot of a block that is being created is empty, or about to be
  emptied by the evictor that made `TakeLock()` fail (`NewOf`); and what
  `FlushCache()` has passed stays empty (`LoopOf`), as nobody but the owner fills a
  slot.
* `AliveInv` (theorem `Lifetime`): the keep-alive counter of a band is the number
  of blocks taken from it and of evictors that have pushed one back and not yet
  decremented it (`Counted`); the bands of block objects, calls and evictors
  exist, and those of a dataset live and die together (`Alive`). The destructor
  destroys a band when the counter is 0 and the loop has emptied it; both layers
  are needed for that.
* `MemInv` (theorem `MemoryInvariant`): a block of the list has memory unless its
  thread is still inside `Internalize()` (`Listed`); a new block has none until it
  is allocated and is charged once, in the first round, whereas a block that is
  used, claimed or flushed has memory, and is in the list if it is still to be
  detached (`MemoryOf`); `nCacheUsed` counts both (`CacheUsedExact`).
  `CacheUsedExact` is not inductive alone: `Detach_unlocked()` subtracts what
  `pData` says, and a claim of a block that another thread is about to allocate
  would return memory that was not taken. `Pixels` says that only blocks with
  memory reach a file; with it, `TypeOK` follows.
* `DirtyInv`: no error is pending (`Healthy`); a block that `Write()` is done with
  is clean until it is released or deleted (`CleanOf`), and so are the blocks of
  the free lists, which are deleted or recycled without a look at `bDirty`
  (`FreeAreClean`). That the destructor may reset the counter needs `AliveInv`: no
  block of the band is left.
* `PixelInv` (theorem `PixelsInvariant`): the last pixels written for a key are on
  disk, or a block bears them (`Kept`); a block *bears* pixels when it is dirty, or
  when `Write()` has marked it clean and is about to write it (`Bears`), and they are
  the last ones (`BearsLast`); a block in the storage has them too, unless the
  thread has still to fill it (`StoresLast`, `Loading`); and a block is clean when it
  is new, read, or about to be released or deleted (`SettledOf`, `FreeAreClean`).
  While `DropCache()` or a suppressed dataset discards a band, its keys are exempt
  (`Dropped`); `FlushEnds` settles them. `ReadsLastWrite` is not inductive: a block is
  read from disk on the strength of an empty slot, and that is right only if no
  dirty block of the key is anywhere else (`DirtyIsStored`, from `Placed` and
  `Found`). `FlushedIsOnDisk` follows in the same way: a dirty block would be in the
  storage, which the loop has emptied.

`HeldInCall` is a layer of its own over `ControlInv`: who owns the read/write
mutex is inside a call that has taken it.

Each layer follows one pattern: an action lemma says what a step of thread `t` does
to the shared state (`Changes`, `PlacedStep`, `FoundStep`, `Lives`, ...); a lemma
says that such a step keeps what other threads rely on (`Others`: a step of `t`
changes no private variable of another thread); and one lemma per family of actions
(requests, block I/O, eviction, flush) covers the rest. Steps that do not touch
the layer are dispatched by `Local`, `Quiet`, `Steady`, `Still`, `Calm`, `Dull` or
`Inert`, which say that nothing of it changed.

### 4.2 The thread pool

`WorkerThreadPoolProofs`, from `ThreadsAssumption` (at least one thread may be
created; clients are not workers), `CallsAssumption`, `BoundsAssumption` and
`JobsAssumption` (finitely many jobs, and a job is submitted by one job at most):

* `CountersExact`: `Spec => []PoolConsistent`.
* `CompletionIsReal`: `Spec => CompletionMeansDone`, an action property: when a
  `WaitCompletion()` or the destructor returns, the jobs are done.
* `LocksInBothOrders`: `"worker" \notin Spurious => (Spec => []NoCircularWait)`.
  `m_mutex` and the mutex of a worker are taken in both orders, and still no two
  threads wait for each other.

The strengthening: `Shape`, the types and which call is at which label;
`JobInOnePlace`, a job is in the queue, on one stack, reserved by one thread or
done; `ListExact`, the list of waiting workers is the set of the workers marked as
waiting, without duplicates, and `nWaitingWorkerThreads` its length less the
reservations; `PoolPending` and `QueuePending`, the two kinds of pending counts as
cardinalities; `PendingAreSubmitted`, which bounds them between the two critical
sections of a nested submission. `Counted` is their conjunction; no one of them is
inductive without the first two. `CompletionIsReal` adds `DestructorAlone`, since
what the destructor has waited for must not change before it returns.

`LocksInBothOrders` rests on the list of waiting workers. `LockOrder` says that, until
the destructor stops the workers (`Stopping`), a listed worker sleeps or is about to,
with `m_mutex` in its hand (`ListedSleeps`); and that whoever is about to lock the
mutex of a worker holds `m_mutex` and has taken off the list a worker that is asleep
(`NotifiesSleeper`), so that the worker's mutex is free. A wake-up without
notification breaks exactly this (section 3).

The same module proves `PoolRefinesJobPool`: `Spec => Pool!PoolSafety`,
the safety part of `ImplementsJobPool`. `StepKinds` says that every step leaves
queue, stacks and finished jobs as they are or is one of the steps that submit, take
or return a job; each of these is shown to be the step of `JobPool` that it stands
for. The guard of the abstract return, that all children are done, needs `Family`
on top of `Counted`: an empty queue of a job says that the children it has queued
are done, and `ChildrenFollowed` that the others ran above it on the stack
and have left it.

### 4.3 The gzip writer

`GzipWriterProofs`, from `GzipAssumption` (the jobs of the pool are one compression
and one CRC per chunk, none of which submits others; chunks are not empty) and
`NThreadsAssumption`, for any number of threads, any chunk size, any sequence of
writes and any number of failing writes of the base handle, with or without the
header in the file:

* `BuffersAreConsistent`: `Spec => []BuffersConsistent`, the type invariant included.
* `OutputIsInOrder`: `Spec => []OutputInOrder`.
* `ClosedStreamsAreComplete`: `Spec => []ClosedStreamComplete`.
* `ErrorsAreReported`: `Spec => []ErrorReported`, which speaks of chunks and trailer; of
  the header it says only that nothing else is missing when nothing was reported.

All four follow from one inductive invariant, `WriterInv` (`WriterInvariant`), since
each rests on the others: bytes are in order because the buffer of a chunk holds the
bytes of that chunk when its task reads it, which holds because no buffer or Job
object is recycled under a task, which holds because the sequence numbers say
exactly which chunks are not through. An object is *live* from `GetJobObject()`
until it is recycled. The parts say that

* the chunks from `Low` to `High` have one live object each and no other chunk has
  (`Chunks`); `Low` is `nSeqNumberExpectedCRC` or, without a CRC, `nSeqNumberExpected`;
* a live object is in one stage of its way: with a compression task, in
  `apoFinishedJobs` or in the hand of the writing thread until it is written, and from
  `bInCRCComputation` on being submitted, with a CRC task or in
  `apoCRCFinishedJobs_` (`Stages`, `TasksOnLive`, `InHand`);
* objects and buffers are free or in one place (`Places`, `Lists`), a buffer holds
  the bytes of its chunk (`Contents`), and file, SOZip index and CRC end where the
  expected sequence numbers say (`Output`, `Index`, `Trailer`);
* what `ProcessCompletedJobs()` and `Close()` know at each label (`Control`, `Loops`,
  `Closes`): after the first `WaitCompletion()` no chunk is still to be compressed,
  after the second no CRC is, which is why the lists are empty then.

That `GetJobObject()` never makes more objects than there are buffers is a pigeonhole
argument (`ObjectLeft`): when no object is free and all have been made, each of them
holds a buffer of its own, and none is left for the new chunk. TLC checked
`WriterInv` on the instance of run `gzip` before it was proved.

### 4.4 The streaming reader

`CurlStreamingProofs`, from `SizesAssumption`, for files, ring buffers, chunks of
libcurl and reads of any size and any number of failed transfers and retries:

* `ReadsAreExact`: `Trusted => (Spec => []ReadExact)`.
* `StreamIsConsistent`: `Trusted => (Spec => []StreamConsistent)`.
* `ShortReadsAreExplained`: `Trusted => (Spec => ShortReadExplained)`, an action property.

`Trusted` says that servers answer with the file (`Bodies = {"file"}`) and that no
download is started between the two stores that end another one (`StartSeesGap =
FALSE`). These are the constants of run `streaming`. The code ensures neither: run
`v_http` shows `ReadExact` fail without the first, and `ReadsAtRingOffset`, a part of
`StreamConsistent`, fails without the second (section 3).

The lemmas about the ring come first: `PlaceIsDistance`, `PlaceAdds` and
`DistanceFromEnd` are all that is needed of the arithmetic modulo the buffer size, and
`RingWriteInPlace` and its counterparts for reading say that `RingBuffer::Write()` and
`Read()` keep "the ring holds the bytes of the file from `ringOffset` on", wherever
they wrap. The inductive invariant `StreamInv` adds to it where the chunk in the
callback belongs (`Received`); that a download which ends without an error has
reached the end of the file (`EndedAtFileSize`); what `Read()` has gathered and where
it stands in file and ring at each label (`InFile`, `InRing`); that a known size is
the size of the file (`SizeExact`); and why `bEOF` is set (`EofExplained`).

### 4.5 The dataset pool

`DatasetPoolProofs`, for any finite sets of threads and proxies, any files, sizes of
the pool and limits of memory, from `ProxiesAssumption` (the types of what the
program passes to the proxies; a VRT or PRF has a plain file as its source),
`PoolAssumption` (the pool has two entries or more, as `GDALGetMaxDatasetPoolSize()`
ensures) and
`NamesAssumption` (the names of top-level proxies, of handles and null are apart):

* `EntriesAreConsistent`: `Spec => []EntriesConsistent`.
* `DatasetsInUseStayOpen`: `Spec => []InUseStaysOpen`.
* `DatasetsSharedByOneOwner`: `Spec => []SharedByOneOwner`.
* `PoolOutlivesItsProxies`: `Spec => []PoolOutlivesProxies`.

All four follow from one inductive invariant, `PoolInv`, because each needs the
others. A dataset in use is not closed because its `refCount` is not 0, so the counts
must be exact (`Counted`): the references on an entry are *slots*, one for each
dataset on the stack of a thread and one for a call that has its entry but has not
returned it. An entry that is being opened has one opener and no slot, so that
`OpenSucceeds` may store 1, which needs that nobody takes an entry with a `refCount`
of -1, and that the opener's parameters are still those of the entry (`OpenOK`).
Which proxies share an entry (`SlotsMatch`, `OneUnshared`) needs that a proxy keeps
its parameters while it is used, that is, that one thread at a time uses it
(`Exclusive`) and that the dataset of an inner proxy stays open. Closing a dataset
closes the one of its inner proxy in the same step; `Closing` says what such a
recursion may do, and that it stops after one level (`InnerOK`). That the pool
exists while a proxy does (`PoolExists`) needs the count of its references
(`ProxiesCounted`, an inequality: run `v_ghost` shows a reference that is never
dropped) and, for `ForceDestroy()`, that the others do nothing during
`~GDALDriverManager()` (`Prevention`). The memory in use is stated as the cardinality
of a set of units (`RamUnits`), which the theorems on finite sets can reason about,
and not as a sum over the entries.

The proof has a lemma for each action (`RefHitStep`, `ReserveStep`, `OpenedStep`,
`UnrefKeepsPool` ...), over lemmas about the operators of the model
(`ToFrontKeepsList`, `EmptiedIsOK`, `CloseUnusedCloses`) and about what a push or
pop does to the slots (`SlotsPush`, `SlotsPop`).

### 4.6 Only model-checked

* Everything that is liveness: `CallsReturn` of all modules, the fairness of
  `ImplementsJobPool`.
* `NoBlockLeaked` and `ImplementsLru`, whose statement walks the links: an
  induction over data that the installed provers cannot do. `NoWakeUpLost` uses a
  fold, which is out of reach for the same reason.
* Of `RasterBlockCache`: `CacheBounded`. It needs an argument about the order of
  the list (the block a thread has locked and touched is the newest of its own, so a
  scan meets one locked block per thread at most), and two cardinalities.
* Of `DatasetPool`: `NoOrphanDataset`, which compares two cardinalities per file and
  owner and holds only where one thread makes the proxies of a file and an owner and
  no file is used by both shared and other proxies.

## 5. Plan

Done: the block list, the cache, the thread pool, the gzip writer, the dataset
pool, the streaming reader, their runs; proofs about all of them.

Next, in this order:

1. `CacheBounded`, over `MemInv`.
2. `NoOrphanDataset`, over `PoolInv`, with the condition on the proxies as a hypothesis.
3. Models: `GDALThreadSafeDataset` with `lru11`; GTiff compression as a second user
   of `JobPool`; `ChunkAndWarpMulti()`.

**Not modelled.** The largest part of the repository is codecs (some two hundred
raster and vector drivers), geometry, numeric algorithms, SQL, command line
parsing, tables of constants, bindings and vendored libraries. They keep no shared
state and no protocol; a model would be a transliteration of formats or
arithmetic that TLC cannot enumerate. The modelled files are a small share of the
lines for this reason.

## 6. Running

    tlc -workers 2 -config MCEvict.cfg MCRasterBlockCache
    tlapm RasterBlockListProofs.tla

The names of the runs and their configuration files are in `PROJECT.json`.
