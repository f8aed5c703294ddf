------------------------------ MODULE GzipWriter ------------------------------
(***************************************************************************)
(* VSIGZipWriteHandleMT of port/cpl_vsil_gzip.cpp: a thread writes a       *)
(* stream that is cut into chunks; the workers of a CPLWorkerThreadPool    *)
(* (module JobPool) compress the chunks and compute their CRCs in any      *)
(* order; the writing thread puts the results in the file, and combines    *)
(* the CRCs, in sequence.  Buffers and Job objects are recycled.           *)
(*                                                                         *)
(* The bytes of the stream are numbered 1, 2, ... in the order they are    *)
(* given to Write().  What zlib makes of a buffer is represented by the    *)
(* bytes that went in, and a CRC by the bytes it covers, so that           *)
(* crc32_combine() is concatenation.                                       *)
(***************************************************************************)
EXTENDS JobPool, SequencesExt

CONSTANTS
    DeflateTypes,   \* formats of the stream: "GZIP", "RAW"
    ChunkSize,      \* nChunkSize_
    MaxBytes,       \* bound on the bytes given to Write()
    MaxWrite,       \* bound on the bytes given to one Write()
    MaxErrors       \* bound on the writes of chunks and of the trailer that fail;
                    \* when it is 0 the write of the header succeeds too

MaxChunks == MaxBytes \div ChunkSize
PoolJobs == {"deflate", "crc"} \X (0..MaxChunks)
Buffers == 1..NThreads + 2      \* 1 + nThreads_, and the one Close() may add
Objs == 1..NThreads + 2         \* Job objects
None == 0

ASSUME GzipAssumption ==
    /\ Jobs = PoolJobs
    /\ \A j \in Jobs : Children[j] = {}
    /\ DeflateTypes \subseteq {"GZIP", "RAW"}
    /\ ChunkSize \in Nat \ {0} /\ MaxWrite \in Nat \ {0}
    /\ MaxBytes \in Nat /\ MaxErrors \in Nat

VARIABLES
    nDeflateType,
    header,                 \* the write of the gzip header succeeded
    pc,                     \* where the writing thread is (see Pcs)
    caller,                 \* the call ProcessCompletedJobs() returns to
    nLeft,                  \* bytes Write() has still to consume
    nCurOffset,             \* nCurOffset_
    content,                \* bytes in each buffer
    aposBuffers,            \* free buffers, taken from the end
    pCurBuffer,
    job,                    \* the Job objects
    nObjs,                  \* Job objects created, 1..nObjs
    nSeqNumberGenerated, nSeqNumberExpected, nSeqNumberExpectedCRC,
    apoFinishedJobs, apoCRCFinishedJobs, apoFreeJobs,
    doItAgain,              \* do_it_again of ProcessCompletedJobs()
    psJob,                  \* the Job being submitted or written
    nBefore,                \* nPendingJobsBefore of WaitEvent()
    nCRC,                   \* nCRC_: the bytes covered
    out,                    \* bytes of the stream in the file, in file order
    ended,                  \* the last deflate block is in the file
    trailer,                \* CRC and size written by Close()
    panSOZIPIndex,          \* places in the file of the chunks but the first
    nErrors,                \* writes of chunks and of the trailer that failed
    bHasErrored, nRet,      \* what Write() and Close() report
    objOf,                  \* the Job object a task of the pool works on
    pushed,                 \* tasks that have put their object in a list
    deleted                 \* Job objects deleted by the destructor

lists == <<aposBuffers, apoFinishedJobs, apoCRCFinishedJobs, apoFreeJobs>>
seqs == <<nSeqNumberGenerated, nSeqNumberExpected, nSeqNumberExpectedCRC>>
file == <<nCRC, out, ended, trailer, panSOZIPIndex, nErrors, bHasErrored, nRet>>
data == <<nLeft, nCurOffset, content, pCurBuffer, job, nObjs>>
vars == <<poolVars, nDeflateType, header, pc, caller, data, lists, seqs, doItAgain,
          psJob, nBefore, file, objOf, pushed, deleted>>

(* Between crcLoop, writeLoop and combine the thread holds sMutex_. *)
Locked == {"crcLoop", "writeLoop", "combine"}
Pcs == Locked \cup {"idle", "write", "getBuffer", "waitEvent", "submitCrc",
                    "writeChunk", "process", "waitCompletion", "finish",
                    "closed", "deleted"}

EmptyJob == [seq |-> 0, buf |-> None, finish |-> FALSE, inCRC |-> FALSE,
             bytes |-> <<>>, crc |-> <<>>]

(* The constructor writes the header of a gzip stream, and does not look   *)
(* at the result of poBaseHandle_->Write().                                *)
Init ==
    /\ PoolInit
    /\ nDeflateType \in DeflateTypes
    /\ header \in BOOLEAN
    /\ ~header => nDeflateType = "GZIP" /\ MaxErrors > 0
    /\ pc = "idle" /\ caller = "Write"
    /\ nLeft = 0 /\ nCurOffset = 0
    /\ content = [b \in Buffers |-> <<>>]
    /\ aposBuffers = [i \in 1..1 + NThreads |-> i]
    /\ pCurBuffer = None
    /\ job = [o \in Objs |-> EmptyJob] /\ nObjs = 0
    /\ nSeqNumberGenerated = 0 /\ nSeqNumberExpected = 0
    /\ nSeqNumberExpectedCRC = 0
    /\ apoFinishedJobs = <<>> /\ apoCRCFinishedJobs = <<>> /\ apoFreeJobs = <<>>
    /\ doItAgain = FALSE /\ psJob = None /\ nBefore = 0
    /\ nCRC = <<>> /\ out = <<>> /\ ended = FALSE
    /\ trailer = <<>> /\ panSOZIPIndex = <<>> /\ nErrors = 0
    /\ bHasErrored = FALSE /\ nRet = 0
    /\ objOf = [j \in Jobs |-> None]
    /\ pushed = {} /\ deleted = {}

GzipFormat == nDeflateType = "GZIP"
nPendingJobs == Len(queued) + Cardinality(running)
Unlocked == pc \notin Locked

-----------------------------------------------------------------------------
(* Tasks of the pool *)

SubmitTask(kind, s, o) ==
    /\ Submit(<< <<kind, s>> >>)
    /\ objOf' = [objOf EXCEPT ![<<kind, s>>] = o]

(* DeflateCompress() and CRCCompute(): the object is put in a list inside   *)
(* the task, before the pool knows that the task is over.                  *)
DeflateTask(s) ==
    LET t == <<"deflate", s>>
    IN  /\ t \in running \ pushed
        /\ Unlocked
        /\ job' = [job EXCEPT ![objOf[t]].bytes = content[job[objOf[t]].buf]]
        /\ apoFinishedJobs' = Append(apoFinishedJobs, objOf[t])
        /\ pushed' = pushed \cup {t}
        /\ UNCHANGED <<poolVars, pc, caller, nLeft, nCurOffset, content,
                       pCurBuffer, nObjs, aposBuffers, apoCRCFinishedJobs,
                       apoFreeJobs, seqs, doItAgain, psJob, nBefore, file, objOf,
                       deleted>>

CRCTask(s) ==
    LET t == <<"crc", s>>
    IN  /\ t \in running \ pushed
        /\ Unlocked
        /\ job' = [job EXCEPT ![objOf[t]].inCRC = TRUE,
                              ![objOf[t]].crc = content[job[objOf[t]].buf]]
        /\ apoCRCFinishedJobs' = Append(apoCRCFinishedJobs, objOf[t])
        /\ pushed' = pushed \cup {t}
        /\ UNCHANGED <<poolVars, pc, caller, nLeft, nCurOffset, content,
                       pCurBuffer, nObjs, aposBuffers, apoFinishedJobs,
                       apoFreeJobs, seqs, doItAgain, psJob, nBefore, file, objOf,
                       deleted>>

PoolStep ==
    /\ \/ Take
       \/ \E t \in pushed : Finish(t)
    /\ UNCHANGED <<pc, caller, data, lists, seqs, doItAgain, psJob, nBefore,
                   file, objOf, pushed, deleted>>

-----------------------------------------------------------------------------
(* ProcessCompletedJobs() *)

WriteFailsIgnored(ok) == FALSE
WriteFails(ok) == caller = "Write" /\ ~ok
ReturnFromProcess(ok) ==
    LET next == CASE caller = "Write"  -> IF ok THEN "getBuffer" ELSE "idle"
                  [] caller = "Close1" -> IF ok /\ GzipFormat
                                          THEN "waitCompletion" ELSE "finish"
                  [] caller = "Close2" -> "finish"
    IN  /\ pc' = next
        /\ caller' = IF next = "waitCompletion" THEN "Close2" ELSE caller
        /\ bHasErrored' = (bHasErrored \/ WriteFails(ok))
        /\ nRet' = IF caller = "Close1" /\ ~ok THEN -1 ELSE nRet
        /\ nLeft' = IF ok THEN nLeft ELSE 0

EnterProcess ==
    /\ pc = "process"
    /\ pc' = IF GzipFormat THEN "crcLoop" ELSE "writeLoop"
    /\ doItAgain' = FALSE
    /\ UNCHANGED <<poolVars, caller, data, lists, seqs, psJob, nBefore, file,
                   objOf, pushed, deleted>>

(* Every finished job has its CRC computed; sMutex_ is released while the  *)
(* task is submitted, and jobs that finish meanwhile are seen by the loop. *)
NeedsCRC(o) == ~job[o].inCRC
CrcLoop ==
    /\ pc = "crcLoop"
    /\ LET i == SelectInSeq(apoFinishedJobs, NeedsCRC)
       IN  IF i = 0
           THEN /\ pc' = "writeLoop"
                /\ UNCHANGED <<job, psJob>>
           ELSE /\ pc' = "submitCrc"
                /\ psJob' = apoFinishedJobs[i]
                /\ job' = [job EXCEPT ![apoFinishedJobs[i]].inCRC = TRUE]
    /\ UNCHANGED <<poolVars, caller, nLeft, nCurOffset, content, pCurBuffer,
                   nObjs, lists, seqs, doItAgain, nBefore, file, objOf, pushed,
                   deleted>>

(* Close() may get here without a pool, and then computes the CRC itself.  *)
HasPool == nSeqNumberGenerated > 0
SubmitCrc ==
    /\ pc = "submitCrc"
    /\ pc' = "crcLoop"
    /\ IF HasPool
       THEN /\ SubmitTask("crc", job[psJob].seq, psJob)
            /\ UNCHANGED <<job, apoCRCFinishedJobs>>
       ELSE /\ job' = [job EXCEPT ![psJob].crc = content[job[psJob].buf]]
            /\ apoCRCFinishedJobs' = Append(apoCRCFinishedJobs, psJob)
            /\ UNCHANGED <<poolVars, objOf>>
    /\ UNCHANGED <<caller, nLeft, nCurOffset, content, pCurBuffer, nObjs,
                   aposBuffers, apoFinishedJobs, apoFreeJobs, seqs, doItAgain,
                   psJob, nBefore, file, pushed, deleted>>

(* The job to write next is taken off the list and sMutex_ released. *)
IsExpectedIgnored(o) == TRUE
IsExpected(o) == job[o].seq = nSeqNumberExpected
WriteLoop ==
    /\ pc = "writeLoop"
    /\ LET i == SelectInSeq(apoFinishedJobs, IsExpected)
       IN  IF i = 0
           THEN /\ pc' = "combine"
                /\ UNCHANGED <<psJob, apoFinishedJobs>>
           ELSE /\ pc' = "writeChunk"
                /\ psJob' = apoFinishedJobs[i]
                /\ apoFinishedJobs' = RemoveAt(apoFinishedJobs, i)
    /\ UNCHANGED <<poolVars, caller, data, aposBuffers, apoCRCFinishedJobs,
                   apoFreeJobs, seqs, doItAgain, nBefore, file, objOf, pushed,
                   deleted>>

(* The buffer and the object of a job that is through are free again. *)
Recycle(o) ==
    /\ aposBuffers' = Append(aposBuffers, job[o].buf)
    /\ apoFreeJobs' = Append(apoFreeJobs, o)
    /\ job' = [job EXCEPT ![o].buf = None]

(* poBaseHandle_->Write(): an error is reported at once, but the sequence  *)
(* number has moved on.                                                    *)
RecycledAfterWriteAlways == TRUE
RecycledAfterWrite == ~GzipFormat
IndexedInSozip == nSeqNumberExpected # 0 /\ content[job[psJob].buf] # <<>>
WriteChunk ==
    /\ pc = "writeChunk"
    /\ nSeqNumberExpected' = nSeqNumberExpected + 1
    /\ panSOZIPIndex' = IF IndexedInSozip
                        THEN Append(panSOZIPIndex, Len(out)) ELSE panSOZIPIndex
    /\ IF RecycledAfterWrite THEN Recycle(psJob)
       ELSE UNCHANGED <<aposBuffers, apoFreeJobs, job>>
    /\ \/ /\ out' = out \o job[psJob].bytes
          /\ ended' = (ended \/ job[psJob].finish)
          /\ doItAgain' = TRUE
          /\ pc' = "combine"
          /\ UNCHANGED <<caller, bHasErrored, nRet, nLeft, nErrors>>
       \/ /\ nErrors < MaxErrors
          /\ nErrors' = nErrors + 1
          /\ ReturnFromProcess(FALSE)
          /\ UNCHANGED <<out, ended, doItAgain>>
    /\ UNCHANGED <<poolVars, nCurOffset, content, pCurBuffer, nObjs,
                   apoFinishedJobs, apoCRCFinishedJobs, nSeqNumberGenerated,
                   nSeqNumberExpectedCRC, psJob, nBefore, nCRC, trailer, objOf,
                   pushed, deleted>>

(* The CRC that is next in sequence is combined, and its job recycled. *)
IsExpectedCRC(o) == job[o].seq = nSeqNumberExpectedCRC
Combine ==
    /\ pc = "combine"
    /\ LET i == IF GzipFormat THEN SelectInSeq(apoCRCFinishedJobs, IsExpectedCRC)
                ELSE 0
       IN  IF i = 0
           THEN /\ IF doItAgain
                   THEN /\ pc' = IF GzipFormat THEN "crcLoop" ELSE "writeLoop"
                        /\ UNCHANGED <<caller, bHasErrored, nRet, nLeft>>
                   ELSE ReturnFromProcess(TRUE)
                /\ UNCHANGED <<aposBuffers, apoCRCFinishedJobs, apoFreeJobs, job,
                               nSeqNumberExpectedCRC, nCRC>>
           ELSE /\ apoCRCFinishedJobs' = RemoveAt(apoCRCFinishedJobs, i)
                /\ nCRC' = nCRC \o job[apoCRCFinishedJobs[i]].crc
                /\ nSeqNumberExpectedCRC' = nSeqNumberExpectedCRC + 1
                /\ Recycle(apoCRCFinishedJobs[i])
                /\ pc' = "crcLoop"
                /\ UNCHANGED <<caller, bHasErrored, nRet, nLeft>>
    /\ doItAgain' = FALSE
    /\ UNCHANGED <<poolVars, nCurOffset, content, pCurBuffer, nObjs,
                   apoFinishedJobs, nSeqNumberGenerated, nSeqNumberExpected,
                   psJob, nBefore, out, ended, trailer, panSOZIPIndex, nErrors,
                   objOf, pushed, deleted>>

-----------------------------------------------------------------------------
(* Write() *)

Write(n) ==
    /\ pc = "idle"
    /\ ~bHasErrored
    /\ nCurOffset + n <= MaxBytes
    /\ nLeft' = n
    /\ pc' = IF pCurBuffer = None THEN "getBuffer" ELSE "write"
    /\ caller' = "Write"
    /\ UNCHANGED <<poolVars, nCurOffset, content, pCurBuffer, job, nObjs, lists,
                   seqs, doItAgain, psJob, nBefore, file, objOf, pushed, deleted>>

(* Takes a free buffer; when there is none, waits for a task of the pool   *)
(* to end (WaitEvent()) and looks for completed jobs.                      *)
NothingPendingIgnored == FALSE
NothingPending == nPendingJobs = 0
GetBuffer ==
    /\ pc = "getBuffer"
    /\ IF aposBuffers # <<>>
       THEN /\ pCurBuffer' = Last(aposBuffers)
            /\ aposBuffers' = Front(aposBuffers)
            /\ content' = [content EXCEPT ![Last(aposBuffers)] = <<>>]
            /\ pc' = "write"
            /\ UNCHANGED nBefore
       ELSE /\ pc' = IF NothingPending THEN "process" ELSE "waitEvent"
            /\ nBefore' = nPendingJobs
            /\ UNCHANGED <<pCurBuffer, aposBuffers, content>>
    /\ UNCHANGED <<poolVars, caller, nLeft, nCurOffset, job, nObjs,
                   apoFinishedJobs, apoCRCFinishedJobs, apoFreeJobs, seqs,
                   doItAgain, psJob, file, objOf, pushed, deleted>>

WaitEvent ==
    /\ pc = "waitEvent"
    /\ nPendingJobs < nBefore
    /\ pc' = "process"
    /\ UNCHANGED <<poolVars, caller, data, lists, seqs, doItAgain, psJob,
                   nBefore, file, objOf, pushed, deleted>>

(* GetJobObject(): a recycled object keeps its former fields but two. *)
NewObj == IF apoFreeJobs # <<>> THEN Last(apoFreeJobs) ELSE nObjs + 1
GetJobObject(buf, last, bytes) ==
    LET old == IF apoFreeJobs # <<>> THEN job[NewObj] ELSE EmptyJob
    IN  /\ apoFreeJobs' = IF apoFreeJobs # <<>> THEN Front(apoFreeJobs) ELSE <<>>
        /\ nObjs' = IF apoFreeJobs # <<>> THEN nObjs ELSE nObjs + 1
        /\ job' = [job EXCEPT ![NewObj] =
                     [old EXCEPT !.inCRC = FALSE, !.bytes = bytes, !.buf = buf,
                                 !.seq = nSeqNumberGenerated,
                                 !.finish = last \/ @]]

(* Bytes go to the current buffer; a full one becomes a job. *)
Consume ==
    LET room == ChunkSize - Len(content[pCurBuffer])
        n    == IF nLeft < room THEN nLeft ELSE room
    IN  /\ pc = "write"
        /\ content' = [content EXCEPT
                         ![pCurBuffer] = @ \o [i \in 1..n |-> nCurOffset + i]]
        /\ nCurOffset' = nCurOffset + n
        /\ nLeft' = nLeft - n
        /\ IF n = room
           THEN /\ GetJobObject(pCurBuffer, FALSE, <<>>)
                /\ nSeqNumberGenerated' = nSeqNumberGenerated + 1
                /\ pCurBuffer' = None
                /\ SubmitTask("deflate", nSeqNumberGenerated, NewObj)
                /\ pc' = IF nLeft = n THEN "idle" ELSE "getBuffer"
           ELSE /\ pc' = "idle"
                /\ UNCHANGED <<poolVars, objOf, pCurBuffer, nSeqNumberGenerated,
                               job, nObjs, apoFreeJobs>>
        /\ UNCHANGED <<caller, aposBuffers, apoFinishedJobs, apoCRCFinishedJobs,
                       nSeqNumberExpected, nSeqNumberExpectedCRC, doItAgain,
                       psJob, nBefore, file, pushed, deleted>>

-----------------------------------------------------------------------------
(* Close() and the destructor *)

(* The last chunk, possibly empty, is compressed by the thread itself. *)
Close ==
    LET buf == IF pCurBuffer = None THEN NThreads + 2 ELSE pCurBuffer
    IN  /\ pc = "idle"
        /\ GetJobObject(buf, TRUE, content[buf])
        /\ apoFinishedJobs' = Append(apoFinishedJobs, NewObj)
        /\ pCurBuffer' = None
        /\ pc' = "waitCompletion"
        /\ caller' = "Close1"
        /\ UNCHANGED <<poolVars, nLeft, nCurOffset, content, aposBuffers,
                       apoCRCFinishedJobs, seqs, doItAgain, psJob, nBefore, file,
                       objOf, pushed, deleted>>

WaitCompletionIgnored == TRUE
WaitCompletion == nPendingJobs = 0
CloseWaits ==
    /\ pc = "waitCompletion"
    /\ WaitCompletion
    /\ pc' = "process"
    /\ UNCHANGED <<poolVars, caller, data, lists, seqs, doItAgain, psJob,
                   nBefore, file, objOf, pushed, deleted>>

WriteTrailer ==
    /\ pc = "finish"
    /\ pc' = "closed"
    /\ \/ /\ trailer' = IF GzipFormat THEN <<nCRC, nCurOffset>> ELSE <<>>
          /\ UNCHANGED <<nErrors, nRet>>
       \/ /\ GzipFormat /\ nErrors < MaxErrors
          /\ nErrors' = nErrors + 1
          /\ nRet' = -1
          /\ UNCHANGED trailer
    /\ UNCHANGED <<poolVars, caller, data, lists, seqs, doItAgain, psJob,
                   nBefore, nCRC, out, ended, panSOZIPIndex, bHasErrored, objOf,
                   pushed, deleted>>

(* The objects that are in a list are deleted; the pool, whose destructor  *)
(* waits for its tasks, is destroyed after them.                           *)
Delete ==
    /\ pc = "closed"
    /\ pc' = "deleted"
    /\ deleted' = Range(apoFinishedJobs) \cup Range(apoCRCFinishedJobs)
                  \cup Range(apoFreeJobs)
    /\ UNCHANGED <<poolVars, caller, data, lists, seqs, doItAgain, psJob,
                   nBefore, file, objOf, pushed>>

-----------------------------------------------------------------------------
WriterStep ==
    \/ EnterProcess \/ CrcLoop \/ SubmitCrc \/ WriteLoop \/ WriteChunk \/ Combine
    \/ GetBuffer \/ WaitEvent \/ Consume \/ CloseWaits \/ WriteTrailer

Tasks == \E s \in 0..MaxChunks : DeflateTask(s) \/ CRCTask(s)

Next ==
    /\ \/ WriterStep
       \/ \E n \in 1..MaxWrite : Write(n)
       \/ Close
       \/ Delete
       \/ PoolStep
       \/ Tasks
    /\ UNCHANGED <<nDeflateType, header>>

(* The writing thread and the workers are scheduled. *)
Spec ==
    /\ Init /\ [][Next]_vars
    /\ WF_vars(WriterStep /\ UNCHANGED <<nDeflateType, header>>)
    /\ WF_vars(PoolStep /\ UNCHANGED <<nDeflateType, header>>)
    /\ WF_vars(Tasks /\ UNCHANGED <<nDeflateType, header>>)

-----------------------------------------------------------------------------
(* Properties *)

(* Every variable keeps its type; no more Job objects are made than there  *)
(* are buffers, as GetJobObject() recycles them.                           *)
TypeOK ==
    /\ nDeflateType \in DeflateTypes
    /\ pc \in Pcs
    /\ caller \in {"Write", "Close1", "Close2"}
    /\ content \in [Buffers -> Seq(1..MaxBytes)]
    /\ aposBuffers \in Seq(Buffers)
    /\ pCurBuffer \in Buffers \cup {None}
    /\ nObjs \in 0..Cardinality(Objs)
    /\ \A o \in Objs : job[o].buf \in Buffers \cup {None}
    /\ \A l \in {apoFinishedJobs, apoCRCFinishedJobs, apoFreeJobs} :
          l \in Seq(1..nObjs)
    /\ nLeft \in 0..MaxWrite /\ nCurOffset \in 0..MaxBytes
    /\ nRet \in {0, -1} /\ bHasErrored \in BOOLEAN

(* The file holds bytes of the stream in stream order, none twice; as long *)
(* as no write has failed there is no hole, and each entry of the SOZip    *)
(* index is the place where a chunk starts.                                *)
OutputInOrder ==
    /\ \A i, k \in DOMAIN out : i < k => out[i] < out[k]
    /\ nErrors = 0 =>
          /\ \A i \in DOMAIN out : out[i] = i
          /\ \A i \in DOMAIN panSOZIPIndex : panSOZIPIndex[i] = i * ChunkSize

(* A buffer is in one place only: free, being filled, or held by the Job   *)
(* of one chunk that is not through.                                       *)
BufferInOnePlace ==
    /\ IsInjective(aposBuffers)
    /\ pCurBuffer \notin Range(aposBuffers)
    /\ \A o \in Objs : job[o].buf # None =>
          /\ job[o].buf \notin Range(aposBuffers) \cup {pCurBuffer}
          /\ \A p \in Objs \ {o} : job[p].buf # job[o].buf

(* A Job object is not recycled while a task of the pool has still to read *)
(* it, or before its compressed bytes have been written.                   *)
RecycledWhenThrough ==
    \A o \in Range(apoFreeJobs) :
        /\ o \notin Range(apoFinishedJobs) \cup Range(apoCRCFinishedJobs)
        /\ pc = "writeChunk" => psJob # o
        /\ \A t \in (QueuedJobs \cup running) \ pushed : objOf[t] # o

(* When Close() has succeeded, no task of the pool refers to an object     *)
(* that the destructor has deleted.                                        *)
NoTaskOnDeleted ==
    nRet = 0 => \A t \in (QueuedJobs \cup running) \ pushed : objOf[t] \notin deleted

(* No buffer or Job object is shared by two chunks, or reused or deleted   *)
(* under a task that runs in the pool.                                     *)
BuffersConsistent ==
    TypeOK /\ BufferInOnePlace /\ RecycledWhenThrough /\ NoTaskOnDeleted

(* The file has, behind the header, all bytes of the stream, one last      *)
(* deflate block, and the CRC and the size of the bytes.                   *)
BodyComplete ==
    /\ out = [i \in 1..nCurOffset |-> i]
    /\ ended
    /\ GzipFormat => trailer = <<out, nCurOffset>>
StreamComplete == header /\ BodyComplete

(* The assertions of Close(): the lists are empty after the second         *)
(* ProcessCompletedJobs() unless the first one failed.  The body of a      *)
(* stream of which no chunk and no trailer failed to be written is         *)
(* complete when Close() returns.                                          *)
ClosedStreamComplete ==
    /\ pc \in {"finish", "closed"} /\ nRet = 0 =>
          apoFinishedJobs = <<>> /\ apoCRCFinishedJobs = <<>>
    /\ pc \in {"closed", "deleted"} /\ nErrors = 0 => BodyComplete

(* When the write of a chunk or of the trailer has failed, Write() or      *)
(* Close() has reported it by the time it returns, although Close() does   *)
(* not look at the result of its second ProcessCompletedJobs().  A closed  *)
(* stream of which nothing was reported is complete or lacks its header    *)
(* only: nobody looks at the result of the constructor's write of it.      *)
ErrorReported ==
    LET reported == bHasErrored \/ nRet = -1
    IN  /\ pc \in {"idle", "closed", "deleted"} /\ nErrors > 0 => reported
        /\ pc \in {"closed", "deleted"} /\ ~reported =>
              \/ StreamComplete
              \/ BodyComplete /\ ~header

(* Write() and Close() return. *)
CallsReturn == pc \notin {"idle", "closed", "deleted"} ~> pc \in {"idle", "closed"}
==============================================================================
