----------------------------- MODULE CurlStreaming -----------------------------
(***************************************************************************)
(* port/cpl_vsil_curl_streaming.cpp: a VSICurlStreamingHandle that Open()  *)
(* has returned (eExists is EXIST_YES).  A background thread, run by       *)
(* libcurl, downloads the file from its start into a ring buffer; Read()   *)
(* takes the bytes out, keeps the first ones in a cache, restarts the      *)
(* download for a backward seek and retries after a network error.         *)
(*                                                                         *)
(* The byte of the file at offset i is i.  A step of either thread is a    *)
(* section under hRingBufferMutex together with the local code after it.   *)
(***************************************************************************)
EXTENDS Integers, Sequences, FiniteSets, FiniteSetsExt, SequencesExt

CONSTANTS
    FileSize,       \* size of the remote file
    BufferSize,     \* BKGND_BUFFER_SIZE: capacity of the ring buffer, and of
                    \* the cache of the first bytes
    SkipSize,       \* SKIP_BUFFER_SIZE
    MaxChunk,       \* libcurl passes at most so many bytes at a time
    MaxRead,        \* bound on the size of a Read()
    MaxRetry,       \* GDAL_HTTP_MAX_RETRY
    MaxErrors,      \* bound on the failures of the network or the server
    SizeAnnounced,  \* whether a header may, or may not, give a Content-Length
                    \* that can be trusted: a subset of BOOLEAN
    Bodies,         \* what a server may send: the "file", or the page of an
                    \* HTTP "error"
    StartSeesGap    \* StartDownload(), which takes no mutex, may run between
                    \* the two stores at the end of a download

ASSUME SizesAssumption ==
    /\ FileSize \in Nat
    /\ {BufferSize, SkipSize, MaxChunk, MaxRead} \subseteq Nat \ {0}
    /\ MaxRetry \in Nat /\ MaxErrors \in Nat
    /\ SizeAnnounced \in (SUBSET BOOLEAN) \ {{}}
    /\ Bodies \subseteq {"file", "error"} /\ "file" \in Bodies
    /\ StartSeesGap \in BOOLEAN

VARIABLES
    \* The reader: the caller of Seek() and Read().
    rpc,
    curOffset, bEOF, bError,
    cached,         \* the first nCachedSize bytes of pCachedData
    rd,             \* local variables of Read()
    \* Shared.
    ring,           \* RingBuffer
    ringOffset,     \* nRingBufferFileOffset
    bDownloadInProgress, bDownloadStopped, bAskDownloadEnd,
    hThread,        \* a thread has been created and not joined
    bErrorInThread,
    bHasSize, fileSize,     \* bHasComputedFileSize
    rWaits,         \* the reader sleeps on hCondProducer
    pWaits,         \* the download thread sleeps on hCondConsumer
    \* The download thread.
    ppc,
    nBodySize,      \* bytes received in this download
    chunk,          \* bytes that the callback has still to write
    announced,      \* bHasCandidateFileSize and bCanTrustCandidateFileSize
    failed,         \* eRet # CURLE_OK
    body,           \* the server sends the "file", or an "error" page
    nErrors

reader == <<rpc, curOffset, bEOF, bError, cached, rd>>
flags == <<bDownloadInProgress, bDownloadStopped, bAskDownloadEnd, hThread,
           bErrorInThread>>
size == <<bHasSize, fileSize>>
producer == <<ppc, nBodySize, chunk, announced, failed, body, nErrors>>
vars == <<reader, ring, ringOffset, flags, size, rWaits, pWaits, producer>>

NoByte == -1        \* a byte that is not of the file

-----------------------------------------------------------------------------
(* RingBuffer *)

EmptyRing == [buf |-> [i \in 0..BufferSize - 1 |-> NoByte], off |-> 0, len |-> 0]

RingEndFromZero(r) == r.len
RingEnd(r) == (r.off + r.len) % BufferSize

RingWrite(r, s) ==
    [r EXCEPT !.buf = [i \in DOMAIN @ |->
                         LET k == (i - RingEnd(r)) % BufferSize
                         IN  IF k < Len(s) THEN s[k + 1] ELSE @[i]],
              !.len = @ + Len(s)]

RingBytes(r, n) == [i \in 1..n |-> r.buf[(r.off + i - 1) % BufferSize]]

(* What RingBuffer::Read() leaves; bytes that were read are forgotten. *)
RingAfterRead(r, n) ==
    [buf |-> [i \in DOMAIN r.buf |->
                IF (i - r.off) % BufferSize < n THEN NoByte ELSE r.buf[i]],
     off |-> (r.off + n) % BufferSize, len |-> r.len - n]

(* AddRegion(): bytes s of the file at offset start extend cache c if they *)
(* leave no gap.                                                           *)
AddRegionWithGap(c, start, s) ==
    IF start < BufferSize /\ start + Len(s) > Len(c)
    THEN [i \in 1..Min({start + Len(s), BufferSize}) |->
            IF i > start THEN s[i - start]
            ELSE IF i <= Len(c) THEN c[i] ELSE NoByte]
    ELSE c

AddRegion(c, start, s) ==
    IF start <= Len(c) THEN AddRegionWithGap(c, start, s) ELSE c

-----------------------------------------------------------------------------
NoRead == [req |-> 0, ori |-> 0, got |-> <<>>, retries |-> 0, skip |-> 0,
           err |-> FALSE, hasSize |-> FALSE, after |-> "none"]

Init ==
    /\ rpc = "idle"
    /\ curOffset = 0 /\ bEOF = FALSE /\ bError = FALSE
    /\ cached = <<>>
    /\ rd = NoRead
    /\ ring = EmptyRing
    /\ ringOffset = 0
    /\ bDownloadInProgress = FALSE
    /\ bDownloadStopped = FALSE
    /\ bAskDownloadEnd = FALSE
    /\ hThread = FALSE
    /\ bErrorInThread = FALSE
    /\ bHasSize \in BOOLEAN            \* from the cached file properties
    /\ fileSize = IF bHasSize THEN FileSize ELSE 0
    /\ rWaits = FALSE /\ pWaits = FALSE
    /\ ppc = "none"
    /\ nBodySize = 0 /\ chunk = <<>>
    /\ announced = FALSE /\ failed = FALSE /\ body = "file"
    /\ nErrors = 0

(* The download thread holds hRingBufferMutex over two steps only at the   *)
(* end of a download; the reader never does.                               *)
MutexFree == ppc # "ending"

Remaining == rd.req - Len(rd.got)

-----------------------------------------------------------------------------
(* The download thread: DownloadInThread() and the callbacks of libcurl *)

(* ReceivedBytesHeader(): nHTTPCode is only kept; eExists does not change  *)
(* any more.                                                               *)
Header ==
    /\ ppc = "header"
    /\ \E b \in Bodies, a \in SizeAnnounced :
          /\ b = "error" => nErrors < MaxErrors
          /\ body' = b
          /\ announced' = (announced \/ (a /\ b = "file"))
          /\ nErrors' = nErrors + (IF b = "error" THEN 1 ELSE 0)
    /\ ppc' = "body"
    /\ UNCHANGED <<reader, ring, ringOffset, flags, size, rWaits, pWaits,
                   nBodySize, chunk, failed>>

BodySize == IF body = "file" THEN FileSize ELSE 1
BodyByte(i) == IF body = "file" THEN i ELSE NoByte

(* ReceivedBytes() is called with n bytes; before it takes the mutex it    *)
(* stores the size of the file.                                            *)
Receive(n) ==
    /\ ppc = "body"
    /\ nBodySize + n <= BodySize
    /\ chunk' = [i \in 1..n |-> BodyByte(nBodySize + i - 1)]
    /\ nBodySize' = nBodySize + n
    /\ IF announced /\ ~bHasSize
       THEN bHasSize' = TRUE /\ fileSize' = FileSize
       ELSE UNCHANGED size
    /\ ppc' = "write"
    /\ UNCHANGED <<reader, ring, ringOffset, flags, rWaits, pWaits, announced,
                   failed, body, nErrors>>

(* One round of the loop of ReceivedBytes(): what fits is written and the  *)
(* reader is signalled.  Returning 0 makes libcurl fail.                   *)
BytesThatFit == Min({Len(chunk), BufferSize - ring.len})

Write ==
    /\ ppc = "write"
    /\ ring' = RingWrite(ring, SubSeq(chunk, 1, BytesThatFit))
    /\ chunk' = SubSeq(chunk, BytesThatFit + 1, Len(chunk))
    /\ rWaits' = FALSE
    /\ ppc' = IF chunk' # <<>> THEN "full"
              ELSE IF bAskDownloadEnd THEN "end" ELSE "body"
    /\ failed' = (chunk' = <<>> /\ bAskDownloadEnd)
    /\ UNCHANGED <<reader, ringOffset, flags, size, pWaits, nBodySize, announced,
                   body, nErrors>>

(* "Waiting for reader to consume some bytes..." *)
MustWaitForReaderIgnoresStop == ring.len = BufferSize
MustWaitForReader == ring.len = BufferSize /\ ~bAskDownloadEnd

SleepFull ==
    /\ ppc = "full" /\ ~pWaits
    /\ MustWaitForReader
    /\ pWaits' = TRUE
    /\ UNCHANGED <<reader, ring, ringOffset, flags, size, rWaits, producer>>

WakeFull ==
    /\ ppc = "full" /\ ~pWaits
    /\ ~MustWaitForReader
    /\ ppc' = IF bAskDownloadEnd THEN "end" ELSE "write"
    /\ failed' = bAskDownloadEnd
    /\ chunk' = IF bAskDownloadEnd THEN <<>> ELSE chunk
    /\ UNCHANGED <<reader, ring, ringOffset, flags, size, rWaits, pWaits,
                   nBodySize, announced, body, nErrors>>

(* curl_easy_perform() returns: at the end of the body, or after an error. *)
PerformReturns ==
    /\ ppc \in {"header", "body"}
    /\ \/ /\ ppc = "body" /\ nBodySize = BodySize
          /\ failed' = FALSE
          /\ UNCHANGED nErrors
       \/ /\ nErrors < MaxErrors
          /\ nErrors' = nErrors + 1
          /\ failed' = TRUE
    /\ ppc' = "end"
    /\ UNCHANGED <<reader, ring, ringOffset, flags, size, rWaits, pWaits,
                   nBodySize, chunk, announced, body>>

(* The end of DownloadInThread(), with the mutex held. *)
LearnsSize == ~bAskDownloadEnd /\ ~failed /\ ~bHasSize

End ==
    /\ ppc = "end"
    /\ bErrorInThread' = failed
    /\ IF LearnsSize THEN bHasSize' = TRUE /\ fileSize' = nBodySize
                     ELSE UNCHANGED size
    /\ bDownloadInProgress' = FALSE
    /\ ppc' = "ending"
    /\ UNCHANGED <<reader, ring, ringOffset, bDownloadStopped, bAskDownloadEnd,
                   hThread, rWaits, pWaits, nBodySize, chunk, announced, failed,
                   body, nErrors>>

EndStopped ==
    /\ ppc = "ending"
    /\ bDownloadStopped' = TRUE
    /\ rWaits' = FALSE
    /\ ppc' = "done"
    /\ UNCHANGED <<reader, ring, ringOffset, bDownloadInProgress, bAskDownloadEnd,
                   hThread, bErrorInThread, size, pWaits, nBodySize, chunk,
                   announced, failed, body, nErrors>>

Download ==
    \/ Header
    \/ \E n \in 1..MaxChunk : Receive(n)
    \/ Write
    \/ SleepFull
    \/ WakeFull
    \/ PerformReturns
    \/ End
    \/ EndStopped

-----------------------------------------------------------------------------
(* The reader: Seek(), ClearErr(), Read(), and the destructor *)

(* Seek() drops the cache and the size once the reader has left the        *)
(* cached zone.  (SEEK_END, which asks the server, is left out.)           *)
Seek(o) ==
    /\ rpc = "idle"
    /\ MutexFree
    /\ IF curOffset >= BufferSize
       THEN cached' = <<>> /\ bHasSize' = FALSE /\ fileSize' = 0
       ELSE UNCHANGED <<cached, size>>
    /\ curOffset' = o
    /\ bEOF' = FALSE
    /\ UNCHANGED <<rpc, bError, rd, ring, ringOffset, flags, rWaits, pWaits,
                   producer>>

ClearErr ==
    /\ rpc = "idle"
    /\ bEOF' = FALSE /\ bError' = FALSE
    /\ UNCHANGED <<rpc, curOffset, cached, rd, ring, ringOffset, flags, size,
                   rWaits, pWaits, producer>>

Read(n) ==
    /\ rpc = "idle"
    /\ rpc' = "begin"
    /\ rd' = [NoRead EXCEPT !.req = n, !.ori = curOffset, !.retries = MaxRetry]
    /\ UNCHANGED <<curOffset, bEOF, bError, cached, ring, ringOffset, flags, size,
                   rWaits, pWaits, producer>>

(* From the label retry to the test for the end of the file. *)
Begin ==
    /\ rpc = "begin"
    /\ MutexFree
    /\ LET has == bHasSize /\ fileSize > 0
       IN  /\ bEOF' = (bEOF \/ (has /\ curOffset >= fileSize))
           /\ rd' = [rd EXCEPT !.hasSize = has]
    /\ rpc' = IF bEOF' THEN "idle" ELSE "cache"
    /\ UNCHANGED <<curOffset, bError, cached, ring, ringOffset, flags, size,
                   rWaits, pWaits, producer>>

(* PutRingBufferInCache() when the reader has gone back, then what the     *)
(* cache has of the request.                                               *)
BytesToKeep ==
    IF curOffset < ringOffset /\ ringOffset < BufferSize
    THEN Min({ring.len, BufferSize - ringOffset}) ELSE 0

UseCache ==
    /\ rpc = "cache"
    /\ MutexFree
    /\ LET n == BytesToKeep
           c == AddRegion(cached, ringOffset, RingBytes(ring, n))
           got == SubSeq(c, curOffset + 1, Min({curOffset + rd.req, Len(c)}))
           atEnd == /\ rd.hasSize
                    /\ curOffset + Len(got) <= Len(c)
                    /\ curOffset + rd.req > fileSize
                    /\ fileSize = Len(c)
       IN  /\ ring' = RingAfterRead(ring, n)
           /\ ringOffset' = ringOffset + n
           /\ pWaits' = (pWaits /\ n = 0)
           /\ cached' = c
           /\ curOffset' = curOffset + Len(got)
           /\ bEOF' = atEnd
           /\ rpc' = IF atEnd \/ Len(got) = rd.req THEN "finish"
                     ELSE IF curOffset' < ringOffset' THEN "stop"
                     ELSE IF curOffset' > ringOffset' THEN "start"
                     ELSE "fillstart"
           /\ rd' = [rd EXCEPT !.got = got, !.after = "start"]
    /\ UNCHANGED <<bError, flags, size, rWaits, producer>>

IsStarted == bDownloadInProgress \/ bDownloadStopped

(* StartDownload(), which reads the flags without the mutex.  If it sees   *)
(* the gap, a second thread runs; the module does not follow it.           *)
StartDownload ==
    /\ MutexFree \/ StartSeesGap
    /\ IF IsStarted
       THEN UNCHANGED <<ring, ringOffset, flags, producer>>
       ELSE /\ ring' = EmptyRing
            /\ ringOffset' = 0
            /\ bDownloadInProgress' = TRUE
            /\ bErrorInThread' = FALSE
            /\ hThread' = TRUE
            /\ ppc' = "header" /\ nBodySize' = 0 /\ chunk' = <<>>
            /\ failed' = FALSE /\ body' = "file"
            /\ UNCHANGED <<bDownloadStopped, bAskDownloadEnd, announced, nErrors>>

(* "Has a Seek() being done since the last Read()?" *)
Start ==
    /\ rpc = "start"
    /\ StartDownload
    /\ rpc' = "skip"
    /\ rd' = [rd EXCEPT !.skip = curOffset - ringOffset']
    /\ UNCHANGED <<curOffset, bEOF, bError, cached, size, rWaits, pWaits>>

(* One round of the loop that skips bytes; they go to the cache. *)
Skip ==
    /\ rpc = "skip"
    /\ MutexFree
    /\ LET n == Min({rd.skip, ring.len, SkipSize})
       IN  /\ cached' = AddRegion(cached, ringOffset, RingBytes(ring, n))
           /\ ring' = RingAfterRead(ring, n)
           /\ ringOffset' = ringOffset + n
           /\ rd' = [rd EXCEPT !.skip = @ - n]
           /\ rpc' = IF rd.skip = n THEN "fillstart"
                     ELSE IF n = 0 THEN "skipwait" ELSE "skip"
    /\ pWaits' = FALSE
    /\ UNCHANGED <<curOffset, bEOF, bError, flags, size, rWaits, producer>>

(* "Waiting for writer to produce some bytes..." *)
MustWaitForWriter == ring.len = 0 /\ bDownloadInProgress

(* bErrorOccurred, read after a wait. *)
ErrorSeenForgotten == FALSE
ErrorSeen == bErrorInThread

(* The download has ended early: without an error, Read() returns 0. *)
SkipWake ==
    /\ rpc = "skipwait" /\ ~rWaits
    /\ MutexFree
    /\ ~MustWaitForWriter
    /\ LET gone == ring.len = 0 /\ ~ErrorSeen
       IN  /\ rpc' = IF gone THEN "idle"
                     ELSE IF ring.len = 0 THEN "finish" ELSE "skip"
           /\ bEOF' = gone
           /\ rd' = [rd EXCEPT !.err = ErrorSeen,
                               !.got = IF gone THEN <<>> ELSE @]
    /\ UNCHANGED <<curOffset, bError, cached, ring, ringOffset, flags, size,
                   rWaits, pWaits, producer>>

FillStart ==
    /\ rpc = "fillstart"
    /\ IF rd.err
       THEN /\ rpc' = "finish"
            /\ UNCHANGED <<ring, ringOffset, flags, producer>>
       ELSE /\ rpc' = "fill"
            /\ StartDownload
    /\ UNCHANGED <<curOffset, bEOF, bError, cached, rd, size, rWaits, pWaits>>

(* One round of the loop that fills the destination buffer. *)
Fill ==
    /\ rpc = "fill"
    /\ MutexFree
    /\ LET n == Min({Remaining, ring.len})
           s == RingBytes(ring, n)
       IN  /\ cached' = AddRegion(cached, curOffset, s)
           /\ ring' = RingAfterRead(ring, n)
           /\ curOffset' = curOffset + n
           /\ ringOffset' = ringOffset + n
           /\ rd' = [rd EXCEPT !.got = @ \o s]
           /\ rpc' = IF n = Remaining THEN "finish"
                     ELSE IF n = 0 THEN "fillwait" ELSE "fill"
    /\ pWaits' = FALSE
    /\ UNCHANGED <<bEOF, bError, flags, size, rWaits, producer>>

FillWake ==
    /\ rpc = "fillwait" /\ ~rWaits
    /\ MutexFree
    /\ ~MustWaitForWriter
    /\ rpc' = IF ring.len = 0 \/ ErrorSeen THEN "finish" ELSE "fill"
    /\ rd' = [rd EXCEPT !.err = ErrorSeen]
    /\ UNCHANGED <<curOffset, bEOF, bError, cached, ring, ringOffset, flags, size,
                   rWaits, pWaits, producer>>

(* The end of Read().  CanRetry() accepts some errors only.  The detour    *)
(* through CanRestartOnError() is for the handlers of object stores: here  *)
(* StopReceivingBytesOnError() is true.                                    *)
Finish ==
    /\ rpc = "finish"
    /\ bEOF' = (bEOF \/ Remaining > 0)
    /\ \/ /\ rd.err /\ rd.retries > 0
          /\ rpc' = "stop"
          /\ rd' = [rd EXCEPT !.retries = @ - 1, !.after = "retry"]
          /\ UNCHANGED bError
       \/ /\ rpc' = "idle"
          /\ bError' = (bError \/ rd.err)
          /\ UNCHANGED rd
    /\ UNCHANGED <<curOffset, cached, ring, ringOffset, flags, size, rWaits,
                   pWaits, producer>>

(* ~VSICurlStreamingHandle() *)
Close ==
    /\ rpc = "idle"
    /\ rpc' = "stop"
    /\ rd' = [NoRead EXCEPT !.after = "close"]
    /\ UNCHANGED <<curOffset, bEOF, bError, cached, ring, ringOffset, flags, size,
                   rWaits, pWaits, producer>>

(* StopDownload(): the thread is asked to end and is waited for. *)
StopDownload ==
    /\ rpc = "stop"
    /\ MutexFree
    /\ rpc' = "stopwait"
    /\ IF hThread
       THEN bAskDownloadEnd' = TRUE /\ pWaits' = FALSE
       ELSE UNCHANGED <<bAskDownloadEnd, pWaits>>
    /\ UNCHANGED <<curOffset, bEOF, bError, cached, rd, ring, ringOffset,
                   bDownloadInProgress, bDownloadStopped, hThread,
                   bErrorInThread, size, rWaits, producer>>

(* The rest of StopDownload(), and of its caller. *)
Stopped ==
    /\ rpc = "stopwait" /\ ~rWaits
    /\ MutexFree
    /\ ~bDownloadInProgress
    /\ ppc \in {"none", "done"}         \* CPLJoinThread()
    /\ ring' = EmptyRing
    /\ ringOffset' = 0
    /\ bDownloadStopped' = FALSE
    /\ bAskDownloadEnd' = FALSE
    /\ hThread' = FALSE
    /\ bErrorInThread' = FALSE
    /\ bEOF' = FALSE
    /\ ppc' = "none" /\ nBodySize' = 0 /\ failed' = FALSE
    /\ IF rd.after = "retry"
       THEN /\ curOffset' = rd.ori
            /\ rd' = [rd EXCEPT !.got = <<>>, !.err = FALSE]
       ELSE UNCHANGED <<curOffset, rd>>
    /\ rpc' = CASE rd.after = "retry" -> "begin"
               [] rd.after = "close" -> "closed"
               [] OTHER -> IF curOffset = 0 THEN "fillstart" ELSE "start"
    /\ UNCHANGED <<bError, cached, bDownloadInProgress, size, rWaits, pWaits,
                   chunk, announced, body, nErrors>>

(* CPLCondWait() on hCondProducer, in Read() and in StopDownload(). *)
SleepEmpty ==
    /\ ~rWaits
    /\ MutexFree
    /\ \/ rpc \in {"skipwait", "fillwait"} /\ MustWaitForWriter
       \/ rpc = "stopwait" /\ bDownloadInProgress
    /\ rWaits' = TRUE
    /\ UNCHANGED <<reader, ring, ringOffset, flags, size, pWaits, producer>>

InCall ==
    \/ Begin
    \/ UseCache
    \/ Start
    \/ Skip
    \/ SkipWake
    \/ FillStart
    \/ Fill
    \/ FillWake
    \/ Finish
    \/ StopDownload
    \/ Stopped
    \/ SleepEmpty

Next ==
    \/ Download
    \/ InCall
    \/ \E o \in 0..FileSize : Seek(o)
    \/ ClearErr
    \/ \E n \in 1..MaxRead : Read(n)
    \/ Close

Spec == Init /\ [][Next]_vars

(* Both threads run, and libcurl sends the file or fails. *)
FairSpec == Spec /\ WF_vars(Download) /\ WF_vars(InCall)

-----------------------------------------------------------------------------
(* Properties *)

(* Every variable keeps its type; the assertions of RingBuffer hold. *)
TypeOK ==
    /\ rpc \in {"idle", "begin", "cache", "start", "skip", "skipwait",
                "fillstart", "fill", "fillwait", "finish", "stop", "stopwait",
                "closed"}
    /\ curOffset \in 0..FileSize
    /\ Len(cached) <= BufferSize
    /\ ring.off \in 0..BufferSize - 1 /\ ring.len \in 0..BufferSize
    /\ ringOffset \in 0..FileSize
    /\ {bEOF, bError, bDownloadInProgress, bDownloadStopped, bAskDownloadEnd,
        hThread, bErrorInThread, bHasSize, rWaits, pWaits} \subseteq BOOLEAN
    /\ fileSize \in 0..FileSize
    /\ ppc \in {"none", "header", "body", "write", "full", "end", "ending", "done"}

Iota(start, n) == [i \in 1..n |-> start + i - 1]

(* Read() returns the bytes of the file at the offset where it was called, *)
(* whatever mix of the cache, the ring buffer, skipped bytes, a restarted  *)
(* download and retries they come from.                                    *)
ReadExact ==
    /\ rd.got = Iota(rd.ori, Len(rd.got))
    /\ rpc \in {"begin", "cache"} => curOffset = rd.ori
    /\ rpc \in {"skip", "fillstart", "fill", "finish"} =>
            curOffset = rd.ori + Len(rd.got)

(* The ring buffer holds the bytes of the file from nRingBufferFileOffset  *)
(* on, without a gap up to what the callback has still to write: the       *)
(* reader's idea of its place agrees with the download thread's.           *)
RingInPlace ==
    /\ RingBytes(ring, ring.len) = Iota(ringOffset, ring.len)
    /\ ppc \in {"header", "body", "write", "full"} =>
            ringOffset + ring.len + Len(chunk) = nBodySize

(* The size that stops Read() and feeds the cached file properties is the  *)
(* size of the file, also after interrupted and failed downloads.          *)
SizeExact == bHasSize => fileSize = FileSize

(* CPLAssert(curOffset == nRingBufferFileOffset) in Read(): the bytes that *)
(* it is about to take are the ones it wants.  It holds as long as no      *)
(* download is started over one whose thread has not been joined.          *)
ReadsAtRingOffset == rpc = "fill" => curOffset = ringOffset

(* Reader and download thread agree about the ring buffer, its place in    *)
(* the file and the size of the file.                                      *)
StreamConsistent == TypeOK /\ RingInPlace /\ SizeExact /\ ReadsAtRingOffset

(* A Read() that returns fewer bytes than asked has reached the end of the *)
(* file, or says that an error occurred.                                   *)
ShortReadExplained ==
    [][rpc # "idle" /\ rpc' = "idle" /\ Len(rd'.got) < rd'.req
       => bError' \/ curOffset' >= FileSize]_vars

(* Read() and the destructor return: neither thread sleeps for a signal    *)
(* that has been given or will not come, also when the ring is full and    *)
(* the download is stopped at the same time.                               *)
CallsReturn == rpc # "idle" ~> rpc \in {"idle", "closed"}
==============================================================================
