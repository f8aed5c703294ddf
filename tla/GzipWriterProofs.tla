-------------------------- MODULE GzipWriterProofs --------------------------
(***************************************************************************)
(* Proofs about VSIGZipWriteHandleMT (module GzipWriter), for any number   *)
(* of threads, any chunk size, any sequence of writes and any number of    *)
(* write errors: the invariants that the runs of MCGzipWriter check on     *)
(* small instances.                                                        *)
(*                                                                         *)
(* The inductive invariant WriterInv follows the chunks.  The chunks from  *)
(* Low (the next one to be added to the CRC, or to be written when there   *)
(* is no CRC) to High (the last one submitted) each have one Job object,   *)
(* which holds their buffer; the object is in the deflate task, in the     *)
(* list of compressed jobs, in the writing thread's hand, in the CRC task  *)
(* or in the list of computed CRCs, and only one party may move it on.     *)
(* What the file, the SOZip index and the CRC have is then what the chunks *)
(* before nSeqNumberExpected and nSeqNumberExpectedCRC hold.               *)
(***************************************************************************)
EXTENDS GzipWriter, FiniteSetTheorems, SequenceTheorems, WellFoundedInduction,
        TLAPS

-----------------------------------------------------------------------------
(* The sets of objects and buffers the lists stand for, and the tasks that  *)
(* have still to look at their object.                                      *)
Finished == Range(apoFinishedJobs)
CRCFinished == Range(apoCRCFinishedJobs)
FreeObjs == Range(apoFreeJobs)
FreeBuffers == Range(aposBuffers)
Pending == (QueuedJobs \cup running) \ pushed

(* An object is live from GetJobObject() until it is recycled.              *)
Live(o) == job[o].buf # None
Deflating(o) == <<"deflate", job[o].seq>> \in Pending
                /\ objOf[<<"deflate", job[o].seq>>] = o
InCRCTask(o) == <<"crc", job[o].seq>> \in Pending
                /\ objOf[<<"crc", job[o].seq>>] = o
Writing(o) == pc = "writeChunk" /\ psJob = o
Submitting(o) == pc = "submitCrc" /\ psJob = o

(* The chunks Low to High have a live object.                               *)
Closing == caller # "Write"
Low == IF GzipFormat THEN nSeqNumberExpectedCRC ELSE nSeqNumberExpected
High == IF Closing THEN nSeqNumberGenerated ELSE nSeqNumberGenerated - 1

(* The bytes of chunk s, and where the chunks before it end.                *)
Start(s) == s * ChunkSize
Chunk(s) == [i \in 1..(IF s < nSeqNumberGenerated THEN ChunkSize
                       ELSE nCurOffset - Start(s)) |-> Start(s) + i]
EndBefore(s) == IF s <= nSeqNumberGenerated THEN Start(s) ELSE nCurOffset

JobType == [seq : Nat, buf : Buffers \cup {None}, finish : BOOLEAN,
            inCRC : BOOLEAN, bytes : Seq(Nat), crc : Seq(Nat)]

(* The types of the variables. *)
Types ==
    /\ nDeflateType \in DeflateTypes
    /\ pc \in Pcs
    /\ caller \in {"Write", "Close1", "Close2"}
    /\ content \in [Buffers -> Seq(1..MaxBytes)]
    /\ pCurBuffer \in Buffers \cup {None}
    /\ nObjs \in 0..NThreads + 2
    /\ job \in [Objs -> JobType]
    /\ objOf \in [Jobs -> Objs \cup {None}]
    /\ nLeft \in 0..MaxWrite
    /\ nCurOffset \in Nat
    /\ nCurOffset + nLeft <= MaxBytes
    /\ nSeqNumberGenerated \in Nat
    /\ nSeqNumberExpected \in Nat
    /\ nSeqNumberExpectedCRC \in Nat
    /\ psJob \in Objs \cup {None}
    /\ out \in Seq(Nat) /\ nCRC \in Seq(Nat) /\ panSOZIPIndex \in Seq(Nat)
    /\ nErrors \in Nat /\ nRet \in {0, -1}
    /\ bHasErrored \in BOOLEAN /\ doItAgain \in BOOLEAN /\ ended \in BOOLEAN

(* The lists hold nothing twice. *)
Lists ==
    /\ aposBuffers \in Seq(Buffers) /\ IsInjective(aposBuffers)
    /\ apoFinishedJobs \in Seq(Objs) /\ IsInjective(apoFinishedJobs)
    /\ apoCRCFinishedJobs \in Seq(Objs) /\ IsInjective(apoCRCFinishedJobs)
    /\ apoFreeJobs \in Seq(Objs) /\ IsInjective(apoFreeJobs)

(* A task that has put its object in a list was submitted before. *)
PoolShape ==
    /\ queued \in Seq(Jobs)
    /\ running \subseteq Jobs /\ IsFiniteSet(running)
    /\ pushed \subseteq QueuedJobs \cup running \cup done

(* Where the writing thread can be, and what it has in hand. *)
Control ==
    /\ caller = "Write" => pc \notin {"waitCompletion", "finish", "closed", "deleted"}
    /\ Closing => pc \notin {"idle", "write", "getBuffer", "waitEvent"}
    /\ Closing => pCurBuffer = None
    /\ pc = "write" => pCurBuffer # None
    /\ pc \notin {"write", "idle"} => pCurBuffer = None
    /\ Start(nSeqNumberGenerated) <= nCurOffset
    /\ nCurOffset < Start(nSeqNumberGenerated) + ChunkSize
    /\ pCurBuffer = None /\ ~Closing => nCurOffset = Start(nSeqNumberGenerated)
    /\ deleted # {} => pc = "deleted"

(* An object is free or live, and a buffer is in one place. *)
Places ==
    /\ \A o \in Objs : Live(o) => o <= nObjs /\ o \notin FreeObjs
    /\ \A o \in Objs : ~Live(o) => (o \in FreeObjs <=> o <= nObjs)
    /\ pCurBuffer \notin FreeBuffers
    /\ \A o \in Objs : Live(o) => /\ job[o].buf \notin FreeBuffers
                                  /\ job[o].buf # pCurBuffer
    /\ \A o, p \in Objs : Live(o) /\ o # p => job[p].buf # job[o].buf
    /\ ~Closing => /\ NThreads + 2 \notin FreeBuffers \cup {pCurBuffer}
                   /\ \A o \in Objs : job[o].buf # NThreads + 2
                   /\ content[NThreads + 2] = <<>>

(* A pending task has an object that is live and that only it is to put in  *)
(* its list.                                                                *)
TasksOnLive ==
    /\ \A s \in 0..MaxChunks : <<"deflate", s>> \in Pending =>
          \E o \in Objs :
             /\ objOf[<<"deflate", s>>] = o
             /\ Live(o) /\ job[o].seq = s
             /\ nSeqNumberExpected <= s
             /\ ~job[o].inCRC
             /\ o \notin Finished /\ ~Writing(o)
    /\ \A s \in 0..MaxChunks : <<"crc", s>> \in Pending =>
          \E o \in Objs :
             /\ objOf[<<"crc", s>>] = o
             /\ Live(o) /\ job[o].seq = s
             /\ job[o].inCRC
             /\ o \notin CRCFinished /\ ~Submitting(o)

(* Every live object is on its way through the two stages. *)
Stages ==
    /\ \A o \in Objs : Live(o) => Low <= job[o].seq /\ job[o].seq <= High
    /\ \A o \in Objs : Live(o) /\ job[o].seq < nSeqNumberExpected =>
          job[o].inCRC /\ o \notin Finished
    /\ \A o \in Objs : Live(o) /\ nSeqNumberExpected <= job[o].seq =>
          Deflating(o) \/ o \in Finished \/ Writing(o)
    /\ \A o \in Objs : Live(o) /\ job[o].inCRC =>
          GzipFormat /\ (Submitting(o) \/ InCRCTask(o) \/ o \in CRCFinished)
    /\ \A o \in Finished : Live(o) /\ ~Writing(o)
    /\ \A o \in CRCFinished : Live(o) /\ job[o].inCRC /\ ~Submitting(o)

(* What the writing thread works on. *)
InHand ==
    /\ pc = "writeChunk" => /\ psJob \in Objs /\ Live(psJob)
                            /\ job[psJob].seq = nSeqNumberExpected
                            /\ GzipFormat => job[psJob].inCRC
    /\ pc = "submitCrc" => psJob \in Finished /\ job[psJob].inCRC

(* Each chunk from Low to High has one live object. *)
Chunks ==
    /\ \A o, p \in Objs : Live(o) /\ Live(p) /\ job[o].seq = job[p].seq => o = p
    /\ \A s \in Nat : Low <= s /\ s <= High => \E o \in Objs : Live(o) /\ job[o].seq = s
    /\ nSeqNumberExpected <= High + 1
    /\ GzipFormat => nSeqNumberExpectedCRC <= nSeqNumberExpected

(* What is known inside ProcessCompletedJobs(). *)
Loops ==
    /\ pc = "crcLoop" => GzipFormat
    /\ pc \in {"crcLoop", "submitCrc", "writeLoop", "writeChunk"} => ~doItAgain
    /\ pc = "writeLoop" /\ GzipFormat => \A o \in Finished : job[o].inCRC
    /\ pc = "combine" /\ doItAgain /\ GzipFormat =>
          nSeqNumberExpectedCRC < nSeqNumberExpected
    /\ pc = "combine" /\ ~doItAgain =>
          \A o \in Finished : job[o].seq # nSeqNumberExpected

(* What is known in Close(). *)
Closes ==
    /\ caller = "Close1" /\ pc # "waitCompletion" =>
          \A s \in 0..MaxChunks : <<"deflate", s>> \notin Pending
    /\ caller = "Close2" => /\ \A s \in 0..MaxChunks : <<"deflate", s>> \notin Pending
                            /\ nSeqNumberExpected = nSeqNumberGenerated + 1
                            /\ pc \notin {"submitCrc", "writeChunk"}
                            /\ GzipFormat
    /\ caller = "Close2" /\ pc \in {"process", "crcLoop", "writeLoop", "combine"} =>
          Pending = {}
    /\ pc \in {"finish", "closed", "deleted"} /\ nRet = 0 =>
          /\ Pending = {}
          /\ nSeqNumberExpected = nSeqNumberGenerated + 1
          /\ GzipFormat => nSeqNumberExpectedCRC = nSeqNumberGenerated + 1

(* The bytes in the buffers, and what zlib has made of them. *)
Contents ==
    /\ pCurBuffer # None => content[pCurBuffer] = Chunk(nSeqNumberGenerated)
    /\ \A o \in Objs : Live(o) => content[job[o].buf] = Chunk(job[o].seq)
    /\ \A o \in Finished : job[o].bytes = content[job[o].buf]
    /\ \A o \in CRCFinished : job[o].crc = content[job[o].buf]
    /\ pc = "writeChunk" => job[psJob].bytes = content[job[psJob].buf]
    /\ Closing => \A o \in Objs : Live(o) /\ job[o].seq = nSeqNumberGenerated =>
                      job[o].finish

(* What is in the file. *)
Output ==
    /\ \A i, k \in DOMAIN out : i < k => out[i] < out[k]
    /\ \A i \in DOMAIN out : out[i] <= EndBefore(nSeqNumberExpected)
    /\ nErrors = 0 => /\ Len(out) = EndBefore(nSeqNumberExpected)
                      /\ \A i \in DOMAIN out : out[i] = i
    /\ nErrors = 0 /\ nSeqNumberExpected = nSeqNumberGenerated + 1 => ended

(* The SOZip index. *)
Index ==
    nErrors = 0 =>
       /\ \A i \in DOMAIN panSOZIPIndex : panSOZIPIndex[i] = Start(i)
       /\ nSeqNumberExpected = 0 => Len(panSOZIPIndex) = 0
       /\ 0 < nSeqNumberExpected /\ nSeqNumberExpected <= nSeqNumberGenerated =>
             Len(panSOZIPIndex) = nSeqNumberExpected - 1

(* The CRC and the trailer. *)
Trailer ==
    /\ GzipFormat => /\ Len(nCRC) = EndBefore(nSeqNumberExpectedCRC)
                     /\ \A i \in DOMAIN nCRC : nCRC[i] = i
    /\ pc \in {"closed", "deleted"} /\ nErrors = 0 /\ GzipFormat =>
          trailer = <<nCRC, nCurOffset>>

(* Errors are known to the caller. *)
Errors ==
    /\ nErrors > 0 => bHasErrored \/ nRet = -1
    /\ nRet = -1 => nErrors > 0

WriterInv ==
    /\ Types /\ Lists /\ PoolShape /\ Control /\ Places /\ TasksOnLive /\ Stages
    /\ InHand /\ Chunks /\ Loops /\ Closes /\ Contents /\ Output /\ Index
    /\ Trailer /\ Errors

-----------------------------------------------------------------------------
(* Lists *)

(* The elements of a list are of its type, and each has a position.        *)
LEMMA ListElements ==
    ASSUME NEW S, NEW s \in Seq(S)
    PROVE  /\ \A x : x \in Range(s) <=> \E i \in 1..Len(s) : x = s[i]
           /\ IsInjective(s) <=> \A i, j \in 1..Len(s) : s[i] = s[j] => i = j
           /\ Range(s) \subseteq S
           /\ Len(s) \in Nat
           /\ DOMAIN s = 1..Len(s)
BY DEF Range, IsInjective

(* A list whose elements are in a set is a list over that set.             *)
LEMMA ListOver ==
    ASSUME NEW S, NEW T, NEW s \in Seq(S), Range(s) \subseteq T
    PROVE  s \in Seq(T)
<1>1. \A i \in 1..Len(s) : s[i] \in T
  BY ListElements
<1> QED BY <1>1

(* An element appended to a list that has it not.                          *)
LEMMA ListAppend ==
    ASSUME NEW S, NEW s \in Seq(S), NEW e \in S
    PROVE  /\ Append(s, e) \in Seq(S)
           /\ Range(Append(s, e)) = Range(s) \cup {e}
           /\ IsInjective(s) /\ e \notin Range(s) => IsInjective(Append(s, e))
<1>w. PICK w : w = Append(s, e)
  OBVIOUS
<1>1. /\ w \in Seq(S) /\ Len(w) = Len(s) + 1 /\ Len(s) \in Nat
      /\ \A i \in 1..Len(s) : w[i] = s[i]
      /\ w[Len(s) + 1] = e
  BY <1>w, AppendProperties
<1>2. /\ \A x : x \in Range(s) <=> \E i \in 1..Len(s) : x = s[i]
      /\ IsInjective(s) <=> \A i, j \in 1..Len(s) : s[i] = s[j] => i = j
      /\ \A x : x \in Range(w) <=> \E i \in 1..Len(w) : x = w[i]
      /\ IsInjective(w) <=> \A i, j \in 1..Len(w) : w[i] = w[j] => i = j
  BY <1>1, ListElements
<1>3. \A i \in 1..Len(w) : i \in 1..Len(s) \/ i = Len(s) + 1
  BY <1>1
<1>4. ASSUME NEW x PROVE x \in Range(w) <=> x \in Range(s) \cup {e}
  <2>1. ASSUME x \in Range(w) PROVE x \in Range(s) \cup {e}
    BY <1>1, <1>2, <1>3, <2>1
  <2>2. ASSUME x \in Range(s) PROVE x \in Range(w)
    <3>1. PICK i \in 1..Len(s) : x = s[i]
      BY <1>2, <2>2
    <3>2. i \in 1..Len(w) /\ w[i] = x
      BY <1>1, <3>1
    <3> QED BY <1>2, <3>2
  <2>3. e \in Range(w)
    <3>1. Len(s) + 1 \in 1..Len(w)
      BY <1>1
    <3> QED BY <1>1, <1>2, <3>1
  <2> QED BY <2>1, <2>2, <2>3
<1>5. ASSUME IsInjective(s), e \notin Range(s) PROVE IsInjective(w)
  BY <1>1, <1>2, <1>3, <1>5
<1> QED BY <1>1, <1>4, <1>5, <1>w

(* The last element of a list taken off it.                                *)
LEMMA ListFront ==
    ASSUME NEW S, NEW s \in Seq(S), s # <<>>, IsInjective(s)
    PROVE  /\ Front(s) \in Seq(S)
           /\ Last(s) \in Range(s) /\ Last(s) \in S
           /\ Range(Front(s)) = Range(s) \ {Last(s)}
           /\ IsInjective(Front(s))
<1>w. PICK w : w = Front(s)
  OBVIOUS
<1>0. Len(s) \in Nat /\ Len(s) > 0
  BY EmptySeq
<1>1. /\ w \in Seq(S) /\ Len(w) = Len(s) - 1
      /\ \A i \in 1..Len(s) - 1 : w[i] = s[i]
  <2>n. PICK n : n = Len(s) - 1
    OBVIOUS
  <2>1. n \in Nat /\ n <= Len(s)
    BY <1>0, <2>n
  <2>2. w = SubSeq(s, 1, n)
    BY <1>w, <2>n DEF Front
  <2>3. w \in Seq(S) /\ Len(w) = n /\ \A i \in 1..n : w[i] = s[i]
    BY <1>0, <2>1, <2>2
  <2> QED BY <2>n, <2>3
<1>2. /\ \A x : x \in Range(s) <=> \E i \in 1..Len(s) : x = s[i]
      /\ \A i, j \in 1..Len(s) : s[i] = s[j] => i = j
      /\ Range(s) \subseteq S
      /\ \A x : x \in Range(w) <=> \E i \in 1..Len(w) : x = w[i]
      /\ IsInjective(w) <=> \A i, j \in 1..Len(w) : w[i] = w[j] => i = j
  BY <1>1, ListElements
<1>3. Len(s) \in 1..Len(s) /\ Last(s) = s[Len(s)]
  BY <1>0 DEF Last
<1>4. ASSUME NEW x PROVE x \in Range(w) <=> x \in Range(s) \ {Last(s)}
  <2>1. ASSUME x \in Range(w) PROVE x \in Range(s) \ {Last(s)}
    <3>1. PICK i \in 1..Len(s) - 1 : x = w[i]
      BY <1>1, <1>2, <2>1
    <3>2. i \in 1..Len(s) /\ i # Len(s) /\ x = s[i]
      BY <1>0, <1>1, <3>1
    <3> QED BY <1>2, <1>3, <3>2
  <2>2. ASSUME x \in Range(s), x # Last(s) PROVE x \in Range(w)
    <3>1. PICK i \in 1..Len(s) : x = s[i] /\ i # Len(s)
      BY <1>2, <1>3, <2>2
    <3>2. i \in 1..Len(w) /\ w[i] = x
      BY <1>0, <1>1, <3>1
    <3> QED BY <1>2, <3>2
  <2> QED BY <2>1, <2>2
<1>5. IsInjective(w)
  BY <1>0, <1>1, <1>2
<1> QED BY <1>1, <1>2, <1>3, <1>4, <1>5, <1>w

(* An element taken out of a list at its position.                         *)
LEMMA ListRemoveAt ==
    ASSUME NEW S, NEW s \in Seq(S), IsInjective(s), NEW p \in 1..Len(s)
    PROVE  /\ RemoveAt(s, p) \in Seq(S)
           /\ s[p] \in Range(s) /\ s[p] \in S
           /\ Range(RemoveAt(s, p)) = Range(s) \ {s[p]}
           /\ IsInjective(RemoveAt(s, p))
<1>u. PICK u : u = SubSeq(s, 1, p - 1)
  OBVIOUS
<1>v. PICK v : v = SubSeq(s, p + 1, Len(s))
  OBVIOUS
<1>w. PICK w : w = u \o v
  OBVIOUS
<1>0. Len(s) \in Nat /\ p \in Int /\ 1 <= p /\ p <= Len(s)
  OBVIOUS
<1>2. RemoveAt(s, p) = w
  BY <1>u, <1>v, <1>w DEF RemoveAt
<1>3. /\ u \in Seq(S) /\ Len(u) = p - 1 /\ \A i \in 1..p - 1 : u[i] = s[i]
      /\ v \in Seq(S) /\ Len(v) = Len(s) - p
      /\ \A i \in 1..Len(s) - p : v[i] = s[p + i]
  BY <1>0, <1>u, <1>v
<1>4. /\ w \in Seq(S) /\ Len(w) = Len(s) - 1
      /\ \A i \in 1..Len(s) - 1 : w[i] = IF i < p THEN s[i] ELSE s[i + 1]
  <3>1. /\ w \in Seq(S) /\ Len(w) = Len(u) + Len(v)
        /\ \A i \in 1..Len(u) + Len(v) :
             w[i] = IF i <= Len(u) THEN u[i] ELSE v[i - Len(u)]
    BY <1>3, <1>w, ConcatProperties
  <3>2. Len(u) + Len(v) = Len(s) - 1
    BY <1>0, <1>3
  <3>3. ASSUME NEW i \in 1..Len(s) - 1
        PROVE  w[i] = IF i < p THEN s[i] ELSE s[i + 1]
    <4>0. i \in 1..Len(u) + Len(v) /\ i \in Int
      BY <1>0, <3>2
    <4>1. CASE i < p
      <5>1. i \in 1..p - 1 /\ i <= Len(u)
        BY <1>0, <1>3, <4>1
      <5>2. w[i] = u[i]
        BY <3>1, <4>0, <5>1
      <5> QED BY <1>3, <4>1, <5>1, <5>2
    <4>2. CASE ~(i < p)
      <5>1. i - (p - 1) \in 1..Len(s) - p /\ p + (i - (p - 1)) = i + 1
        BY <1>0, <4>2
      <5>2. w[i] = v[i - (p - 1)]
        <6>1. ~(i <= Len(u)) /\ Len(u) = p - 1
          BY <1>0, <1>3, <4>2
        <6> QED BY <3>1, <4>0, <6>1
      <5> QED BY <1>3, <4>2, <5>1, <5>2
    <4> QED BY <4>1, <4>2
  <3> QED BY <3>1, <3>2, <3>3
<1>5. /\ \A i, j \in 1..Len(s) : s[i] = s[j] => i = j
      /\ \A x : x \in Range(s) <=> \E i \in 1..Len(s) : x = s[i]
      /\ Range(s) \subseteq S
      /\ \A x : x \in Range(w) <=> \E i \in 1..Len(s) - 1 : x = w[i]
      /\ IsInjective(w) <=> \A i, j \in 1..Len(s) - 1 : w[i] = w[j] => i = j
  <2>1. /\ \A x : x \in Range(w) <=> \E i \in 1..Len(w) : x = w[i]
        /\ IsInjective(w) <=> \A i, j \in 1..Len(w) : w[i] = w[j] => i = j
    BY <1>4, ListElements
  <2>2. /\ \A x : x \in Range(s) <=> \E i \in 1..Len(s) : x = s[i]
        /\ \A i, j \in 1..Len(s) : s[i] = s[j] => i = j
        /\ Range(s) \subseteq S
    BY ListElements
  <2>3. Len(w) = Len(s) - 1
    BY <1>4
  <2> QED BY <2>1, <2>2, <2>3
<1>6. IsInjective(w)
  BY <1>0, <1>4, <1>5
<1>7. ASSUME NEW x \in Range(w) PROVE x \in Range(s) \ {s[p]}
  <3>1. PICK i \in 1..Len(s) - 1 : x = w[i]
    BY <1>5
  <3>2. PICK j \in 1..Len(s) : j # p /\ x = s[j]
    BY <1>0, <1>4, <3>1
  <3> QED BY <1>0, <1>5, <3>2
<1>8. ASSUME NEW x \in Range(s), x # s[p] PROVE x \in Range(w)
  <3>1. PICK i \in 1..Len(s) : x = s[i] /\ i # p
    BY <1>0, <1>5, <1>8
  <3>2. CASE i < p
    <4>1. i \in 1..Len(s) - 1 /\ w[i] = x
      BY <1>0, <1>4, <3>1, <3>2
    <4> QED BY <1>5, <4>1
  <3>3. CASE i > p
    <4>1. i - 1 \in 1..Len(s) - 1 /\ (i - 1) + 1 = i /\ ~(i - 1 < p)
      BY <1>0, <3>1, <3>3
    <4>2. w[i - 1] = x
      BY <1>4, <3>1, <4>1
    <4> QED BY <1>5, <4>1, <4>2
  <3> QED BY <1>0, <3>1, <3>2, <3>3
<1> QED
  BY <1>2, <1>4, <1>5, <1>6, <1>7, <1>8

(* The least element of a set of numbers.                                  *)
LEMMA MinIsIn ==
    ASSUME NEW S, S \subseteq Nat, S # {}
    PROVE  Min(S) \in S
<1>r. PICK R : R = OpToRel(<, Nat)
  OBVIOUS
<1>0. IsWellFoundedOn(R, Nat)
  BY <1>r, NatLessThanWellFounded
<1>1. PICK x \in S : \A y \in S : ~(<<y, x>> \in R)
  BY <1>0, WFMin
<1>2. R = {q \in Nat \X Nat : q[1] < q[2]}
  BY <1>r DEF OpToRel
<1>3. ASSUME NEW n \in Nat, NEW y \in Nat, y < n PROVE <<y, n>> \in R
  BY <1>2, <1>3
<1>4. \A y \in S : ~(y < x)
  BY <1>1, <1>3
<1>5. \A y \in S : x <= y
  BY <1>4
<1> QED BY <1>5 DEF Min

(* The loop over the finished jobs finds one that needs its CRC, if any.   *)
LEMMA FindNeedsCRC ==
    ASSUME apoFinishedJobs \in Seq(Objs),
           NEW i, i = SelectInSeq(apoFinishedJobs, NeedsCRC)
    PROVE  \/ i = 0 /\ \A o \in Finished : job[o].inCRC
           \/ /\ i \in 1..Len(apoFinishedJobs) /\ i # 0
              /\ ~job[apoFinishedJobs[i]].inCRC
<1> DEFINE I == {k \in 1..Len(apoFinishedJobs) : NeedsCRC(apoFinishedJobs[k])}
<1>1. i = IF I # {} THEN Min(I) ELSE 0
  BY DEF SelectInSeq
<1>2. CASE I # {}
  <2>1. I \subseteq Nat
    OBVIOUS
  <2>2. Min(I) \in I
    BY <1>2, <2>1, MinIsIn
  <2> QED BY <1>1, <1>2, <2>2 DEF NeedsCRC
<1>3. CASE I = {}
  BY <1>1, <1>3, ListElements DEF NeedsCRC, Finished
<1> QED BY <1>2, <1>3

(* The loop over the finished jobs finds the one to write next, if any.    *)
LEMMA FindExpected ==
    ASSUME apoFinishedJobs \in Seq(Objs),
           NEW i, i = SelectInSeq(apoFinishedJobs, IsExpected)
    PROVE  \/ i = 0 /\ \A o \in Finished : job[o].seq # nSeqNumberExpected
           \/ /\ i \in 1..Len(apoFinishedJobs) /\ i # 0
              /\ job[apoFinishedJobs[i]].seq = nSeqNumberExpected
<1> DEFINE I == {k \in 1..Len(apoFinishedJobs) : IsExpected(apoFinishedJobs[k])}
<1>1. i = IF I # {} THEN Min(I) ELSE 0
  BY DEF SelectInSeq
<1>2. CASE I # {}
  <2>1. I \subseteq Nat
    OBVIOUS
  <2>2. Min(I) \in I
    BY <1>2, <2>1, MinIsIn
  <2> QED BY <1>1, <1>2, <2>2 DEF IsExpected
<1>3. CASE I = {}
  BY <1>1, <1>3, ListElements DEF IsExpected, Finished
<1> QED BY <1>2, <1>3

(* The loop over the computed CRCs finds the next one, if it is there.     *)
LEMMA FindExpectedCRC ==
    ASSUME apoCRCFinishedJobs \in Seq(Objs),
           NEW i, i = SelectInSeq(apoCRCFinishedJobs, IsExpectedCRC)
    PROVE  \/ i = 0 /\ \A o \in CRCFinished : job[o].seq # nSeqNumberExpectedCRC
           \/ /\ i \in 1..Len(apoCRCFinishedJobs) /\ i # 0
              /\ job[apoCRCFinishedJobs[i]].seq = nSeqNumberExpectedCRC
<1> DEFINE I == {k \in 1..Len(apoCRCFinishedJobs) :
                   IsExpectedCRC(apoCRCFinishedJobs[k])}
<1>1. i = IF I # {} THEN Min(I) ELSE 0
  BY DEF SelectInSeq
<1>2. CASE I # {}
  <2>1. I \subseteq Nat
    OBVIOUS
  <2>2. Min(I) \in I
    BY <1>2, <2>1, MinIsIn
  <2> QED BY <1>1, <1>2, <2>2 DEF IsExpectedCRC
<1>3. CASE I = {}
  BY <1>1, <1>3, ListElements DEF IsExpectedCRC, CRCFinished
<1> QED BY <1>2, <1>3

-----------------------------------------------------------------------------
(* The pool *)

(* A worker that takes a task leaves it pending.                           *)
LEMMA TakeKeepsPending ==
    ASSUME PoolShape, Take, UNCHANGED pushed
    PROVE  Pending' = Pending /\ PoolShape'
<1>0. queued \in Seq(Jobs) /\ queued # <<>> /\ queued' = Tail(queued)
      /\ running' = running \cup {Head(queued)} /\ done' = done
  BY DEF PoolShape, Take
<1>q. PICK q : q = Tail(queued)
  OBVIOUS
<1>1. /\ Len(queued) \in Nat /\ Len(queued) > 0
      /\ q \in Seq(Jobs) /\ Len(q) = Len(queued) - 1
      /\ \A i \in 1..Len(queued) - 1 : q[i] = queued[i + 1]
      /\ Head(queued) = queued[1] /\ Head(queued) \in Jobs
  BY <1>0, <1>q, EmptySeq, HeadTailProperties
<1>2. QueuedJobs = {queued[i] : i \in 1..Len(queued)}
      /\ QueuedJobs' = {q[i] : i \in 1..Len(queued) - 1}
  <2>1. DOMAIN queued = 1..Len(queued) /\ DOMAIN q = 1..Len(q)
    BY <1>0, <1>1
  <2>2. queued' = q /\ Len(q) = Len(queued) - 1
    BY <1>0, <1>1, <1>q
  <2>3. QueuedJobs' = {q[i] : i \in DOMAIN q}
    BY <2>2 DEF QueuedJobs
  <2> QED BY <2>1, <2>2, <2>3 DEF QueuedJobs
<1>3. ASSUME NEW x PROVE x \in QueuedJobs <=> x \in QueuedJobs' \/ x = Head(queued)
  <2>1. ASSUME x \in QueuedJobs PROVE x \in QueuedJobs' \/ x = Head(queued)
    <3>1. PICK i \in 1..Len(queued) : x = queued[i]
      BY <1>2, <2>1
    <3>2. CASE i = 1
      BY <1>1, <3>1, <3>2
    <3>3. CASE i # 1
      <4>1. i - 1 \in 1..Len(queued) - 1 /\ (i - 1) + 1 = i
        BY <1>1, <3>1, <3>3
      <4>2. q[i - 1] = x
        BY <1>1, <3>1, <4>1
      <4> QED BY <1>2, <4>1, <4>2
    <3> QED BY <3>2, <3>3
  <2>2. ASSUME x \in QueuedJobs' PROVE x \in QueuedJobs
    <3>1. PICK i \in 1..Len(queued) - 1 : x = q[i]
      BY <1>2, <2>2
    <3>2. i + 1 \in 1..Len(queued) /\ x = queued[i + 1]
      BY <1>1, <3>1
    <3> QED BY <1>2, <3>2
  <2>3. Head(queued) \in QueuedJobs
    <3>1. 1 \in 1..Len(queued)
      BY <1>1
    <3> QED BY <1>1, <1>2, <3>1
  <2> QED BY <2>1, <2>2, <2>3
<1>4. QueuedJobs \cup running = QueuedJobs' \cup running'
  BY <1>0, <1>3
<1>5. IsFiniteSet(running')
  BY <1>0, FS_AddElement DEF PoolShape
<1>6. pushed' = pushed /\ running' \subseteq Jobs /\ queued' \in Seq(Jobs)
  BY <1>0, <1>1, <1>q DEF PoolShape
<1> QED BY <1>0, <1>4, <1>5, <1>6 DEF Pending, PoolShape

(* A task that ends has put its object in a list before, so that no        *)
(* pending task is lost.                                                   *)
LEMMA FinishKeepsPending ==
    ASSUME PoolShape, NEW t \in pushed, Finish(t), UNCHANGED pushed
    PROVE  Pending' = Pending /\ PoolShape'
<1>1. QueuedJobs' = QueuedJobs
  BY DEF Finish, QueuedJobs
<1>2. IsFiniteSet(running')
  BY FS_RemoveElement DEF Finish, PoolShape
<1> QED BY <1>1, <1>2 DEF Finish, Pending, PoolShape

(* A task that is submitted is pending.                                    *)
LEMMA SubmitAddsPending ==
    ASSUME PoolShape, NEW t, Submit(<<t>>), UNCHANGED pushed
    PROVE  t \in Jobs /\ t \notin Pending /\ Pending' = Pending \cup {t} /\ PoolShape'
<1>s. PICK s : s = <<t>>
  OBVIOUS
<1>0. Len(s) = 1 /\ s[1] = t /\ DOMAIN s = 1..1
  BY <1>s
<1>1. t \in Fresh /\ queued' = queued \o s /\ UNCHANGED <<running, inline, done>>
  <2>1. 1 \in DOMAIN s
    BY <1>0
  <2> QED BY <1>0, <1>s, <2>1 DEF Submit
<1>2. t \in Jobs /\ t \notin QueuedJobs \cup running \cup done
  BY <1>1 DEF Fresh
<1>3. s \in Seq(Jobs)
  BY <1>2, <1>s
<1>q. PICK q : q = queued \o s
  OBVIOUS
<1>4. /\ q \in Seq(Jobs) /\ Len(q) = Len(queued) + 1 /\ Len(queued) \in Nat
      /\ \A i \in 1..Len(queued) : q[i] = queued[i]
      /\ q[Len(queued) + 1] = t
  <2>1. queued \in Seq(Jobs) /\ Len(queued) \in Nat
    BY DEF PoolShape
  <2>2. /\ q \in Seq(Jobs) /\ Len(q) = Len(queued) + Len(s)
        /\ \A i \in 1..Len(queued) + Len(s) :
             q[i] = IF i <= Len(queued) THEN queued[i] ELSE s[i - Len(queued)]
    BY <1>3, <1>q, <2>1, ConcatProperties
  <2>3. (Len(queued) + 1) - Len(queued) = 1 /\ Len(queued) + 1 \in 1..Len(queued) + 1
        /\ ~(Len(queued) + 1 <= Len(queued))
    BY <2>1
  <2>4. q[Len(queued) + 1] = s[1]
    BY <1>0, <2>2, <2>3
  <2>5. \A i \in 1..Len(queued) : q[i] = queued[i]
    BY <1>0, <2>1, <2>2
  <2> QED BY <1>0, <2>1, <2>2, <2>4, <2>5
<1>5. QueuedJobs = {queued[i] : i \in 1..Len(queued)}
      /\ QueuedJobs' = {q[i] : i \in 1..Len(queued) + 1}
  <2>1. DOMAIN queued = 1..Len(queued) /\ DOMAIN q = 1..Len(q)
    BY <1>4 DEF PoolShape
  <2>2. queued' = q /\ Len(q) = Len(queued) + 1
    BY <1>1, <1>4, <1>q
  <2>3. QueuedJobs' = {q[i] : i \in DOMAIN q}
    BY <2>2 DEF QueuedJobs
  <2> QED BY <2>1, <2>2, <2>3 DEF QueuedJobs
<1>6. QueuedJobs' = QueuedJobs \cup {t}
  <2>1. ASSUME NEW x \in QueuedJobs' PROVE x \in QueuedJobs \cup {t}
    <3>1. PICK i \in 1..Len(queued) + 1 : x = q[i]
      BY <1>5
    <3>2. i \in 1..Len(queued) \/ i = Len(queued) + 1
      BY <1>4
    <3> QED BY <1>4, <1>5, <3>1, <3>2
  <2>2. ASSUME NEW x \in QueuedJobs PROVE x \in QueuedJobs'
    <3>1. PICK i \in 1..Len(queued) : x = queued[i]
      BY <1>5
    <3>2. i \in 1..Len(queued) + 1 /\ x = q[i]
      BY <1>4, <3>1
    <3> QED BY <1>5, <3>2
  <2>3. t \in QueuedJobs'
    <3>1. Len(queued) + 1 \in 1..Len(queued) + 1
      BY <1>4
    <3> QED BY <1>4, <1>5, <3>1
  <2> QED BY <2>1, <2>2, <2>3
<1>7. t \notin pushed /\ pushed' = pushed
  BY <1>2 DEF PoolShape
<1> QED BY <1>1, <1>2, <1>4, <1>6, <1>7, <1>q DEF Pending, PoolShape

(* Pending tasks are jobs of the pool.                                     *)
LEMMA PendingJobs ==
    ASSUME PoolShape
    PROVE  Pending \subseteq Jobs
<1>1. QueuedJobs \subseteq Jobs
  BY DEF PoolShape, QueuedJobs
<1> QED BY <1>1 DEF PoolShape, Pending

(* A pending task is about one of the chunks.                              *)
LEMMA DeflatePending ==
    ASSUME PoolShape, NEW k, NEW n, <<k, n>> \in Pending
    PROVE  n \in 0..MaxChunks
<1>1. <<k, n>> \in {"deflate", "crc"} \X (0..MaxChunks)
  BY PendingJobs, GzipAssumption DEF PoolJobs
<1> QED BY <1>1

(* When the pool says it has no job left, no task is pending.              *)
LEMMA NothingLeft ==
    ASSUME PoolShape, nPendingJobs = 0
    PROVE  Pending = {}
<1>1. Len(queued) \in Nat /\ Cardinality(running) \in Nat /\ IsFiniteSet(running)
  BY FS_CardinalityType DEF PoolShape
<1>2. Len(queued) = 0 /\ Cardinality(running) = 0
  BY <1>1 DEF nPendingJobs
<1>3. running = {}
  BY <1>1, <1>2, FS_EmptySet
<1>4. QueuedJobs = {}
  <2>1. DOMAIN queued = 1..Len(queued)
    BY DEF PoolShape
  <2> QED BY <1>2, <2>1 DEF QueuedJobs
<1> QED BY <1>3, <1>4 DEF Pending

-----------------------------------------------------------------------------
(* Chunks *)

(* Where chunks start.                                                     *)
LEMMA Starts ==
    /\ ChunkSize \in Nat /\ ChunkSize > 0
    /\ Start(0) = 0
    /\ \A s \in Nat : Start(s) \in Nat
    /\ \A s \in Nat : Start(s + 1) = Start(s) + ChunkSize
<1>1. ChunkSize \in Nat /\ ChunkSize > 0
  BY GzipAssumption
<1>2. \A s \in Nat : s * ChunkSize \in Nat /\ (s + 1) * ChunkSize = s * ChunkSize + ChunkSize
  BY <1>1
<1> QED BY <1>1, <1>2 DEF Start

(* The bytes of a chunk.                                                   *)
LEMMA ChunkBytes ==
    ASSUME Types, Control, NEW s \in Nat, s <= nSeqNumberGenerated
    PROVE  /\ Chunk(s) \in Seq(Nat)
           /\ Len(Chunk(s)) = IF s < nSeqNumberGenerated THEN ChunkSize
                              ELSE nCurOffset - Start(s)
           /\ Len(Chunk(s)) \in Nat
           /\ Start(s) + Len(Chunk(s)) = EndBefore(s + 1)
           /\ \A i \in 1..Len(Chunk(s)) : Chunk(s)[i] = Start(s) + i
<1>n. PICK n : n = IF s < nSeqNumberGenerated THEN ChunkSize ELSE nCurOffset - Start(s)
  OBVIOUS
<1>a. PICK a : a = Start(s)
  OBVIOUS
<1>1. a \in Nat /\ Start(s + 1) = a + ChunkSize /\ ChunkSize \in Nat
  BY <1>a, Starts
<1>2. n \in Nat
  BY <1>1, <1>n, <1>a DEF Types, Control
<1>3. Chunk(s) = [i \in 1..n |-> a + i]
  BY <1>n, <1>a DEF Chunk
<1>4. a + n = EndBefore(s + 1)
  <2>1. CASE s < nSeqNumberGenerated
    BY <1>1, <1>n, <2>1 DEF EndBefore, Types
  <2>2. CASE s = nSeqNumberGenerated
    BY <1>1, <1>n, <1>a, <2>2 DEF EndBefore, Types, Control
  <2> QED BY <2>1, <2>2 DEF Types
<1>5. \A i \in 1..n : a + i \in Nat
  BY <1>1, <1>2
<1>6. Chunk(s) \in Seq(Nat) /\ Len(Chunk(s)) = n
  BY <1>2, <1>3, <1>5
<1>7. \A i \in 1..n : Chunk(s)[i] = a + i
  BY <1>3
<1> QED BY <1>2, <1>4, <1>6, <1>7, <1>n, <1>a

(* Bytes that follow the ones that are there, put after them.              *)
LEMMA BytesFollow ==
    ASSUME NEW u \in Seq(Nat), NEW w \in Seq(Nat), NEW a \in Nat,
           \A i \in 1..Len(w) : w[i] = a + i
    PROVE  /\ u \o w \in Seq(Nat)
           /\ (\A i \in 1..Len(u) : u[i] <= a) =>
                 \A i \in 1..Len(u \o w) : (u \o w)[i] <= a + Len(w)
           /\ /\ \A i \in 1..Len(u) : u[i] <= a
              /\ \A i, k \in 1..Len(u) : i < k => u[i] < u[k]
              => \A i, k \in 1..Len(u \o w) : i < k => (u \o w)[i] < (u \o w)[k]
           /\ Len(u) = a /\ (\A i \in 1..Len(u) : u[i] = i) =>
                 /\ Len(u \o w) = a + Len(w)
                 /\ \A i \in 1..Len(u \o w) : (u \o w)[i] = i
<1>m. PICK m \in Nat : m = Len(u)
  OBVIOUS
<1>n. PICK n \in Nat : n = Len(w)
  OBVIOUS
<1>x. PICK x : x = u \o w
  OBVIOUS
<1>1. /\ x \in Seq(Nat) /\ Len(x) = m + n
      /\ \A i \in 1..m + n : x[i] = IF i <= m THEN u[i] ELSE w[i - m]
  BY <1>m, <1>n, <1>x, ConcatProperties
<1>2. ASSUME NEW i \in 1..m + n
      PROVE  \/ i \in 1..m /\ x[i] = u[i]
             \/ i > m /\ x[i] = a + (i - m)
  <2>1. CASE i <= m
    BY <1>1, <2>1
  <2>2. CASE ~(i <= m)
    <3>1. i - m \in 1..n /\ i > m
      BY <2>2
    <3>2. x[i] = w[i - m]
      BY <1>1, <2>2
    <3> QED BY <1>n, <3>1, <3>2
  <2> QED BY <2>1, <2>2
<1>3. \A i \in 1..m : u[i] \in Nat
  BY <1>m
<1>4. ASSUME \A i \in 1..m : u[i] <= a
      PROVE  \A i \in 1..m + n : x[i] <= a + n
  <2>1. ASSUME NEW i \in 1..m + n PROVE x[i] <= a + n
    <3>1. CASE i \in 1..m /\ x[i] = u[i]
      <4>1. u[i] <= a /\ u[i] \in Nat
        BY <1>3, <1>4, <3>1
      <4> QED BY <3>1, <4>1
    <3>2. CASE i > m /\ x[i] = a + (i - m)
      BY <3>2
    <3> QED BY <1>2, <3>1, <3>2
  <2> QED BY <2>1
<1>5. ASSUME \A i \in 1..m : u[i] <= a, \A i, k \in 1..m : i < k => u[i] < u[k]
      PROVE  \A i, k \in 1..m + n : i < k => x[i] < x[k]
  <2>1. SUFFICES ASSUME NEW i \in 1..m + n, NEW k \in 1..m + n, i < k
                 PROVE  x[i] < x[k]
    OBVIOUS
  <2>2. CASE k \in 1..m /\ x[k] = u[k]
    <3>1. i \in 1..m
      BY <2>1, <2>2
    <3>2. x[i] = u[i]
      BY <1>2, <3>1
    <3> QED BY <1>5, <2>1, <2>2, <3>1, <3>2
  <2>3. CASE k > m /\ x[k] = a + (k - m)
    <3>1. CASE i \in 1..m /\ x[i] = u[i]
      <4>1. u[i] \in Nat /\ u[i] <= a
        BY <1>3, <1>5, <3>1
      <4> QED BY <2>3, <3>1, <4>1
    <3>2. CASE i > m /\ x[i] = a + (i - m)
      BY <2>1, <2>3, <3>2
    <3> QED BY <1>2, <3>1, <3>2
  <2> QED BY <1>2, <2>2, <2>3
<1>6. ASSUME m = a, \A i \in 1..m : u[i] = i
      PROVE  Len(x) = a + n /\ \A i \in 1..m + n : x[i] = i
  BY <1>1, <1>2, <1>6
<1> QED BY <1>1, <1>4, <1>5, <1>6, <1>m, <1>n, <1>x

(* What is in a buffer is a sequence of bytes.                             *)
LEMMA ContentBytes ==
    ASSUME Types, NEW b \in Buffers
    PROVE  content[b] \in Seq(Nat)
<1>c. PICK c : c = content[b]
  OBVIOUS
<1>1. c \in Seq(1..MaxBytes)
  BY <1>c DEF Types
<1>2. 1..MaxBytes \subseteq Nat
  BY GzipAssumption
<1>3. Range(c) \subseteq Nat
  BY <1>1, <1>2, ListElements
<1> QED BY <1>1, <1>3, <1>c, ListOver

(* Elements of the lists, and the fields of the objects, have their types. *)
LEMMA Typed ==
    ASSUME Types, Lists
    PROVE  /\ Finished \subseteq Objs /\ CRCFinished \subseteq Objs
           /\ FreeObjs \subseteq Objs /\ FreeBuffers \subseteq Buffers
           /\ \A o \in Objs : /\ job[o].seq \in Nat /\ job[o].inCRC \in BOOLEAN
                              /\ job[o].buf \in Buffers \cup {None}
                              /\ job[o].finish \in BOOLEAN
                              /\ job[o].bytes \in Seq(Nat) /\ job[o].crc \in Seq(Nat)
           /\ Buffers \subseteq Nat /\ None \notin Buffers /\ Objs \subseteq Nat
           /\ None \notin Objs
<1>1. /\ Finished \subseteq Objs /\ CRCFinished \subseteq Objs
      /\ FreeObjs \subseteq Objs /\ FreeBuffers \subseteq Buffers
  BY ListElements DEF Lists, Finished, CRCFinished, FreeObjs, FreeBuffers
<1>2. \A o \in Objs : job[o] \in JobType
  BY DEF Types
<1>3. \A o \in Objs : /\ job[o].seq \in Nat /\ job[o].inCRC \in BOOLEAN
                     /\ job[o].buf \in Buffers \cup {None}
                     /\ job[o].finish \in BOOLEAN
                     /\ job[o].bytes \in Seq(Nat) /\ job[o].crc \in Seq(Nat)
  BY <1>2 DEF JobType
<1>4. Buffers \subseteq Nat /\ None \notin Buffers /\ Objs \subseteq Nat /\ None \notin Objs
  BY NThreadsAssumption DEF Buffers, Objs, None
<1> QED BY <1>1, <1>3, <1>4

-----------------------------------------------------------------------------
(* There are no more Job objects than buffers: as long as a buffer is not  *)
(* held by an object, one object is free or not created.                   *)
LEMMA ObjectLeft ==
    ASSUME Types, Lists, Places, apoFreeJobs = <<>>,
           NEW b \in Buffers, \A o \in Objs : job[o].buf # b
    PROVE  nObjs + 1 \in Objs
<1>1. nObjs \in Nat /\ NThreads \in Nat /\ nObjs <= NThreads + 2
  BY NThreadsAssumption DEF Types
<1>2. SUFFICES ASSUME nObjs = NThreads + 2 PROVE FALSE
  BY <1>1 DEF Objs
<1>3. FreeObjs = {}
  <2>1. DOMAIN apoFreeJobs = {}
    OBVIOUS
  <2> QED BY <2>1 DEF FreeObjs, Range
<1>4. \A o \in Objs : Live(o)
  BY <1>1, <1>2, <1>3 DEF Places, Objs
<1>5. PICK f \in [Objs -> Buffers \ {b}] : f = [o \in Objs |-> job[o].buf]
  <2>1. \A o \in Objs : job[o].buf \in Buffers \ {b}
    BY <1>4, Typed DEF Live
  <2> QED BY <2>1
<1>6. /\ IsFiniteSet(Objs) /\ Cardinality(Objs) = NThreads + 2
      /\ IsFiniteSet(Buffers) /\ Cardinality(Buffers) = NThreads + 2
  <2>1. NThreads + 2 \in Int /\ 1 \in Int /\ ~(1 > NThreads + 2)
        /\ (NThreads + 2) - 1 + 1 = NThreads + 2
    BY <1>1
  <2>2. IsFiniteSet(1..NThreads + 2) /\ Cardinality(1..NThreads + 2) = NThreads + 2
    BY <2>1, FS_Interval
  <2> QED BY <2>2 DEF Objs, Buffers
<1>7. IsFiniteSet(Buffers \ {b}) /\ Cardinality(Buffers \ {b}) = NThreads + 1
  <2>1. IsFiniteSet(Buffers \ {b}) /\ Cardinality(Buffers \ {b}) = Cardinality(Buffers) - 1
    BY <1>6, FS_RemoveElement
  <2> QED BY <1>1, <1>6, <2>1
<1>8. Cardinality(Buffers \ {b}) < Cardinality(Objs)
  BY <1>1, <1>6, <1>7
<1>9. \E x, y \in Objs : x # y /\ f[x] = f[y]
  BY <1>5, <1>6, <1>7, <1>8, FS_PigeonHole
<1> QED BY <1>4, <1>5, <1>9 DEF Places

(* GetJobObject() returns an object that no chunk has.                     *)
LEMMA NewObject ==
    ASSUME Types, Lists, Places, Stages,
           NEW b \in Buffers, \A o \in Objs : job[o].buf # b,
           NEW last \in BOOLEAN, NEW bs \in Seq(Nat), GetJobObject(b, last, bs)
    PROVE  /\ NewObj \in Objs /\ ~Live(NewObj) /\ b # None
           /\ NewObj \notin Finished /\ NewObj \notin CRCFinished
           /\ apoFreeJobs' \in Seq(Objs) /\ IsInjective(apoFreeJobs')
           /\ FreeObjs' = FreeObjs \ {NewObj}
           /\ nObjs' \in 0..NThreads + 2 /\ NewObj <= nObjs'
           /\ \A z \in Objs : z # NewObj => (z <= nObjs' <=> z <= nObjs)
           /\ job' \in [Objs -> JobType]
           /\ \A z \in Objs : z # NewObj => job'[z] = job[z]
           /\ job'[NewObj].seq = nSeqNumberGenerated /\ job'[NewObj].buf = b
           /\ job'[NewObj].inCRC = FALSE /\ job'[NewObj].bytes = bs
           /\ last => job'[NewObj].finish
<1>o. PICK o : o = NewObj
  OBVIOUS
<1>t. None \notin Buffers /\ None \notin Objs /\ Objs \subseteq Nat /\ nObjs \in Nat
      /\ Finished \subseteq Objs /\ CRCFinished \subseteq Objs /\ FreeObjs \subseteq Objs
  BY Typed DEF Types
<1>1. /\ o \in Objs /\ ~Live(o)
      /\ apoFreeJobs' \in Seq(Objs) /\ IsInjective(apoFreeJobs')
      /\ FreeObjs' = FreeObjs \ {o}
      /\ nObjs' \in 0..NThreads + 2 /\ o <= nObjs'
      /\ \A z \in Objs : z # o => (z <= nObjs' <=> z <= nObjs)
  <2>1. CASE apoFreeJobs # <<>>
    <3>1. o = Last(apoFreeJobs) /\ apoFreeJobs' = Front(apoFreeJobs) /\ nObjs' = nObjs
      BY <1>o, <2>1 DEF NewObj, GetJobObject
    <3>2. /\ apoFreeJobs' \in Seq(Objs) /\ IsInjective(apoFreeJobs')
          /\ FreeObjs' = FreeObjs \ {o} /\ o \in FreeObjs /\ o \in Objs
      BY <2>1, <3>1, ListFront DEF Lists, FreeObjs
    <3>3. ~Live(o) /\ o <= nObjs
      BY <3>2 DEF Places
    <3> QED BY <3>1, <3>2, <3>3 DEF Types
  <2>2. CASE apoFreeJobs = <<>>
    <3>1. o = nObjs + 1 /\ apoFreeJobs' = <<>> /\ nObjs' = nObjs + 1
      BY <1>o, <2>2 DEF NewObj, GetJobObject
    <3>2. o \in Objs
      BY <2>2, <3>1, ObjectLeft
    <3>3. ~Live(o)
      BY <1>t, <3>1, <3>2 DEF Places
    <3>4. FreeObjs = {} /\ FreeObjs' = {} /\ apoFreeJobs' \in Seq(Objs) /\ IsInjective(apoFreeJobs')
      <4>1. DOMAIN <<>> = {} /\ <<>> \in Seq(Objs)
        OBVIOUS
      <4> QED BY <2>2, <3>1, <4>1 DEF FreeObjs, Range, IsInjective
    <3>5. nObjs' \in 0..NThreads + 2
      BY <1>t, <3>1, <3>2, NThreadsAssumption DEF Objs
    <3>6. \A z \in Objs : z # o => (z <= nObjs' <=> z <= nObjs)
      BY <1>t, <3>1
    <3>7. o <= nObjs'
      BY <1>t, <3>1
    <3> QED BY <3>2, <3>3, <3>4, <3>5, <3>6, <3>7
  <2> QED BY <2>1, <2>2
<1>r. PICK r \in JobType :
         job' = [job EXCEPT ![o] = [r EXCEPT !.inCRC = FALSE, !.bytes = bs, !.buf = b,
                                             !.seq = nSeqNumberGenerated,
                                             !.finish = last \/ @]]
  <2>1. CASE apoFreeJobs # <<>>
    <3>1. job[o] \in JobType
      BY <1>1 DEF Types
    <3> QED BY <1>o, <2>1, <3>1 DEF GetJobObject
  <2>2. CASE apoFreeJobs = <<>>
    <3>1. EmptyJob \in JobType
      <4>1. <<>> \in Seq(Nat) /\ 0 \in Nat /\ FALSE \in BOOLEAN
        OBVIOUS
      <4> QED BY <4>1 DEF EmptyJob, JobType
    <3> QED BY <1>o, <2>2, <3>1 DEF GetJobObject
  <2> QED BY <2>1, <2>2
<1>q. PICK q : q = [r EXCEPT !.inCRC = FALSE, !.bytes = bs, !.buf = b,
                             !.seq = nSeqNumberGenerated, !.finish = last \/ @]
  OBVIOUS
<1>f. PICK g \in BOOLEAN : g = (last \/ r.finish) /\ (last => g)
  OBVIOUS
<1>2. q = [r EXCEPT !.inCRC = FALSE, !.bytes = bs, !.buf = b,
                    !.seq = nSeqNumberGenerated, !.finish = g]
  BY <1>q, <1>f
<1>3. /\ q \in JobType /\ q.seq = nSeqNumberGenerated /\ q.buf = b /\ q.inCRC = FALSE
      /\ q.bytes = bs /\ q.finish = g
  BY <1>2 DEF JobType, Types
<1>4. job' = [job EXCEPT ![o] = q]
  BY <1>q, <1>r
<1>5. /\ job' \in [Objs -> JobType] /\ job'[o] = q
      /\ \A z \in Objs : z # o => job'[z] = job[z]
  BY <1>1, <1>3, <1>4 DEF Types
<1>6. o \notin Finished /\ o \notin CRCFinished
  BY <1>1 DEF Stages
<1> QED BY <1>t, <1>1, <1>3, <1>5, <1>6, <1>o, <1>f

(* What Write() puts in the current buffer is what comes next.             *)
LEMMA ConsumeBytes ==
    ASSUME Types, Control, Contents, Consume
    PROVE  \E n \in Nat :
              /\ pCurBuffer \in Buffers
              /\ n <= nLeft
              /\ nCurOffset + n <= Start(nSeqNumberGenerated) + ChunkSize
              /\ n = ChunkSize - Len(content[pCurBuffer]) <=>
                    nCurOffset + n = Start(nSeqNumberGenerated) + ChunkSize
              /\ n = IF nLeft < ChunkSize - Len(content[pCurBuffer]) THEN nLeft
                     ELSE ChunkSize - Len(content[pCurBuffer])
              /\ content' \in [Buffers -> Seq(1..MaxBytes)]
              /\ \A b \in Buffers : b # pCurBuffer => content'[b] = content[b]
              /\ content'[pCurBuffer] =
                    [i \in 1..(nCurOffset + n - Start(nSeqNumberGenerated)) |->
                        Start(nSeqNumberGenerated) + i]
              /\ nCurOffset' = nCurOffset + n /\ nLeft' = nLeft - n
<1>b. PICK b \in Buffers : b = pCurBuffer
  BY DEF Consume, Control, Types
<1>a. PICK a \in Nat : a = Start(nSeqNumberGenerated)
  BY Starts DEF Types
<1>c. PICK c : c = content[b]
  OBVIOUS
<1>0. /\ nCurOffset \in Nat /\ nLeft \in Nat /\ ChunkSize \in Nat /\ ChunkSize > 0
      /\ MaxBytes \in Nat /\ nCurOffset + nLeft <= MaxBytes
      /\ a <= nCurOffset /\ nCurOffset < a + ChunkSize
  BY <1>a, Starts, GzipAssumption DEF Types, Control
<1>l. PICK l \in Nat : l = nCurOffset - a
  BY <1>0
<1>1. c = [i \in 1..l |-> a + i]
  <2>1. c = Chunk(nSeqNumberGenerated)
    <3>1. None \notin Buffers
      BY NThreadsAssumption DEF Buffers, None
    <3> QED BY <1>b, <1>c, <3>1 DEF Contents
  <2>2. ~(nSeqNumberGenerated < nSeqNumberGenerated)
    BY DEF Types
  <2> QED BY <1>a, <1>l, <2>1, <2>2 DEF Chunk
<1>2. c \in Seq(1..MaxBytes) /\ Len(c) = l
  <2>1. c \in Seq(1..MaxBytes)
    BY <1>c DEF Types
  <2>2. Len([i \in 1..l |-> a + i]) = l
    OBVIOUS
  <2> QED BY <1>1, <2>1, <2>2
<1>n. PICK n \in Nat : n = IF nLeft < ChunkSize - l THEN nLeft ELSE ChunkSize - l
  BY <1>0, <1>l
<1>3. n <= nLeft /\ nCurOffset + n <= a + ChunkSize
      /\ (n = ChunkSize - l <=> nCurOffset + n = a + ChunkSize)
  BY <1>0, <1>l, <1>n
<1>w. PICK w : w = [i \in 1..n |-> nCurOffset + i]
  OBVIOUS
<1>4. w \in Seq(1..MaxBytes) /\ Len(w) = n /\ \A i \in 1..n : w[i] = nCurOffset + i
  <2>1. \A i \in 1..n : nCurOffset + i \in 1..MaxBytes
    BY <1>0, <1>3
  <2> QED BY <1>w, <2>1
<1>x. PICK x : x = c \o w
  OBVIOUS
<1>5. /\ x \in Seq(1..MaxBytes) /\ Len(x) = l + n
      /\ \A i \in 1..l + n : x[i] = IF i <= l THEN c[i] ELSE w[i - l]
  BY <1>2, <1>4, <1>x, ConcatProperties
<1>6. \A i \in 1..l + n : x[i] = a + i
  <2>1. SUFFICES ASSUME NEW i \in 1..l + n PROVE x[i] = a + i
    OBVIOUS
  <2>2. CASE i <= l
    <3>1. i \in 1..l
      BY <2>2
    <3> QED BY <1>1, <1>5, <2>2, <3>1
  <2>3. CASE ~(i <= l)
    <3>1. i - l \in 1..n /\ nCurOffset + (i - l) = a + i
      BY <1>0, <1>l, <2>3
    <3>2. x[i] = w[i - l]
      BY <1>5, <2>3
    <3> QED BY <1>4, <3>1, <3>2
  <2> QED BY <2>2, <2>3
<1>7. x = [i \in 1..l + n |-> a + i]
  <2>1. x = [i \in 1..Len(x) |-> x[i]]
    BY <1>5
  <2> QED BY <1>5, <1>6, <2>1
<1>8. /\ content' = [content EXCEPT ![b] = x]
      /\ nCurOffset' = nCurOffset + n /\ nLeft' = nLeft - n
  <2>1. n = IF nLeft < ChunkSize - Len(content[pCurBuffer]) THEN nLeft
            ELSE ChunkSize - Len(content[pCurBuffer])
    BY <1>2, <1>b, <1>c, <1>n
  <2>2. content' = [content EXCEPT ![pCurBuffer] = content[pCurBuffer] \o [i \in 1..n |-> nCurOffset + i]]
        /\ nCurOffset' = nCurOffset + n /\ nLeft' = nLeft - n
    BY <2>1 DEF Consume
  <2> QED BY <1>b, <1>c, <1>w, <1>x, <2>2
<1>9. /\ content' \in [Buffers -> Seq(1..MaxBytes)] /\ content'[b] = x
      /\ \A z \in Buffers : z # b => content'[z] = content[z]
  BY <1>5, <1>8 DEF Types
<1>10. l + n = nCurOffset + n - a
  BY <1>0, <1>l
<1> QED BY <1>2, <1>3, <1>7, <1>8, <1>9, <1>10, <1>a, <1>b, <1>c, <1>n

(* The pool: a worker takes a task from the queue, or ends one whose       *)
(* object is in its list, and the invariant is kept.                       *)
LEMMA PoolStepKeeps ==
    ASSUME WriterInv,
           UNCHANGED nDeflateType,
           PoolStep
    PROVE  WriterInv'
<1>0. /\ Types /\ Lists /\ PoolShape /\ Control /\ Places /\ TasksOnLive
      /\ Stages /\ InHand /\ Chunks /\ Loops /\ Closes /\ Contents
      /\ Output /\ Index /\ Trailer /\ Errors
  BY DEF WriterInv
<1>f. /\ Finished \subseteq Objs /\ CRCFinished \subseteq Objs
      /\ FreeObjs \subseteq Objs /\ FreeBuffers \subseteq Buffers
      /\ \A p \in Objs : job[p].seq \in Nat
  BY <1>0, Typed
<1>n. /\ nSeqNumberGenerated \in Nat /\ nSeqNumberExpected \in Nat
      /\ nSeqNumberExpectedCRC \in Nat /\ nErrors \in Nat /\ nObjs \in Nat
      /\ nCurOffset \in Nat /\ caller \in {"Write", "Close1", "Close2"}
      /\ nRet \in {0, -1} /\ pc \in Pcs
  BY <1>0 DEF Types
<1>1. UNCHANGED <<nDeflateType, pc, caller, nLeft, nCurOffset, content,
                  aposBuffers, pCurBuffer, job, nObjs, nSeqNumberGenerated,
                  nSeqNumberExpected, nSeqNumberExpectedCRC, apoFinishedJobs,
                  apoCRCFinishedJobs, apoFreeJobs, doItAgain, psJob, nCRC,
                  out, ended, trailer, panSOZIPIndex, nErrors, bHasErrored,
                  nRet, objOf, deleted>>
  BY <1>0
    DEF PoolStep, poolVars, lists, seqs, file, data
<1>2. Finished' = Finished /\ CRCFinished' = CRCFinished /\ FreeObjs' = FreeObjs /\ FreeBuffers' = FreeBuffers
  BY <1>1 DEF Finished, CRCFinished, FreeObjs, FreeBuffers
<1>3. Pending' = Pending /\ PoolShape'
  BY <1>0, TakeKeepsPending, FinishKeepsPending DEF PoolStep
<1>4. \A c : Chunk(c)' = Chunk(c) /\ EndBefore(c)' = EndBefore(c)
  BY <1>1 DEF Chunk, EndBefore
<1>10. Types'
  BY <1>0, <1>1, <1>2, <1>3, <1>4
    DEF Types, Pcs, Locked
<1>11. Lists'
  BY <1>0, <1>1 DEF Lists
<1>12. Control'
  BY <1>0, <1>1 DEF Control, Closing
<1>13. Places'
  BY <1>0, <1>f, <1>n, <1>1, <1>2
    DEF Places, Live, Closing, Control
<1>14. TasksOnLive'
  BY <1>0, <1>f, <1>n, <1>1, <1>2, <1>3, <1>4
    DEF TasksOnLive, Live, Writing, Submitting
<1>15. Stages'
  BY <1>0, <1>f, <1>n, <1>1, <1>2, <1>3, <1>4
    DEF Stages, TasksOnLive, InHand, Live, Writing, Submitting, Deflating,
        InCRCTask, Low, High, Closing, GzipFormat
<1>16. InHand'
  BY <1>0, <1>f, <1>n, <1>1, <1>2, <1>4 DEF InHand, Stages, Live, GzipFormat
<1>17. Chunks'
  BY <1>0, <1>f, <1>n, <1>1
    DEF Chunks, Live, Low, High, Closing, GzipFormat
<1>18. Loops'
  BY <1>0, <1>f, <1>n, <1>1, <1>2, <1>4 DEF Loops, Locked, GzipFormat
<1>19. Closes'
  BY <1>0, <1>f, <1>n, <1>1, <1>3 DEF Closes, Control, Closing, GzipFormat
<1>20. Contents'
  BY <1>0, <1>f, <1>n, <1>1, <1>2, <1>4
    DEF Contents, InHand, Stages, Writing, Live, Closing, Places
<1>21. Output'
  BY <1>0, <1>n, <1>1, <1>4
    DEF Output
<1>22. Index'
  BY <1>0, <1>n, <1>1, <1>4
    DEF Index
<1>23. Trailer'
  BY <1>0, <1>n, <1>1, <1>4
    DEF Trailer, GzipFormat
<1>24. Errors'
  BY <1>0, <1>1 DEF Errors
<1> QED
  BY <1>3, <1>10, <1>11, <1>12, <1>13, <1>14, <1>15, <1>16, <1>17, <1>18,
     <1>19, <1>20, <1>21, <1>22, <1>23, <1>24
    DEF WriterInv

(* ProcessCompletedJobs() is entered, with the mutex held: the CRC loop    *)
(* starts for a gzip stream, the write loop for a raw one.                 *)
LEMMA EnterProcessKeeps ==
    ASSUME WriterInv,
           UNCHANGED nDeflateType,
           EnterProcess
    PROVE  WriterInv'
<1>0. /\ Types /\ Lists /\ PoolShape /\ Control /\ Places /\ TasksOnLive
      /\ Stages /\ InHand /\ Chunks /\ Loops /\ Closes /\ Contents
      /\ Output /\ Index /\ Trailer /\ Errors
  BY DEF WriterInv
<1>f. /\ Finished \subseteq Objs /\ CRCFinished \subseteq Objs
      /\ FreeObjs \subseteq Objs /\ FreeBuffers \subseteq Buffers
      /\ \A p \in Objs : job[p].seq \in Nat
  BY <1>0, Typed
<1>n. /\ nSeqNumberGenerated \in Nat /\ nSeqNumberExpected \in Nat
      /\ nSeqNumberExpectedCRC \in Nat /\ nErrors \in Nat /\ nObjs \in Nat
      /\ nCurOffset \in Nat /\ caller \in {"Write", "Close1", "Close2"}
      /\ nRet \in {0, -1} /\ pc \in Pcs
  BY <1>0 DEF Types
<1>1. UNCHANGED <<nDeflateType, caller, nLeft, nCurOffset, content,
                  aposBuffers, pCurBuffer, job, nObjs, nSeqNumberGenerated,
                  nSeqNumberExpected, nSeqNumberExpectedCRC, apoFinishedJobs,
                  apoCRCFinishedJobs, apoFreeJobs, psJob, nCRC, out, ended,
                  trailer, panSOZIPIndex, nErrors, bHasErrored, nRet, objOf,
                  deleted>>
  BY <1>0
    DEF EnterProcess, poolVars, lists, seqs, file, data
<1>2. Finished' = Finished /\ CRCFinished' = CRCFinished /\ FreeObjs' = FreeObjs /\ FreeBuffers' = FreeBuffers
  BY <1>1 DEF Finished, CRCFinished, FreeObjs, FreeBuffers
<1>3. Pending' = Pending /\ PoolShape'
  BY <1>0
    DEF EnterProcess, Pending, PoolShape, QueuedJobs, poolVars
<1>4. \A c : Chunk(c)' = Chunk(c) /\ EndBefore(c)' = EndBefore(c)
  BY <1>1 DEF Chunk, EndBefore
<1>5. pc = "process" /\ doItAgain' = FALSE
      /\ pc' = IF GzipFormat THEN "crcLoop" ELSE "writeLoop"
  BY DEF EnterProcess
<1>10. Types'
  BY <1>0, <1>1, <1>2, <1>3, <1>4, <1>5
    DEF Types, Pcs, Locked
<1>11. Lists'
  BY <1>0, <1>n, <1>1, <1>5 DEF Lists
<1>12. Control'
  BY <1>0, <1>n, <1>1, <1>5 DEF Control, Closing
<1>13. Places'
  BY <1>0, <1>f, <1>n, <1>1, <1>2, <1>5
    DEF Places, Live, Closing, Control
<1>14. TasksOnLive'
  BY <1>0, <1>f, <1>n, <1>1, <1>2, <1>3, <1>4, <1>5
    DEF TasksOnLive, Live, Writing, Submitting
<1>15. Stages'
  BY <1>0, <1>f, <1>n, <1>1, <1>2, <1>3, <1>4, <1>5
    DEF Stages, TasksOnLive, InHand, Live, Writing, Submitting, Deflating,
        InCRCTask, Low, High, Closing, GzipFormat
<1>16. InHand'
  BY <1>1, <1>5 DEF InHand, Stages, Live, GzipFormat
<1>17. Chunks'
  BY <1>0, <1>f, <1>n, <1>1, <1>5
    DEF Chunks, Live, Low, High, Closing, GzipFormat
<1>18. Loops'
  BY <1>1, <1>5 DEF Loops, Locked, GzipFormat
<1>19. Closes'
  BY <1>0, <1>f, <1>n, <1>1, <1>2, <1>3, <1>4, <1>5
    DEF Closes, Control, Closing, GzipFormat
<1>20. Contents'
  BY <1>0, <1>f, <1>n, <1>1, <1>2, <1>4, <1>5
    DEF Contents, InHand, Stages, Writing, Live, Closing, Places
<1>21. Output'
  BY <1>0, <1>n, <1>1, <1>4, <1>5
    DEF Output
<1>22. Index'
  BY <1>0, <1>n, <1>1, <1>4, <1>5
    DEF Index
<1>23. Trailer'
  BY <1>0, <1>n, <1>1, <1>4, <1>5
    DEF Trailer, GzipFormat
<1>24. Errors'
  BY <1>0, <1>n, <1>1, <1>5 DEF Errors
<1> QED
  BY <1>3, <1>10, <1>11, <1>12, <1>13, <1>14, <1>15, <1>16, <1>17, <1>18,
     <1>19, <1>20, <1>21, <1>22, <1>23, <1>24
    DEF WriterInv

(* The wait for a free buffer ends when the pool has a task less, and the  *)
(* finished jobs are processed again.                                      *)
LEMMA WaitEventKeeps ==
    ASSUME WriterInv,
           UNCHANGED nDeflateType,
           WaitEvent
    PROVE  WriterInv'
<1>0. /\ Types /\ Lists /\ PoolShape /\ Control /\ Places /\ TasksOnLive
      /\ Stages /\ InHand /\ Chunks /\ Loops /\ Closes /\ Contents
      /\ Output /\ Index /\ Trailer /\ Errors
  BY DEF WriterInv
<1>f. /\ Finished \subseteq Objs /\ CRCFinished \subseteq Objs
      /\ FreeObjs \subseteq Objs /\ FreeBuffers \subseteq Buffers
      /\ \A p \in Objs : job[p].seq \in Nat
  BY <1>0, Typed
<1>n. /\ nSeqNumberGenerated \in Nat /\ nSeqNumberExpected \in Nat
      /\ nSeqNumberExpectedCRC \in Nat /\ nErrors \in Nat /\ nObjs \in Nat
      /\ nCurOffset \in Nat /\ caller \in {"Write", "Close1", "Close2"}
      /\ nRet \in {0, -1} /\ pc \in Pcs
  BY <1>0 DEF Types
<1>1. UNCHANGED <<nDeflateType, caller, nLeft, nCurOffset, content,
                  aposBuffers, pCurBuffer, job, nObjs, nSeqNumberGenerated,
                  nSeqNumberExpected, nSeqNumberExpectedCRC, apoFinishedJobs,
                  apoCRCFinishedJobs, apoFreeJobs, doItAgain, psJob, nCRC,
                  out, ended, trailer, panSOZIPIndex, nErrors, bHasErrored,
                  nRet, objOf, deleted>>
  BY <1>0
    DEF WaitEvent, poolVars, lists, seqs, file, data
<1>2. Finished' = Finished /\ CRCFinished' = CRCFinished /\ FreeObjs' = FreeObjs /\ FreeBuffers' = FreeBuffers
  BY <1>1 DEF Finished, CRCFinished, FreeObjs, FreeBuffers
<1>3. Pending' = Pending /\ PoolShape'
  BY <1>0
    DEF WaitEvent, Pending, PoolShape, QueuedJobs, poolVars
<1>4. \A c : Chunk(c)' = Chunk(c) /\ EndBefore(c)' = EndBefore(c)
  BY <1>1 DEF Chunk, EndBefore
<1>5. pc = "waitEvent" /\ pc' = "process"
  BY DEF WaitEvent
<1>10. Types'
  BY <1>0, <1>1, <1>2, <1>3, <1>4, <1>5
    DEF Types, Pcs, Locked
<1>11. Lists'
  BY <1>0, <1>n, <1>1, <1>5 DEF Lists
<1>12. Control'
  BY <1>0, <1>n, <1>1, <1>5 DEF Control, Closing
<1>13. Places'
  BY <1>0, <1>f, <1>n, <1>1, <1>2, <1>5
    DEF Places, Live, Closing, Control
<1>14. TasksOnLive'
  BY <1>0, <1>f, <1>n, <1>1, <1>2, <1>3, <1>4, <1>5
    DEF TasksOnLive, Live, Writing, Submitting
<1>15. Stages'
  BY <1>0, <1>f, <1>n, <1>1, <1>2, <1>3, <1>4, <1>5
    DEF Stages, TasksOnLive, InHand, Live, Writing, Submitting, Deflating,
        InCRCTask, Low, High, Closing, GzipFormat
<1>16. InHand'
  BY <1>1, <1>5 DEF InHand, Stages, Live, GzipFormat
<1>17. Chunks'
  BY <1>0, <1>f, <1>n, <1>1, <1>5
    DEF Chunks, Live, Low, High, Closing, GzipFormat
<1>18. Loops'
  BY <1>1, <1>5 DEF Loops, Locked, GzipFormat
<1>19. Closes'
  BY <1>0, <1>n, <1>1, <1>5 DEF Closes, Control, Closing, GzipFormat
<1>20. Contents'
  BY <1>0, <1>f, <1>n, <1>1, <1>2, <1>4, <1>5
    DEF Contents, InHand, Stages, Writing, Live, Closing, Places
<1>21. Output'
  BY <1>0, <1>n, <1>1, <1>4, <1>5
    DEF Output
<1>22. Index'
  BY <1>0, <1>n, <1>1, <1>4, <1>5
    DEF Index
<1>23. Trailer'
  BY <1>0, <1>n, <1>1, <1>4, <1>5
    DEF Trailer, GzipFormat
<1>24. Errors'
  BY <1>0, <1>n, <1>1, <1>5 DEF Errors
<1> QED
  BY <1>3, <1>10, <1>11, <1>12, <1>13, <1>14, <1>15, <1>16, <1>17, <1>18,
     <1>19, <1>20, <1>21, <1>22, <1>23, <1>24
    DEF WriterInv

(* Close() waits for the tasks of the pool to end before it processes what *)
(* they have finished.                                                     *)
LEMMA CloseWaitsKeeps ==
    ASSUME WriterInv,
           UNCHANGED nDeflateType,
           CloseWaits
    PROVE  WriterInv'
<1>0. /\ Types /\ Lists /\ PoolShape /\ Control /\ Places /\ TasksOnLive
      /\ Stages /\ InHand /\ Chunks /\ Loops /\ Closes /\ Contents
      /\ Output /\ Index /\ Trailer /\ Errors
  BY DEF WriterInv
<1>f. /\ Finished \subseteq Objs /\ CRCFinished \subseteq Objs
      /\ FreeObjs \subseteq Objs /\ FreeBuffers \subseteq Buffers
      /\ \A p \in Objs : job[p].seq \in Nat
  BY <1>0, Typed
<1>n. /\ nSeqNumberGenerated \in Nat /\ nSeqNumberExpected \in Nat
      /\ nSeqNumberExpectedCRC \in Nat /\ nErrors \in Nat /\ nObjs \in Nat
      /\ nCurOffset \in Nat /\ caller \in {"Write", "Close1", "Close2"}
      /\ nRet \in {0, -1} /\ pc \in Pcs
  BY <1>0 DEF Types
<1>1. UNCHANGED <<nDeflateType, caller, nLeft, nCurOffset, content,
                  aposBuffers, pCurBuffer, job, nObjs, nSeqNumberGenerated,
                  nSeqNumberExpected, nSeqNumberExpectedCRC, apoFinishedJobs,
                  apoCRCFinishedJobs, apoFreeJobs, doItAgain, psJob, nCRC,
                  out, ended, trailer, panSOZIPIndex, nErrors, bHasErrored,
                  nRet, objOf, deleted>>
  BY <1>0
    DEF CloseWaits, poolVars, lists, seqs, file, data
<1>2. Finished' = Finished /\ CRCFinished' = CRCFinished /\ FreeObjs' = FreeObjs /\ FreeBuffers' = FreeBuffers
  BY <1>1 DEF Finished, CRCFinished, FreeObjs, FreeBuffers
<1>3. Pending' = Pending /\ PoolShape'
  BY <1>0
    DEF CloseWaits, Pending, PoolShape, QueuedJobs, poolVars
<1>4. \A c : Chunk(c)' = Chunk(c) /\ EndBefore(c)' = EndBefore(c)
  BY <1>1 DEF Chunk, EndBefore
<1>5. pc = "waitCompletion" /\ pc' = "process" /\ Pending = {}
  BY <1>0, NothingLeft DEF CloseWaits, WaitCompletion
<1>10. Types'
  BY <1>0, <1>1, <1>2, <1>3, <1>4, <1>5
    DEF Types, Pcs, Locked
<1>11. Lists'
  BY <1>0, <1>n, <1>1, <1>5 DEF Lists
<1>12. Control'
  BY <1>0, <1>n, <1>1, <1>5 DEF Control, Closing
<1>13. Places'
  BY <1>0, <1>f, <1>n, <1>1, <1>2, <1>5
    DEF Places, Live, Closing, Control
<1>14. TasksOnLive'
  BY <1>0, <1>f, <1>n, <1>1, <1>2, <1>3, <1>4, <1>5
    DEF TasksOnLive, Live, Writing, Submitting
<1>15. Stages'
  BY <1>0, <1>f, <1>n, <1>1, <1>2, <1>5
    DEF Stages, TasksOnLive, InHand, Live, Writing, Submitting, Deflating,
        InCRCTask, Low, High, Closing, GzipFormat
<1>16. InHand'
  BY <1>1, <1>5 DEF InHand, Stages, Live, GzipFormat
<1>17. Chunks'
  BY <1>0, <1>f, <1>n, <1>1, <1>5
    DEF Chunks, Live, Low, High, Closing, GzipFormat
<1>18. Loops'
  BY <1>1, <1>5 DEF Loops, Locked, GzipFormat
<1>19. Closes'
  BY <1>0, <1>f, <1>n, <1>1, <1>2, <1>3, <1>4, <1>5
    DEF Closes, Control, Closing, GzipFormat
<1>20. Contents'
  BY <1>0, <1>f, <1>n, <1>1, <1>2, <1>4, <1>5
    DEF Contents, InHand, Stages, Writing, Live, Closing, Places
<1>21. Output'
  BY <1>0, <1>n, <1>1, <1>4, <1>5
    DEF Output
<1>22. Index'
  BY <1>0, <1>n, <1>1, <1>4, <1>5
    DEF Index
<1>23. Trailer'
  BY <1>0, <1>n, <1>1, <1>4, <1>5
    DEF Trailer, GzipFormat
<1>24. Errors'
  BY <1>0, <1>n, <1>1, <1>5 DEF Errors
<1> QED
  BY <1>3, <1>10, <1>11, <1>12, <1>13, <1>14, <1>15, <1>16, <1>17, <1>18,
     <1>19, <1>20, <1>21, <1>22, <1>23, <1>24
    DEF WriterInv

(* Write() is called with bytes to compress: they have yet to be consumed. *)
LEMMA WriteKeeps ==
    ASSUME WriterInv,
           UNCHANGED nDeflateType,
           NEW n \in 1..MaxWrite,
           Write(n)
    PROVE  WriterInv'
<1>0. /\ Types /\ Lists /\ PoolShape /\ Control /\ Places /\ TasksOnLive
      /\ Stages /\ InHand /\ Chunks /\ Loops /\ Closes /\ Contents
      /\ Output /\ Index /\ Trailer /\ Errors
  BY DEF WriterInv
<1>f. /\ Finished \subseteq Objs /\ CRCFinished \subseteq Objs
      /\ FreeObjs \subseteq Objs /\ FreeBuffers \subseteq Buffers
      /\ \A p \in Objs : job[p].seq \in Nat
  BY <1>0, Typed
<1>n. /\ nSeqNumberGenerated \in Nat /\ nSeqNumberExpected \in Nat
      /\ nSeqNumberExpectedCRC \in Nat /\ nErrors \in Nat /\ nObjs \in Nat
      /\ nCurOffset \in Nat /\ caller \in {"Write", "Close1", "Close2"}
      /\ nRet \in {0, -1} /\ pc \in Pcs
  BY <1>0 DEF Types
<1>1. UNCHANGED <<nDeflateType, nCurOffset, content, aposBuffers, pCurBuffer,
                  job, nObjs, nSeqNumberGenerated, nSeqNumberExpected,
                  nSeqNumberExpectedCRC, apoFinishedJobs, apoCRCFinishedJobs,
                  apoFreeJobs, doItAgain, psJob, nCRC, out, ended, trailer,
                  panSOZIPIndex, nErrors, bHasErrored, nRet, objOf, deleted>>
  BY <1>0
    DEF Write, poolVars, lists, seqs, file, data
<1>2. Finished' = Finished /\ CRCFinished' = CRCFinished /\ FreeObjs' = FreeObjs /\ FreeBuffers' = FreeBuffers
  BY <1>1 DEF Finished, CRCFinished, FreeObjs, FreeBuffers
<1>3. Pending' = Pending /\ PoolShape'
  BY <1>0
    DEF Write, Pending, PoolShape, QueuedJobs, poolVars
<1>4. \A c : Chunk(c)' = Chunk(c) /\ EndBefore(c)' = EndBefore(c)
  BY <1>1 DEF Chunk, EndBefore
<1>5. /\ pc = "idle" /\ pc' = IF pCurBuffer = None THEN "getBuffer" ELSE "write"
      /\ nCurOffset + n <= MaxBytes /\ nLeft' = n /\ caller' = "Write"
  BY DEF Write
<1>6. caller = "Write"
  BY <1>0, <1>5 DEF Control, Closing, Types
<1>10. Types'
  BY <1>0, <1>1, <1>5, <1>6 DEF Types, Pcs, Locked
<1>11. Lists'
  BY <1>0, <1>n, <1>1, <1>5, <1>6 DEF Lists
<1>12. Control'
  BY <1>0, <1>n, <1>1, <1>5, <1>6 DEF Control, Closing
<1>13. Places'
  BY <1>0, <1>1, <1>2, <1>5, <1>6 DEF Places, Live, Closing, Control
<1>14. TasksOnLive'
  BY <1>0, <1>f, <1>n, <1>1, <1>2, <1>3, <1>4, <1>5, <1>6
    DEF TasksOnLive, Live, Writing, Submitting
<1>15. Stages'
  BY <1>0, <1>f, <1>n, <1>1, <1>2, <1>3, <1>4, <1>5, <1>6
    DEF Stages, TasksOnLive, InHand, Live, Writing, Submitting, Deflating,
        InCRCTask, Low, High, Closing, GzipFormat
<1>16. InHand'
  BY <1>1, <1>5, <1>6 DEF InHand, Stages, Live, GzipFormat
<1>17. Chunks'
  BY <1>0, <1>f, <1>n, <1>1, <1>5, <1>6
    DEF Chunks, Live, Low, High, Closing, GzipFormat
<1>18. Loops'
  BY <1>1, <1>5, <1>6 DEF Loops, Locked, GzipFormat
<1>19. Closes'
  BY <1>1, <1>5, <1>6 DEF Closes, Control, Closing, GzipFormat
<1>20. Contents'
  BY <1>0, <1>f, <1>n, <1>1, <1>2, <1>4, <1>5, <1>6
    DEF Contents, InHand, Stages, Writing, Live, Closing, Places
<1>21. Output'
  BY <1>0, <1>n, <1>1, <1>4, <1>5, <1>6
    DEF Output
<1>22. Index'
  BY <1>0, <1>n, <1>1, <1>4, <1>5, <1>6
    DEF Index
<1>23. Trailer'
  BY <1>0, <1>n, <1>1, <1>4, <1>5, <1>6
    DEF Trailer, GzipFormat
<1>24. Errors'
  BY <1>0, <1>n, <1>1, <1>5, <1>6 DEF Errors
<1> QED
  BY <1>3, <1>10, <1>11, <1>12, <1>13, <1>14, <1>15, <1>16, <1>17, <1>18,
     <1>19, <1>20, <1>21, <1>22, <1>23, <1>24
    DEF WriterInv

(* The destructor deletes the objects that are in a list of a closed       *)
(* stream.                                                                 *)
LEMMA DeleteKeeps ==
    ASSUME WriterInv,
           UNCHANGED nDeflateType,
           Delete
    PROVE  WriterInv'
<1>0. /\ Types /\ Lists /\ PoolShape /\ Control /\ Places /\ TasksOnLive
      /\ Stages /\ InHand /\ Chunks /\ Loops /\ Closes /\ Contents
      /\ Output /\ Index /\ Trailer /\ Errors
  BY DEF WriterInv
<1>f. /\ Finished \subseteq Objs /\ CRCFinished \subseteq Objs
      /\ FreeObjs \subseteq Objs /\ FreeBuffers \subseteq Buffers
      /\ \A p \in Objs : job[p].seq \in Nat
  BY <1>0, Typed
<1>n. /\ nSeqNumberGenerated \in Nat /\ nSeqNumberExpected \in Nat
      /\ nSeqNumberExpectedCRC \in Nat /\ nErrors \in Nat /\ nObjs \in Nat
      /\ nCurOffset \in Nat /\ caller \in {"Write", "Close1", "Close2"}
      /\ nRet \in {0, -1} /\ pc \in Pcs
  BY <1>0 DEF Types
<1>1. UNCHANGED <<nDeflateType, caller, nLeft, nCurOffset, content,
                  aposBuffers, pCurBuffer, job, nObjs, nSeqNumberGenerated,
                  nSeqNumberExpected, nSeqNumberExpectedCRC, apoFinishedJobs,
                  apoCRCFinishedJobs, apoFreeJobs, doItAgain, psJob, nCRC,
                  out, ended, trailer, panSOZIPIndex, nErrors, bHasErrored,
                  nRet, objOf>>
  BY <1>0
    DEF Delete, poolVars, lists, seqs, file, data
<1>2. Finished' = Finished /\ CRCFinished' = CRCFinished /\ FreeObjs' = FreeObjs /\ FreeBuffers' = FreeBuffers
  BY <1>1 DEF Finished, CRCFinished, FreeObjs, FreeBuffers
<1>3. Pending' = Pending /\ PoolShape'
  BY <1>0
    DEF Delete, Pending, PoolShape, QueuedJobs, poolVars
<1>4. \A c : Chunk(c)' = Chunk(c) /\ EndBefore(c)' = EndBefore(c)
  BY <1>1 DEF Chunk, EndBefore
<1>5. pc = "closed" /\ pc' = "deleted"
  BY DEF Delete
<1>10. Types'
  BY <1>0, <1>1, <1>2, <1>3, <1>4, <1>5
    DEF Types, Pcs, Locked
<1>11. Lists'
  BY <1>0, <1>n, <1>1, <1>5 DEF Lists
<1>12. Control'
  BY <1>0, <1>n, <1>1, <1>5 DEF Control, Closing
<1>13. Places'
  BY <1>0, <1>f, <1>n, <1>1, <1>2, <1>5
    DEF Places, Live, Closing, Control
<1>14. TasksOnLive'
  BY <1>0, <1>f, <1>n, <1>1, <1>2, <1>3, <1>4, <1>5
    DEF TasksOnLive, Live, Writing, Submitting
<1>15. Stages'
  BY <1>0, <1>f, <1>n, <1>1, <1>2, <1>3, <1>4, <1>5
    DEF Stages, TasksOnLive, InHand, Live, Writing, Submitting, Deflating,
        InCRCTask, Low, High, Closing, GzipFormat
<1>16. InHand'
  BY <1>1, <1>5 DEF InHand, Stages, Live, GzipFormat
<1>17. Chunks'
  BY <1>0, <1>f, <1>n, <1>1, <1>5
    DEF Chunks, Live, Low, High, Closing, GzipFormat
<1>18. Loops'
  BY <1>1, <1>5 DEF Loops, Locked, GzipFormat
<1>19. Closes'
  BY <1>0, <1>f, <1>n, <1>1, <1>2, <1>3, <1>4, <1>5
    DEF Closes, Control, Closing, GzipFormat
<1>20. Contents'
  BY <1>0, <1>f, <1>n, <1>1, <1>2, <1>4, <1>5
    DEF Contents, InHand, Stages, Writing, Live, Closing, Places
<1>21. Output'
  BY <1>0, <1>n, <1>1, <1>4, <1>5
    DEF Output
<1>22. Index'
  BY <1>0, <1>n, <1>1, <1>4, <1>5
    DEF Index
<1>23. Trailer'
  BY <1>0, <1>n, <1>1, <1>4, <1>5
    DEF Trailer, GzipFormat
<1>24. Errors'
  BY <1>0, <1>n, <1>1, <1>5 DEF Errors
<1> QED
  BY <1>3, <1>10, <1>11, <1>12, <1>13, <1>14, <1>15, <1>16, <1>17, <1>18,
     <1>19, <1>20, <1>21, <1>22, <1>23, <1>24
    DEF WriterInv

(* Close() writes the trailer, and the stream is closed.                   *)
LEMMA WriteTrailerKeeps ==
    ASSUME WriterInv,
           UNCHANGED nDeflateType,
           WriteTrailer
    PROVE  WriterInv'
<1>0. /\ Types /\ Lists /\ PoolShape /\ Control /\ Places /\ TasksOnLive
      /\ Stages /\ InHand /\ Chunks /\ Loops /\ Closes /\ Contents
      /\ Output /\ Index /\ Trailer /\ Errors
  BY DEF WriterInv
<1>f. /\ Finished \subseteq Objs /\ CRCFinished \subseteq Objs
      /\ FreeObjs \subseteq Objs /\ FreeBuffers \subseteq Buffers
      /\ \A p \in Objs : job[p].seq \in Nat
  BY <1>0, Typed
<1>n. /\ nSeqNumberGenerated \in Nat /\ nSeqNumberExpected \in Nat
      /\ nSeqNumberExpectedCRC \in Nat /\ nErrors \in Nat /\ nObjs \in Nat
      /\ nCurOffset \in Nat /\ caller \in {"Write", "Close1", "Close2"}
      /\ nRet \in {0, -1} /\ pc \in Pcs
  BY <1>0 DEF Types
<1>1. UNCHANGED <<nDeflateType, caller, nLeft, nCurOffset, content,
                  aposBuffers, pCurBuffer, job, nObjs, nSeqNumberGenerated,
                  nSeqNumberExpected, nSeqNumberExpectedCRC, apoFinishedJobs,
                  apoCRCFinishedJobs, apoFreeJobs, doItAgain, psJob, nCRC,
                  out, ended, panSOZIPIndex, bHasErrored, objOf, deleted>>
  BY <1>0
    DEF WriteTrailer, poolVars, lists, seqs, file, data
<1>2. Finished' = Finished /\ CRCFinished' = CRCFinished /\ FreeObjs' = FreeObjs /\ FreeBuffers' = FreeBuffers
  BY <1>1 DEF Finished, CRCFinished, FreeObjs, FreeBuffers
<1>3. Pending' = Pending /\ PoolShape'
  BY <1>0
    DEF WriteTrailer, Pending, PoolShape, QueuedJobs, poolVars
<1>4. \A c : Chunk(c)' = Chunk(c) /\ EndBefore(c)' = EndBefore(c)
  BY <1>1 DEF Chunk, EndBefore
<1>5. pc = "finish" /\ pc' = "closed"
  BY DEF WriteTrailer
<1>6. \/ /\ trailer' = IF GzipFormat THEN <<nCRC, nCurOffset>> ELSE <<>>
         /\ UNCHANGED <<nErrors, nRet>>
      \/ nErrors' = nErrors + 1 /\ nRet' = -1
  BY DEF WriteTrailer
<1>10. Types'
  BY <1>0, <1>1, <1>5, <1>6 DEF Types, Pcs, Locked
<1>11. Lists'
  BY <1>0, <1>n, <1>1, <1>5, <1>6 DEF Lists
<1>12. Control'
  BY <1>0, <1>n, <1>1, <1>5, <1>6 DEF Control, Closing
<1>13. Places'
  BY <1>0, <1>1, <1>2, <1>5, <1>6 DEF Places, Live, Closing, Control
<1>14. TasksOnLive'
  BY <1>0, <1>f, <1>n, <1>1, <1>2, <1>3, <1>4, <1>5, <1>6
    DEF TasksOnLive, Live, Writing, Submitting
<1>15. Stages'
  BY <1>0, <1>f, <1>n, <1>1, <1>2, <1>3, <1>4, <1>5, <1>6
    DEF Stages, TasksOnLive, InHand, Live, Writing, Submitting, Deflating,
        InCRCTask, Low, High, Closing, GzipFormat
<1>16. InHand'
  BY <1>1, <1>5, <1>6 DEF InHand, Stages, Live, GzipFormat
<1>17. Chunks'
  BY <1>0, <1>f, <1>n, <1>1, <1>5, <1>6
    DEF Chunks, Live, Low, High, Closing, GzipFormat
<1>18. Loops'
  BY <1>1, <1>5, <1>6 DEF Loops, Locked, GzipFormat
<1>19. Closes'
  BY <1>0, <1>f, <1>n, <1>1, <1>2, <1>3, <1>4, <1>5, <1>6
    DEF Closes, Control, Closing, GzipFormat
<1>20. Contents'
  BY <1>0, <1>f, <1>n, <1>1, <1>2, <1>4, <1>5, <1>6
    DEF Contents, InHand, Stages, Writing, Live, Closing, Places
<1>21. Output'
  BY <1>0, <1>n, <1>1, <1>4, <1>5, <1>6
    DEF Output
<1>22. Index'
  BY <1>0, <1>n, <1>1, <1>4, <1>5, <1>6
    DEF Index
<1>23. Trailer'
  BY <1>0, <1>n, <1>1, <1>4, <1>5, <1>6
    DEF Trailer, GzipFormat
<1>24. Errors'
  BY <1>0, <1>n, <1>1, <1>5, <1>6 DEF Errors
<1> QED
  BY <1>3, <1>10, <1>11, <1>12, <1>13, <1>14, <1>15, <1>16, <1>17, <1>18,
     <1>19, <1>20, <1>21, <1>22, <1>23, <1>24
    DEF WriterInv

(* The CRC loop finds no job whose CRC task has yet to be submitted.       *)
LEMMA CrcLoopEnds ==
    ASSUME WriterInv,
           UNCHANGED nDeflateType,
           CrcLoop,
           pc' # "submitCrc"
    PROVE  WriterInv'
<1>0. /\ Types /\ Lists /\ PoolShape /\ Control /\ Places /\ TasksOnLive
      /\ Stages /\ InHand /\ Chunks /\ Loops /\ Closes /\ Contents
      /\ Output /\ Index /\ Trailer /\ Errors
  BY DEF WriterInv
<1>f. /\ Finished \subseteq Objs /\ CRCFinished \subseteq Objs
      /\ FreeObjs \subseteq Objs /\ FreeBuffers \subseteq Buffers
      /\ \A p \in Objs : job[p].seq \in Nat
  BY <1>0, Typed
<1>n. /\ nSeqNumberGenerated \in Nat /\ nSeqNumberExpected \in Nat
      /\ nSeqNumberExpectedCRC \in Nat /\ nErrors \in Nat /\ nObjs \in Nat
      /\ nCurOffset \in Nat /\ caller \in {"Write", "Close1", "Close2"}
      /\ nRet \in {0, -1} /\ pc \in Pcs
  BY <1>0 DEF Types
<1>i. PICK i : i = SelectInSeq(apoFinishedJobs, NeedsCRC)
  OBVIOUS
<1>s. i = 0 /\ \A o \in Finished : job[o].inCRC
  BY <1>0, <1>i, FindNeedsCRC DEF CrcLoop, Lists
<1>1. UNCHANGED <<nDeflateType, caller, nLeft, nCurOffset, content,
                  aposBuffers, pCurBuffer, job, nObjs, nSeqNumberGenerated,
                  nSeqNumberExpected, nSeqNumberExpectedCRC, apoFinishedJobs,
                  apoCRCFinishedJobs, apoFreeJobs, doItAgain, psJob, nCRC,
                  out, ended, trailer, panSOZIPIndex, nErrors, bHasErrored,
                  nRet, objOf, deleted>>
  BY <1>i, <1>s DEF CrcLoop, lists, seqs, file
<1>2. Finished' = Finished /\ CRCFinished' = CRCFinished /\ FreeObjs' = FreeObjs /\ FreeBuffers' = FreeBuffers
  BY <1>1 DEF Finished, CRCFinished, FreeObjs, FreeBuffers
<1>3. Pending' = Pending /\ PoolShape'
  BY <1>0
    DEF CrcLoop, Pending, PoolShape, QueuedJobs, poolVars
<1>4. \A c : Chunk(c)' = Chunk(c) /\ EndBefore(c)' = EndBefore(c)
  BY <1>1 DEF Chunk, EndBefore
<1>5. pc = "crcLoop" /\ pc' = "writeLoop"
  BY <1>i, <1>s DEF CrcLoop
<1>10. Types'
  BY <1>0, <1>1, <1>s, <1>5 DEF Types, Pcs, Locked
<1>11. Lists'
  BY <1>0, <1>n, <1>1, <1>s, <1>5 DEF Lists
<1>12. Control'
  BY <1>0, <1>n, <1>1, <1>s, <1>5 DEF Control, Closing
<1>13. Places'
  BY <1>0, <1>1, <1>2, <1>s, <1>5 DEF Places, Live, Closing, Control
<1>14. TasksOnLive'
  BY <1>0, <1>f, <1>n, <1>1, <1>2, <1>3, <1>4, <1>s, <1>5
    DEF TasksOnLive, Live, Writing, Submitting
<1>15. Stages'
  BY <1>0, <1>f, <1>n, <1>1, <1>2, <1>3, <1>4, <1>s, <1>5
    DEF Stages, TasksOnLive, InHand, Live, Writing, Submitting, Deflating,
        InCRCTask, Low, High, Closing, GzipFormat
<1>16. InHand'
  BY <1>1, <1>s, <1>5 DEF InHand, Stages, Live, GzipFormat
<1>17. Chunks'
  BY <1>0, <1>f, <1>n, <1>1, <1>s, <1>5
    DEF Chunks, Live, Low, High, Closing, GzipFormat
<1>18. Loops'
  BY <1>0, <1>f, <1>n, <1>1, <1>2, <1>s, <1>5 DEF Loops, Locked, GzipFormat
<1>19. Closes'
  BY <1>0, <1>f, <1>n, <1>1, <1>2, <1>3, <1>4, <1>s, <1>5
    DEF Closes, Control, Closing, GzipFormat
<1>20. Contents'
  BY <1>0, <1>f, <1>n, <1>1, <1>2, <1>4, <1>s, <1>5
    DEF Contents, InHand, Stages, Writing, Live, Closing, Places
<1>21. Output'
  BY <1>0, <1>n, <1>1, <1>4, <1>s, <1>5
    DEF Output
<1>22. Index'
  BY <1>0, <1>n, <1>1, <1>4, <1>s, <1>5
    DEF Index
<1>23. Trailer'
  BY <1>0, <1>n, <1>1, <1>4, <1>s, <1>5
    DEF Trailer, GzipFormat
<1>24. Errors'
  BY <1>0, <1>n, <1>1, <1>s, <1>5 DEF Errors
<1> QED
  BY <1>3, <1>10, <1>11, <1>12, <1>13, <1>14, <1>15, <1>16, <1>17, <1>18,
     <1>19, <1>20, <1>21, <1>22, <1>23, <1>24
    DEF WriterInv

(* The CRC loop finds a job: it marks it and releases the mutex to submit  *)
(* its CRC task.                                                           *)
LEMMA CrcLoopFinds ==
    ASSUME WriterInv,
           UNCHANGED nDeflateType,
           CrcLoop,
           pc' = "submitCrc"
    PROVE  WriterInv'
<1>0. /\ Types /\ Lists /\ PoolShape /\ Control /\ Places /\ TasksOnLive
      /\ Stages /\ InHand /\ Chunks /\ Loops /\ Closes /\ Contents
      /\ Output /\ Index /\ Trailer /\ Errors
  BY DEF WriterInv
<1>f. /\ Finished \subseteq Objs /\ CRCFinished \subseteq Objs
      /\ FreeObjs \subseteq Objs /\ FreeBuffers \subseteq Buffers
      /\ \A p \in Objs : job[p].seq \in Nat
  BY <1>0, Typed
<1>n. /\ nSeqNumberGenerated \in Nat /\ nSeqNumberExpected \in Nat
      /\ nSeqNumberExpectedCRC \in Nat /\ nErrors \in Nat /\ nObjs \in Nat
      /\ nCurOffset \in Nat /\ caller \in {"Write", "Close1", "Close2"}
      /\ nRet \in {0, -1} /\ pc \in Pcs
  BY <1>0 DEF Types
<1>i. PICK i : i = SelectInSeq(apoFinishedJobs, NeedsCRC)
  OBVIOUS
<1>s. i \in 1..Len(apoFinishedJobs) /\ i # 0 /\ ~job[apoFinishedJobs[i]].inCRC
  BY <1>0, <1>i, FindNeedsCRC DEF CrcLoop, Lists
<1>o. PICK o \in Objs : o = apoFinishedJobs[i] /\ o \in Finished
  BY <1>0, <1>s, ListElements DEF Lists, Finished
<1>1. UNCHANGED <<nDeflateType, caller, nLeft, nCurOffset, content,
                  aposBuffers, pCurBuffer, nObjs, nSeqNumberGenerated,
                  nSeqNumberExpected, nSeqNumberExpectedCRC, apoFinishedJobs,
                  apoCRCFinishedJobs, apoFreeJobs, doItAgain, nCRC, out,
                  ended, trailer, panSOZIPIndex, nErrors, bHasErrored, nRet,
                  objOf, deleted>>
  BY <1>i, <1>s DEF CrcLoop, lists, seqs, file
<1>2. Finished' = Finished /\ CRCFinished' = CRCFinished /\ FreeObjs' = FreeObjs /\ FreeBuffers' = FreeBuffers
  BY <1>1 DEF Finished, CRCFinished, FreeObjs, FreeBuffers
<1>3. Pending' = Pending /\ PoolShape'
  BY <1>0
    DEF CrcLoop, Pending, PoolShape, QueuedJobs, poolVars
<1>4. \A c : Chunk(c)' = Chunk(c) /\ EndBefore(c)' = EndBefore(c)
  BY <1>1 DEF Chunk, EndBefore
<1>5. /\ pc = "crcLoop" /\ psJob' = o /\ ~job[o].inCRC
      /\ job' = [job EXCEPT ![o].inCRC = TRUE]
  BY <1>i, <1>s, <1>o DEF CrcLoop
<1>6. /\ \A p \in Objs : p # o => job'[p] = job[p]
      /\ \A p \in Objs : /\ job'[p].buf = job[p].buf /\ job'[p].seq = job[p].seq
                         /\ job'[p].bytes = job[p].bytes /\ job'[p].crc = job[p].crc
                         /\ job'[p].finish = job[p].finish
      /\ job'[o].inCRC = TRUE
  BY <1>0, <1>5 DEF Types, JobType
<1>7. Live(o) /\ nSeqNumberExpected <= job[o].seq
  BY <1>0, <1>o, <1>5 DEF Stages, Types, JobType
<1>8. GzipFormat
  BY <1>0, <1>5 DEF Loops
<1>9. job' \in [Objs -> JobType]
  BY <1>0, <1>5 DEF Types, JobType
<1>10. Types'
  BY <1>0, <1>1, <1>2, <1>o, <1>5, <1>6, <1>7, <1>8, <1>9
    DEF Types, Pcs, Locked
<1>11. Lists'
  BY <1>0, <1>1, <1>o, <1>5, <1>6, <1>7, <1>8 DEF Lists
<1>12. Control'
  BY <1>0, <1>1, <1>o, <1>5, <1>6, <1>7, <1>8 DEF Control, Closing
<1>13. Places'
  BY <1>0, <1>f, <1>n, <1>1, <1>2, <1>o, <1>5, <1>6, <1>7, <1>8
    DEF Places, Live, Closing, Control
<1>14. TasksOnLive'
  BY <1>0, <1>f, <1>n, <1>1, <1>2, <1>3, <1>4, <1>o, <1>5, <1>6, <1>7, <1>8,
     <1>9
    DEF TasksOnLive, Live, Writing, Submitting
<1>15. Stages'
  BY <1>0, <1>f, <1>n, <1>1, <1>2, <1>3, <1>4, <1>o, <1>5, <1>6, <1>7, <1>8,
     <1>9
    DEF Stages, TasksOnLive, InHand, Live, Writing, Submitting, Deflating,
        InCRCTask, Low, High, Closing, GzipFormat
<1>16. InHand'
  BY <1>0, <1>f, <1>n, <1>1, <1>2, <1>o, <1>5, <1>6, <1>7, <1>8
    DEF InHand, Stages, Live, GzipFormat
<1>17. Chunks'
  BY <1>0, <1>n, <1>1, <1>o, <1>5, <1>6, <1>7, <1>8
    DEF Chunks, Live, Low, High, Closing, GzipFormat
<1>18. Loops'
  BY <1>0, <1>1, <1>o, <1>5, <1>6, <1>7, <1>8 DEF Loops, Locked, GzipFormat
<1>19. Closes'
  BY <1>0, <1>f, <1>n, <1>1, <1>2, <1>3, <1>4, <1>o, <1>5, <1>6, <1>7, <1>8,
     <1>9
    DEF Closes, Control, Closing, GzipFormat, Stages, Live, High
<1>20. Contents'
  BY <1>0, <1>f, <1>n, <1>1, <1>2, <1>4, <1>o, <1>5, <1>6, <1>7, <1>8, <1>9
    DEF Contents, InHand, Stages, Writing, Live, Closing, Places
<1>21. Output'
  BY <1>0, <1>n, <1>1, <1>4, <1>o, <1>5, <1>6, <1>7, <1>8 DEF Output
<1>22. Index'
  BY <1>0, <1>1, <1>o, <1>5, <1>6, <1>7, <1>8 DEF Index
<1>23. Trailer'
  BY <1>0, <1>n, <1>1, <1>4, <1>o, <1>5, <1>6, <1>7, <1>8
    DEF Trailer, GzipFormat
<1>24. Errors'
  BY <1>0, <1>1, <1>o, <1>5, <1>6, <1>7, <1>8 DEF Errors
<1> QED
  BY <1>3, <1>10, <1>11, <1>12, <1>13, <1>14, <1>15, <1>16, <1>17, <1>18,
     <1>19, <1>20, <1>21, <1>22, <1>23, <1>24
    DEF WriterInv

(* A deflate task has compressed its buffer and puts its object in the     *)
(* list of finished jobs.                                                  *)
LEMMA DeflateTaskKeeps ==
    ASSUME WriterInv,
           UNCHANGED nDeflateType,
           NEW s \in 0..MaxChunks,
           DeflateTask(s)
    PROVE  WriterInv'
<1>0. /\ Types /\ Lists /\ PoolShape /\ Control /\ Places /\ TasksOnLive
      /\ Stages /\ InHand /\ Chunks /\ Loops /\ Closes /\ Contents
      /\ Output /\ Index /\ Trailer /\ Errors
  BY DEF WriterInv
<1>f. /\ Finished \subseteq Objs /\ CRCFinished \subseteq Objs
      /\ FreeObjs \subseteq Objs /\ FreeBuffers \subseteq Buffers
      /\ \A p \in Objs : job[p].seq \in Nat
  BY <1>0, Typed
<1>n. /\ nSeqNumberGenerated \in Nat /\ nSeqNumberExpected \in Nat
      /\ nSeqNumberExpectedCRC \in Nat /\ nErrors \in Nat /\ nObjs \in Nat
      /\ nCurOffset \in Nat /\ caller \in {"Write", "Close1", "Close2"}
      /\ nRet \in {0, -1} /\ pc \in Pcs
  BY <1>0 DEF Types
<1>t. PICK t : t = <<"deflate", s>>
  OBVIOUS
<1>g. t \in running /\ t \notin pushed /\ pc \notin Locked /\ t \in Pending /\ t \in Jobs
  BY <1>0, <1>t DEF DeflateTask, Unlocked, Pending, PoolShape
<1>o. PICK o \in Objs : /\ objOf[t] = o
                        /\ Live(o) /\ job[o].seq = s
                        /\ ~job[o].inCRC
                        /\ o \notin Finished
  BY <1>0, <1>g, <1>t DEF TasksOnLive
<1>b. job[o].buf \in Buffers /\ content[job[o].buf] \in Seq(Nat)
  BY <1>0, <1>o, Typed, ContentBytes DEF Live
<1>1. UNCHANGED <<nDeflateType, pc, caller, nLeft, nCurOffset, content,
                  aposBuffers, pCurBuffer, nObjs, nSeqNumberGenerated,
                  nSeqNumberExpected, nSeqNumberExpectedCRC,
                  apoCRCFinishedJobs, apoFreeJobs, doItAgain, psJob, nCRC,
                  out, ended, trailer, panSOZIPIndex, nErrors, bHasErrored,
                  nRet, objOf, deleted>>
  BY <1>t DEF DeflateTask, lists, seqs, file
<1>2. CRCFinished' = CRCFinished /\ FreeObjs' = FreeObjs /\ FreeBuffers' = FreeBuffers
  BY <1>1 DEF CRCFinished, FreeObjs, FreeBuffers
<1>3. Pending' = Pending \ {t} /\ PoolShape'
  <2>1. UNCHANGED <<queued, running, done>> /\ pushed' = pushed \cup {t}
    BY <1>t DEF DeflateTask, poolVars
  <2>2. QueuedJobs' = QueuedJobs
    BY <2>1 DEF QueuedJobs
  <2> QED BY <1>0, <1>g, <2>1, <2>2 DEF Pending, PoolShape
<1>k. \A k \in {"deflate", "crc"}, n \in Nat : <<k, n>> = t <=> k = "deflate" /\ n = s
  BY <1>t
<1>4. \A c : Chunk(c)' = Chunk(c) /\ EndBefore(c)' = EndBefore(c)
  BY <1>1 DEF Chunk, EndBefore
<1>5. /\ job' = [job EXCEPT ![o].bytes = content[job[o].buf]]
      /\ apoFinishedJobs' = Append(apoFinishedJobs, o)
  BY <1>t, <1>o DEF DeflateTask
<1>6. /\ \A p \in Objs : p # o => job'[p] = job[p]
      /\ \A p \in Objs : /\ job'[p].buf = job[p].buf /\ job'[p].seq = job[p].seq
                         /\ job'[p].inCRC = job[p].inCRC /\ job'[p].crc = job[p].crc
                         /\ job'[p].finish = job[p].finish
      /\ job'[o].bytes = content[job[o].buf]
  BY <1>0, <1>5 DEF Types, JobType
<1>7. /\ apoFinishedJobs' \in Seq(Objs) /\ IsInjective(apoFinishedJobs')
      /\ Finished' = Finished \cup {o}
  BY <1>0, <1>o, <1>5, ListAppend DEF Lists, Finished
<1>8. /\ nSeqNumberExpected <= s /\ ~Writing(o)
      /\ \A p \in Objs : Live(p) /\ p # o => job[p].seq # s
  BY <1>0, <1>g, <1>t, <1>o DEF TasksOnLive, Chunks
<1>d. /\ \A z \in Objs : z # o => (Deflating(z)' <=> Deflating(z))
      /\ \A z \in Objs : InCRCTask(z)' <=> InCRCTask(z)
  BY <1>f, <1>1, <1>3, <1>k, <1>o, <1>6 DEF Deflating, InCRCTask
<1>9. job' \in [Objs -> JobType]
  BY <1>0, <1>b, <1>5 DEF Types, JobType
<1>10. Types'
  BY <1>0, <1>1, <1>2, <1>g, <1>o, <1>k, <1>6, <1>7, <1>8, <1>9
    DEF Types, Pcs, Locked
<1>11. Lists'
  BY <1>0, <1>f, <1>n, <1>1, <1>o, <1>6, <1>7, <1>8 DEF Lists
<1>12. Control'
  BY <1>0, <1>f, <1>n, <1>1, <1>o, <1>6, <1>7, <1>8 DEF Control, Closing
<1>13. Places'
  BY <1>0, <1>f, <1>n, <1>1, <1>2, <1>o, <1>6, <1>7, <1>8
    DEF Places, Live, Closing, Control
<1>14. TasksOnLive'
  <2>1. ASSUME NEW c \in 0..MaxChunks, <<"deflate", c>> \in Pending'
        PROVE  (\E z \in Objs :
                  /\ objOf[<<"deflate", c>>] = z
                  /\ Live(z) /\ job[z].seq = c
                  /\ nSeqNumberExpected <= c
                  /\ ~job[z].inCRC
                  /\ z \notin Finished /\ ~Writing(z))'
    <3>1. <<"deflate", c>> \in Pending /\ <<"deflate", c>> # t
      BY <1>3, <2>1
    <3>2. PICK z \in Objs : /\ objOf[<<"deflate", c>>] = z
                            /\ Live(z) /\ job[z].seq = c
                            /\ nSeqNumberExpected <= c
                            /\ ~job[z].inCRC
                            /\ z \notin Finished /\ ~Writing(z)
      BY <1>0, <3>1 DEF TasksOnLive
    <3>3. z # o
      BY <1>t, <1>o, <3>1, <3>2
    <3> QED BY <1>1, <1>6, <1>7, <3>2, <3>3 DEF Live, Writing
  <2>2. ASSUME NEW c \in 0..MaxChunks, <<"crc", c>> \in Pending'
        PROVE  (\E z \in Objs :
                  /\ objOf[<<"crc", c>>] = z
                  /\ Live(z) /\ job[z].seq = c
                  /\ job[z].inCRC
                  /\ z \notin CRCFinished /\ ~Submitting(z))'
    <3>1. <<"crc", c>> \in Pending /\ <<"crc", c>> # t
      BY <1>3, <2>2
    <3>2. PICK z \in Objs : /\ objOf[<<"crc", c>>] = z
                            /\ Live(z) /\ job[z].seq = c
                            /\ job[z].inCRC
                            /\ z \notin CRCFinished /\ ~Submitting(z)
      BY <1>0, <3>1 DEF TasksOnLive
    <3> QED BY <1>1, <1>2, <1>6, <3>2 DEF Live, Submitting
  <2> QED BY <2>1, <2>2 DEF TasksOnLive
<1>15. Stages'
  <2>1. (\A z \in Objs : Live(z) => Low <= job[z].seq /\ job[z].seq <= High)'
    BY <1>0, <1>f, <1>n, <1>1, <1>o, <1>6, <1>7, <1>8
      DEF Stages, TasksOnLive, InHand, Live, Writing, Submitting, Deflating,
          InCRCTask, Low, High, Closing, GzipFormat
  <2>2. (\A z \in Objs : Live(z) /\ job[z].seq < nSeqNumberExpected =>
            job[z].inCRC /\ z \notin Finished)'
    BY <1>0, <1>f, <1>n, <1>1, <1>o, <1>6, <1>7, <1>8
      DEF Stages, TasksOnLive, InHand, Live, Writing, Submitting, Deflating,
          InCRCTask, Low, High, Closing, GzipFormat
  <2>3. (\A z \in Objs : Live(z) /\ nSeqNumberExpected <= job[z].seq =>
            Deflating(z) \/ z \in Finished \/ Writing(z))'
    BY <1>0, <1>f, <1>n, <1>1, <1>2, <1>3, <1>4, <1>t, <1>g, <1>o, <1>k, <1>6,
       <1>7, <1>8, <1>9
      DEF Stages, TasksOnLive, InHand, Live, Writing, Submitting, Deflating,
          InCRCTask, Low, High, Closing, GzipFormat
  <2>4. (\A z \in Objs : Live(z) /\ job[z].inCRC =>
            GzipFormat /\ (Submitting(z) \/ InCRCTask(z) \/ z \in CRCFinished))'
    BY <1>0, <1>f, <1>1, <1>2, <1>o, <1>d, <1>6, <1>7, <1>8
      DEF Stages, Live, Submitting, GzipFormat
  <2>5. (\A z \in Finished : Live(z) /\ ~Writing(z))'
    BY <1>0, <1>f, <1>n, <1>1, <1>o, <1>6, <1>7, <1>8
      DEF Stages, TasksOnLive, InHand, Live, Writing, Submitting, Deflating,
          InCRCTask, Low, High, Closing, GzipFormat
  <2>6. (\A z \in CRCFinished : Live(z) /\ job[z].inCRC /\ ~Submitting(z))'
    BY <1>0, <1>f, <1>n, <1>1, <1>2, <1>g, <1>o, <1>k, <1>6, <1>7, <1>8, <1>9
      DEF Stages, TasksOnLive, InHand, Live, Writing, Submitting, Deflating,
          InCRCTask, Low, High, Closing, GzipFormat
  <2> QED BY <2>1, <2>2, <2>3, <2>4, <2>5, <2>6
    DEF Stages
<1>16. InHand'
  BY <1>0, <1>f, <1>n, <1>1, <1>o, <1>6, <1>7, <1>8
    DEF InHand, Stages, Live, GzipFormat
<1>17. Chunks'
  <2>1. (\A z, y \in Objs : Live(z) /\ Live(y) /\ job[z].seq = job[y].seq => z = y)'
    BY <1>0, <1>6, <1>1
      DEF Chunks, Live, Low, High, Closing, GzipFormat
  <2>2. (\A c \in Nat : Low <= c /\ c <= High => \E z \in Objs : Live(z) /\ job[z].seq = c)'
    BY <1>0, <1>6, <1>1
      DEF Chunks, Live, Low, High, Closing, GzipFormat
  <2>3. (nSeqNumberExpected <= High + 1)'
    BY <1>0, <1>f, <1>n, <1>1, <1>o, <1>6, <1>7, <1>8
      DEF Chunks, Live, Low, High, Closing, GzipFormat
  <2>4. (GzipFormat => nSeqNumberExpectedCRC <= nSeqNumberExpected)'
    BY <1>0, <1>f, <1>n, <1>1, <1>o, <1>6, <1>7, <1>8
      DEF Chunks, Live, Low, High, Closing, GzipFormat
  <2> QED BY <2>1, <2>2, <2>3, <2>4
    DEF Chunks
<1>18. Loops'
  BY <1>0, <1>f, <1>n, <1>1, <1>2, <1>g, <1>o, <1>k, <1>6, <1>7, <1>8, <1>9
    DEF Loops, Locked, GzipFormat
<1>19. Closes'
  BY <1>0, <1>f, <1>n, <1>1, <1>2, <1>g, <1>o, <1>k, <1>6, <1>7, <1>8, <1>9
    DEF Closes, Control, Closing, GzipFormat
<1>20. Contents'
  <2>1. (pCurBuffer # None => content[pCurBuffer] = Chunk(nSeqNumberGenerated))'
    BY <1>0, <1>f, <1>n, <1>1, <1>2, <1>4, <1>t, <1>g, <1>o, <1>k, <1>6, <1>7,
       <1>8, <1>9
      DEF Contents, InHand, Stages, Writing, Live, Closing, Places
  <2>2. (\A z \in Objs : Live(z) => content[job[z].buf] = Chunk(job[z].seq))'
    BY <1>0, <1>f, <1>n, <1>1, <1>2, <1>4, <1>t, <1>g, <1>o, <1>k, <1>6, <1>7,
       <1>8, <1>9
      DEF Contents, InHand, Stages, Writing, Live, Closing, Places
  <2>3. (\A z \in Finished : job[z].bytes = content[job[z].buf])'
    BY <1>0, <1>f, <1>n, <1>1, <1>o, <1>6, <1>7, <1>8
      DEF Contents, InHand, Stages, Writing, Live, Closing, Places
  <2>4. (\A z \in CRCFinished : job[z].crc = content[job[z].buf])'
    BY <1>0, <1>f, <1>n, <1>1, <1>2, <1>g, <1>o, <1>k, <1>6, <1>7, <1>8, <1>9
      DEF Contents, InHand, Stages, Writing, Live, Closing, Places
  <2>5. (pc = "writeChunk" => job[psJob].bytes = content[job[psJob].buf])'
    BY <1>0, <1>f, <1>n, <1>1, <1>o, <1>6, <1>7, <1>8
      DEF Contents, InHand, Stages, Writing, Live, Closing, Places
  <2>6. (Closing => \A z \in Objs : Live(z) /\ job[z].seq = nSeqNumberGenerated =>
                        job[z].finish)'
    BY <1>0, <1>f, <1>n, <1>1, <1>o, <1>6, <1>7, <1>8
      DEF Contents, InHand, Stages, Writing, Live, Closing, Places
  <2> QED BY <2>1, <2>2, <2>3, <2>4, <2>5, <2>6
    DEF Contents
<1>21. Output'
  BY <1>0, <1>n, <1>1, <1>4, <1>t, <1>g, <1>o, <1>k, <1>6, <1>7, <1>8
    DEF Output
<1>22. Index'
  BY <1>0, <1>1, <1>o, <1>6, <1>7, <1>8 DEF Index
<1>23. Trailer'
  BY <1>0, <1>n, <1>1, <1>4, <1>t, <1>g, <1>o, <1>k, <1>6, <1>7, <1>8
    DEF Trailer, GzipFormat
<1>24. Errors'
  BY <1>0, <1>f, <1>n, <1>1, <1>o, <1>6, <1>7, <1>8 DEF Errors
<1> QED
  BY <1>3, <1>10, <1>11, <1>12, <1>13, <1>14, <1>15, <1>16, <1>17, <1>18,
     <1>19, <1>20, <1>21, <1>22, <1>23, <1>24
    DEF WriterInv

(* A CRC task has summed its buffer and puts its object in the list of     *)
(* computed CRCs.                                                          *)
LEMMA CRCTaskKeeps ==
    ASSUME WriterInv,
           UNCHANGED nDeflateType,
           NEW s \in 0..MaxChunks,
           CRCTask(s)
    PROVE  WriterInv'
<1>0. /\ Types /\ Lists /\ PoolShape /\ Control /\ Places /\ TasksOnLive
      /\ Stages /\ InHand /\ Chunks /\ Loops /\ Closes /\ Contents
      /\ Output /\ Index /\ Trailer /\ Errors
  BY DEF WriterInv
<1>f. /\ Finished \subseteq Objs /\ CRCFinished \subseteq Objs
      /\ FreeObjs \subseteq Objs /\ FreeBuffers \subseteq Buffers
      /\ \A p \in Objs : job[p].seq \in Nat
  BY <1>0, Typed
<1>n. /\ nSeqNumberGenerated \in Nat /\ nSeqNumberExpected \in Nat
      /\ nSeqNumberExpectedCRC \in Nat /\ nErrors \in Nat /\ nObjs \in Nat
      /\ nCurOffset \in Nat /\ caller \in {"Write", "Close1", "Close2"}
      /\ nRet \in {0, -1} /\ pc \in Pcs
  BY <1>0 DEF Types
<1>t. PICK t : t = <<"crc", s>>
  OBVIOUS
<1>g. t \in running /\ t \notin pushed /\ pc \notin Locked /\ t \in Pending /\ t \in Jobs
  BY <1>0, <1>t DEF CRCTask, Unlocked, Pending, PoolShape
<1>o. PICK o \in Objs : /\ objOf[t] = o
                        /\ Live(o) /\ job[o].seq = s
                        /\ job[o].inCRC
                        /\ o \notin CRCFinished
  BY <1>0, <1>g, <1>t DEF TasksOnLive
<1>b. job[o].buf \in Buffers /\ content[job[o].buf] \in Seq(Nat)
  BY <1>0, <1>o, Typed, ContentBytes DEF Live
<1>1. UNCHANGED <<nDeflateType, pc, caller, nLeft, nCurOffset, content,
                  aposBuffers, pCurBuffer, nObjs, nSeqNumberGenerated,
                  nSeqNumberExpected, nSeqNumberExpectedCRC, apoFinishedJobs,
                  apoFreeJobs, doItAgain, psJob, nCRC, out, ended, trailer,
                  panSOZIPIndex, nErrors, bHasErrored, nRet, objOf, deleted>>
  BY <1>t DEF CRCTask, lists, seqs, file
<1>2. Finished' = Finished /\ FreeObjs' = FreeObjs /\ FreeBuffers' = FreeBuffers
  BY <1>1 DEF Finished, FreeObjs, FreeBuffers
<1>3. Pending' = Pending \ {t} /\ PoolShape'
  <2>1. UNCHANGED <<queued, running, done>> /\ pushed' = pushed \cup {t}
    BY <1>t DEF CRCTask, poolVars
  <2>2. QueuedJobs' = QueuedJobs
    BY <2>1 DEF QueuedJobs
  <2> QED BY <1>0, <1>g, <2>1, <2>2 DEF Pending, PoolShape
<1>k. \A k \in {"deflate", "crc"}, n \in Nat : <<k, n>> = t <=> k = "crc" /\ n = s
  BY <1>t
<1>4. \A c : Chunk(c)' = Chunk(c) /\ EndBefore(c)' = EndBefore(c)
  BY <1>1 DEF Chunk, EndBefore
<1>5. /\ job' = [job EXCEPT ![o].inCRC = TRUE, ![o].crc = content[job[o].buf]]
      /\ apoCRCFinishedJobs' = Append(apoCRCFinishedJobs, o)
  BY <1>t, <1>o DEF CRCTask
<1>6. /\ \A p \in Objs : p # o => job'[p] = job[p]
      /\ \A p \in Objs : /\ job'[p].buf = job[p].buf /\ job'[p].seq = job[p].seq
                         /\ job'[p].inCRC = job[p].inCRC /\ job'[p].bytes = job[p].bytes
                         /\ job'[p].finish = job[p].finish
      /\ job'[o].crc = content[job[o].buf]
  BY <1>0, <1>o, <1>5 DEF Types, JobType
<1>7. /\ apoCRCFinishedJobs' \in Seq(Objs) /\ IsInjective(apoCRCFinishedJobs')
      /\ CRCFinished' = CRCFinished \cup {o}
  BY <1>0, <1>o, <1>5, ListAppend DEF Lists, CRCFinished
<1>8. /\ ~Submitting(o)
      /\ \A p \in Objs : Live(p) /\ p # o => job[p].seq # s
  BY <1>0, <1>g, <1>t, <1>o DEF TasksOnLive, Chunks
<1>d. /\ \A z \in Objs : z # o => (InCRCTask(z)' <=> InCRCTask(z))
      /\ \A z \in Objs : Deflating(z)' <=> Deflating(z)
  <2>1. ASSUME NEW z \in Objs PROVE Deflating(z)' <=> Deflating(z)
    <3>1. job'[z].seq = job[z].seq /\ job[z].seq \in Nat
      BY <1>f, <1>6
    <3>2. <<"deflate", job[z].seq>> # t
      BY <1>k, <3>1
    <3> QED BY <1>1, <1>3, <3>1, <3>2 DEF Deflating
  <2>2. ASSUME NEW z \in Objs, z # o PROVE InCRCTask(z)' <=> InCRCTask(z)
    <3>1. job'[z].seq = job[z].seq
      BY <1>6
    <3>2. objOf[<<"crc", job[z].seq>>] = z => <<"crc", job[z].seq>> # t
      BY <1>o, <2>2
    <3> QED BY <1>1, <1>3, <3>1, <3>2 DEF InCRCTask
  <2> QED BY <2>1, <2>2
<1>9. job' \in [Objs -> JobType]
  <2>1. PICK w : w = content[job[o].buf]
    OBVIOUS
  <2>2. job[o] \in JobType /\ job \in [Objs -> JobType] /\ w \in Seq(Nat)
    BY <1>0, <1>b, <2>1 DEF Types
  <2>3. [job[o] EXCEPT !.inCRC = TRUE, !.crc = w] \in JobType
    BY <2>2 DEF JobType
  <2>4. job' = [job EXCEPT ![o] = [job[o] EXCEPT !.inCRC = TRUE, !.crc = w]]
    BY <1>5, <2>1, <2>2
  <2> QED BY <2>2, <2>3, <2>4
<1>10. Types'
  BY <1>0, <1>1, <1>2, <1>g, <1>o, <1>k, <1>6, <1>7, <1>8, <1>9
    DEF Types, Pcs, Locked
<1>11. Lists'
  BY <1>0, <1>f, <1>n, <1>1, <1>o, <1>6, <1>7, <1>8 DEF Lists
<1>12. Control'
  BY <1>0, <1>f, <1>n, <1>1, <1>o, <1>6, <1>7, <1>8 DEF Control, Closing
<1>13. Places'
  BY <1>0, <1>f, <1>n, <1>1, <1>2, <1>o, <1>6, <1>7, <1>8
    DEF Places, Live, Closing, Control
<1>14. TasksOnLive'
  <2>1. ASSUME NEW c \in 0..MaxChunks, <<"deflate", c>> \in Pending'
        PROVE  (\E z \in Objs :
                  /\ objOf[<<"deflate", c>>] = z
                  /\ Live(z) /\ job[z].seq = c
                  /\ nSeqNumberExpected <= c
                  /\ ~job[z].inCRC
                  /\ z \notin Finished /\ ~Writing(z))'
    <3>1. <<"deflate", c>> \in Pending /\ <<"deflate", c>> # t
      BY <1>3, <2>1
    <3>2. PICK z \in Objs : /\ objOf[<<"deflate", c>>] = z
                            /\ Live(z) /\ job[z].seq = c
                            /\ nSeqNumberExpected <= c
                            /\ ~job[z].inCRC
                            /\ z \notin Finished /\ ~Writing(z)
      BY <1>0, <3>1 DEF TasksOnLive
    <3>3. Finished' = Finished
      BY <1>1 DEF Finished
    <3> QED BY <1>1, <1>6, <3>2, <3>3 DEF Live, Writing
  <2>2. ASSUME NEW c \in 0..MaxChunks, <<"crc", c>> \in Pending'
        PROVE  (\E z \in Objs :
                  /\ objOf[<<"crc", c>>] = z
                  /\ Live(z) /\ job[z].seq = c
                  /\ job[z].inCRC
                  /\ z \notin CRCFinished /\ ~Submitting(z))'
    <3>1. <<"crc", c>> \in Pending /\ <<"crc", c>> # t
      BY <1>3, <2>2
    <3>2. PICK z \in Objs : /\ objOf[<<"crc", c>>] = z
                            /\ Live(z) /\ job[z].seq = c
                            /\ job[z].inCRC
                            /\ z \notin CRCFinished /\ ~Submitting(z)
      BY <1>0, <3>1 DEF TasksOnLive
    <3>3. z # o
      BY <1>t, <1>o, <3>1, <3>2
    <3> QED BY <1>1, <1>6, <1>7, <3>2, <3>3 DEF Live, Submitting
  <2> QED BY <2>1, <2>2 DEF TasksOnLive
<1>15. Stages'
  <2>1. (\A z \in Objs : Live(z) => Low <= job[z].seq /\ job[z].seq <= High)'
    BY <1>0, <1>f, <1>n, <1>1, <1>o, <1>6, <1>7, <1>8
      DEF Stages, TasksOnLive, InHand, Live, Writing, Submitting, Deflating,
          InCRCTask, Low, High, Closing, GzipFormat
  <2>2. (\A z \in Objs : Live(z) /\ job[z].seq < nSeqNumberExpected =>
            job[z].inCRC /\ z \notin Finished)'
    BY <1>0, <1>f, <1>n, <1>1, <1>2, <1>g, <1>o, <1>k, <1>6, <1>7, <1>8, <1>9
      DEF Stages, TasksOnLive, InHand, Live, Writing, Submitting, Deflating,
          InCRCTask, Low, High, Closing, GzipFormat
  <2>3. (\A z \in Objs : Live(z) /\ nSeqNumberExpected <= job[z].seq =>
            Deflating(z) \/ z \in Finished \/ Writing(z))'
    BY <1>0, <1>f, <1>n, <1>1, <1>2, <1>3, <1>4, <1>t, <1>g, <1>o, <1>k, <1>6,
       <1>7, <1>8, <1>9
      DEF Stages, TasksOnLive, InHand, Live, Writing, Submitting, Deflating,
          InCRCTask, Low, High, Closing, GzipFormat
  <2>4. (\A z \in Objs : Live(z) /\ job[z].inCRC =>
            GzipFormat /\ (Submitting(z) \/ InCRCTask(z) \/ z \in CRCFinished))'
    BY <1>0, <1>1, <1>o, <1>d, <1>6, <1>7, <1>8
      DEF Stages, Live, Submitting, GzipFormat
  <2>5. (\A z \in Finished : Live(z) /\ ~Writing(z))'
    BY <1>0, <1>f, <1>n, <1>1, <1>2, <1>g, <1>o, <1>k, <1>6, <1>7, <1>8, <1>9
      DEF Stages, TasksOnLive, InHand, Live, Writing, Submitting, Deflating,
          InCRCTask, Low, High, Closing, GzipFormat
  <2>6. (\A z \in CRCFinished : Live(z) /\ job[z].inCRC /\ ~Submitting(z))'
    BY <1>0, <1>f, <1>n, <1>1, <1>o, <1>6, <1>7, <1>8
      DEF Stages, TasksOnLive, InHand, Live, Writing, Submitting, Deflating,
          InCRCTask, Low, High, Closing, GzipFormat
  <2> QED BY <2>1, <2>2, <2>3, <2>4, <2>5, <2>6
    DEF Stages
<1>16. InHand'
  BY <1>0, <1>f, <1>n, <1>1, <1>2, <1>g, <1>o, <1>k, <1>6, <1>7, <1>8, <1>9
    DEF InHand, Stages, Live, GzipFormat
<1>17. Chunks'
  <2>1. (\A z, y \in Objs : Live(z) /\ Live(y) /\ job[z].seq = job[y].seq => z = y)'
    BY <1>0, <1>6, <1>1
      DEF Chunks, Live, Low, High, Closing, GzipFormat
  <2>2. (\A c \in Nat : Low <= c /\ c <= High => \E z \in Objs : Live(z) /\ job[z].seq = c)'
    BY <1>0, <1>6, <1>1
      DEF Chunks, Live, Low, High, Closing, GzipFormat
  <2>3. (nSeqNumberExpected <= High + 1)'
    BY <1>0, <1>f, <1>n, <1>1, <1>o, <1>6, <1>7, <1>8
      DEF Chunks, Live, Low, High, Closing, GzipFormat
  <2>4. (GzipFormat => nSeqNumberExpectedCRC <= nSeqNumberExpected)'
    BY <1>0, <1>f, <1>n, <1>1, <1>o, <1>6, <1>7, <1>8
      DEF Chunks, Live, Low, High, Closing, GzipFormat
  <2> QED BY <2>1, <2>2, <2>3, <2>4
    DEF Chunks
<1>18. Loops'
  BY <1>0, <1>f, <1>n, <1>1, <1>2, <1>g, <1>o, <1>k, <1>6, <1>7, <1>8, <1>9
    DEF Loops, Locked, GzipFormat
<1>19. Closes'
  BY <1>0, <1>f, <1>n, <1>1, <1>2, <1>3, <1>4, <1>t, <1>g, <1>o, <1>k, <1>6,
     <1>7, <1>8, <1>9
    DEF Closes, Control, Closing, GzipFormat
<1>20. Contents'
  <2>1. (pCurBuffer # None => content[pCurBuffer] = Chunk(nSeqNumberGenerated))'
    BY <1>0, <1>f, <1>n, <1>1, <1>2, <1>4, <1>t, <1>g, <1>o, <1>k, <1>6, <1>7,
       <1>8, <1>9
      DEF Contents, InHand, Stages, Writing, Live, Closing, Places
  <2>2. (\A z \in Objs : Live(z) => content[job[z].buf] = Chunk(job[z].seq))'
    BY <1>0, <1>f, <1>n, <1>1, <1>2, <1>4, <1>t, <1>g, <1>o, <1>k, <1>6, <1>7,
       <1>8, <1>9
      DEF Contents, InHand, Stages, Writing, Live, Closing, Places
  <2>3. (\A z \in Finished : job[z].bytes = content[job[z].buf])'
    BY <1>0, <1>f, <1>n, <1>1, <1>2, <1>g, <1>o, <1>k, <1>6, <1>7, <1>8, <1>9
      DEF Contents, InHand, Stages, Writing, Live, Closing, Places
  <2>4. (\A z \in CRCFinished : job[z].crc = content[job[z].buf])'
    BY <1>0, <1>f, <1>n, <1>1, <1>o, <1>6, <1>7, <1>8
      DEF Contents, InHand, Stages, Writing, Live, Closing, Places
  <2>5. (pc = "writeChunk" => job[psJob].bytes = content[job[psJob].buf])'
    BY <1>0, <1>f, <1>n, <1>1, <1>o, <1>6, <1>7, <1>8
      DEF Contents, InHand, Stages, Writing, Live, Closing, Places
  <2>6. (Closing => \A z \in Objs : Live(z) /\ job[z].seq = nSeqNumberGenerated =>
                        job[z].finish)'
    BY <1>0, <1>f, <1>n, <1>1, <1>o, <1>6, <1>7, <1>8
      DEF Contents, InHand, Stages, Writing, Live, Closing, Places
  <2> QED BY <2>1, <2>2, <2>3, <2>4, <2>5, <2>6
    DEF Contents
<1>21. Output'
  BY <1>0, <1>n, <1>1, <1>4, <1>t, <1>g, <1>o, <1>k, <1>6, <1>7, <1>8
    DEF Output
<1>22. Index'
  BY <1>0, <1>1, <1>o, <1>6, <1>7, <1>8 DEF Index
<1>23. Trailer'
  BY <1>0, <1>n, <1>1, <1>4, <1>t, <1>g, <1>o, <1>k, <1>6, <1>7, <1>8
    DEF Trailer, GzipFormat
<1>24. Errors'
  BY <1>0, <1>f, <1>n, <1>1, <1>o, <1>6, <1>7, <1>8 DEF Errors
<1> QED
  BY <1>3, <1>10, <1>11, <1>12, <1>13, <1>14, <1>15, <1>16, <1>17, <1>18,
     <1>19, <1>20, <1>21, <1>22, <1>23, <1>24
    DEF WriterInv

(* The CRC task is submitted to the pool.                                  *)
LEMMA SubmitCrcToPool ==
    ASSUME WriterInv,
           UNCHANGED nDeflateType,
           SubmitCrc,
           HasPool
    PROVE  WriterInv'
<1>0. /\ Types /\ Lists /\ PoolShape /\ Control /\ Places /\ TasksOnLive
      /\ Stages /\ InHand /\ Chunks /\ Loops /\ Closes /\ Contents
      /\ Output /\ Index /\ Trailer /\ Errors
  BY DEF WriterInv
<1>f. /\ Finished \subseteq Objs /\ CRCFinished \subseteq Objs
      /\ FreeObjs \subseteq Objs /\ FreeBuffers \subseteq Buffers
      /\ \A p \in Objs : job[p].seq \in Nat
  BY <1>0, Typed
<1>n. /\ nSeqNumberGenerated \in Nat /\ nSeqNumberExpected \in Nat
      /\ nSeqNumberExpectedCRC \in Nat /\ nErrors \in Nat /\ nObjs \in Nat
      /\ nCurOffset \in Nat /\ caller \in {"Write", "Close1", "Close2"}
      /\ nRet \in {0, -1} /\ pc \in Pcs
  BY <1>0 DEF Types
<1>o. PICK o \in Objs : /\ o = psJob /\ pc = "submitCrc" /\ o \in Finished /\ Live(o)
                        /\ job[o].inCRC /\ o \notin CRCFinished /\ GzipFormat
  BY <1>0, <1>f DEF SubmitCrc, InHand, Stages, Submitting
<1>t. PICK t : t = <<"crc", job[o].seq>>
  OBVIOUS
<1>1. UNCHANGED <<nDeflateType, caller, nLeft, nCurOffset, content,
                  aposBuffers, pCurBuffer, job, nObjs, nSeqNumberGenerated,
                  nSeqNumberExpected, nSeqNumberExpectedCRC, apoFinishedJobs,
                  apoCRCFinishedJobs, apoFreeJobs, doItAgain, psJob, nCRC,
                  out, ended, trailer, panSOZIPIndex, nErrors, bHasErrored,
                  nRet, deleted>>
  BY DEF SubmitCrc, SubmitTask, lists, seqs, file
<1>2. Finished' = Finished /\ CRCFinished' = CRCFinished /\ FreeObjs' = FreeObjs /\ FreeBuffers' = FreeBuffers
  BY <1>1 DEF Finished, CRCFinished, FreeObjs, FreeBuffers
<1>3. t \in Jobs /\ t \notin Pending /\ Pending' = Pending \cup {t} /\ PoolShape'
  <2>1. Submit(<<t>>) /\ UNCHANGED pushed
    BY <1>o, <1>t DEF SubmitCrc, SubmitTask
  <2> QED BY <1>0, <2>1, SubmitAddsPending
<1>4. \A c : Chunk(c)' = Chunk(c) /\ EndBefore(c)' = EndBefore(c)
  BY <1>1 DEF Chunk, EndBefore
<1>k. \A k \in {"deflate", "crc"}, n \in Nat : <<k, n>> = t <=> k = "crc" /\ n = job[o].seq
  BY <1>t, <1>f
<1>p. Pending \subseteq Jobs
  BY <1>0, PendingJobs
<1>5. pc' = "crcLoop" /\ objOf' = [objOf EXCEPT ![t] = o]
  BY <1>o, <1>t DEF SubmitCrc, SubmitTask
<1>6. /\ objOf'[t] = o /\ \A u \in Jobs : u # t => objOf'[u] = objOf[u]
      /\ objOf' \in [Jobs -> Objs \cup {None}]
  BY <1>0, <1>3, <1>5 DEF Types
<1>d. /\ \A z \in Objs : Deflating(z) => Deflating(z)'
      /\ \A z \in Objs : z # o => (InCRCTask(z) => InCRCTask(z)')
      /\ InCRCTask(o)'
  <2>1. \A z \in Objs : job'[z].seq = job[z].seq /\ Pending \subseteq Pending' /\ t \in Pending'
    BY <1>1, <1>3
  <2>2. \A z \in Objs : <<"deflate", job[z].seq>> \in Pending => <<"deflate", job[z].seq>> \in Jobs
    BY <1>p
  <2>3. \A z \in Objs : Deflating(z) => Deflating(z)'
    <3>1. ASSUME NEW z \in Objs, Deflating(z) PROVE Deflating(z)'
      <4>1. <<"deflate", job[z].seq>> # t
        BY <1>f, <1>k
      <4>2. objOf'[<<"deflate", job[z].seq>>] = objOf[<<"deflate", job[z].seq>>]
        BY <1>6, <2>2, <3>1, <4>1 DEF Deflating
      <4> QED BY <2>1, <3>1, <4>2 DEF Deflating
    <3> QED BY <3>1
  <2>4. \A z \in Objs : <<"crc", job[z].seq>> \in Pending =>
            <<"crc", job[z].seq>> \in Jobs /\ <<"crc", job[z].seq>> # t
    BY <1>p, <1>3
  <2>5. \A z \in Objs : InCRCTask(z) => InCRCTask(z)'
    BY <1>6, <2>1, <2>4 DEF InCRCTask
  <2>6. InCRCTask(o)'
    BY <1>t, <1>6, <2>1 DEF InCRCTask
  <2> QED BY <2>3, <2>5, <2>6
<1>10. Types'
  BY <1>0, <1>1, <1>o, <1>5, <1>6 DEF Types, Pcs, Locked
<1>11. Lists'
  BY <1>0, <1>n, <1>1, <1>o, <1>5, <1>6 DEF Lists
<1>12. Control'
  BY <1>0, <1>n, <1>1, <1>o, <1>5, <1>6 DEF Control, Closing
<1>13. Places'
  BY <1>0, <1>f, <1>n, <1>1, <1>2, <1>o, <1>5, <1>6
    DEF Places, Live, Closing, Control
<1>14. TasksOnLive'
  <2>1. ASSUME NEW c \in 0..MaxChunks, <<"deflate", c>> \in Pending'
        PROVE  <<"deflate", c>> \in Pending
               /\ objOf'[<<"deflate", c>>] = objOf[<<"deflate", c>>]
    BY <1>p, <1>k, <1>3, <1>6, <2>1
  <2>2. ASSUME NEW c \in 0..MaxChunks, <<"crc", c>> \in Pending'
        PROVE  \/ <<"crc", c>> = t /\ c = job[o].seq
               \/ /\ <<"crc", c>> \in Pending
                  /\ objOf'[<<"crc", c>>] = objOf[<<"crc", c>>]
    BY <1>p, <1>k, <1>3, <1>6, <2>2
  <2>3. (\A c \in 0..MaxChunks : <<"deflate", c>> \in Pending =>
          \E z \in Objs :
             /\ objOf[<<"deflate", c>>] = z
             /\ Live(z) /\ job[z].seq = c
             /\ nSeqNumberExpected <= c
             /\ ~job[z].inCRC
             /\ z \notin Finished /\ ~Writing(z))'
    <3>1. SUFFICES ASSUME NEW c \in 0..MaxChunks, <<"deflate", c>> \in Pending'
                   PROVE  (\E z \in Objs :
                             /\ objOf[<<"deflate", c>>] = z
                             /\ Live(z) /\ job[z].seq = c
                             /\ nSeqNumberExpected <= c
                             /\ ~job[z].inCRC
                             /\ z \notin Finished /\ ~Writing(z))'
      BY <1>1
    <3>2. <<"deflate", c>> \in Pending /\ objOf'[<<"deflate", c>>] = objOf[<<"deflate", c>>]
      BY <2>1, <3>1
    <3> QED BY <1>0, <1>1, <1>2, <1>5, <3>2 DEF TasksOnLive, Live, Writing
  <2>4. ASSUME NEW c \in 0..MaxChunks, <<"crc", c>> \in Pending'
        PROVE  (\E z \in Objs :
             /\ objOf[<<"crc", c>>] = z
             /\ Live(z) /\ job[z].seq = c
             /\ job[z].inCRC
             /\ z \notin CRCFinished /\ ~Submitting(z))'
    <3>1. CASE <<"crc", c>> = t /\ c = job[o].seq
      BY <1>o, <1>1, <1>2, <1>5, <1>6, <3>1 DEF Live, Submitting
    <3>2. CASE <<"crc", c>> \in Pending /\ objOf'[<<"crc", c>>] = objOf[<<"crc", c>>]
      BY <1>0, <1>1, <1>2, <1>5, <3>2 DEF TasksOnLive, Live, Submitting
    <3> QED BY <2>2, <2>4, <3>1, <3>2
  <2> QED BY <2>3, <2>4 DEF TasksOnLive
<1>15. Stages'
  <2>1. (\A z \in Objs : Live(z) => Low <= job[z].seq /\ job[z].seq <= High)'
    BY <1>0, <1>n, <1>1, <1>o, <1>5, <1>6
      DEF Stages, TasksOnLive, InHand, Live, Writing, Submitting, Deflating,
          InCRCTask, Low, High, Closing, GzipFormat
  <2>2. (\A z \in Objs : Live(z) /\ job[z].seq < nSeqNumberExpected =>
            job[z].inCRC /\ z \notin Finished)'
    BY <1>0, <1>f, <1>n, <1>1, <1>2, <1>o, <1>k, <1>5, <1>6
      DEF Stages, TasksOnLive, InHand, Live, Writing, Submitting, Deflating,
          InCRCTask, Low, High, Closing, GzipFormat
  <2>3. (\A z \in Objs : Live(z) /\ nSeqNumberExpected <= job[z].seq =>
            Deflating(z) \/ z \in Finished \/ Writing(z))'
    BY <1>0, <1>f, <1>n, <1>1, <1>2, <1>3, <1>4, <1>o, <1>k, <1>5, <1>6
      DEF Stages, TasksOnLive, InHand, Live, Writing, Submitting, Deflating,
          InCRCTask, Low, High, Closing, GzipFormat
  <2>4. (\A z \in Objs : Live(z) /\ job[z].inCRC =>
            GzipFormat /\ (Submitting(z) \/ InCRCTask(z) \/ z \in CRCFinished))'
    BY <1>0, <1>f, <1>n, <1>1, <1>2, <1>3, <1>4, <1>o, <1>k, <1>5, <1>6
      DEF Stages, TasksOnLive, InHand, Live, Writing, Submitting, Deflating,
          InCRCTask, Low, High, Closing, GzipFormat
  <2>5. (\A z \in Finished : Live(z) /\ ~Writing(z))'
    BY <1>0, <1>f, <1>n, <1>1, <1>2, <1>o, <1>k, <1>5, <1>6
      DEF Stages, TasksOnLive, InHand, Live, Writing, Submitting, Deflating,
          InCRCTask, Low, High, Closing, GzipFormat
  <2>6. (\A z \in CRCFinished : Live(z) /\ job[z].inCRC /\ ~Submitting(z))'
    BY <1>0, <1>f, <1>n, <1>1, <1>2, <1>o, <1>k, <1>5, <1>6
      DEF Stages, TasksOnLive, InHand, Live, Writing, Submitting, Deflating,
          InCRCTask, Low, High, Closing, GzipFormat
  <2> QED BY <2>1, <2>2, <2>3, <2>4, <2>5, <2>6
    DEF Stages
<1>16. InHand'
  BY <1>o, <1>5, <1>6 DEF InHand, Stages, Live, GzipFormat
<1>17. Chunks'
  BY <1>0, <1>n, <1>1, <1>o, <1>5, <1>6
    DEF Chunks, Live, Low, High, Closing, GzipFormat
<1>18. Loops'
  BY <1>0, <1>n, <1>1, <1>o, <1>5, <1>6 DEF Loops, Locked, GzipFormat
<1>19. Closes'
  BY <1>0, <1>f, <1>n, <1>1, <1>2, <1>3, <1>4, <1>o, <1>k, <1>5, <1>6
    DEF Closes, Control, Closing, GzipFormat
<1>20. Contents'
  BY <1>0, <1>f, <1>n, <1>1, <1>2, <1>4, <1>o, <1>5, <1>6
    DEF Contents, InHand, Stages, Writing, Live, Closing, Places
<1>21. Output'
  BY <1>0, <1>n, <1>1, <1>4, <1>o, <1>k, <1>5, <1>6 DEF Output
<1>22. Index'
  BY <1>0, <1>n, <1>1, <1>o, <1>5, <1>6 DEF Index
<1>23. Trailer'
  BY <1>0, <1>n, <1>1, <1>4, <1>o, <1>k, <1>5, <1>6 DEF Trailer, GzipFormat
<1>24. Errors'
  BY <1>0, <1>n, <1>1, <1>o, <1>5, <1>6 DEF Errors
<1> QED
  BY <1>3, <1>10, <1>11, <1>12, <1>13, <1>14, <1>15, <1>16, <1>17, <1>18,
     <1>19, <1>20, <1>21, <1>22, <1>23, <1>24
    DEF WriterInv

(* The CRC task runs in the writing thread when there is no pool to take   *)
(* it.                                                                     *)
LEMMA SubmitCrcWithoutPool ==
    ASSUME WriterInv,
           UNCHANGED nDeflateType,
           SubmitCrc,
           ~HasPool
    PROVE  WriterInv'
<1>0. /\ Types /\ Lists /\ PoolShape /\ Control /\ Places /\ TasksOnLive
      /\ Stages /\ InHand /\ Chunks /\ Loops /\ Closes /\ Contents
      /\ Output /\ Index /\ Trailer /\ Errors
  BY DEF WriterInv
<1>f. /\ Finished \subseteq Objs /\ CRCFinished \subseteq Objs
      /\ FreeObjs \subseteq Objs /\ FreeBuffers \subseteq Buffers
      /\ \A p \in Objs : job[p].seq \in Nat
  BY <1>0, Typed
<1>n. /\ nSeqNumberGenerated \in Nat /\ nSeqNumberExpected \in Nat
      /\ nSeqNumberExpectedCRC \in Nat /\ nErrors \in Nat /\ nObjs \in Nat
      /\ nCurOffset \in Nat /\ caller \in {"Write", "Close1", "Close2"}
      /\ nRet \in {0, -1} /\ pc \in Pcs
  BY <1>0 DEF Types
<1>o. PICK o \in Objs : /\ o = psJob /\ pc = "submitCrc" /\ o \in Finished /\ Live(o)
                        /\ job[o].inCRC /\ o \notin CRCFinished /\ GzipFormat
  BY <1>0, <1>f DEF SubmitCrc, InHand, Stages, Submitting
<1>b. job[o].buf \in Buffers /\ content[job[o].buf] \in Seq(Nat)
  BY <1>0, <1>o, Typed, ContentBytes DEF Live
<1>1. UNCHANGED <<nDeflateType, caller, nLeft, nCurOffset, content,
                  aposBuffers, pCurBuffer, nObjs, nSeqNumberGenerated,
                  nSeqNumberExpected, nSeqNumberExpectedCRC, apoFinishedJobs,
                  apoFreeJobs, doItAgain, psJob, nCRC, out, ended, trailer,
                  panSOZIPIndex, nErrors, bHasErrored, nRet, objOf, deleted>>
  BY DEF SubmitCrc, lists, seqs, file
<1>2. Finished' = Finished /\ FreeObjs' = FreeObjs /\ FreeBuffers' = FreeBuffers
  BY <1>1 DEF Finished, FreeObjs, FreeBuffers
<1>3. Pending' = Pending /\ PoolShape'
  BY <1>0
    DEF SubmitCrc, Pending, PoolShape, QueuedJobs, poolVars
<1>4. \A c : Chunk(c)' = Chunk(c) /\ EndBefore(c)' = EndBefore(c)
  BY <1>1 DEF Chunk, EndBefore
<1>5. /\ pc' = "crcLoop" /\ job' = [job EXCEPT ![o].crc = content[job[o].buf]]
      /\ apoCRCFinishedJobs' = Append(apoCRCFinishedJobs, o)
  BY <1>o DEF SubmitCrc
<1>6. /\ \A p \in Objs : p # o => job'[p] = job[p]
      /\ \A p \in Objs : /\ job'[p].buf = job[p].buf /\ job'[p].seq = job[p].seq
                         /\ job'[p].inCRC = job[p].inCRC /\ job'[p].bytes = job[p].bytes
                         /\ job'[p].finish = job[p].finish
      /\ job'[o].crc = content[job[o].buf]
      /\ pc' = "crcLoop"
  BY <1>0, <1>o, <1>5 DEF Types, JobType
<1>7. /\ apoCRCFinishedJobs' \in Seq(Objs) /\ IsInjective(apoCRCFinishedJobs')
      /\ CRCFinished' = CRCFinished \cup {o}
  BY <1>0, <1>o, <1>5, ListAppend DEF Lists, CRCFinished
<1>8. \A c \in 0..MaxChunks : <<"crc", c>> \in Pending => objOf[<<"crc", c>>] # o
  <2>1. Submitting(o)
    BY <1>o DEF Submitting
  <2>2. SUFFICES ASSUME NEW c \in 0..MaxChunks, <<"crc", c>> \in Pending
                 PROVE  objOf[<<"crc", c>>] # o
    OBVIOUS
  <2>3. PICK z \in Objs : objOf[<<"crc", c>>] = z /\ ~Submitting(z)
    BY <1>0, <2>2 DEF TasksOnLive
  <2> QED BY <2>1, <2>3
<1>d. \A z \in Objs : (InCRCTask(z)' <=> InCRCTask(z)) /\ (Deflating(z)' <=> Deflating(z))
  BY <1>1, <1>3, <1>6 DEF Deflating, InCRCTask
<1>9. job' \in [Objs -> JobType]
  BY <1>0, <1>b, <1>5 DEF Types, JobType
<1>10. Types'
  BY <1>0, <1>1, <1>2, <1>o, <1>6, <1>7, <1>8, <1>9 DEF Types, Pcs, Locked
<1>11. Lists'
  BY <1>0, <1>1, <1>o, <1>6, <1>7, <1>8 DEF Lists
<1>12. Control'
  BY <1>0, <1>1, <1>o, <1>6, <1>7, <1>8 DEF Control, Closing
<1>13. Places'
  BY <1>0, <1>f, <1>n, <1>1, <1>2, <1>o, <1>6, <1>7, <1>8
    DEF Places, Live, Closing, Control
<1>14. TasksOnLive'
  BY <1>0, <1>f, <1>n, <1>1, <1>2, <1>3, <1>4, <1>o, <1>6, <1>7, <1>8, <1>9
    DEF TasksOnLive, Live, Writing, Submitting
<1>15. Stages'
  <2>1. (\A z \in Objs : Live(z) => Low <= job[z].seq /\ job[z].seq <= High)'
    BY <1>0, <1>1, <1>o, <1>6, <1>7, <1>8
      DEF Stages, TasksOnLive, InHand, Live, Writing, Submitting, Deflating,
          InCRCTask, Low, High, Closing, GzipFormat
  <2>2. (\A z \in Objs : Live(z) /\ job[z].seq < nSeqNumberExpected =>
            job[z].inCRC /\ z \notin Finished)'
    BY <1>0, <1>f, <1>n, <1>1, <1>2, <1>o, <1>6, <1>7, <1>8
      DEF Stages, TasksOnLive, InHand, Live, Writing, Submitting, Deflating,
          InCRCTask, Low, High, Closing, GzipFormat
  <2>3. (\A z \in Objs : Live(z) /\ nSeqNumberExpected <= job[z].seq =>
            Deflating(z) \/ z \in Finished \/ Writing(z))'
    BY <1>0, <1>f, <1>n, <1>1, <1>2, <1>3, <1>4, <1>o, <1>6, <1>7, <1>8, <1>9
      DEF Stages, TasksOnLive, InHand, Live, Writing, Submitting, Deflating,
          InCRCTask, Low, High, Closing, GzipFormat
  <2>4. (\A z \in Objs : Live(z) /\ job[z].inCRC =>
            GzipFormat /\ (Submitting(z) \/ InCRCTask(z) \/ z \in CRCFinished))'
    BY <1>0, <1>1, <1>o, <1>d, <1>6, <1>7, <1>8
      DEF Stages, Live, Submitting, GzipFormat
  <2>5. (\A z \in Finished : Live(z) /\ ~Writing(z))'
    BY <1>0, <1>f, <1>n, <1>1, <1>2, <1>o, <1>6, <1>7, <1>8
      DEF Stages, TasksOnLive, InHand, Live, Writing, Submitting, Deflating,
          InCRCTask, Low, High, Closing, GzipFormat
  <2>6. (\A z \in CRCFinished : Live(z) /\ job[z].inCRC /\ ~Submitting(z))'
    BY <1>0, <1>f, <1>n, <1>1, <1>2, <1>o, <1>6, <1>7, <1>8
      DEF Stages, TasksOnLive, InHand, Live, Writing, Submitting, Deflating,
          InCRCTask, Low, High, Closing, GzipFormat
  <2> QED BY <2>1, <2>2, <2>3, <2>4, <2>5, <2>6
    DEF Stages
<1>16. InHand'
  BY <1>6, <1>7, <1>8 DEF InHand, Stages, Live, GzipFormat
<1>17. Chunks'
  <2>1. (\A z, y \in Objs : Live(z) /\ Live(y) /\ job[z].seq = job[y].seq => z = y)'
    BY <1>0, <1>6, <1>1
      DEF Chunks, Live, Low, High, Closing, GzipFormat
  <2>2. (\A c \in Nat : Low <= c /\ c <= High => \E z \in Objs : Live(z) /\ job[z].seq = c)'
    BY <1>0, <1>6, <1>1
      DEF Chunks, Live, Low, High, Closing, GzipFormat
  <2>3. (nSeqNumberExpected <= High + 1)'
    BY <1>0, <1>1, <1>o, <1>6, <1>7, <1>8
      DEF Chunks, Live, Low, High, Closing, GzipFormat
  <2>4. (GzipFormat => nSeqNumberExpectedCRC <= nSeqNumberExpected)'
    BY <1>0, <1>1, <1>o, <1>6, <1>7, <1>8
      DEF Chunks, Live, Low, High, Closing, GzipFormat
  <2> QED BY <2>1, <2>2, <2>3, <2>4
    DEF Chunks
<1>18. Loops'
  BY <1>0, <1>1, <1>o, <1>6, <1>7, <1>8 DEF Loops, Locked, GzipFormat
<1>19. Closes'
  BY <1>0, <1>f, <1>n, <1>1, <1>2, <1>3, <1>4, <1>o, <1>6, <1>7, <1>8, <1>9
    DEF Closes, Control, Closing, GzipFormat
<1>20. Contents'
  <2>1. (pCurBuffer # None => content[pCurBuffer] = Chunk(nSeqNumberGenerated))'
    BY <1>0, <1>f, <1>n, <1>1, <1>2, <1>4, <1>o, <1>6, <1>7, <1>8, <1>9
      DEF Contents, InHand, Stages, Writing, Live, Closing, Places
  <2>2. (\A z \in Objs : Live(z) => content[job[z].buf] = Chunk(job[z].seq))'
    BY <1>0, <1>f, <1>n, <1>1, <1>2, <1>4, <1>o, <1>6, <1>7, <1>8, <1>9
      DEF Contents, InHand, Stages, Writing, Live, Closing, Places
  <2>3. (\A z \in Finished : job[z].bytes = content[job[z].buf])'
    BY <1>0, <1>f, <1>n, <1>1, <1>2, <1>o, <1>6, <1>7, <1>8
      DEF Contents, InHand, Stages, Writing, Live, Closing, Places
  <2>4. (\A z \in CRCFinished : job[z].crc = content[job[z].buf])'
    BY <1>0, <1>f, <1>n, <1>1, <1>2, <1>o, <1>6, <1>7, <1>8
      DEF Contents, InHand, Stages, Writing, Live, Closing, Places
  <2>5. (pc = "writeChunk" => job[psJob].bytes = content[job[psJob].buf])'
    BY <1>6, <1>7, <1>8
      DEF Contents, InHand, Stages, Writing, Live, Closing, Places
  <2>6. (Closing => \A z \in Objs : Live(z) /\ job[z].seq = nSeqNumberGenerated =>
                        job[z].finish)'
    BY <1>0, <1>1, <1>o, <1>6, <1>7, <1>8
      DEF Contents, InHand, Stages, Writing, Live, Closing, Places
  <2> QED BY <2>1, <2>2, <2>3, <2>4, <2>5, <2>6
    DEF Contents
<1>21. Output'
  BY <1>0, <1>n, <1>1, <1>4, <1>o, <1>6, <1>7, <1>8 DEF Output
<1>22. Index'
  BY <1>0, <1>1, <1>o, <1>6, <1>7, <1>8 DEF Index
<1>23. Trailer'
  BY <1>0, <1>n, <1>1, <1>4, <1>o, <1>6, <1>7, <1>8 DEF Trailer, GzipFormat
<1>24. Errors'
  BY <1>0, <1>1, <1>o, <1>6, <1>7, <1>8 DEF Errors
<1> QED
  BY <1>3, <1>10, <1>11, <1>12, <1>13, <1>14, <1>15, <1>16, <1>17, <1>18,
     <1>19, <1>20, <1>21, <1>22, <1>23, <1>24
    DEF WriterInv

(* The write loop does not find the chunk that comes next in the file.     *)
LEMMA WriteLoopEnds ==
    ASSUME WriterInv,
           UNCHANGED nDeflateType,
           WriteLoop,
           pc' # "writeChunk"
    PROVE  WriterInv'
<1>0. /\ Types /\ Lists /\ PoolShape /\ Control /\ Places /\ TasksOnLive
      /\ Stages /\ InHand /\ Chunks /\ Loops /\ Closes /\ Contents
      /\ Output /\ Index /\ Trailer /\ Errors
  BY DEF WriterInv
<1>f. /\ Finished \subseteq Objs /\ CRCFinished \subseteq Objs
      /\ FreeObjs \subseteq Objs /\ FreeBuffers \subseteq Buffers
      /\ \A p \in Objs : job[p].seq \in Nat
  BY <1>0, Typed
<1>n. /\ nSeqNumberGenerated \in Nat /\ nSeqNumberExpected \in Nat
      /\ nSeqNumberExpectedCRC \in Nat /\ nErrors \in Nat /\ nObjs \in Nat
      /\ nCurOffset \in Nat /\ caller \in {"Write", "Close1", "Close2"}
      /\ nRet \in {0, -1} /\ pc \in Pcs
  BY <1>0 DEF Types
<1>i. PICK i : i = SelectInSeq(apoFinishedJobs, IsExpected)
  OBVIOUS
<1>s. i = 0 /\ \A o \in Finished : job[o].seq # nSeqNumberExpected
  BY <1>0, <1>i, FindExpected DEF WriteLoop, Lists
<1>1. UNCHANGED <<nDeflateType, caller, nLeft, nCurOffset, content,
                  aposBuffers, pCurBuffer, job, nObjs, nSeqNumberGenerated,
                  nSeqNumberExpected, nSeqNumberExpectedCRC, apoFinishedJobs,
                  apoCRCFinishedJobs, apoFreeJobs, doItAgain, psJob, nCRC,
                  out, ended, trailer, panSOZIPIndex, nErrors, bHasErrored,
                  nRet, objOf, deleted>>
  BY <1>i, <1>s DEF WriteLoop, data, seqs, file
<1>2. Finished' = Finished /\ CRCFinished' = CRCFinished /\ FreeObjs' = FreeObjs /\ FreeBuffers' = FreeBuffers
  BY <1>1 DEF Finished, CRCFinished, FreeObjs, FreeBuffers
<1>3. Pending' = Pending /\ PoolShape'
  BY <1>0
    DEF WriteLoop, Pending, PoolShape, QueuedJobs, poolVars
<1>4. \A c : Chunk(c)' = Chunk(c) /\ EndBefore(c)' = EndBefore(c)
  BY <1>1 DEF Chunk, EndBefore
<1>5. pc = "writeLoop" /\ pc' = "combine"
  BY <1>i, <1>s DEF WriteLoop
<1>10. Types'
  BY <1>0, <1>1, <1>s, <1>5 DEF Types, Pcs, Locked
<1>11. Lists'
  BY <1>0, <1>n, <1>1, <1>s, <1>5 DEF Lists
<1>12. Control'
  BY <1>0, <1>n, <1>1, <1>s, <1>5 DEF Control, Closing
<1>13. Places'
  BY <1>0, <1>1, <1>2, <1>s, <1>5 DEF Places, Live, Closing, Control
<1>14. TasksOnLive'
  BY <1>0, <1>f, <1>n, <1>1, <1>2, <1>3, <1>4, <1>s, <1>5
    DEF TasksOnLive, Live, Writing, Submitting
<1>15. Stages'
  BY <1>0, <1>f, <1>n, <1>1, <1>2, <1>3, <1>4, <1>s, <1>5
    DEF Stages, TasksOnLive, InHand, Live, Writing, Submitting, Deflating,
        InCRCTask, Low, High, Closing, GzipFormat
<1>16. InHand'
  BY <1>1, <1>s, <1>5 DEF InHand, Stages, Live, GzipFormat
<1>17. Chunks'
  BY <1>0, <1>f, <1>n, <1>1, <1>s, <1>5
    DEF Chunks, Live, Low, High, Closing, GzipFormat
<1>18. Loops'
  BY <1>0, <1>f, <1>n, <1>1, <1>2, <1>s, <1>5 DEF Loops, Locked, GzipFormat
<1>19. Closes'
  BY <1>0, <1>f, <1>n, <1>1, <1>2, <1>3, <1>4, <1>s, <1>5
    DEF Closes, Control, Closing, GzipFormat
<1>20. Contents'
  BY <1>0, <1>f, <1>n, <1>1, <1>2, <1>4, <1>s, <1>5
    DEF Contents, InHand, Stages, Writing, Live, Closing, Places
<1>21. Output'
  BY <1>0, <1>n, <1>1, <1>4, <1>s, <1>5
    DEF Output
<1>22. Index'
  BY <1>0, <1>n, <1>1, <1>4, <1>s, <1>5
    DEF Index
<1>23. Trailer'
  BY <1>0, <1>n, <1>1, <1>4, <1>s, <1>5
    DEF Trailer, GzipFormat
<1>24. Errors'
  BY <1>0, <1>n, <1>1, <1>s, <1>5 DEF Errors
<1> QED
  BY <1>3, <1>10, <1>11, <1>12, <1>13, <1>14, <1>15, <1>16, <1>17, <1>18,
     <1>19, <1>20, <1>21, <1>22, <1>23, <1>24
    DEF WriterInv

(* The write loop finds the chunk that comes next, takes it off the list   *)
(* and releases the mutex to write it.                                     *)
LEMMA WriteLoopFinds ==
    ASSUME WriterInv,
           UNCHANGED nDeflateType,
           WriteLoop,
           pc' = "writeChunk"
    PROVE  WriterInv'
<1>0. /\ Types /\ Lists /\ PoolShape /\ Control /\ Places /\ TasksOnLive
      /\ Stages /\ InHand /\ Chunks /\ Loops /\ Closes /\ Contents
      /\ Output /\ Index /\ Trailer /\ Errors
  BY DEF WriterInv
<1>f. /\ Finished \subseteq Objs /\ CRCFinished \subseteq Objs
      /\ FreeObjs \subseteq Objs /\ FreeBuffers \subseteq Buffers
      /\ \A p \in Objs : job[p].seq \in Nat
  BY <1>0, Typed
<1>n. /\ nSeqNumberGenerated \in Nat /\ nSeqNumberExpected \in Nat
      /\ nSeqNumberExpectedCRC \in Nat /\ nErrors \in Nat /\ nObjs \in Nat
      /\ nCurOffset \in Nat /\ caller \in {"Write", "Close1", "Close2"}
      /\ nRet \in {0, -1} /\ pc \in Pcs
  BY <1>0 DEF Types
<1>i. PICK i : i = SelectInSeq(apoFinishedJobs, IsExpected)
  OBVIOUS
<1>s. /\ i \in 1..Len(apoFinishedJobs) /\ i # 0
      /\ job[apoFinishedJobs[i]].seq = nSeqNumberExpected
  BY <1>0, <1>i, FindExpected DEF WriteLoop, Lists
<1>o. PICK o \in Objs : o = apoFinishedJobs[i] /\ o \in Finished
  BY <1>0, <1>s, ListElements DEF Lists, Finished
<1>1. UNCHANGED <<nDeflateType, caller, nLeft, nCurOffset, content,
                  aposBuffers, pCurBuffer, job, nObjs, nSeqNumberGenerated,
                  nSeqNumberExpected, nSeqNumberExpectedCRC,
                  apoCRCFinishedJobs, apoFreeJobs, doItAgain, nCRC, out,
                  ended, trailer, panSOZIPIndex, nErrors, bHasErrored, nRet,
                  objOf, deleted>>
  BY <1>i, <1>s DEF WriteLoop, data, seqs, file
<1>2. CRCFinished' = CRCFinished /\ FreeObjs' = FreeObjs /\ FreeBuffers' = FreeBuffers
  BY <1>1 DEF CRCFinished, FreeObjs, FreeBuffers
<1>3. Pending' = Pending /\ PoolShape'
  BY <1>0
    DEF WriteLoop, Pending, PoolShape, QueuedJobs, poolVars
<1>4. \A c : Chunk(c)' = Chunk(c) /\ EndBefore(c)' = EndBefore(c)
  BY <1>1 DEF Chunk, EndBefore
<1>5. /\ pc = "writeLoop" /\ psJob' = o /\ job[o].seq = nSeqNumberExpected
      /\ apoFinishedJobs' = RemoveAt(apoFinishedJobs, i)
  BY <1>i, <1>s, <1>o DEF WriteLoop
<1>7. /\ apoFinishedJobs' \in Seq(Objs) /\ IsInjective(apoFinishedJobs')
      /\ Finished' = Finished \ {o}
  BY <1>0, <1>s, <1>o, <1>5, ListRemoveAt DEF Lists, Finished
<1>8. Live(o) /\ (GzipFormat => job[o].inCRC)
  BY <1>0, <1>o, <1>5 DEF Stages, Loops
<1>10. Types'
  BY <1>0, <1>1, <1>2, <1>o, <1>5, <1>7, <1>8 DEF Types, Pcs, Locked
<1>11. Lists'
  BY <1>0, <1>1, <1>o, <1>5, <1>7, <1>8 DEF Lists
<1>12. Control'
  BY <1>0, <1>1, <1>o, <1>5, <1>7, <1>8 DEF Control, Closing
<1>13. Places'
  BY <1>0, <1>f, <1>n, <1>1, <1>2, <1>o, <1>5, <1>7, <1>8
    DEF Places, Live, Closing, Control
<1>14. TasksOnLive'
  BY <1>0, <1>f, <1>n, <1>1, <1>2, <1>3, <1>4, <1>o, <1>5, <1>7, <1>8
    DEF TasksOnLive, Live, Writing, Submitting
<1>15. Stages'
  BY <1>0, <1>f, <1>n, <1>1, <1>2, <1>3, <1>4, <1>o, <1>5, <1>7, <1>8
    DEF Stages, TasksOnLive, InHand, Live, Writing, Submitting, Deflating,
        InCRCTask, Low, High, Closing, GzipFormat
<1>16. InHand'
  BY <1>0, <1>1, <1>o, <1>5, <1>7, <1>8 DEF InHand, Stages, Live, GzipFormat
<1>17. Chunks'
  BY <1>0, <1>1, <1>o, <1>5, <1>7, <1>8
    DEF Chunks, Live, Low, High, Closing, GzipFormat
<1>18. Loops'
  BY <1>0, <1>1, <1>o, <1>5, <1>7, <1>8 DEF Loops, Locked, GzipFormat
<1>19. Closes'
  BY <1>0, <1>f, <1>n, <1>1, <1>2, <1>3, <1>4, <1>o, <1>5, <1>7, <1>8
    DEF Closes, Control, Closing, GzipFormat, Stages, Live, High
<1>20. Contents'
  BY <1>0, <1>f, <1>n, <1>1, <1>2, <1>4, <1>o, <1>5, <1>7, <1>8
    DEF Contents, InHand, Stages, Writing, Live, Closing, Places
<1>21. Output'
  BY <1>0, <1>n, <1>1, <1>4, <1>o, <1>5, <1>7, <1>8 DEF Output
<1>22. Index'
  BY <1>0, <1>1, <1>o, <1>5, <1>7, <1>8 DEF Index
<1>23. Trailer'
  BY <1>0, <1>n, <1>1, <1>4, <1>o, <1>5, <1>7, <1>8 DEF Trailer, GzipFormat
<1>24. Errors'
  BY <1>0, <1>1, <1>o, <1>5, <1>7, <1>8 DEF Errors
<1> QED
  BY <1>3, <1>10, <1>11, <1>12, <1>13, <1>14, <1>15, <1>16, <1>17, <1>18,
     <1>19, <1>20, <1>21, <1>22, <1>23, <1>24
    DEF WriterInv

(* A chunk of a gzip stream is written: its object stays live, for its     *)
(* CRC.                                                                    *)
LEMMA WriteChunkGzipOk ==
    ASSUME WriterInv,
           UNCHANGED nDeflateType,
           WriteChunk,
           GzipFormat,
           nErrors' = nErrors
    PROVE  WriterInv'
<1>0. /\ Types /\ Lists /\ PoolShape /\ Control /\ Places /\ TasksOnLive
      /\ Stages /\ InHand /\ Chunks /\ Loops /\ Closes /\ Contents
      /\ Output /\ Index /\ Trailer /\ Errors
  BY DEF WriterInv
<1>f. /\ Finished \subseteq Objs /\ CRCFinished \subseteq Objs
      /\ FreeObjs \subseteq Objs /\ FreeBuffers \subseteq Buffers
      /\ \A p \in Objs : job[p].seq \in Nat
  BY <1>0, Typed
<1>n. /\ nSeqNumberGenerated \in Nat /\ nSeqNumberExpected \in Nat
      /\ nSeqNumberExpectedCRC \in Nat /\ nErrors \in Nat /\ nObjs \in Nat
      /\ nCurOffset \in Nat /\ caller \in {"Write", "Close1", "Close2"}
      /\ nRet \in {0, -1} /\ pc \in Pcs
  BY <1>0 DEF Types
<1>o. PICK o \in Objs : /\ o = psJob /\ pc = "writeChunk" /\ Live(o)
                        /\ job[o].seq = nSeqNumberExpected /\ Writing(o)
                        /\ GzipFormat => job[o].inCRC
                        /\ o \notin Finished
  BY <1>0, <1>f DEF WriteChunk, InHand, Stages, Writing
<1>h. /\ Low <= nSeqNumberExpected /\ nSeqNumberExpected <= High
      /\ nSeqNumberExpected <= nSeqNumberGenerated
      /\ nSeqNumberExpected = nSeqNumberGenerated => Closing
      /\ caller # "Close2"
  BY <1>0, <1>n, <1>o DEF Stages, High, Closes
<1>w. /\ out' = out \o job[psJob].bytes /\ pc' = "combine" /\ doItAgain' = TRUE
      /\ ended' = (ended \/ job[psJob].finish)
      /\ UNCHANGED <<caller, bHasErrored, nRet, nLeft, nErrors>>
  <2>1. nErrors + 1 # nErrors
    BY <1>n
  <2> QED BY <2>1, Zenon DEF WriteChunk
<1>1. UNCHANGED <<nDeflateType, caller, nLeft, nCurOffset, content,
                  aposBuffers, pCurBuffer, job, nObjs, nSeqNumberGenerated,
                  nSeqNumberExpectedCRC, apoFinishedJobs, apoCRCFinishedJobs,
                  apoFreeJobs, psJob, nCRC, trailer, nErrors, bHasErrored,
                  nRet, objOf, deleted>>
  BY <1>w DEF WriteChunk, RecycledAfterWrite, poolVars
<1>2. Finished' = Finished /\ CRCFinished' = CRCFinished /\ FreeObjs' = FreeObjs /\ FreeBuffers' = FreeBuffers
  BY <1>1 DEF Finished, CRCFinished, FreeObjs, FreeBuffers
<1>3. Pending' = Pending /\ PoolShape'
  BY <1>0
    DEF WriteChunk, Pending, PoolShape, QueuedJobs, poolVars
<1>4. \A c : Chunk(c)' = Chunk(c) /\ EndBefore(c)' = EndBefore(c)
  BY <1>1 DEF Chunk, EndBefore
<1>5. /\ nSeqNumberExpected' = nSeqNumberExpected + 1
      /\ pc' = "combine" /\ doItAgain' = TRUE
      /\ out' = out \o job[o].bytes
  BY <1>w, <1>o DEF WriteChunk
<1>e. ended' \in BOOLEAN /\ (job[o].finish => ended')
  BY <1>w, <1>o, Zenon
<1>6. panSOZIPIndex' = IF nSeqNumberExpected # 0 /\ content[job[o].buf] # <<>>
                       THEN Append(panSOZIPIndex, Len(out)) ELSE panSOZIPIndex
  BY <1>o DEF WriteChunk, IndexedInSozip
<1>8. \A z \in Objs : Live(z) /\ z # o => job[z].seq # nSeqNumberExpected
  BY <1>0, <1>o DEF Chunks
<1>v. \A c \in 0..MaxChunks : <<"deflate", c>> \in Pending =>
         nSeqNumberExpected + 1 <= c /\ objOf[<<"deflate", c>>] # o
  <2>1. SUFFICES ASSUME NEW c \in 0..MaxChunks, <<"deflate", c>> \in Pending
                 PROVE  nSeqNumberExpected + 1 <= c /\ objOf[<<"deflate", c>>] # o
    OBVIOUS
  <2>2. PICK z \in Objs : objOf[<<"deflate", c>>] = z /\ Live(z) /\ job[z].seq = c /\ nSeqNumberExpected <= c /\ ~Writing(z)
    BY <1>0, <2>1 DEF TasksOnLive
  <2>3. z # o
    BY <1>o, <2>2
  <2> QED BY <1>n, <1>8, <2>2, <2>3
<1>10. Types'
  <2>b. job[o].bytes \in Seq(Nat) /\ job[o].finish \in BOOLEAN
    BY <1>0, Typed
  <2>1. panSOZIPIndex' \in Seq(Nat)
    <3>1. Len(out) \in Nat /\ panSOZIPIndex \in Seq(Nat)
      BY <1>0 DEF Types
    <3> QED BY <1>6, <3>1, AppendProperties
  <2>2. out' \in Seq(Nat)
    BY <1>0, <1>5, <2>b, ConcatProperties DEF Types
  <2> QED BY <1>0, <1>1, <1>5, <1>e, <2>1, <2>2 DEF Types, Pcs, Locked
<1>11. Lists'
  BY <1>0, <1>f, <1>n, <1>1, <1>o, <1>h, <1>5, <1>8, <1>v DEF Lists
<1>12. Control'
  BY <1>0, <1>f, <1>n, <1>1, <1>o, <1>h, <1>5, <1>8, <1>v DEF Control, Closing
<1>13. Places'
  BY <1>0, <1>f, <1>n, <1>1, <1>2, <1>o, <1>h, <1>5, <1>8, <1>v
    DEF Places, Live, Closing, Control
<1>14. TasksOnLive'
  <2>1. (\A c \in 0..MaxChunks : <<"deflate", c>> \in Pending =>
            \E z \in Objs :
               /\ objOf[<<"deflate", c>>] = z
               /\ Live(z) /\ job[z].seq = c
               /\ nSeqNumberExpected <= c
               /\ ~job[z].inCRC
               /\ z \notin Finished /\ ~Writing(z))'
    BY <1>0, <1>f, <1>n, <1>1, <1>2, <1>3, <1>4, <1>o, <1>h, <1>5, <1>8, <1>v
      DEF TasksOnLive, Live, Writing, Submitting
  <2>2. (\A c \in 0..MaxChunks : <<"crc", c>> \in Pending =>
            \E z \in Objs :
               /\ objOf[<<"crc", c>>] = z
               /\ Live(z) /\ job[z].seq = c
               /\ job[z].inCRC
               /\ z \notin CRCFinished /\ ~Submitting(z))'
    BY <1>0, <1>f, <1>n, <1>1, <1>2, <1>3, <1>4, <1>o, <1>h, <1>5, <1>8, <1>v
      DEF TasksOnLive, Live, Writing, Submitting
  <2> QED BY <2>1, <2>2
    DEF TasksOnLive
<1>15. Stages'
  <2>1. (\A z \in Objs : Live(z) => Low <= job[z].seq /\ job[z].seq <= High)'
    BY <1>0, <1>f, <1>n, <1>1, <1>o, <1>h, <1>5, <1>8, <1>v
      DEF Stages, TasksOnLive, InHand, Live, Writing, Submitting, Deflating,
          InCRCTask, Low, High, Closing, GzipFormat
  <2>2. (\A z \in Objs : Live(z) /\ job[z].seq < nSeqNumberExpected =>
            job[z].inCRC /\ z \notin Finished)'
    BY <1>0, <1>f, <1>n, <1>1, <1>2, <1>4, <1>o, <1>h, <1>5, <1>8, <1>v
      DEF Stages, TasksOnLive, InHand, Live, Writing, Submitting, Deflating,
          InCRCTask, Low, High, Closing, GzipFormat
  <2>3. (\A z \in Objs : Live(z) /\ nSeqNumberExpected <= job[z].seq =>
            Deflating(z) \/ z \in Finished \/ Writing(z))'
    BY <1>0, <1>f, <1>n, <1>1, <1>2, <1>3, <1>4, <1>o, <1>h, <1>5, <1>8, <1>v
      DEF Stages, TasksOnLive, InHand, Live, Writing, Submitting, Deflating,
          InCRCTask, Low, High, Closing, GzipFormat
  <2>4. (\A z \in Objs : Live(z) /\ job[z].inCRC =>
            GzipFormat /\ (Submitting(z) \/ InCRCTask(z) \/ z \in CRCFinished))'
    BY <1>0, <1>f, <1>n, <1>1, <1>2, <1>3, <1>4, <1>o, <1>h, <1>5, <1>8, <1>v
      DEF Stages, TasksOnLive, InHand, Live, Writing, Submitting, Deflating,
          InCRCTask, Low, High, Closing, GzipFormat
  <2>5. (\A z \in Finished : Live(z) /\ ~Writing(z))'
    BY <1>0, <1>f, <1>n, <1>1, <1>2, <1>4, <1>o, <1>h, <1>5, <1>8, <1>v
      DEF Stages, TasksOnLive, InHand, Live, Writing, Submitting, Deflating,
          InCRCTask, Low, High, Closing, GzipFormat
  <2>6. (\A z \in CRCFinished : Live(z) /\ job[z].inCRC /\ ~Submitting(z))'
    BY <1>0, <1>f, <1>n, <1>1, <1>2, <1>4, <1>o, <1>h, <1>5, <1>8, <1>v
      DEF Stages, TasksOnLive, InHand, Live, Writing, Submitting, Deflating,
          InCRCTask, Low, High, Closing, GzipFormat
  <2> QED BY <2>1, <2>2, <2>3, <2>4, <2>5, <2>6
    DEF Stages
<1>16. InHand'
  BY <1>5, <1>8, <1>v DEF InHand, Stages, Live, GzipFormat
<1>17. Chunks'
  BY <1>0, <1>n, <1>1, <1>o, <1>h, <1>5, <1>8, <1>v
    DEF Chunks, Live, Low, High, Closing, GzipFormat
<1>18. Loops'
  BY <1>0, <1>f, <1>n, <1>1, <1>o, <1>h, <1>5, <1>8, <1>v
    DEF Loops, Locked, GzipFormat, Chunks
<1>19. Closes'
  BY <1>0, <1>f, <1>n, <1>1, <1>2, <1>3, <1>4, <1>o, <1>h, <1>5, <1>8, <1>v
    DEF Closes, Control, Closing, GzipFormat, Stages, Live, High
<1>20. Contents'
  BY <1>0, <1>f, <1>n, <1>1, <1>2, <1>4, <1>o, <1>h, <1>5, <1>8, <1>v
    DEF Contents, InHand, Stages, Writing, Live, Closing, Places
<1>21. Output'
  <2>a. PICK a : a = Start(nSeqNumberExpected)
    OBVIOUS
  <2>w. PICK w : w = job[o].bytes
    OBVIOUS
  <2>1. w = Chunk(nSeqNumberExpected)
    BY <1>0, <1>o, <2>w DEF Contents
  <2>2. /\ w \in Seq(Nat) /\ Len(w) \in Nat
        /\ a + Len(w) = EndBefore(nSeqNumberExpected + 1)
        /\ \A i \in 1..Len(w) : w[i] = a + i
    BY <1>0, <1>n, <1>h, <2>a, <2>1, ChunkBytes
  <2>3. EndBefore(nSeqNumberExpected) = a /\ a \in Nat
    BY <1>n, <1>h, <2>a, Starts DEF EndBefore
  <2>4. out \in Seq(Nat) /\ Len(out) \in Nat /\ \A i \in 1..Len(out) : out[i] \in Nat
    BY <1>0 DEF Types
  <2>x. PICK x : x = out \o w
    OBVIOUS
  <2>5. /\ \A i \in 1..Len(out) : out[i] <= a
        /\ \A i, k \in 1..Len(out) : i < k => out[i] < out[k]
        /\ nErrors = 0 => Len(out) = a /\ \A i \in 1..Len(out) : out[i] = i
    BY <1>0, <2>3, <2>4 DEF Output
  <2>6. /\ x \in Seq(Nat) /\ DOMAIN x = 1..Len(x)
        /\ \A i \in 1..Len(x) : x[i] <= a + Len(w)
        /\ \A i, k \in 1..Len(x) : i < k => x[i] < x[k]
        /\ nErrors = 0 => Len(x) = a + Len(w) /\ \A i \in 1..Len(x) : x[i] = i
    <3>0. /\ x \in Seq(Nat)
          /\ (\A i \in 1..Len(out) : out[i] <= a) =>
                \A i \in 1..Len(x) : x[i] <= a + Len(w)
          /\ /\ \A i \in 1..Len(out) : out[i] <= a
             /\ \A i, k \in 1..Len(out) : i < k => out[i] < out[k]
             => \A i, k \in 1..Len(x) : i < k => x[i] < x[k]
          /\ Len(out) = a /\ (\A i \in 1..Len(out) : out[i] = i) =>
                /\ Len(x) = a + Len(w)
                /\ \A i \in 1..Len(x) : x[i] = i
      <4>1. /\ out \in Seq(Nat) /\ w \in Seq(Nat) /\ a \in Nat
            /\ \A i \in 1..Len(w) : w[i] = a + i
        BY <2>2, <2>3, <2>4
      <4> QED BY <2>x, <4>1, BytesFollow, Zenon
    <3>1. x \in Seq(Nat) /\ \A i \in 1..Len(x) : x[i] <= a + Len(w)
      BY <2>5, <3>0
    <3>2. \A i, k \in 1..Len(x) : i < k => x[i] < x[k]
      BY <2>5, <3>0
    <3>3. nErrors = 0 => Len(x) = a + Len(w) /\ \A i \in 1..Len(x) : x[i] = i
      BY <2>5, <3>0
    <3> QED BY <3>1, <3>2, <3>3
  <2>7. out' = x /\ EndBefore(nSeqNumberExpected)' = a + Len(w)
    BY <1>1, <1>4, <1>5, <2>2, <2>w, <2>x DEF EndBefore
  <2>11. (nErrors = 0 /\ nSeqNumberExpected = nSeqNumberGenerated + 1 => ended)'
    <3>1. nSeqNumberExpected = nSeqNumberGenerated => job[o].finish
      BY <1>0, <1>o, <1>h DEF Contents
    <3> QED BY <1>n, <1>1, <1>5, <1>e, <3>1
  <2> QED BY <1>1, <2>6, <2>7, <2>11 DEF Output
<1>22. Index'
  <2>1. panSOZIPIndex \in Seq(Nat) /\ out \in Seq(Nat) /\ Len(out) \in Nat
    BY <1>0 DEF Types
  <2>2. nErrors = 0 => Len(out) = Start(nSeqNumberExpected)
    BY <1>0, <1>h DEF Output, EndBefore
  <2>3. nSeqNumberExpected < nSeqNumberGenerated => content[job[o].buf] # <<>>
    <3>c. PICK c : c = content[job[o].buf]
      OBVIOUS
    <3>1. c = Chunk(nSeqNumberExpected)
      BY <1>0, <1>o, <3>c DEF Contents
    <3>2. nSeqNumberExpected < nSeqNumberGenerated => Len(c) = ChunkSize
      BY <1>0, <1>n, <1>h, <3>1, ChunkBytes
    <3>3. ChunkSize > 0 /\ ChunkSize \in Nat /\ Len(<<>>) = 0
      BY Starts
    <3> QED BY <3>2, <3>3, <3>c
  <2>4. nErrors' = nErrors /\ nSeqNumberGenerated' = nSeqNumberGenerated
    BY <1>1
  <2>5. CASE nErrors = 0
    <3>p. PICK l \in Nat : l = Len(panSOZIPIndex) /\ DOMAIN panSOZIPIndex = 1..l
      BY <2>1
    <3>1. /\ \A i \in 1..l : panSOZIPIndex[i] = Start(i)
          /\ nSeqNumberExpected = 0 => l = 0
          /\ 0 < nSeqNumberExpected /\ nSeqNumberExpected <= nSeqNumberGenerated =>
                l = nSeqNumberExpected - 1
      BY <1>0, <2>5, <3>p DEF Index
    <3>2. CASE nSeqNumberExpected # 0 /\ content[job[o].buf] # <<>>
      <4>q. PICK q : q = panSOZIPIndex'
        OBVIOUS
      <4>1. q = Append(panSOZIPIndex, Len(out))
        BY <1>6, <3>2, <4>q
      <4>2. /\ q \in Seq(Nat) /\ Len(q) = l + 1
            /\ \A i \in 1..l : q[i] = panSOZIPIndex[i]
            /\ q[l + 1] = Len(out)
        BY <2>1, <3>p, <4>1, AppendProperties
      <4>3. l + 1 = nSeqNumberExpected
        BY <1>n, <1>h, <3>1, <3>2
      <4>4. \A i \in 1..l + 1 : q[i] = Start(i)
        <5>1. \A i \in 1..l + 1 : i \in 1..l \/ i = l + 1
          OBVIOUS
        <5> QED BY <2>2, <2>5, <3>1, <4>2, <4>3, <5>1
      <4>5. DOMAIN q = 1..l + 1
        BY <4>2
      <4> QED BY <1>5, <2>4, <4>2, <4>3, <4>4, <4>5, <4>q DEF Index
    <3>3. CASE nSeqNumberExpected = 0
      <4>1. panSOZIPIndex' = panSOZIPIndex
        BY <1>6, <3>3
      <4> QED BY <1>5, <2>4, <3>1, <3>3, <3>p, <4>1 DEF Index
    <3>4. CASE nSeqNumberExpected # 0 /\ content[job[o].buf] = <<>>
      <4>1. panSOZIPIndex' = panSOZIPIndex
        BY <1>6, <3>4
      <4>2. nSeqNumberExpected = nSeqNumberGenerated
        BY <1>n, <1>h, <2>3, <3>4
      <4> QED BY <1>n, <1>5, <2>4, <3>1, <3>p, <4>1, <4>2 DEF Index
    <3> QED BY <3>2, <3>3, <3>4
  <2>6. CASE nErrors # 0
    BY <2>4, <2>6 DEF Index
  <2> QED BY <2>5, <2>6
<1>23. Trailer'
  BY <1>0, <1>n, <1>1, <1>4, <1>o, <1>h, <1>5, <1>8, <1>v
    DEF Trailer, GzipFormat
<1>24. Errors'
  BY <1>0, <1>f, <1>n, <1>1, <1>o, <1>h, <1>5, <1>8, <1>v DEF Errors
<1> QED
  BY <1>3, <1>10, <1>11, <1>12, <1>13, <1>14, <1>15, <1>16, <1>17, <1>18,
     <1>19, <1>20, <1>21, <1>22, <1>23, <1>24
    DEF WriterInv

(* The write of a chunk of a gzip stream fails: the error is noted, and    *)
(* the object stays live for its CRC.                                      *)
LEMMA WriteChunkGzipFails ==
    ASSUME WriterInv,
           UNCHANGED nDeflateType,
           WriteChunk,
           GzipFormat,
           nErrors' # nErrors
    PROVE  WriterInv'
<1>0. /\ Types /\ Lists /\ PoolShape /\ Control /\ Places /\ TasksOnLive
      /\ Stages /\ InHand /\ Chunks /\ Loops /\ Closes /\ Contents
      /\ Output /\ Index /\ Trailer /\ Errors
  BY DEF WriterInv
<1>f. /\ Finished \subseteq Objs /\ CRCFinished \subseteq Objs
      /\ FreeObjs \subseteq Objs /\ FreeBuffers \subseteq Buffers
      /\ \A p \in Objs : job[p].seq \in Nat
  BY <1>0, Typed
<1>n. /\ nSeqNumberGenerated \in Nat /\ nSeqNumberExpected \in Nat
      /\ nSeqNumberExpectedCRC \in Nat /\ nErrors \in Nat /\ nObjs \in Nat
      /\ nCurOffset \in Nat /\ caller \in {"Write", "Close1", "Close2"}
      /\ nRet \in {0, -1} /\ pc \in Pcs
  BY <1>0 DEF Types
<1>o. PICK o \in Objs : /\ o = psJob /\ pc = "writeChunk" /\ Live(o)
                        /\ job[o].seq = nSeqNumberExpected /\ Writing(o)
                        /\ GzipFormat => job[o].inCRC
                        /\ o \notin Finished
  BY <1>0, <1>f DEF WriteChunk, InHand, Stages, Writing
<1>h. /\ Low <= nSeqNumberExpected /\ nSeqNumberExpected <= High
      /\ nSeqNumberExpected <= nSeqNumberGenerated
      /\ nSeqNumberExpected = nSeqNumberGenerated => Closing
      /\ caller # "Close2"
  BY <1>0, <1>n, <1>o DEF Stages, High, Closes
<1>w. ReturnFromProcess(FALSE) /\ nErrors' = nErrors + 1 /\ UNCHANGED <<out, ended, doItAgain>>
  BY Zenon DEF WriteChunk
<1>1. UNCHANGED <<nDeflateType, nCurOffset, content, aposBuffers, pCurBuffer,
                  job, nObjs, nSeqNumberGenerated, nSeqNumberExpectedCRC,
                  apoFinishedJobs, apoCRCFinishedJobs, apoFreeJobs,
                  doItAgain, psJob, nCRC, out, ended, trailer, objOf, deleted>>
  BY <1>w DEF WriteChunk, RecycledAfterWrite, poolVars
<1>2. Finished' = Finished /\ CRCFinished' = CRCFinished /\ FreeObjs' = FreeObjs /\ FreeBuffers' = FreeBuffers
  BY <1>1 DEF Finished, CRCFinished, FreeObjs, FreeBuffers
<1>3. Pending' = Pending /\ PoolShape'
  BY <1>0
    DEF WriteChunk, Pending, PoolShape, QueuedJobs, poolVars
<1>4. \A c : Chunk(c)' = Chunk(c) /\ EndBefore(c)' = EndBefore(c)
  BY <1>1 DEF Chunk, EndBefore
<1>5. /\ nSeqNumberExpected' = nSeqNumberExpected + 1
      /\ nErrors' = nErrors + 1
      /\ pc' = IF caller = "Write" THEN "idle" ELSE "finish"
      /\ caller' = caller
      /\ nRet' = IF caller = "Close1" THEN -1 ELSE nRet
      /\ nLeft' = 0
  BY <1>n, <1>h, <1>w DEF WriteChunk, ReturnFromProcess
<1>e. bHasErrored' \in BOOLEAN /\ (bHasErrored \/ caller = "Write" => bHasErrored')
  BY <1>w, Zenon DEF ReturnFromProcess, WriteFails
<1>6. panSOZIPIndex' = IF nSeqNumberExpected # 0 /\ content[job[o].buf] # <<>>
                       THEN Append(panSOZIPIndex, Len(out)) ELSE panSOZIPIndex
  BY <1>o DEF WriteChunk, IndexedInSozip
<1>8. \A z \in Objs : Live(z) /\ z # o => job[z].seq # nSeqNumberExpected
  BY <1>0, <1>o DEF Chunks
<1>v. \A c \in 0..MaxChunks : <<"deflate", c>> \in Pending =>
         nSeqNumberExpected + 1 <= c /\ objOf[<<"deflate", c>>] # o
  <2>1. SUFFICES ASSUME NEW c \in 0..MaxChunks, <<"deflate", c>> \in Pending
                 PROVE  nSeqNumberExpected + 1 <= c /\ objOf[<<"deflate", c>>] # o
    OBVIOUS
  <2>2. PICK z \in Objs : objOf[<<"deflate", c>>] = z /\ Live(z) /\ job[z].seq = c /\ nSeqNumberExpected <= c /\ ~Writing(z)
    BY <1>0, <2>1 DEF TasksOnLive
  <2>3. z # o
    BY <1>o, <2>2
  <2> QED BY <1>n, <1>8, <2>2, <2>3
<1>10. Types'
  <2>b. job[o].bytes \in Seq(Nat) /\ job[o].finish \in BOOLEAN
    BY <1>0, Typed
  <2>1. panSOZIPIndex' \in Seq(Nat)
    <3>1. Len(out) \in Nat /\ panSOZIPIndex \in Seq(Nat)
      BY <1>0 DEF Types
    <3> QED BY <1>6, <3>1, AppendProperties
  <2>2. nLeft' \in 0..MaxWrite /\ nCurOffset' + nLeft' <= MaxBytes
    BY <1>0, <1>1, <1>5, GzipAssumption DEF Types
  <2>3. nRet' \in {0, -1} /\ pc' \in Pcs /\ nErrors' \in Nat /\ nSeqNumberExpected' \in Nat
    BY <1>n, <1>5 DEF Pcs
  <2> QED BY <1>0, <1>1, <1>5, <1>e, <2>1, <2>2, <2>3 DEF Types
<1>11. Lists'
  BY <1>0, <1>f, <1>n, <1>1, <1>o, <1>h, <1>5, <1>8, <1>v DEF Lists
<1>12. Control'
  BY <1>0, <1>f, <1>n, <1>1, <1>o, <1>h, <1>5, <1>8, <1>v DEF Control, Closing
<1>13. Places'
  BY <1>0, <1>f, <1>n, <1>1, <1>2, <1>o, <1>h, <1>5, <1>8, <1>v
    DEF Places, Live, Closing, Control
<1>14. TasksOnLive'
  <2>1. (\A c \in 0..MaxChunks : <<"deflate", c>> \in Pending =>
            \E z \in Objs :
               /\ objOf[<<"deflate", c>>] = z
               /\ Live(z) /\ job[z].seq = c
               /\ nSeqNumberExpected <= c
               /\ ~job[z].inCRC
               /\ z \notin Finished /\ ~Writing(z))'
    BY <1>0, <1>f, <1>n, <1>1, <1>2, <1>3, <1>4, <1>o, <1>h, <1>5, <1>8, <1>v
      DEF TasksOnLive, Live, Writing, Submitting
  <2>2. (\A c \in 0..MaxChunks : <<"crc", c>> \in Pending =>
            \E z \in Objs :
               /\ objOf[<<"crc", c>>] = z
               /\ Live(z) /\ job[z].seq = c
               /\ job[z].inCRC
               /\ z \notin CRCFinished /\ ~Submitting(z))'
    BY <1>0, <1>f, <1>n, <1>1, <1>2, <1>3, <1>4, <1>o, <1>h, <1>5, <1>8, <1>v
      DEF TasksOnLive, Live, Writing, Submitting
  <2> QED BY <2>1, <2>2
    DEF TasksOnLive
<1>15. Stages'
  <2>1. (\A z \in Objs : Live(z) => Low <= job[z].seq /\ job[z].seq <= High)'
    BY <1>0, <1>f, <1>n, <1>1, <1>o, <1>h, <1>5, <1>8, <1>v
      DEF Stages, TasksOnLive, InHand, Live, Writing, Submitting, Deflating,
          InCRCTask, Low, High, Closing, GzipFormat
  <2>2. (\A z \in Objs : Live(z) /\ job[z].seq < nSeqNumberExpected =>
            job[z].inCRC /\ z \notin Finished)'
    BY <1>0, <1>f, <1>n, <1>1, <1>2, <1>4, <1>o, <1>h, <1>5, <1>8, <1>v
      DEF Stages, TasksOnLive, InHand, Live, Writing, Submitting, Deflating,
          InCRCTask, Low, High, Closing, GzipFormat
  <2>3. (\A z \in Objs : Live(z) /\ nSeqNumberExpected <= job[z].seq =>
            Deflating(z) \/ z \in Finished \/ Writing(z))'
    BY <1>0, <1>f, <1>n, <1>1, <1>2, <1>3, <1>4, <1>o, <1>h, <1>5, <1>8, <1>v
      DEF Stages, TasksOnLive, InHand, Live, Writing, Submitting, Deflating,
          InCRCTask, Low, High, Closing, GzipFormat
  <2>4. (\A z \in Objs : Live(z) /\ job[z].inCRC =>
            GzipFormat /\ (Submitting(z) \/ InCRCTask(z) \/ z \in CRCFinished))'
    BY <1>0, <1>f, <1>n, <1>1, <1>2, <1>3, <1>4, <1>o, <1>h, <1>5, <1>8, <1>v
      DEF Stages, TasksOnLive, InHand, Live, Writing, Submitting, Deflating,
          InCRCTask, Low, High, Closing, GzipFormat
  <2>5. (\A z \in Finished : Live(z) /\ ~Writing(z))'
    BY <1>0, <1>f, <1>n, <1>1, <1>2, <1>4, <1>o, <1>h, <1>5, <1>8, <1>v
      DEF Stages, TasksOnLive, InHand, Live, Writing, Submitting, Deflating,
          InCRCTask, Low, High, Closing, GzipFormat
  <2>6. (\A z \in CRCFinished : Live(z) /\ job[z].inCRC /\ ~Submitting(z))'
    BY <1>0, <1>f, <1>n, <1>1, <1>2, <1>4, <1>o, <1>h, <1>5, <1>8, <1>v
      DEF Stages, TasksOnLive, InHand, Live, Writing, Submitting, Deflating,
          InCRCTask, Low, High, Closing, GzipFormat
  <2> QED BY <2>1, <2>2, <2>3, <2>4, <2>5, <2>6
    DEF Stages
<1>16. InHand'
  BY <1>5, <1>8, <1>v DEF InHand, Stages, Live, GzipFormat
<1>17. Chunks'
  BY <1>0, <1>n, <1>1, <1>o, <1>h, <1>5, <1>8, <1>v
    DEF Chunks, Live, Low, High, Closing, GzipFormat
<1>18. Loops'
  BY <1>5, <1>8, <1>v DEF Loops, Locked, GzipFormat, Chunks
<1>19. Closes'
  BY <1>0, <1>f, <1>n, <1>1, <1>2, <1>3, <1>4, <1>o, <1>h, <1>5, <1>8, <1>v
    DEF Closes, Control, Closing, GzipFormat, Stages, Live, High
<1>20. Contents'
  BY <1>0, <1>f, <1>n, <1>1, <1>2, <1>4, <1>o, <1>h, <1>5, <1>8, <1>v
    DEF Contents, InHand, Stages, Writing, Live, Closing, Places
<1>21. Output'
  <2>a. PICK a : a = Start(nSeqNumberExpected)
    OBVIOUS
  <2>w. PICK w : w = job[o].bytes
    OBVIOUS
  <2>1. w = Chunk(nSeqNumberExpected)
    BY <1>0, <1>o, <2>w DEF Contents
  <2>2. /\ w \in Seq(Nat) /\ Len(w) \in Nat
        /\ a + Len(w) = EndBefore(nSeqNumberExpected + 1)
        /\ \A i \in 1..Len(w) : w[i] = a + i
    BY <1>0, <1>n, <1>h, <2>a, <2>1, ChunkBytes
  <2>3. EndBefore(nSeqNumberExpected) = a /\ a \in Nat
    BY <1>n, <1>h, <2>a, Starts DEF EndBefore
  <2>4. out \in Seq(Nat) /\ Len(out) \in Nat /\ \A i \in 1..Len(out) : out[i] \in Nat
    BY <1>0 DEF Types
  <2>5. EndBefore(nSeqNumberExpected)' = a + Len(w)
    BY <1>1, <1>4, <1>5, <2>2 DEF EndBefore
  <2>6. nErrors' # 0
    BY <1>n, <1>5
  <2>7. \A i \in 1..Len(out) : out[i] <= a + Len(w)
    BY <1>0, <2>2, <2>3, <2>4 DEF Output
  <2> QED BY <1>0, <1>1, <2>4, <2>5, <2>6, <2>7 DEF Output
<1>22. Index'
  BY <1>n, <1>5 DEF Index
<1>23. Trailer'
  BY <1>0, <1>n, <1>1, <1>4, <1>o, <1>h, <1>5, <1>8, <1>v
    DEF Trailer, GzipFormat
<1>24. Errors'
  BY <1>0, <1>f, <1>n, <1>1, <1>o, <1>h, <1>5, <1>8, <1>v, <1>e DEF Errors
<1> QED
  BY <1>3, <1>10, <1>11, <1>12, <1>13, <1>14, <1>15, <1>16, <1>17, <1>18,
     <1>19, <1>20, <1>21, <1>22, <1>23, <1>24
    DEF WriterInv

(* A chunk of a raw deflate stream is written, and its object and its      *)
(* buffer are free again.                                                  *)
LEMMA WriteChunkRawOk ==
    ASSUME WriterInv,
           UNCHANGED nDeflateType,
           WriteChunk,
           ~GzipFormat,
           nErrors' = nErrors
    PROVE  WriterInv'
<1>0. /\ Types /\ Lists /\ PoolShape /\ Control /\ Places /\ TasksOnLive
      /\ Stages /\ InHand /\ Chunks /\ Loops /\ Closes /\ Contents
      /\ Output /\ Index /\ Trailer /\ Errors
  BY DEF WriterInv
<1>f. /\ Finished \subseteq Objs /\ CRCFinished \subseteq Objs
      /\ FreeObjs \subseteq Objs /\ FreeBuffers \subseteq Buffers
      /\ \A p \in Objs : job[p].seq \in Nat
  BY <1>0, Typed
<1>n. /\ nSeqNumberGenerated \in Nat /\ nSeqNumberExpected \in Nat
      /\ nSeqNumberExpectedCRC \in Nat /\ nErrors \in Nat /\ nObjs \in Nat
      /\ nCurOffset \in Nat /\ caller \in {"Write", "Close1", "Close2"}
      /\ nRet \in {0, -1} /\ pc \in Pcs
  BY <1>0 DEF Types
<1>o. PICK o \in Objs : /\ o = psJob /\ pc = "writeChunk" /\ Live(o)
                        /\ job[o].seq = nSeqNumberExpected /\ Writing(o)
                        /\ GzipFormat => job[o].inCRC
                        /\ o \notin Finished
  BY <1>0, <1>f DEF WriteChunk, InHand, Stages, Writing
<1>h. /\ Low <= nSeqNumberExpected /\ nSeqNumberExpected <= High
      /\ nSeqNumberExpected <= nSeqNumberGenerated
      /\ nSeqNumberExpected = nSeqNumberGenerated => Closing
      /\ caller # "Close2"
  BY <1>0, <1>n, <1>o DEF Stages, High, Closes
<1>w. /\ out' = out \o job[psJob].bytes /\ pc' = "combine" /\ doItAgain' = TRUE
      /\ ended' = (ended \/ job[psJob].finish)
      /\ UNCHANGED <<caller, bHasErrored, nRet, nLeft, nErrors>>
  <2>1. nErrors + 1 # nErrors
    BY <1>n
  <2> QED BY <2>1, Zenon DEF WriteChunk
<1>1. UNCHANGED <<nDeflateType, caller, nLeft, nCurOffset, content,
                  pCurBuffer, nObjs, nSeqNumberGenerated,
                  nSeqNumberExpectedCRC, apoFinishedJobs, apoCRCFinishedJobs,
                  psJob, nCRC, trailer, nErrors, bHasErrored, nRet, objOf,
                  deleted>>
  BY <1>w DEF WriteChunk, RecycledAfterWrite, poolVars
<1>2. Finished' = Finished /\ CRCFinished' = CRCFinished
  BY <1>1 DEF Finished, CRCFinished
<1>3. Pending' = Pending /\ PoolShape'
  BY <1>0
    DEF WriteChunk, Pending, PoolShape, QueuedJobs, poolVars
<1>4. \A c : Chunk(c)' = Chunk(c) /\ EndBefore(c)' = EndBefore(c)
  BY <1>1 DEF Chunk, EndBefore
<1>5. /\ nSeqNumberExpected' = nSeqNumberExpected + 1
      /\ pc' = "combine" /\ doItAgain' = TRUE
      /\ out' = out \o job[o].bytes
  BY <1>w, <1>o DEF WriteChunk
<1>e. ended' \in BOOLEAN /\ (job[o].finish => ended')
  BY <1>w, <1>o, Zenon
<1>6. panSOZIPIndex' = IF nSeqNumberExpected # 0 /\ content[job[o].buf] # <<>>
                       THEN Append(panSOZIPIndex, Len(out)) ELSE panSOZIPIndex
  BY <1>o DEF WriteChunk, IndexedInSozip
<1>8. \A z \in Objs : Live(z) /\ z # o => job[z].seq # nSeqNumberExpected
  BY <1>0, <1>o DEF Chunks
<1>v. \A c \in 0..MaxChunks : <<"deflate", c>> \in Pending =>
         nSeqNumberExpected + 1 <= c /\ objOf[<<"deflate", c>>] # o
  <2>1. SUFFICES ASSUME NEW c \in 0..MaxChunks, <<"deflate", c>> \in Pending
                 PROVE  nSeqNumberExpected + 1 <= c /\ objOf[<<"deflate", c>>] # o
    OBVIOUS
  <2>2. PICK z \in Objs : objOf[<<"deflate", c>>] = z /\ Live(z) /\ job[z].seq = c /\ nSeqNumberExpected <= c /\ ~Writing(z)
    BY <1>0, <2>1 DEF TasksOnLive
  <2>3. z # o
    BY <1>o, <2>2
  <2> QED BY <1>n, <1>8, <2>2, <2>3
<1>b. PICK b \in Buffers : b = job[o].buf
  BY <1>0, <1>o, Typed DEF Live
<1>r. /\ job' = [job EXCEPT ![o].buf = None]
      /\ aposBuffers' = Append(aposBuffers, b)
      /\ apoFreeJobs' = Append(apoFreeJobs, o)
  BY <1>o, <1>b DEF WriteChunk, RecycledAfterWrite, Recycle
<1>j. /\ \A z \in Objs : z # o => job'[z] = job[z]
      /\ \A z \in Objs : /\ job'[z].inCRC = job[z].inCRC /\ job'[z].seq = job[z].seq
                         /\ job'[z].bytes = job[z].bytes /\ job'[z].crc = job[z].crc
                         /\ job'[z].finish = job[z].finish
      /\ job'[o].buf = None
  BY <1>0, <1>r DEF Types, JobType
<1>7. /\ apoFreeJobs' \in Seq(Objs) /\ IsInjective(apoFreeJobs')
      /\ FreeObjs' = FreeObjs \cup {o}
      /\ aposBuffers' \in Seq(Buffers) /\ IsInjective(aposBuffers')
      /\ FreeBuffers' = FreeBuffers \cup {b}
  <2>1. o \notin FreeObjs /\ b \notin FreeBuffers
    BY <1>0, <1>o, <1>b DEF Places
  <2> QED BY <1>0, <1>r, <2>1, ListAppend DEF Lists, FreeObjs, FreeBuffers
<1>m. \A z \in Objs : ~job[z].inCRC \/ ~Live(z)
  BY <1>0 DEF Stages
<1>9. job' \in [Objs -> JobType]
  BY <1>0, <1>r DEF Types, JobType
<1>10. Types'
  <2>b. job[o].bytes \in Seq(Nat) /\ job[o].finish \in BOOLEAN
    BY <1>0, Typed
  <2>1. panSOZIPIndex' \in Seq(Nat)
    <3>1. Len(out) \in Nat /\ panSOZIPIndex \in Seq(Nat)
      BY <1>0 DEF Types
    <3> QED BY <1>6, <3>1, AppendProperties
  <2>2. out' \in Seq(Nat)
    BY <1>0, <1>5, <2>b, ConcatProperties DEF Types
  <2> QED BY <1>0, <1>1, <1>5, <1>e, <2>1, <2>2, <1>9 DEF Types, Pcs, Locked
<1>11. Lists'
  BY <1>0, <1>f, <1>n, <1>1, <1>o, <1>h, <1>5, <1>8, <1>v, <1>b, <1>j, <1>7,
     <1>m
    DEF Lists
<1>12. Control'
  BY <1>0, <1>f, <1>n, <1>1, <1>o, <1>h, <1>5, <1>8, <1>v, <1>b, <1>j, <1>7,
     <1>m
    DEF Control, Closing
<1>13. Places'
  <2>1. (\A z \in Objs : Live(z) => z <= nObjs /\ z \notin FreeObjs)'
    BY <1>0, <1>1, <1>o, <1>b, <1>j, <1>7, <1>5
      DEF Places, Live, Closing, Control
  <2>2. (\A z \in Objs : ~Live(z) => (z \in FreeObjs <=> z <= nObjs))'
    BY <1>0, <1>1, <1>o, <1>b, <1>j, <1>7, <1>5
      DEF Places, Live, Closing, Control
  <2>3. (pCurBuffer \notin FreeBuffers)'
    BY <1>0, <1>1, <1>o, <1>b, <1>j, <1>7, <1>5
      DEF Places, Live, Closing, Control
  <2>4. (\A z \in Objs : Live(z) => /\ job[z].buf \notin FreeBuffers
                                    /\ job[z].buf # pCurBuffer)'
    BY <1>0, <1>1, <1>o, <1>b, <1>j, <1>7, <1>5
      DEF Places, Live, Closing, Control
  <2>5. (\A z, y \in Objs : Live(z) /\ z # y => job[y].buf # job[z].buf)'
    BY <1>0, <1>o, <1>j
      DEF Places, Live, Closing, Control
  <2>6. (~Closing => /\ NThreads + 2 \notin FreeBuffers \cup {pCurBuffer}
                     /\ \A z \in Objs : job[z].buf # NThreads + 2
                     /\ content[NThreads + 2] = <<>>)'
    BY <1>0, <1>1, <1>o, <1>b, <1>j, <1>7, <1>5
      DEF Places, Live, Closing, Control
  <2> QED BY <2>1, <2>2, <2>3, <2>4, <2>5, <2>6
    DEF Places
<1>14. TasksOnLive'
  <2>1. (\A c \in 0..MaxChunks : <<"deflate", c>> \in Pending =>
            \E z \in Objs :
               /\ objOf[<<"deflate", c>>] = z
               /\ Live(z) /\ job[z].seq = c
               /\ nSeqNumberExpected <= c
               /\ ~job[z].inCRC
               /\ z \notin Finished /\ ~Writing(z))'
    <3>1. SUFFICES ASSUME NEW c \in 0..MaxChunks, <<"deflate", c>> \in Pending'
                   PROVE  (\E z \in Objs :
                             /\ objOf[<<"deflate", c>>] = z
                             /\ Live(z) /\ job[z].seq = c
                             /\ nSeqNumberExpected <= c
                             /\ ~job[z].inCRC
                             /\ z \notin Finished /\ ~Writing(z))'
      BY <1>1
    <3>2. PICK z \in Objs : /\ objOf[<<"deflate", c>>] = z
                            /\ Live(z) /\ job[z].seq = c
                            /\ ~job[z].inCRC
                            /\ z \notin Finished
      BY <1>0, <1>3, <3>1 DEF TasksOnLive
    <3>3. z # o /\ nSeqNumberExpected + 1 <= c
      BY <1>3, <1>v, <3>1, <3>2
    <3> QED BY <1>1, <1>2, <1>5, <1>j, <3>2, <3>3 DEF Live, Writing
  <2>2. (\A c \in 0..MaxChunks : <<"crc", c>> \in Pending =>
            \E z \in Objs :
               /\ objOf[<<"crc", c>>] = z
               /\ Live(z) /\ job[z].seq = c
               /\ job[z].inCRC
               /\ z \notin CRCFinished /\ ~Submitting(z))'
    BY <1>0, <1>f, <1>n, <1>1, <1>2, <1>3, <1>o, <1>5, <1>v, <1>j, <1>m
      DEF TasksOnLive, Live, Writing, Submitting
  <2> QED BY <2>1, <2>2
    DEF TasksOnLive
<1>15. Stages'
  <2>1. (\A z \in Objs : Live(z) => Low <= job[z].seq /\ job[z].seq <= High)'
    BY <1>0, <1>f, <1>n, <1>1, <1>o, <1>5, <1>8, <1>j
      DEF Stages, Live, Low, High, Closing, GzipFormat
  <2>2. (\A z \in Objs : Live(z) /\ job[z].seq < nSeqNumberExpected =>
            job[z].inCRC /\ z \notin Finished)'
    BY <1>0, <1>f, <1>n, <1>1, <1>o, <1>5, <1>8, <1>j, <1>m
      DEF Stages, TasksOnLive, InHand, Live, Writing, Submitting, Deflating,
          InCRCTask, Low, High, Closing, GzipFormat
  <2>3. (\A z \in Objs : Live(z) /\ nSeqNumberExpected <= job[z].seq =>
            Deflating(z) \/ z \in Finished \/ Writing(z))'
    <3>1. SUFFICES ASSUME NEW z \in Objs, Live(z)',
                          (nSeqNumberExpected <= job[z].seq)'
                   PROVE  (Deflating(z) \/ z \in Finished)'
      BY <1>1
    <3>2. z # o /\ Live(z) /\ job'[z] = job[z]
      BY <1>j, <3>1 DEF Live
    <3>3. nSeqNumberExpected <= job[z].seq
      BY <1>f, <1>n, <1>5, <3>1, <3>2
    <3>4. Deflating(z) \/ z \in Finished
      BY <1>0, <1>o, <3>2, <3>3 DEF Stages, Writing
    <3> QED BY <1>1, <1>2, <1>3, <3>2, <3>4 DEF Deflating
  <2>4. (\A z \in Objs : Live(z) /\ job[z].inCRC =>
            GzipFormat /\ (Submitting(z) \/ InCRCTask(z) \/ z \in CRCFinished))'
    BY <1>v, <1>b, <1>j, <1>7, <1>m
      DEF Stages, TasksOnLive, InHand, Live, Writing, Submitting, Deflating,
          InCRCTask, Low, High, Closing, GzipFormat
  <2>5. (\A z \in Finished : Live(z) /\ ~Writing(z))'
    BY <1>0, <1>f, <1>n, <1>1, <1>2, <1>o, <1>h, <1>5, <1>8, <1>v, <1>b, <1>j,
       <1>7, <1>m, <1>9
      DEF Stages, TasksOnLive, InHand, Live, Writing, Submitting, Deflating,
          InCRCTask, Low, High, Closing, GzipFormat
  <2>6. (\A z \in CRCFinished : Live(z) /\ job[z].inCRC /\ ~Submitting(z))'
    BY <1>0, <1>f, <1>n, <1>1, <1>2, <1>o, <1>h, <1>5, <1>8, <1>v, <1>b, <1>j,
       <1>7, <1>m, <1>9
      DEF Stages, TasksOnLive, InHand, Live, Writing, Submitting, Deflating,
          InCRCTask, Low, High, Closing, GzipFormat
  <2> QED BY <2>1, <2>2, <2>3, <2>4, <2>5, <2>6
    DEF Stages
<1>16. InHand'
  BY <1>o, <1>h, <1>5, <1>8, <1>v, <1>b, <1>j, <1>7, <1>m
    DEF InHand, Stages, Live, GzipFormat
<1>17. Chunks'
  <2>1. (\A z, y \in Objs : Live(z) /\ Live(y) /\ job[z].seq = job[y].seq => z = y)'
    BY <1>0, <1>1, <1>o, <1>5, <1>8, <1>j
      DEF Chunks, Live, Low, High, Closing, GzipFormat
  <2>2. (\A c \in Nat : Low <= c /\ c <= High => \E z \in Objs : Live(z) /\ job[z].seq = c)'
    BY <1>0, <1>f, <1>n, <1>1, <1>o, <1>5, <1>8, <1>j
      DEF Chunks, Live, Low, High, Closing, GzipFormat
  <2>3. (nSeqNumberExpected <= High + 1)'
    BY <1>0, <1>n, <1>1, <1>o, <1>5, <1>8, <1>j, <1>h, <1>n
      DEF Chunks, High, Closing
  <2>4. (GzipFormat => nSeqNumberExpectedCRC <= nSeqNumberExpected)'
    BY DEF Chunks, Live, Low, High, Closing, GzipFormat
  <2> QED BY <2>1, <2>2, <2>3, <2>4
    DEF Chunks
<1>18. Loops'
  BY <1>o, <1>h, <1>5, <1>8, <1>v, <1>b, <1>j, <1>7, <1>m
    DEF Loops, Locked, GzipFormat, Chunks
<1>19. Closes'
  BY <1>0, <1>f, <1>n, <1>1, <1>2, <1>3, <1>4, <1>o, <1>h, <1>5, <1>8, <1>v,
     <1>b, <1>j, <1>7, <1>m, <1>9
    DEF Closes, Control, Closing, GzipFormat, Stages, Live, High
<1>20. Contents'
  <2>1. (pCurBuffer # None => content[pCurBuffer] = Chunk(nSeqNumberGenerated))'
    BY <1>0, <1>f, <1>1, <1>2, <1>4, <1>o, <1>5, <1>j
      DEF Contents, InHand, Stages, Writing, Live, Closing, Places
  <2>2. (\A z \in Objs : Live(z) => content[job[z].buf] = Chunk(job[z].seq))'
    BY <1>0, <1>f, <1>1, <1>2, <1>4, <1>o, <1>5, <1>j
      DEF Contents, InHand, Stages, Writing, Live, Closing, Places
  <2>3. (\A z \in Finished : job[z].bytes = content[job[z].buf])'
    BY <1>0, <1>f, <1>1, <1>2, <1>o, <1>5, <1>j
      DEF Contents, InHand, Stages, Writing, Live, Closing, Places
  <2>4. (\A z \in CRCFinished : job[z].crc = content[job[z].buf])'
    BY <1>0, <1>f, <1>1, <1>2, <1>o, <1>5, <1>j
      DEF Contents, InHand, Stages, Writing, Live, Closing, Places
  <2>5. (pc = "writeChunk" => job[psJob].bytes = content[job[psJob].buf])'
    BY <1>5, <1>j DEF Contents, InHand, Stages, Writing, Live, Closing, Places
  <2>6. (Closing => \A z \in Objs : Live(z) /\ job[z].seq = nSeqNumberGenerated =>
                        job[z].finish)'
    BY <1>0, <1>f, <1>1, <1>o, <1>5, <1>j
      DEF Contents, InHand, Stages, Writing, Live, Closing, Places
  <2> QED BY <2>1, <2>2, <2>3, <2>4, <2>5, <2>6
    DEF Contents
<1>21. Output'
  <2>a. PICK a : a = Start(nSeqNumberExpected)
    OBVIOUS
  <2>w. PICK w : w = job[o].bytes
    OBVIOUS
  <2>1. w = Chunk(nSeqNumberExpected)
    BY <1>0, <1>o, <2>w DEF Contents
  <2>2. /\ w \in Seq(Nat) /\ Len(w) \in Nat
        /\ a + Len(w) = EndBefore(nSeqNumberExpected + 1)
        /\ \A i \in 1..Len(w) : w[i] = a + i
    BY <1>0, <1>n, <1>h, <2>a, <2>1, ChunkBytes
  <2>3. EndBefore(nSeqNumberExpected) = a /\ a \in Nat
    BY <1>n, <1>h, <2>a, Starts DEF EndBefore
  <2>4. out \in Seq(Nat) /\ Len(out) \in Nat /\ \A i \in 1..Len(out) : out[i] \in Nat
    BY <1>0 DEF Types
  <2>x. PICK x : x = out \o w
    OBVIOUS
  <2>5. /\ \A i \in 1..Len(out) : out[i] <= a
        /\ \A i, k \in 1..Len(out) : i < k => out[i] < out[k]
        /\ nErrors = 0 => Len(out) = a /\ \A i \in 1..Len(out) : out[i] = i
    BY <1>0, <2>3, <2>4 DEF Output
  <2>6. /\ x \in Seq(Nat) /\ DOMAIN x = 1..Len(x)
        /\ \A i \in 1..Len(x) : x[i] <= a + Len(w)
        /\ \A i, k \in 1..Len(x) : i < k => x[i] < x[k]
        /\ nErrors = 0 => Len(x) = a + Len(w) /\ \A i \in 1..Len(x) : x[i] = i
    <3>0. /\ x \in Seq(Nat)
          /\ (\A i \in 1..Len(out) : out[i] <= a) =>
                \A i \in 1..Len(x) : x[i] <= a + Len(w)
          /\ /\ \A i \in 1..Len(out) : out[i] <= a
             /\ \A i, k \in 1..Len(out) : i < k => out[i] < out[k]
             => \A i, k \in 1..Len(x) : i < k => x[i] < x[k]
          /\ Len(out) = a /\ (\A i \in 1..Len(out) : out[i] = i) =>
                /\ Len(x) = a + Len(w)
                /\ \A i \in 1..Len(x) : x[i] = i
      <4>1. /\ out \in Seq(Nat) /\ w \in Seq(Nat) /\ a \in Nat
            /\ \A i \in 1..Len(w) : w[i] = a + i
        BY <2>2, <2>3, <2>4
      <4> QED BY <2>x, <4>1, BytesFollow, Zenon
    <3>1. x \in Seq(Nat) /\ \A i \in 1..Len(x) : x[i] <= a + Len(w)
      BY <2>5, <3>0
    <3>2. \A i, k \in 1..Len(x) : i < k => x[i] < x[k]
      BY <2>5, <3>0
    <3>3. nErrors = 0 => Len(x) = a + Len(w) /\ \A i \in 1..Len(x) : x[i] = i
      BY <2>5, <3>0
    <3> QED BY <3>1, <3>2, <3>3
  <2>7. out' = x /\ EndBefore(nSeqNumberExpected)' = a + Len(w)
    BY <1>1, <1>4, <1>5, <2>2, <2>w, <2>x DEF EndBefore
  <2>11. (nErrors = 0 /\ nSeqNumberExpected = nSeqNumberGenerated + 1 => ended)'
    <3>1. nSeqNumberExpected = nSeqNumberGenerated => job[o].finish
      BY <1>0, <1>o, <1>h DEF Contents
    <3> QED BY <1>n, <1>1, <1>5, <1>e, <3>1
  <2> QED BY <1>1, <2>6, <2>7, <2>11 DEF Output
<1>22. Index'
  <2>1. panSOZIPIndex \in Seq(Nat) /\ out \in Seq(Nat) /\ Len(out) \in Nat
    BY <1>0 DEF Types
  <2>2. nErrors = 0 => Len(out) = Start(nSeqNumberExpected)
    BY <1>0, <1>h DEF Output, EndBefore
  <2>3. nSeqNumberExpected < nSeqNumberGenerated => content[job[o].buf] # <<>>
    <3>c. PICK c : c = content[job[o].buf]
      OBVIOUS
    <3>1. c = Chunk(nSeqNumberExpected)
      BY <1>0, <1>o, <3>c DEF Contents
    <3>2. nSeqNumberExpected < nSeqNumberGenerated => Len(c) = ChunkSize
      BY <1>0, <1>n, <1>h, <3>1, ChunkBytes
    <3>3. ChunkSize > 0 /\ ChunkSize \in Nat /\ Len(<<>>) = 0
      BY Starts
    <3> QED BY <3>2, <3>3, <3>c
  <2>4. nErrors' = nErrors /\ nSeqNumberGenerated' = nSeqNumberGenerated
    BY <1>1
  <2>5. CASE nErrors = 0
    <3>p. PICK l \in Nat : l = Len(panSOZIPIndex) /\ DOMAIN panSOZIPIndex = 1..l
      BY <2>1
    <3>1. /\ \A i \in 1..l : panSOZIPIndex[i] = Start(i)
          /\ nSeqNumberExpected = 0 => l = 0
          /\ 0 < nSeqNumberExpected /\ nSeqNumberExpected <= nSeqNumberGenerated =>
                l = nSeqNumberExpected - 1
      BY <1>0, <2>5, <3>p DEF Index
    <3>2. CASE nSeqNumberExpected # 0 /\ content[job[o].buf] # <<>>
      <4>q. PICK q : q = panSOZIPIndex'
        OBVIOUS
      <4>1. q = Append(panSOZIPIndex, Len(out))
        BY <1>6, <3>2, <4>q
      <4>2. /\ q \in Seq(Nat) /\ Len(q) = l + 1
            /\ \A i \in 1..l : q[i] = panSOZIPIndex[i]
            /\ q[l + 1] = Len(out)
        BY <2>1, <3>p, <4>1, AppendProperties
      <4>3. l + 1 = nSeqNumberExpected
        BY <1>n, <1>h, <3>1, <3>2
      <4>4. \A i \in 1..l + 1 : q[i] = Start(i)
        <5>1. \A i \in 1..l + 1 : i \in 1..l \/ i = l + 1
          OBVIOUS
        <5> QED BY <2>2, <2>5, <3>1, <4>2, <4>3, <5>1
      <4>5. DOMAIN q = 1..l + 1
        BY <4>2
      <4> QED BY <1>5, <2>4, <4>2, <4>3, <4>4, <4>5, <4>q DEF Index
    <3>3. CASE nSeqNumberExpected = 0
      <4>1. panSOZIPIndex' = panSOZIPIndex
        BY <1>6, <3>3
      <4> QED BY <1>5, <2>4, <3>1, <3>3, <3>p, <4>1 DEF Index
    <3>4. CASE nSeqNumberExpected # 0 /\ content[job[o].buf] = <<>>
      <4>1. panSOZIPIndex' = panSOZIPIndex
        BY <1>6, <3>4
      <4>2. nSeqNumberExpected = nSeqNumberGenerated
        BY <1>n, <1>h, <2>3, <3>4
      <4> QED BY <1>n, <1>5, <2>4, <3>1, <3>p, <4>1, <4>2 DEF Index
    <3> QED BY <3>2, <3>3, <3>4
  <2>6. CASE nErrors # 0
    BY <2>4, <2>6 DEF Index
  <2> QED BY <2>5, <2>6
<1>23. Trailer'
  BY DEF Trailer, GzipFormat
<1>24. Errors'
  BY <1>0, <1>f, <1>n, <1>1, <1>o, <1>h, <1>5, <1>8, <1>v, <1>b, <1>j, <1>7,
     <1>m
    DEF Errors
<1> QED
  BY <1>3, <1>10, <1>11, <1>12, <1>13, <1>14, <1>15, <1>16, <1>17, <1>18,
     <1>19, <1>20, <1>21, <1>22, <1>23, <1>24
    DEF WriterInv

(* The write of a chunk of a raw deflate stream fails: the error is noted, *)
(* and its object and its buffer are free again.                           *)
LEMMA WriteChunkRawFails ==
    ASSUME WriterInv,
           UNCHANGED nDeflateType,
           WriteChunk,
           ~GzipFormat,
           nErrors' # nErrors
    PROVE  WriterInv'
<1>0. /\ Types /\ Lists /\ PoolShape /\ Control /\ Places /\ TasksOnLive
      /\ Stages /\ InHand /\ Chunks /\ Loops /\ Closes /\ Contents
      /\ Output /\ Index /\ Trailer /\ Errors
  BY DEF WriterInv
<1>f. /\ Finished \subseteq Objs /\ CRCFinished \subseteq Objs
      /\ FreeObjs \subseteq Objs /\ FreeBuffers \subseteq Buffers
      /\ \A p \in Objs : job[p].seq \in Nat
  BY <1>0, Typed
<1>n. /\ nSeqNumberGenerated \in Nat /\ nSeqNumberExpected \in Nat
      /\ nSeqNumberExpectedCRC \in Nat /\ nErrors \in Nat /\ nObjs \in Nat
      /\ nCurOffset \in Nat /\ caller \in {"Write", "Close1", "Close2"}
      /\ nRet \in {0, -1} /\ pc \in Pcs
  BY <1>0 DEF Types
<1>o. PICK o \in Objs : /\ o = psJob /\ pc = "writeChunk" /\ Live(o)
                        /\ job[o].seq = nSeqNumberExpected /\ Writing(o)
                        /\ GzipFormat => job[o].inCRC
                        /\ o \notin Finished
  BY <1>0, <1>f DEF WriteChunk, InHand, Stages, Writing
<1>h. /\ Low <= nSeqNumberExpected /\ nSeqNumberExpected <= High
      /\ nSeqNumberExpected <= nSeqNumberGenerated
      /\ nSeqNumberExpected = nSeqNumberGenerated => Closing
      /\ caller # "Close2"
  BY <1>0, <1>n, <1>o DEF Stages, High, Closes
<1>w. ReturnFromProcess(FALSE) /\ nErrors' = nErrors + 1 /\ UNCHANGED <<out, ended, doItAgain>>
  BY Zenon DEF WriteChunk
<1>1. UNCHANGED <<nDeflateType, nCurOffset, content, pCurBuffer, nObjs,
                  nSeqNumberGenerated, nSeqNumberExpectedCRC,
                  apoFinishedJobs, apoCRCFinishedJobs, doItAgain, psJob,
                  nCRC, out, ended, trailer, objOf, deleted>>
  BY <1>w DEF WriteChunk, RecycledAfterWrite, poolVars
<1>2. Finished' = Finished /\ CRCFinished' = CRCFinished
  BY <1>1 DEF Finished, CRCFinished
<1>3. Pending' = Pending /\ PoolShape'
  BY <1>0
    DEF WriteChunk, Pending, PoolShape, QueuedJobs, poolVars
<1>4. \A c : Chunk(c)' = Chunk(c) /\ EndBefore(c)' = EndBefore(c)
  BY <1>1 DEF Chunk, EndBefore
<1>5. /\ nSeqNumberExpected' = nSeqNumberExpected + 1
      /\ nErrors' = nErrors + 1
      /\ pc' = IF caller = "Write" THEN "idle" ELSE "finish"
      /\ caller' = caller
      /\ nRet' = IF caller = "Close1" THEN -1 ELSE nRet
      /\ nLeft' = 0
  BY <1>n, <1>h, <1>w DEF WriteChunk, ReturnFromProcess
<1>e. bHasErrored' \in BOOLEAN /\ (bHasErrored \/ caller = "Write" => bHasErrored')
  BY <1>w, Zenon DEF ReturnFromProcess, WriteFails
<1>6. panSOZIPIndex' = IF nSeqNumberExpected # 0 /\ content[job[o].buf] # <<>>
                       THEN Append(panSOZIPIndex, Len(out)) ELSE panSOZIPIndex
  BY <1>o DEF WriteChunk, IndexedInSozip
<1>8. \A z \in Objs : Live(z) /\ z # o => job[z].seq # nSeqNumberExpected
  BY <1>0, <1>o DEF Chunks
<1>v. \A c \in 0..MaxChunks : <<"deflate", c>> \in Pending =>
         nSeqNumberExpected + 1 <= c /\ objOf[<<"deflate", c>>] # o
  <2>1. SUFFICES ASSUME NEW c \in 0..MaxChunks, <<"deflate", c>> \in Pending
                 PROVE  nSeqNumberExpected + 1 <= c /\ objOf[<<"deflate", c>>] # o
    OBVIOUS
  <2>2. PICK z \in Objs : objOf[<<"deflate", c>>] = z /\ Live(z) /\ job[z].seq = c /\ nSeqNumberExpected <= c /\ ~Writing(z)
    BY <1>0, <2>1 DEF TasksOnLive
  <2>3. z # o
    BY <1>o, <2>2
  <2> QED BY <1>n, <1>8, <2>2, <2>3
<1>b. PICK b \in Buffers : b = job[o].buf
  BY <1>0, <1>o, Typed DEF Live
<1>r. /\ job' = [job EXCEPT ![o].buf = None]
      /\ aposBuffers' = Append(aposBuffers, b)
      /\ apoFreeJobs' = Append(apoFreeJobs, o)
  BY <1>o, <1>b DEF WriteChunk, RecycledAfterWrite, Recycle
<1>j. /\ \A z \in Objs : z # o => job'[z] = job[z]
      /\ \A z \in Objs : /\ job'[z].inCRC = job[z].inCRC /\ job'[z].seq = job[z].seq
                         /\ job'[z].bytes = job[z].bytes /\ job'[z].crc = job[z].crc
                         /\ job'[z].finish = job[z].finish
      /\ job'[o].buf = None
  BY <1>0, <1>r DEF Types, JobType
<1>7. /\ apoFreeJobs' \in Seq(Objs) /\ IsInjective(apoFreeJobs')
      /\ FreeObjs' = FreeObjs \cup {o}
      /\ aposBuffers' \in Seq(Buffers) /\ IsInjective(aposBuffers')
      /\ FreeBuffers' = FreeBuffers \cup {b}
  <2>1. o \notin FreeObjs /\ b \notin FreeBuffers
    BY <1>0, <1>o, <1>b DEF Places
  <2> QED BY <1>0, <1>r, <2>1, ListAppend DEF Lists, FreeObjs, FreeBuffers
<1>m. \A z \in Objs : ~job[z].inCRC \/ ~Live(z)
  BY <1>0 DEF Stages
<1>9. job' \in [Objs -> JobType]
  BY <1>0, <1>r DEF Types, JobType
<1>10. Types'
  <2>b. job[o].bytes \in Seq(Nat) /\ job[o].finish \in BOOLEAN
    BY <1>0, Typed
  <2>1. panSOZIPIndex' \in Seq(Nat)
    <3>1. Len(out) \in Nat /\ panSOZIPIndex \in Seq(Nat)
      BY <1>0 DEF Types
    <3> QED BY <1>6, <3>1, AppendProperties
  <2>2. nLeft' \in 0..MaxWrite /\ nCurOffset' + nLeft' <= MaxBytes
    <3>1. nLeft \in 0..MaxWrite /\ nCurOffset + nLeft <= MaxBytes
      BY <1>0 DEF Types
    <3> QED BY <1>n, <1>1, <1>5, <3>1, GzipAssumption
  <2>3. nRet' \in {0, -1} /\ pc' \in Pcs /\ nErrors' \in Nat /\ nSeqNumberExpected' \in Nat
    BY <1>n, <1>5 DEF Pcs
  <2> QED BY <1>0, <1>1, <1>5, <1>e, <2>1, <2>2, <2>3, <1>9 DEF Types
<1>11. Lists'
  BY <1>0, <1>f, <1>n, <1>1, <1>o, <1>h, <1>5, <1>8, <1>v, <1>b, <1>j, <1>7,
     <1>m
    DEF Lists
<1>12. Control'
  BY <1>0, <1>f, <1>n, <1>1, <1>o, <1>h, <1>5, <1>8, <1>v, <1>b, <1>j, <1>7,
     <1>m
    DEF Control, Closing
<1>13. Places'
  <2>1. (\A z \in Objs : Live(z) => z <= nObjs /\ z \notin FreeObjs)'
    BY <1>0, <1>1, <1>o, <1>b, <1>j, <1>7, <1>5
      DEF Places, Live, Closing, Control
  <2>2. (\A z \in Objs : ~Live(z) => (z \in FreeObjs <=> z <= nObjs))'
    BY <1>0, <1>1, <1>o, <1>b, <1>j, <1>7, <1>5
      DEF Places, Live, Closing, Control
  <2>3. (pCurBuffer \notin FreeBuffers)'
    BY <1>0, <1>1, <1>o, <1>b, <1>j, <1>7, <1>5
      DEF Places, Live, Closing, Control
  <2>4. (\A z \in Objs : Live(z) => /\ job[z].buf \notin FreeBuffers
                                    /\ job[z].buf # pCurBuffer)'
    BY <1>0, <1>1, <1>o, <1>b, <1>j, <1>7, <1>5
      DEF Places, Live, Closing, Control
  <2>5. (\A z, y \in Objs : Live(z) /\ z # y => job[y].buf # job[z].buf)'
    BY <1>0, <1>o, <1>j
      DEF Places, Live, Closing, Control
  <2>6. (~Closing => /\ NThreads + 2 \notin FreeBuffers \cup {pCurBuffer}
                     /\ \A z \in Objs : job[z].buf # NThreads + 2
                     /\ content[NThreads + 2] = <<>>)'
    BY <1>0, <1>1, <1>o, <1>b, <1>j, <1>7, <1>5
      DEF Places, Live, Closing, Control
  <2> QED BY <2>1, <2>2, <2>3, <2>4, <2>5, <2>6
    DEF Places
<1>14. TasksOnLive'
  <2>1. (\A c \in 0..MaxChunks : <<"deflate", c>> \in Pending =>
            \E z \in Objs :
               /\ objOf[<<"deflate", c>>] = z
               /\ Live(z) /\ job[z].seq = c
               /\ nSeqNumberExpected <= c
               /\ ~job[z].inCRC
               /\ z \notin Finished /\ ~Writing(z))'
    <3>1. SUFFICES ASSUME NEW c \in 0..MaxChunks, <<"deflate", c>> \in Pending'
                   PROVE  (\E z \in Objs :
                             /\ objOf[<<"deflate", c>>] = z
                             /\ Live(z) /\ job[z].seq = c
                             /\ nSeqNumberExpected <= c
                             /\ ~job[z].inCRC
                             /\ z \notin Finished /\ ~Writing(z))'
      BY <1>1
    <3>2. PICK z \in Objs : /\ objOf[<<"deflate", c>>] = z
                            /\ Live(z) /\ job[z].seq = c
                            /\ ~job[z].inCRC
                            /\ z \notin Finished
      BY <1>0, <1>3, <3>1 DEF TasksOnLive
    <3>3. z # o /\ nSeqNumberExpected + 1 <= c
      BY <1>3, <1>v, <3>1, <3>2
    <3> QED BY <1>1, <1>2, <1>5, <1>j, <3>2, <3>3 DEF Live, Writing
  <2>2. (\A c \in 0..MaxChunks : <<"crc", c>> \in Pending =>
            \E z \in Objs :
               /\ objOf[<<"crc", c>>] = z
               /\ Live(z) /\ job[z].seq = c
               /\ job[z].inCRC
               /\ z \notin CRCFinished /\ ~Submitting(z))'
    BY <1>0, <1>f, <1>n, <1>1, <1>2, <1>3, <1>o, <1>5, <1>v, <1>j, <1>m
      DEF TasksOnLive, Live, Writing, Submitting
  <2> QED BY <2>1, <2>2
    DEF TasksOnLive
<1>15. Stages'
  <2>1. (\A z \in Objs : Live(z) => Low <= job[z].seq /\ job[z].seq <= High)'
    BY <1>0, <1>f, <1>n, <1>1, <1>o, <1>5, <1>8, <1>j
      DEF Stages, Live, Low, High, Closing, GzipFormat
  <2>2. (\A z \in Objs : Live(z) /\ job[z].seq < nSeqNumberExpected =>
            job[z].inCRC /\ z \notin Finished)'
    BY <1>0, <1>f, <1>n, <1>1, <1>o, <1>5, <1>8, <1>j, <1>m
      DEF Stages, TasksOnLive, InHand, Live, Writing, Submitting, Deflating,
          InCRCTask, Low, High, Closing, GzipFormat
  <2>3. (\A z \in Objs : Live(z) /\ nSeqNumberExpected <= job[z].seq =>
            Deflating(z) \/ z \in Finished \/ Writing(z))'
    BY <1>0, <1>f, <1>n, <1>1, <1>2, <1>3, <1>4, <1>o, <1>h, <1>5, <1>8, <1>v,
       <1>b, <1>j, <1>7, <1>m, <1>9
      DEF Stages, TasksOnLive, InHand, Live, Writing, Submitting, Deflating,
          InCRCTask, Low, High, Closing, GzipFormat
  <2>4. (\A z \in Objs : Live(z) /\ job[z].inCRC =>
            GzipFormat /\ (Submitting(z) \/ InCRCTask(z) \/ z \in CRCFinished))'
    BY <1>v, <1>b, <1>j, <1>7, <1>m
      DEF Stages, TasksOnLive, InHand, Live, Writing, Submitting, Deflating,
          InCRCTask, Low, High, Closing, GzipFormat
  <2>5. (\A z \in Finished : Live(z) /\ ~Writing(z))'
    BY <1>0, <1>f, <1>n, <1>1, <1>2, <1>o, <1>h, <1>5, <1>8, <1>v, <1>b, <1>j,
       <1>7, <1>m, <1>9
      DEF Stages, TasksOnLive, InHand, Live, Writing, Submitting, Deflating,
          InCRCTask, Low, High, Closing, GzipFormat
  <2>6. (\A z \in CRCFinished : Live(z) /\ job[z].inCRC /\ ~Submitting(z))'
    BY <1>0, <1>f, <1>n, <1>1, <1>2, <1>o, <1>h, <1>5, <1>8, <1>v, <1>b, <1>j,
       <1>7, <1>m, <1>9
      DEF Stages, TasksOnLive, InHand, Live, Writing, Submitting, Deflating,
          InCRCTask, Low, High, Closing, GzipFormat
  <2> QED BY <2>1, <2>2, <2>3, <2>4, <2>5, <2>6
    DEF Stages
<1>16. InHand'
  BY <1>o, <1>h, <1>5, <1>8, <1>v, <1>b, <1>j, <1>7, <1>m
    DEF InHand, Stages, Live, GzipFormat
<1>17. Chunks'
  <2>1. (\A z, y \in Objs : Live(z) /\ Live(y) /\ job[z].seq = job[y].seq => z = y)'
    BY <1>0, <1>1, <1>o, <1>5, <1>8, <1>j
      DEF Chunks, Live, Low, High, Closing, GzipFormat
  <2>2. (\A c \in Nat : Low <= c /\ c <= High => \E z \in Objs : Live(z) /\ job[z].seq = c)'
    BY <1>0, <1>n, <1>1, <1>o, <1>5, <1>8, <1>j
      DEF Chunks, Live, Low, High, Closing, GzipFormat
  <2>3. (nSeqNumberExpected <= High + 1)'
    BY <1>0, <1>n, <1>1, <1>o, <1>5, <1>8, <1>j, <1>h, <1>n
      DEF Chunks, High, Closing
  <2>4. (GzipFormat => nSeqNumberExpectedCRC <= nSeqNumberExpected)'
    BY DEF Chunks, Live, Low, High, Closing, GzipFormat
  <2> QED BY <2>1, <2>2, <2>3, <2>4
    DEF Chunks
<1>18. Loops'
  BY <1>o, <1>h, <1>5, <1>8, <1>v, <1>b, <1>j, <1>7, <1>m
    DEF Loops, Locked, GzipFormat, Chunks
<1>19. Closes'
  BY <1>0, <1>f, <1>n, <1>1, <1>2, <1>3, <1>4, <1>o, <1>h, <1>5, <1>8, <1>v,
     <1>b, <1>j, <1>7, <1>m, <1>9
    DEF Closes, Control, Closing, GzipFormat, Stages, Live, High
<1>20. Contents'
  <2>1. (pCurBuffer # None => content[pCurBuffer] = Chunk(nSeqNumberGenerated))'
    BY <1>0, <1>f, <1>1, <1>2, <1>4, <1>o, <1>5, <1>j
      DEF Contents, InHand, Stages, Writing, Live, Closing, Places
  <2>2. (\A z \in Objs : Live(z) => content[job[z].buf] = Chunk(job[z].seq))'
    BY <1>0, <1>f, <1>1, <1>2, <1>4, <1>o, <1>5, <1>j
      DEF Contents, InHand, Stages, Writing, Live, Closing, Places
  <2>3. (\A z \in Finished : job[z].bytes = content[job[z].buf])'
    BY <1>0, <1>f, <1>1, <1>2, <1>o, <1>5, <1>j
      DEF Contents, InHand, Stages, Writing, Live, Closing, Places
  <2>4. (\A z \in CRCFinished : job[z].crc = content[job[z].buf])'
    BY <1>0, <1>f, <1>1, <1>2, <1>o, <1>5, <1>j
      DEF Contents, InHand, Stages, Writing, Live, Closing, Places
  <2>5. (pc = "writeChunk" => job[psJob].bytes = content[job[psJob].buf])'
    BY <1>5, <1>j DEF Contents, InHand, Stages, Writing, Live, Closing, Places
  <2>6. (Closing => \A z \in Objs : Live(z) /\ job[z].seq = nSeqNumberGenerated =>
                        job[z].finish)'
    BY <1>0, <1>f, <1>1, <1>o, <1>5, <1>j
      DEF Contents, InHand, Stages, Writing, Live, Closing, Places
  <2> QED BY <2>1, <2>2, <2>3, <2>4, <2>5, <2>6
    DEF Contents
<1>21. Output'
  <2>a. PICK a : a = Start(nSeqNumberExpected)
    OBVIOUS
  <2>w. PICK w : w = job[o].bytes
    OBVIOUS
  <2>1. w = Chunk(nSeqNumberExpected)
    BY <1>0, <1>o, <2>w DEF Contents
  <2>2. /\ w \in Seq(Nat) /\ Len(w) \in Nat
        /\ a + Len(w) = EndBefore(nSeqNumberExpected + 1)
        /\ \A i \in 1..Len(w) : w[i] = a + i
    BY <1>0, <1>n, <1>h, <2>a, <2>1, ChunkBytes
  <2>3. EndBefore(nSeqNumberExpected) = a /\ a \in Nat
    BY <1>n, <1>h, <2>a, Starts DEF EndBefore
  <2>4. out \in Seq(Nat) /\ Len(out) \in Nat /\ \A i \in 1..Len(out) : out[i] \in Nat
    BY <1>0 DEF Types
  <2>5. EndBefore(nSeqNumberExpected)' = a + Len(w)
    BY <1>1, <1>4, <1>5, <2>2 DEF EndBefore
  <2>6. nErrors' # 0
    BY <1>n, <1>5
  <2>7. \A i \in 1..Len(out) : out[i] <= a + Len(w)
    BY <1>0, <2>2, <2>3, <2>4 DEF Output
  <2> QED BY <1>0, <1>1, <2>4, <2>5, <2>6, <2>7 DEF Output
<1>22. Index'
  BY <1>n, <1>5 DEF Index
<1>23. Trailer'
  BY DEF Trailer, GzipFormat
<1>24. Errors'
  BY <1>0, <1>f, <1>n, <1>1, <1>o, <1>h, <1>5, <1>8, <1>v, <1>b, <1>j, <1>7,
     <1>m, <1>e
    DEF Errors
<1> QED
  BY <1>3, <1>10, <1>11, <1>12, <1>13, <1>14, <1>15, <1>16, <1>17, <1>18,
     <1>19, <1>20, <1>21, <1>22, <1>23, <1>24
    DEF WriterInv

(* The next CRC in stream order is there: it is combined with the CRC of   *)
(* the bytes before, and the object and its buffer are free again.         *)
LEMMA CombineFinds ==
    ASSUME WriterInv,
           UNCHANGED nDeflateType,
           Combine,
           nSeqNumberExpectedCRC' # nSeqNumberExpectedCRC
    PROVE  WriterInv'
<1>0. /\ Types /\ Lists /\ PoolShape /\ Control /\ Places /\ TasksOnLive
      /\ Stages /\ InHand /\ Chunks /\ Loops /\ Closes /\ Contents
      /\ Output /\ Index /\ Trailer /\ Errors
  BY DEF WriterInv
<1>f. /\ Finished \subseteq Objs /\ CRCFinished \subseteq Objs
      /\ FreeObjs \subseteq Objs /\ FreeBuffers \subseteq Buffers
      /\ \A p \in Objs : job[p].seq \in Nat
  BY <1>0, Typed
<1>n. /\ nSeqNumberGenerated \in Nat /\ nSeqNumberExpected \in Nat
      /\ nSeqNumberExpectedCRC \in Nat /\ nErrors \in Nat /\ nObjs \in Nat
      /\ nCurOffset \in Nat /\ caller \in {"Write", "Close1", "Close2"}
      /\ nRet \in {0, -1} /\ pc \in Pcs
  BY <1>0 DEF Types
<1>i. PICK i : i = SelectInSeq(apoCRCFinishedJobs, IsExpectedCRC)
  OBVIOUS
<1>s. \/ i = 0 /\ \A p \in CRCFinished : job[p].seq # nSeqNumberExpectedCRC
      \/ /\ i \in 1..Len(apoCRCFinishedJobs) /\ i # 0
         /\ job[apoCRCFinishedJobs[i]].seq = nSeqNumberExpectedCRC
  BY <1>0, <1>i, FindExpectedCRC DEF Lists
<1>c. GzipFormat /\ i \in 1..Len(apoCRCFinishedJobs) /\ pc = "combine"
  BY <1>i, <1>s DEF Combine
<1>o. PICK o \in Objs : /\ o = apoCRCFinishedJobs[i] /\ o \in CRCFinished
                        /\ Live(o) /\ job[o].inCRC
                        /\ job[o].seq = nSeqNumberExpectedCRC
  BY <1>0, <1>s, <1>c, ListElements DEF Lists, CRCFinished, Stages
<1>b. PICK b \in Buffers : b = job[o].buf
  BY <1>0, <1>o, Typed DEF Live
<1>8. \A z \in Objs : Live(z) /\ z # o => job[z].seq # nSeqNumberExpectedCRC
  BY <1>0, <1>o DEF Chunks
<1>h. nSeqNumberExpectedCRC < nSeqNumberExpected /\ nSeqNumberExpectedCRC <= nSeqNumberGenerated
  <2>1. CASE doItAgain
    BY <1>0, <1>n, <1>c, <2>1 DEF Loops, Chunks, High, Closing
  <2>2. CASE ~doItAgain /\ nSeqNumberExpectedCRC = nSeqNumberExpected
    <3>1. Deflating(o) \/ o \in Finished
      BY <1>0, <1>n, <1>c, <1>o, <2>2 DEF Stages, Writing
    <3>2. o \notin Finished
      BY <1>0, <1>c, <1>o, <2>2 DEF Loops
    <3>3. <<"deflate", job[o].seq>> \in Pending /\ objOf[<<"deflate", job[o].seq>>] = o
      BY <3>1, <3>2 DEF Deflating
    <3>4. job[o].seq \in 0..MaxChunks
      BY <1>0, <1>f, <3>3, DeflatePending
    <3> QED BY <1>0, <1>o, <3>3, <3>4 DEF TasksOnLive
  <2> QED BY <1>0, <1>n, <1>c, <2>1, <2>2 DEF Chunks, High, Closing
<1>1. UNCHANGED <<nDeflateType, caller, nLeft, nCurOffset, content,
                  pCurBuffer, nObjs, nSeqNumberGenerated, nSeqNumberExpected,
                  apoFinishedJobs, psJob, out, ended, trailer, panSOZIPIndex,
                  nErrors, bHasErrored, nRet, objOf, deleted>>
  BY <1>i, <1>s, <1>c DEF Combine, Recycle
<1>2. Finished' = Finished
  BY <1>1 DEF Finished
<1>3. Pending' = Pending /\ PoolShape'
  BY <1>0
    DEF Combine, Pending, PoolShape, QueuedJobs, poolVars
<1>4. \A c : Chunk(c)' = Chunk(c) /\ EndBefore(c)' = EndBefore(c)
  BY <1>1 DEF Chunk, EndBefore
<1>5. /\ pc' = "crcLoop" /\ doItAgain' = FALSE
      /\ nSeqNumberExpectedCRC' = nSeqNumberExpectedCRC + 1
  BY <1>i, <1>s, <1>c, <1>o DEF Combine
<1>6. /\ nCRC' = nCRC \o job[o].crc
      /\ apoCRCFinishedJobs' = RemoveAt(apoCRCFinishedJobs, i)
  BY <1>i, <1>s, <1>c, <1>o DEF Combine
<1>r. /\ job' = [job EXCEPT ![o].buf = None]
      /\ aposBuffers' = Append(aposBuffers, b)
      /\ apoFreeJobs' = Append(apoFreeJobs, o)
  BY <1>i, <1>s, <1>c, <1>o, <1>b DEF Combine, Recycle
<1>j. /\ \A z \in Objs : z # o => job'[z] = job[z]
      /\ \A z \in Objs : /\ job'[z].inCRC = job[z].inCRC /\ job'[z].seq = job[z].seq
                         /\ job'[z].bytes = job[z].bytes /\ job'[z].crc = job[z].crc
                         /\ job'[z].finish = job[z].finish
      /\ job'[o].buf = None
  BY <1>0, <1>r DEF Types, JobType
<1>7. /\ apoFreeJobs' \in Seq(Objs) /\ IsInjective(apoFreeJobs')
      /\ FreeObjs' = FreeObjs \cup {o}
      /\ aposBuffers' \in Seq(Buffers) /\ IsInjective(aposBuffers')
      /\ FreeBuffers' = FreeBuffers \cup {b}
      /\ apoCRCFinishedJobs' \in Seq(Objs) /\ IsInjective(apoCRCFinishedJobs')
      /\ CRCFinished' = CRCFinished \ {o}
  <2>1. o \notin FreeObjs /\ b \notin FreeBuffers
    BY <1>0, <1>o, <1>b DEF Places
  <2>2. /\ apoFreeJobs' \in Seq(Objs) /\ IsInjective(apoFreeJobs')
        /\ FreeObjs' = FreeObjs \cup {o}
    BY <1>0, <1>r, <2>1, ListAppend DEF Lists, FreeObjs
  <2>3. /\ aposBuffers' \in Seq(Buffers) /\ IsInjective(aposBuffers')
        /\ FreeBuffers' = FreeBuffers \cup {b}
    BY <1>0, <1>r, <2>1, ListAppend DEF Lists, FreeBuffers
  <2>4. /\ apoCRCFinishedJobs' \in Seq(Objs) /\ IsInjective(apoCRCFinishedJobs')
        /\ CRCFinished' = CRCFinished \ {o}
    BY <1>0, <1>c, <1>o, <1>6, ListRemoveAt DEF Lists, CRCFinished
  <2> QED BY <2>2, <2>3, <2>4
<1>m. o \notin Finished
  BY <1>0, <1>n, <1>o, <1>h DEF Stages
<1>v. /\ \A c \in 0..MaxChunks : <<"deflate", c>> \in Pending => objOf[<<"deflate", c>>] # o
      /\ \A c \in 0..MaxChunks : <<"crc", c>> \in Pending => objOf[<<"crc", c>>] # o
  BY <1>0, <1>o DEF TasksOnLive
<1>9. job' \in [Objs -> JobType]
  BY <1>0, <1>r DEF Types, JobType
<1>10. Types'
  <2>1. job[o].crc \in Seq(Nat)
    BY <1>0, Typed
  <2>2. nCRC' \in Seq(Nat)
    BY <1>0, <1>6, <2>1, ConcatProperties DEF Types
  <2>3. pc' \in Pcs /\ nSeqNumberExpectedCRC' \in Nat
    BY <1>n, <1>5 DEF Pcs, Locked
  <2> QED BY <1>0, <1>1, <1>5, <1>9, <2>2, <2>3 DEF Types
<1>11. Lists'
  BY <1>0, <1>f, <1>n, <1>1, <1>o, <1>c, <1>h, <1>5, <1>j, <1>7, <1>8, <1>m,
     <1>v
    DEF Lists
<1>12. Control'
  BY <1>0, <1>f, <1>n, <1>1, <1>o, <1>c, <1>h, <1>5, <1>j, <1>7, <1>8, <1>m,
     <1>v
    DEF Control, Closing
<1>13. Places'
  <2>1. (\A z \in Objs : Live(z) => z <= nObjs /\ z \notin FreeObjs)'
    BY <1>0, <1>1, <1>o, <1>b, <1>j, <1>7, <1>5
      DEF Places, Live, Closing, Control
  <2>2. (\A z \in Objs : ~Live(z) => (z \in FreeObjs <=> z <= nObjs))'
    BY <1>0, <1>1, <1>o, <1>b, <1>j, <1>7, <1>5
      DEF Places, Live, Closing, Control
  <2>3. (pCurBuffer \notin FreeBuffers)'
    BY <1>0, <1>1, <1>o, <1>b, <1>j, <1>7, <1>5
      DEF Places, Live, Closing, Control
  <2>4. (\A z \in Objs : Live(z) => /\ job[z].buf \notin FreeBuffers
                                    /\ job[z].buf # pCurBuffer)'
    BY <1>0, <1>f, <1>1, <1>o, <1>b, <1>j, <1>7, <1>5
      DEF Places, Live, Closing, Control
  <2>5. (\A z, y \in Objs : Live(z) /\ z # y => job[y].buf # job[z].buf)'
    BY <1>0, <1>o, <1>j
      DEF Places, Live, Closing, Control
  <2>6. (~Closing => /\ NThreads + 2 \notin FreeBuffers \cup {pCurBuffer}
                     /\ \A z \in Objs : job[z].buf # NThreads + 2
                     /\ content[NThreads + 2] = <<>>)'
    <3>1. None # NThreads + 2
      BY NThreadsAssumption DEF None
    <3>2. ~Closing => b # NThreads + 2
      BY <1>0, <1>b DEF Places
    <3> QED BY <1>0, <1>1, <1>j, <1>7, <3>1, <3>2 DEF Places, Closing
  <2> QED BY <2>1, <2>2, <2>3, <2>4, <2>5, <2>6
    DEF Places
<1>14. TasksOnLive'
  <2>1. (\A c \in 0..MaxChunks : <<"deflate", c>> \in Pending =>
            \E z \in Objs :
               /\ objOf[<<"deflate", c>>] = z
               /\ Live(z) /\ job[z].seq = c
               /\ nSeqNumberExpected <= c
               /\ ~job[z].inCRC
               /\ z \notin Finished /\ ~Writing(z))'
    <3>1. SUFFICES ASSUME NEW c \in 0..MaxChunks, <<"deflate", c>> \in Pending'
                   PROVE  (\E z \in Objs :
                             /\ objOf[<<"deflate", c>>] = z
                             /\ Live(z) /\ job[z].seq = c
                             /\ nSeqNumberExpected <= c
                             /\ ~job[z].inCRC
                             /\ z \notin Finished /\ ~Writing(z))'
      BY <1>1
    <3>2. PICK z \in Objs : /\ objOf[<<"deflate", c>>] = z
                            /\ Live(z) /\ job[z].seq = c
                            /\ nSeqNumberExpected <= c /\ ~job[z].inCRC
                            /\ z \notin Finished
      BY <1>0, <1>3, <3>1 DEF TasksOnLive
    <3>3. z # o
      BY <1>3, <1>v, <3>1, <3>2
    <3> QED BY <1>1, <1>2, <1>5, <1>j, <3>2, <3>3 DEF Live, Writing
  <2>2. (\A c \in 0..MaxChunks : <<"crc", c>> \in Pending =>
            \E z \in Objs :
               /\ objOf[<<"crc", c>>] = z
               /\ Live(z) /\ job[z].seq = c
               /\ job[z].inCRC
               /\ z \notin CRCFinished /\ ~Submitting(z))'
    <3>1. SUFFICES ASSUME NEW c \in 0..MaxChunks, <<"crc", c>> \in Pending'
                   PROVE  (\E z \in Objs :
                             /\ objOf[<<"crc", c>>] = z
                             /\ Live(z) /\ job[z].seq = c
                             /\ job[z].inCRC
                             /\ z \notin CRCFinished /\ ~Submitting(z))'
      BY <1>1
    <3>2. PICK z \in Objs : /\ objOf[<<"crc", c>>] = z
                            /\ Live(z) /\ job[z].seq = c
                            /\ job[z].inCRC /\ z \notin CRCFinished
      BY <1>0, <1>3, <3>1 DEF TasksOnLive
    <3>3. z # o
      BY <1>3, <1>v, <3>1, <3>2
    <3> QED BY <1>1, <1>7, <1>5, <1>j, <3>2, <3>3 DEF Live, Submitting
  <2> QED BY <2>1, <2>2
    DEF TasksOnLive
<1>15. Stages'
  <2>1. (\A z \in Objs : Live(z) => Low <= job[z].seq /\ job[z].seq <= High)'
    BY <1>0, <1>f, <1>n, <1>1, <1>o, <1>5, <1>8, <1>j
      DEF Stages, Live, Low, High, Closing, GzipFormat
  <2>2. (\A z \in Objs : Live(z) /\ job[z].seq < nSeqNumberExpected =>
            job[z].inCRC /\ z \notin Finished)'
    BY <1>0, <1>f, <1>n, <1>1, <1>2, <1>o, <1>5, <1>8, <1>j, <1>m
      DEF Stages, TasksOnLive, InHand, Live, Writing, Submitting, Deflating,
          InCRCTask, Low, High, Closing, GzipFormat
  <2>3. (\A z \in Objs : Live(z) /\ nSeqNumberExpected <= job[z].seq =>
            Deflating(z) \/ z \in Finished \/ Writing(z))'
    BY <1>0, <1>f, <1>n, <1>1, <1>2, <1>3, <1>o, <1>5, <1>8, <1>j, <1>c
      DEF Stages, TasksOnLive, InHand, Live, Writing, Submitting, Deflating,
          InCRCTask, Low, High, Closing, GzipFormat
  <2>4. (\A z \in Objs : Live(z) /\ job[z].inCRC =>
            GzipFormat /\ (Submitting(z) \/ InCRCTask(z) \/ z \in CRCFinished))'
    BY <1>0, <1>f, <1>n, <1>1, <1>2, <1>3, <1>o, <1>5, <1>8, <1>j, <1>7, <1>c
      DEF Stages, TasksOnLive, InHand, Live, Writing, Submitting, Deflating,
          InCRCTask, Low, High, Closing, GzipFormat
  <2>5. (\A z \in Finished : Live(z) /\ ~Writing(z))'
    BY <1>0, <1>f, <1>n, <1>1, <1>2, <1>o, <1>5, <1>8, <1>j, <1>m
      DEF Stages, TasksOnLive, InHand, Live, Writing, Submitting, Deflating,
          InCRCTask, Low, High, Closing, GzipFormat
  <2>6. (\A z \in CRCFinished : Live(z) /\ job[z].inCRC /\ ~Submitting(z))'
    BY <1>0, <1>f, <1>n, <1>1, <1>o, <1>5, <1>8, <1>j, <1>7
      DEF Stages, TasksOnLive, InHand, Live, Writing, Submitting, Deflating,
          InCRCTask, Low, High, Closing, GzipFormat
  <2> QED BY <2>1, <2>2, <2>3, <2>4, <2>5, <2>6
    DEF Stages
<1>16. InHand'
  BY <1>o, <1>c, <1>h, <1>5, <1>j, <1>7, <1>8, <1>m, <1>v
    DEF InHand, Stages, Live, GzipFormat
<1>17. Chunks'
  <2>1. (\A z, y \in Objs : Live(z) /\ Live(y) /\ job[z].seq = job[y].seq => z = y)'
    BY <1>0, <1>1, <1>o, <1>5, <1>8, <1>j
      DEF Chunks, Live, Low, High, Closing, GzipFormat
  <2>2. (\A c \in Nat : Low <= c /\ c <= High => \E z \in Objs : Live(z) /\ job[z].seq = c)'
    BY <1>0, <1>n, <1>1, <1>o, <1>5, <1>8, <1>j, <1>c
      DEF Chunks, Live, Low, High, Closing, GzipFormat
  <2>3. (nSeqNumberExpected <= High + 1)'
    BY <1>0, <1>1, <1>o, <1>5, <1>8, <1>j, <1>h DEF Chunks, High, Closing
  <2>4. (GzipFormat => nSeqNumberExpectedCRC <= nSeqNumberExpected)'
    BY <1>0, <1>n, <1>1, <1>o, <1>5, <1>8, <1>j, <1>h
      DEF Chunks, Live, Low, High, Closing, GzipFormat
  <2> QED BY <2>1, <2>2, <2>3, <2>4
    DEF Chunks
<1>18. Loops'
  BY <1>o, <1>c, <1>h, <1>5, <1>j, <1>7, <1>8, <1>m, <1>v
    DEF Loops, Locked, GzipFormat
<1>19. Closes'
  BY <1>0, <1>f, <1>n, <1>1, <1>2, <1>3, <1>4, <1>o, <1>c, <1>h, <1>5, <1>j,
     <1>7, <1>8, <1>m, <1>v, <1>9
    DEF Closes, Control, Closing, GzipFormat
<1>20. Contents'
  <2>1. (pCurBuffer # None => content[pCurBuffer] = Chunk(nSeqNumberGenerated))'
    BY <1>0, <1>f, <1>1, <1>2, <1>4, <1>o, <1>5, <1>j, <1>7, <1>m
      DEF Contents, InHand, Stages, Writing, Live, Closing, Places
  <2>2. (\A z \in Objs : Live(z) => content[job[z].buf] = Chunk(job[z].seq))'
    BY <1>0, <1>f, <1>1, <1>2, <1>4, <1>o, <1>5, <1>j, <1>7, <1>m
      DEF Contents, InHand, Stages, Writing, Live, Closing, Places
  <2>3. (\A z \in Finished : job[z].bytes = content[job[z].buf])'
    BY <1>0, <1>f, <1>1, <1>2, <1>o, <1>5, <1>j, <1>7, <1>m
      DEF Contents, InHand, Stages, Writing, Live, Closing, Places
  <2>4. (\A z \in CRCFinished : job[z].crc = content[job[z].buf])'
    BY <1>0, <1>f, <1>1, <1>o, <1>5, <1>j, <1>7, <1>m
      DEF Contents, InHand, Stages, Writing, Live, Closing, Places
  <2>5. (pc = "writeChunk" => job[psJob].bytes = content[job[psJob].buf])'
    BY <1>o, <1>5, <1>j, <1>7, <1>m
      DEF Contents, InHand, Stages, Writing, Live, Closing, Places
  <2>6. (Closing => \A z \in Objs : Live(z) /\ job[z].seq = nSeqNumberGenerated =>
                        job[z].finish)'
    BY <1>0, <1>f, <1>1, <1>o, <1>5, <1>j, <1>7, <1>m
      DEF Contents, InHand, Stages, Writing, Live, Closing, Places
  <2> QED BY <2>1, <2>2, <2>3, <2>4, <2>5, <2>6
    DEF Contents
<1>21. Output'
  BY <1>0, <1>n, <1>1, <1>4, <1>o, <1>c, <1>h, <1>5, <1>j, <1>7, <1>8, <1>m,
     <1>v
    DEF Output
<1>22. Index'
  BY <1>0, <1>n, <1>1, <1>o, <1>c, <1>h, <1>5, <1>j, <1>7, <1>8, <1>m, <1>v
    DEF Index
<1>23. Trailer'
  <2>a. PICK a : a = Start(nSeqNumberExpectedCRC)
    OBVIOUS
  <2>w. PICK w : w = job[o].crc
    OBVIOUS
  <2>1. w = Chunk(nSeqNumberExpectedCRC)
    BY <1>0, <1>o, <2>w DEF Contents
  <2>2. /\ w \in Seq(Nat) /\ Len(w) \in Nat
        /\ a + Len(w) = EndBefore(nSeqNumberExpectedCRC + 1)
        /\ \A k \in 1..Len(w) : w[k] = a + k
    BY <1>0, <1>n, <1>h, <2>a, <2>1, ChunkBytes
  <2>3. EndBefore(nSeqNumberExpectedCRC) = a /\ a \in Nat
    BY <1>n, <1>h, <2>a, Starts DEF EndBefore
  <2>4. /\ nCRC \in Seq(Nat) /\ Len(nCRC) = a
        /\ \A k \in 1..Len(nCRC) : nCRC[k] = k
    <3>1. nCRC \in Seq(Nat) /\ DOMAIN nCRC = 1..Len(nCRC)
      BY <1>0 DEF Types
    <3> QED BY <1>0, <1>c, <2>3, <3>1 DEF Trailer
  <2>x. PICK x : x = nCRC \o w
    OBVIOUS
  <2>5. /\ x \in Seq(Nat) /\ Len(x) = a + Len(w)
        /\ \A k \in 1..Len(x) : x[k] = k
    BY <2>2, <2>3, <2>4, <2>x, BytesFollow
  <2>6. nCRC' = x /\ EndBefore(nSeqNumberExpectedCRC)' = a + Len(w) /\ DOMAIN x = 1..Len(x)
    BY <1>1, <1>5, <1>6, <2>2, <2>5, <2>w, <2>x DEF EndBefore
  <2> QED BY <1>5, <2>5, <2>6 DEF Trailer
<1>24. Errors'
  BY <1>0, <1>f, <1>n, <1>1, <1>o, <1>c, <1>h, <1>5, <1>j, <1>7, <1>8, <1>m,
     <1>v
    DEF Errors
<1> QED
  BY <1>3, <1>10, <1>11, <1>12, <1>13, <1>14, <1>15, <1>16, <1>17, <1>18,
     <1>19, <1>20, <1>21, <1>22, <1>23, <1>24
    DEF WriterInv

(* The next CRC is not there, and a chunk was written since the loops      *)
(* began: ProcessCompletedJobs() starts over.                              *)
LEMMA CombineAgain ==
    ASSUME WriterInv,
           UNCHANGED nDeflateType,
           Combine,
           nSeqNumberExpectedCRC' = nSeqNumberExpectedCRC,
           doItAgain
    PROVE  WriterInv'
<1>0. /\ Types /\ Lists /\ PoolShape /\ Control /\ Places /\ TasksOnLive
      /\ Stages /\ InHand /\ Chunks /\ Loops /\ Closes /\ Contents
      /\ Output /\ Index /\ Trailer /\ Errors
  BY DEF WriterInv
<1>f. /\ Finished \subseteq Objs /\ CRCFinished \subseteq Objs
      /\ FreeObjs \subseteq Objs /\ FreeBuffers \subseteq Buffers
      /\ \A p \in Objs : job[p].seq \in Nat
  BY <1>0, Typed
<1>n. /\ nSeqNumberGenerated \in Nat /\ nSeqNumberExpected \in Nat
      /\ nSeqNumberExpectedCRC \in Nat /\ nErrors \in Nat /\ nObjs \in Nat
      /\ nCurOffset \in Nat /\ caller \in {"Write", "Close1", "Close2"}
      /\ nRet \in {0, -1} /\ pc \in Pcs
  BY <1>0 DEF Types
<1>i. PICK i : i = SelectInSeq(apoCRCFinishedJobs, IsExpectedCRC)
  OBVIOUS
<1>s. \/ i = 0 /\ \A p \in CRCFinished : job[p].seq # nSeqNumberExpectedCRC
      \/ /\ i \in 1..Len(apoCRCFinishedJobs) /\ i # 0
         /\ job[apoCRCFinishedJobs[i]].seq = nSeqNumberExpectedCRC
  BY <1>0, <1>i, FindExpectedCRC DEF Lists
<1>c. pc = "combine" /\ (GzipFormat => \A p \in CRCFinished : job[p].seq # nSeqNumberExpectedCRC)
  <2>1. GzipFormat => i = 0
    <3>1. nSeqNumberExpectedCRC + 1 # nSeqNumberExpectedCRC
      BY <1>n
    <3> QED BY <1>i, <1>s, <3>1 DEF Combine
  <2> QED BY <1>s, <2>1 DEF Combine
<1>z. PICK j : j = IF GzipFormat THEN i ELSE 0
  OBVIOUS
<1>y. j = 0
  <2>1. nSeqNumberExpectedCRC + 1 # nSeqNumberExpectedCRC
    BY <1>n
  <2> QED BY <1>i, <1>z, <2>1 DEF Combine
<1>1. UNCHANGED <<nDeflateType, caller, nLeft, nCurOffset, content,
                  aposBuffers, pCurBuffer, job, nObjs, nSeqNumberGenerated,
                  nSeqNumberExpected, nSeqNumberExpectedCRC, apoFinishedJobs,
                  apoCRCFinishedJobs, apoFreeJobs, psJob, nCRC, out, ended,
                  trailer, panSOZIPIndex, nErrors, bHasErrored, nRet, objOf,
                  deleted>>
  BY <1>i, <1>z, <1>y DEF Combine
<1>2. Finished' = Finished /\ CRCFinished' = CRCFinished /\ FreeObjs' = FreeObjs /\ FreeBuffers' = FreeBuffers
  BY <1>1 DEF Finished, CRCFinished, FreeObjs, FreeBuffers
<1>3. Pending' = Pending /\ PoolShape'
  BY <1>0
    DEF Combine, Pending, PoolShape, QueuedJobs, poolVars
<1>4. \A c : Chunk(c)' = Chunk(c) /\ EndBefore(c)' = EndBefore(c)
  BY <1>1 DEF Chunk, EndBefore
<1>5. /\ pc' = IF GzipFormat THEN "crcLoop" ELSE "writeLoop"
      /\ doItAgain' = FALSE
  BY <1>i, <1>z, <1>y DEF Combine
<1>10. Types'
  BY <1>0, <1>1, <1>c, <1>5 DEF Types, Pcs, Locked
<1>11. Lists'
  BY <1>0, <1>n, <1>1, <1>c, <1>5 DEF Lists
<1>12. Control'
  BY <1>0, <1>n, <1>1, <1>c, <1>5 DEF Control, Closing
<1>13. Places'
  BY <1>0, <1>1, <1>2, <1>c, <1>5 DEF Places, Live, Closing, Control
<1>14. TasksOnLive'
  BY <1>0, <1>f, <1>n, <1>1, <1>2, <1>3, <1>4, <1>c, <1>5
    DEF TasksOnLive, Live, Writing, Submitting
<1>15. Stages'
  BY <1>0, <1>f, <1>n, <1>1, <1>2, <1>3, <1>4, <1>c, <1>5
    DEF Stages, TasksOnLive, InHand, Live, Writing, Submitting, Deflating,
        InCRCTask, Low, High, Closing, GzipFormat
<1>16. InHand'
  BY <1>1, <1>c, <1>5 DEF InHand, Stages, Live, GzipFormat
<1>17. Chunks'
  BY <1>0, <1>f, <1>n, <1>1, <1>c, <1>5
    DEF Chunks, Live, Low, High, Closing, GzipFormat
<1>18. Loops'
  BY <1>1, <1>c, <1>5 DEF Loops, Locked, GzipFormat
<1>19. Closes'
  BY <1>0, <1>f, <1>n, <1>1, <1>2, <1>3, <1>4, <1>c, <1>5
    DEF Closes, Control, Closing, GzipFormat
<1>20. Contents'
  BY <1>0, <1>f, <1>n, <1>1, <1>2, <1>4, <1>c, <1>5
    DEF Contents, InHand, Stages, Writing, Live, Closing, Places
<1>21. Output'
  BY <1>0, <1>n, <1>1, <1>4, <1>c, <1>5
    DEF Output
<1>22. Index'
  BY <1>0, <1>n, <1>1, <1>4, <1>c, <1>5
    DEF Index
<1>23. Trailer'
  BY <1>0, <1>n, <1>1, <1>4, <1>c, <1>5
    DEF Trailer, GzipFormat
<1>24. Errors'
  BY <1>0, <1>n, <1>1, <1>c, <1>5 DEF Errors
<1> QED
  BY <1>3, <1>10, <1>11, <1>12, <1>13, <1>14, <1>15, <1>16, <1>17, <1>18,
     <1>19, <1>20, <1>21, <1>22, <1>23, <1>24
    DEF WriterInv

(* The next CRC is not there and nothing was written:                      *)
(* ProcessCompletedJobs() returns, to Write() or to the first or the       *)
(* second part of Close().                                                 *)
LEMMA CombineReturns ==
    ASSUME WriterInv,
           UNCHANGED nDeflateType,
           Combine,
           nSeqNumberExpectedCRC' = nSeqNumberExpectedCRC,
           ~doItAgain
    PROVE  WriterInv'
<1>0. /\ Types /\ Lists /\ PoolShape /\ Control /\ Places /\ TasksOnLive
      /\ Stages /\ InHand /\ Chunks /\ Loops /\ Closes /\ Contents
      /\ Output /\ Index /\ Trailer /\ Errors
  BY DEF WriterInv
<1>f. /\ Finished \subseteq Objs /\ CRCFinished \subseteq Objs
      /\ FreeObjs \subseteq Objs /\ FreeBuffers \subseteq Buffers
      /\ \A p \in Objs : job[p].seq \in Nat
  BY <1>0, Typed
<1>n. /\ nSeqNumberGenerated \in Nat /\ nSeqNumberExpected \in Nat
      /\ nSeqNumberExpectedCRC \in Nat /\ nErrors \in Nat /\ nObjs \in Nat
      /\ nCurOffset \in Nat /\ caller \in {"Write", "Close1", "Close2"}
      /\ nRet \in {0, -1} /\ pc \in Pcs
  BY <1>0 DEF Types
<1>i. PICK i : i = SelectInSeq(apoCRCFinishedJobs, IsExpectedCRC)
  OBVIOUS
<1>s. \/ i = 0 /\ \A p \in CRCFinished : job[p].seq # nSeqNumberExpectedCRC
      \/ /\ i \in 1..Len(apoCRCFinishedJobs) /\ i # 0
         /\ job[apoCRCFinishedJobs[i]].seq = nSeqNumberExpectedCRC
  BY <1>0, <1>i, FindExpectedCRC DEF Lists
<1>c. pc = "combine" /\ (GzipFormat => \A p \in CRCFinished : job[p].seq # nSeqNumberExpectedCRC)
  <2>1. GzipFormat => i = 0
    <3>1. nSeqNumberExpectedCRC + 1 # nSeqNumberExpectedCRC
      BY <1>n
    <3> QED BY <1>i, <1>s, <3>1 DEF Combine
  <2> QED BY <1>s, <2>1 DEF Combine
<1>z. PICK j : j = IF GzipFormat THEN i ELSE 0
  OBVIOUS
<1>y. j = 0
  <2>1. nSeqNumberExpectedCRC + 1 # nSeqNumberExpectedCRC
    BY <1>n
  <2> QED BY <1>i, <1>z, <2>1 DEF Combine
<1>w. ReturnFromProcess(TRUE) /\ doItAgain' = FALSE
  BY <1>i, <1>z, <1>y DEF Combine
<1>x. \A p \in Finished : job[p].seq # nSeqNumberExpected
  BY <1>0, <1>c DEF Loops
<1>1. UNCHANGED <<nDeflateType, nCurOffset, content, aposBuffers, pCurBuffer,
                  job, nObjs, nSeqNumberGenerated, nSeqNumberExpected,
                  nSeqNumberExpectedCRC, apoFinishedJobs, apoCRCFinishedJobs,
                  apoFreeJobs, psJob, nCRC, out, ended, trailer,
                  panSOZIPIndex, nErrors, objOf, deleted>>
  BY <1>i, <1>z, <1>y DEF Combine
<1>2. Finished' = Finished /\ CRCFinished' = CRCFinished /\ FreeObjs' = FreeObjs /\ FreeBuffers' = FreeBuffers
  BY <1>1 DEF Finished, CRCFinished, FreeObjs, FreeBuffers
<1>3. Pending' = Pending /\ PoolShape'
  BY <1>0
    DEF Combine, Pending, PoolShape, QueuedJobs, poolVars
<1>4. \A c : Chunk(c)' = Chunk(c) /\ EndBefore(c)' = EndBefore(c)
  BY <1>1 DEF Chunk, EndBefore
<1>5. /\ caller = "Write" => pc' = "getBuffer"
      /\ caller = "Close1" => pc' = IF GzipFormat THEN "waitCompletion" ELSE "finish"
      /\ caller = "Close2" => pc' = "finish"
      /\ caller' = IF caller = "Close1" /\ GzipFormat THEN "Close2" ELSE caller
      /\ nRet' = nRet /\ nLeft' = nLeft
  BY <1>n, <1>w DEF ReturnFromProcess
<1>e. bHasErrored' \in BOOLEAN /\ (bHasErrored => bHasErrored')
  BY <1>w, Zenon DEF ReturnFromProcess, WriteFails
<1>6. pc' \in {"getBuffer", "waitCompletion", "finish"}
  BY <1>n, <1>5
<1>7. caller # "Write" => nSeqNumberExpected = nSeqNumberGenerated + 1
  <2>1. SUFFICES ASSUME caller # "Write", nSeqNumberExpected # nSeqNumberGenerated + 1
                 PROVE  FALSE
    OBVIOUS
  <2>2. nSeqNumberExpected <= nSeqNumberGenerated /\ caller = "Close1"
    BY <1>0, <1>n, <2>1 DEF Chunks, High, Closing, Closes
  <2>3. Low <= nSeqNumberExpected /\ nSeqNumberExpected <= High
    BY <1>0, <1>n, <2>1, <2>2 DEF Low, High, Closing, Chunks
  <2>4. PICK o \in Objs : Live(o) /\ job[o].seq = nSeqNumberExpected
    BY <1>0, <1>n, <2>3 DEF Chunks
  <2>5. Deflating(o) \/ o \in Finished
    BY <1>0, <1>n, <1>c, <2>4 DEF Stages, Writing
  <2>6. Deflating(o)
    BY <1>x, <2>4, <2>5
  <2>7. <<"deflate", job[o].seq>> \in Pending
    BY <2>6 DEF Deflating
  <2>8. job[o].seq \in 0..MaxChunks
    BY <1>0, <2>7, DeflatePending
  <2> QED BY <1>0, <1>c, <2>2, <2>7, <2>8 DEF Closes
<1>8. caller = "Close2" => nSeqNumberExpectedCRC = nSeqNumberGenerated + 1 /\ Pending = {}
  <2>1. SUFFICES ASSUME caller = "Close2" PROVE nSeqNumberExpectedCRC = nSeqNumberGenerated + 1
    BY <1>0, <1>c DEF Closes
  <2>g. GzipFormat
    BY <1>0, <2>1 DEF Closes
  <2>2. SUFFICES ASSUME nSeqNumberExpectedCRC # nSeqNumberGenerated + 1 PROVE FALSE
    OBVIOUS
  <2>3. Low = nSeqNumberExpectedCRC /\ nSeqNumberExpectedCRC <= High
        /\ nSeqNumberExpectedCRC < nSeqNumberExpected
    BY <1>0, <1>n, <1>7, <2>1, <2>2, <2>g DEF Low, High, Closing, Chunks
  <2>4. PICK o \in Objs : Live(o) /\ job[o].seq = nSeqNumberExpectedCRC
    BY <1>0, <1>n, <2>3 DEF Chunks
  <2>5. job[o].inCRC
    BY <1>0, <1>n, <2>3, <2>4 DEF Stages
  <2>6. InCRCTask(o) \/ o \in CRCFinished
    BY <1>0, <1>c, <2>4, <2>5 DEF Stages, Submitting
  <2>7. Pending # {}
    BY <1>c, <2>g, <2>4, <2>6 DEF InCRCTask
  <2> QED BY <1>0, <1>c, <2>1, <2>7 DEF Closes
<1>9. ~GzipFormat /\ caller = "Close1" => Pending = {}
  <2>1. SUFFICES ASSUME ~GzipFormat, caller = "Close1", NEW t \in Pending PROVE FALSE
    OBVIOUS
  <2>2. PICK s \in 0..MaxChunks : t = <<"deflate", s>> \/ t = <<"crc", s>>
    BY <1>0, PendingJobs, GzipAssumption DEF PoolJobs
  <2>3. t = <<"crc", s>>
    BY <1>0, <1>c, <2>1, <2>2 DEF Closes
  <2>4. \E o \in Objs : Live(o) /\ job[o].inCRC
    BY <1>0, <2>1, <2>3 DEF TasksOnLive
  <2> QED BY <1>0, <2>1, <2>4 DEF Stages
<1>10. Types'
  <2>1. pc' \in Pcs /\ doItAgain' \in BOOLEAN
    BY <1>6, <1>w DEF Pcs
  <2> QED BY <1>0, <1>n, <1>1, <1>5, <1>e, <2>1 DEF Types
<1>11. Lists'
  BY <1>0, <1>1, <1>c, <1>5, <1>6, <1>7, <1>8 DEF Lists
<1>12. Control'
  BY <1>0, <1>f, <1>n, <1>1, <1>2, <1>c, <1>5, <1>6, <1>7, <1>8
    DEF Control, Closing
<1>13. Places'
  BY <1>0, <1>f, <1>n, <1>1, <1>2, <1>c, <1>5, <1>6, <1>7, <1>8
    DEF Places, Live, Closing, Control
<1>14. TasksOnLive'
  BY <1>0, <1>f, <1>n, <1>1, <1>2, <1>3, <1>4, <1>c, <1>5, <1>6, <1>7, <1>8,
     <1>9
    DEF TasksOnLive, Live, Writing, Submitting
<1>15. Stages'
  <2>1. (\A z \in Objs : Live(z) => Low <= job[z].seq /\ job[z].seq <= High)'
    BY <1>0, <1>1, <1>c, <1>5, <1>6, <1>7, <1>8
      DEF Stages, TasksOnLive, InHand, Live, Writing, Submitting, Deflating,
          InCRCTask, Low, High, Closing, GzipFormat
  <2>2. (\A z \in Objs : Live(z) /\ job[z].seq < nSeqNumberExpected =>
            job[z].inCRC /\ z \notin Finished)'
    BY <1>0, <1>f, <1>n, <1>1, <1>2, <1>c, <1>5, <1>6, <1>7, <1>8
      DEF Stages, TasksOnLive, InHand, Live, Writing, Submitting, Deflating,
          InCRCTask, Low, High, Closing, GzipFormat
  <2>3. (\A z \in Objs : Live(z) /\ nSeqNumberExpected <= job[z].seq =>
            Deflating(z) \/ z \in Finished \/ Writing(z))'
    BY <1>0, <1>f, <1>n, <1>1, <1>2, <1>3, <1>4, <1>c, <1>5, <1>6, <1>7, <1>8,
       <1>9
      DEF Stages, TasksOnLive, InHand, Live, Writing, Submitting, Deflating,
          InCRCTask, Low, High, Closing, GzipFormat
  <2>4. (\A z \in Objs : Live(z) /\ job[z].inCRC =>
            GzipFormat /\ (Submitting(z) \/ InCRCTask(z) \/ z \in CRCFinished))'
    BY <1>0, <1>f, <1>n, <1>1, <1>2, <1>3, <1>4, <1>c, <1>5, <1>6, <1>7, <1>8,
       <1>9
      DEF Stages, TasksOnLive, InHand, Live, Writing, Submitting, Deflating,
          InCRCTask, Low, High, Closing, GzipFormat
  <2>5. (\A z \in Finished : Live(z) /\ ~Writing(z))'
    BY <1>0, <1>f, <1>n, <1>1, <1>2, <1>c, <1>5, <1>6, <1>7, <1>8
      DEF Stages, TasksOnLive, InHand, Live, Writing, Submitting, Deflating,
          InCRCTask, Low, High, Closing, GzipFormat
  <2>6. (\A z \in CRCFinished : Live(z) /\ job[z].inCRC /\ ~Submitting(z))'
    BY <1>0, <1>f, <1>n, <1>1, <1>2, <1>c, <1>5, <1>6, <1>7, <1>8
      DEF Stages, TasksOnLive, InHand, Live, Writing, Submitting, Deflating,
          InCRCTask, Low, High, Closing, GzipFormat
  <2> QED BY <2>1, <2>2, <2>3, <2>4, <2>5, <2>6
    DEF Stages
<1>16. InHand'
  BY <1>5, <1>6, <1>7, <1>8 DEF InHand, Stages, Live, GzipFormat
<1>17. Chunks'
  BY <1>0, <1>n, <1>1, <1>c, <1>5, <1>6, <1>7, <1>8
    DEF Chunks, Live, Low, High, Closing, GzipFormat
<1>18. Loops'
  BY <1>5, <1>6, <1>7, <1>8 DEF Loops, Locked, GzipFormat
<1>19. Closes'
  BY <1>0, <1>f, <1>n, <1>1, <1>2, <1>3, <1>4, <1>c, <1>5, <1>6, <1>7, <1>8,
     <1>9
    DEF Closes, Control, Closing, GzipFormat
<1>20. Contents'
  <2>1. (pCurBuffer # None => content[pCurBuffer] = Chunk(nSeqNumberGenerated))'
    BY <1>0, <1>f, <1>n, <1>1, <1>2, <1>4, <1>c, <1>5, <1>6, <1>7, <1>8, <1>9
      DEF Contents, InHand, Stages, Writing, Live, Closing, Places
  <2>2. (\A z \in Objs : Live(z) => content[job[z].buf] = Chunk(job[z].seq))'
    BY <1>0, <1>f, <1>n, <1>1, <1>2, <1>4, <1>c, <1>5, <1>6, <1>7, <1>8, <1>9
      DEF Contents, InHand, Stages, Writing, Live, Closing, Places
  <2>3. (\A z \in Finished : job[z].bytes = content[job[z].buf])'
    BY <1>0, <1>f, <1>n, <1>1, <1>2, <1>c, <1>5, <1>6, <1>7, <1>8
      DEF Contents, InHand, Stages, Writing, Live, Closing, Places
  <2>4. (\A z \in CRCFinished : job[z].crc = content[job[z].buf])'
    BY <1>0, <1>f, <1>n, <1>1, <1>2, <1>c, <1>5, <1>6, <1>7, <1>8
      DEF Contents, InHand, Stages, Writing, Live, Closing, Places
  <2>5. (pc = "writeChunk" => job[psJob].bytes = content[job[psJob].buf])'
    BY <1>5, <1>6, <1>7, <1>8
      DEF Contents, InHand, Stages, Writing, Live, Closing, Places
  <2>6. (Closing => \A z \in Objs : Live(z) /\ job[z].seq = nSeqNumberGenerated =>
                        job[z].finish)'
    BY <1>0, <1>1, <1>c, <1>5, <1>6, <1>7, <1>8
      DEF Contents, InHand, Stages, Writing, Live, Closing, Places
  <2> QED BY <2>1, <2>2, <2>3, <2>4, <2>5, <2>6
    DEF Contents
<1>21. Output'
  BY <1>0, <1>n, <1>1, <1>4, <1>c, <1>5, <1>6, <1>7, <1>8 DEF Output
<1>22. Index'
  BY <1>0, <1>1, <1>c, <1>5, <1>6, <1>7, <1>8 DEF Index
<1>23. Trailer'
  BY <1>0, <1>n, <1>1, <1>4, <1>c, <1>5, <1>6, <1>7, <1>8
    DEF Trailer, GzipFormat
<1>24. Errors'
  BY <1>0, <1>f, <1>n, <1>1, <1>2, <1>c, <1>5, <1>6, <1>7, <1>8, <1>e
    DEF Errors
<1> QED
  BY <1>3, <1>10, <1>11, <1>12, <1>13, <1>14, <1>15, <1>16, <1>17, <1>18,
     <1>19, <1>20, <1>21, <1>22, <1>23, <1>24
    DEF WriterInv

(* Write() finds no free buffer and has to wait.                           *)
LEMMA GetBufferWaits ==
    ASSUME WriterInv,
           UNCHANGED nDeflateType,
           GetBuffer,
           aposBuffers = <<>>
    PROVE  WriterInv'
<1>0. /\ Types /\ Lists /\ PoolShape /\ Control /\ Places /\ TasksOnLive
      /\ Stages /\ InHand /\ Chunks /\ Loops /\ Closes /\ Contents
      /\ Output /\ Index /\ Trailer /\ Errors
  BY DEF WriterInv
<1>f. /\ Finished \subseteq Objs /\ CRCFinished \subseteq Objs
      /\ FreeObjs \subseteq Objs /\ FreeBuffers \subseteq Buffers
      /\ \A p \in Objs : job[p].seq \in Nat
  BY <1>0, Typed
<1>n. /\ nSeqNumberGenerated \in Nat /\ nSeqNumberExpected \in Nat
      /\ nSeqNumberExpectedCRC \in Nat /\ nErrors \in Nat /\ nObjs \in Nat
      /\ nCurOffset \in Nat /\ caller \in {"Write", "Close1", "Close2"}
      /\ nRet \in {0, -1} /\ pc \in Pcs
  BY <1>0 DEF Types
<1>1. UNCHANGED <<nDeflateType, caller, nLeft, nCurOffset, content,
                  aposBuffers, pCurBuffer, job, nObjs, nSeqNumberGenerated,
                  nSeqNumberExpected, nSeqNumberExpectedCRC, apoFinishedJobs,
                  apoCRCFinishedJobs, apoFreeJobs, doItAgain, psJob, nCRC,
                  out, ended, trailer, panSOZIPIndex, nErrors, bHasErrored,
                  nRet, objOf, deleted>>
  BY DEF GetBuffer, seqs, file
<1>2. Finished' = Finished /\ CRCFinished' = CRCFinished /\ FreeObjs' = FreeObjs /\ FreeBuffers' = FreeBuffers
  BY <1>1 DEF Finished, CRCFinished, FreeObjs, FreeBuffers
<1>3. Pending' = Pending /\ PoolShape'
  BY <1>0
    DEF GetBuffer, Pending, PoolShape, QueuedJobs, poolVars
<1>4. \A c : Chunk(c)' = Chunk(c) /\ EndBefore(c)' = EndBefore(c)
  BY <1>1 DEF Chunk, EndBefore
<1>5. pc = "getBuffer" /\ pc' = IF NothingPending THEN "process" ELSE "waitEvent"
  BY DEF GetBuffer
<1>10. Types'
  BY <1>0, <1>1, <1>2, <1>3, <1>4, <1>5
    DEF Types, Pcs, Locked
<1>11. Lists'
  BY <1>0, <1>n, <1>1, <1>5 DEF Lists
<1>12. Control'
  BY <1>0, <1>n, <1>1, <1>5 DEF Control, Closing
<1>13. Places'
  BY <1>0, <1>f, <1>n, <1>1, <1>2, <1>5
    DEF Places, Live, Closing, Control
<1>14. TasksOnLive'
  BY <1>0, <1>f, <1>n, <1>1, <1>2, <1>3, <1>4, <1>5
    DEF TasksOnLive, Live, Writing, Submitting
<1>15. Stages'
  BY <1>0, <1>f, <1>n, <1>1, <1>2, <1>3, <1>4, <1>5
    DEF Stages, TasksOnLive, InHand, Live, Writing, Submitting, Deflating,
        InCRCTask, Low, High, Closing, GzipFormat
<1>16. InHand'
  BY <1>1, <1>5 DEF InHand, Stages, Live, GzipFormat
<1>17. Chunks'
  BY <1>0, <1>f, <1>n, <1>1, <1>5
    DEF Chunks, Live, Low, High, Closing, GzipFormat
<1>18. Loops'
  BY <1>1, <1>5 DEF Loops, Locked, GzipFormat
<1>19. Closes'
  BY <1>0, <1>n, <1>1, <1>5 DEF Closes, Control, Closing, GzipFormat
<1>20. Contents'
  BY <1>0, <1>f, <1>n, <1>1, <1>2, <1>4, <1>5
    DEF Contents, InHand, Stages, Writing, Live, Closing, Places
<1>21. Output'
  BY <1>0, <1>n, <1>1, <1>4, <1>5
    DEF Output
<1>22. Index'
  BY <1>0, <1>n, <1>1, <1>4, <1>5
    DEF Index
<1>23. Trailer'
  BY <1>0, <1>n, <1>1, <1>4, <1>5
    DEF Trailer, GzipFormat
<1>24. Errors'
  BY <1>0, <1>n, <1>1, <1>5 DEF Errors
<1> QED
  BY <1>3, <1>10, <1>11, <1>12, <1>13, <1>14, <1>15, <1>16, <1>17, <1>18,
     <1>19, <1>20, <1>21, <1>22, <1>23, <1>24
    DEF WriterInv

(* Write() takes a free buffer for the next chunk, empty.                  *)
LEMMA GetBufferTakes ==
    ASSUME WriterInv,
           UNCHANGED nDeflateType,
           GetBuffer,
           aposBuffers # <<>>
    PROVE  WriterInv'
<1>0. /\ Types /\ Lists /\ PoolShape /\ Control /\ Places /\ TasksOnLive
      /\ Stages /\ InHand /\ Chunks /\ Loops /\ Closes /\ Contents
      /\ Output /\ Index /\ Trailer /\ Errors
  BY DEF WriterInv
<1>f. /\ Finished \subseteq Objs /\ CRCFinished \subseteq Objs
      /\ FreeObjs \subseteq Objs /\ FreeBuffers \subseteq Buffers
      /\ \A p \in Objs : job[p].seq \in Nat
  BY <1>0, Typed
<1>n. /\ nSeqNumberGenerated \in Nat /\ nSeqNumberExpected \in Nat
      /\ nSeqNumberExpectedCRC \in Nat /\ nErrors \in Nat /\ nObjs \in Nat
      /\ nCurOffset \in Nat /\ caller \in {"Write", "Close1", "Close2"}
      /\ nRet \in {0, -1} /\ pc \in Pcs
  BY <1>0 DEF Types
<1>b. PICK b \in Buffers : b = Last(aposBuffers) /\ b \in FreeBuffers
  BY <1>0, ListFront DEF Lists, FreeBuffers
<1>1. UNCHANGED <<nDeflateType, caller, nLeft, nCurOffset, job, nObjs,
                  nSeqNumberGenerated, nSeqNumberExpected,
                  nSeqNumberExpectedCRC, apoFinishedJobs, apoCRCFinishedJobs,
                  apoFreeJobs, doItAgain, psJob, nCRC, out, ended, trailer,
                  panSOZIPIndex, nErrors, bHasErrored, nRet, objOf, deleted>>
  BY <1>b DEF GetBuffer, seqs, file
<1>2. Finished' = Finished /\ CRCFinished' = CRCFinished /\ FreeObjs' = FreeObjs
  BY <1>1 DEF Finished, CRCFinished, FreeObjs
<1>3. Pending' = Pending /\ PoolShape'
  BY <1>0
    DEF GetBuffer, Pending, PoolShape, QueuedJobs, poolVars
<1>4. \A c : Chunk(c)' = Chunk(c) /\ EndBefore(c)' = EndBefore(c)
  BY <1>1 DEF Chunk, EndBefore
<1>5. /\ pc = "getBuffer" /\ pc' = "write" /\ pCurBuffer' = b
  BY <1>b DEF GetBuffer
<1>6. /\ content' = [content EXCEPT ![b] = <<>>]
      /\ aposBuffers' = Front(aposBuffers)
  BY <1>b DEF GetBuffer
<1>7. /\ aposBuffers' \in Seq(Buffers) /\ IsInjective(aposBuffers')
      /\ FreeBuffers' = FreeBuffers \ {b}
  BY <1>0, <1>b, <1>6, ListFront DEF Lists, FreeBuffers
<1>8. /\ content'[b] = <<>> /\ \A z \in Buffers : z # b => content'[z] = content[z]
      /\ content' \in [Buffers -> Seq(1..MaxBytes)]
  BY <1>0, <1>6 DEF Types
<1>h. /\ caller = "Write" /\ pCurBuffer = None
      /\ nCurOffset = Start(nSeqNumberGenerated)
      /\ \A z \in Objs : Live(z) => job[z].buf # b /\ job[z].buf \in Buffers
      /\ b # NThreads + 2 /\ b # None
  <2>1. caller = "Write" /\ pCurBuffer = None /\ nCurOffset = Start(nSeqNumberGenerated)
    BY <1>0, <1>n, <1>5 DEF Control, Closing
  <2>2. \A z \in Objs : Live(z) => job[z].buf # b
    BY <1>0, <1>b DEF Places
  <2>3. \A z \in Objs : Live(z) => job[z].buf \in Buffers
    BY <1>0, Typed DEF Live
  <2>4. b # NThreads + 2 /\ b # None
    BY <1>0, <1>b, <2>1, Typed DEF Places, Closing
  <2> QED BY <2>1, <2>2, <2>3, <2>4
<1>e. Chunk(nSeqNumberGenerated) = <<>>
  <2>1. nCurOffset - Start(nSeqNumberGenerated) = 0 /\ ~(nSeqNumberGenerated < nSeqNumberGenerated)
    BY <1>n, <1>h
  <2>2. Chunk(nSeqNumberGenerated) = [i \in 1..0 |-> Start(nSeqNumberGenerated) + i]
    BY <2>1 DEF Chunk
  <2>3. 1..0 = {}
    OBVIOUS
  <2> QED BY <2>2, <2>3
<1>m. /\ NThreads + 2 \in Buffers
      /\ content'[NThreads + 2] = <<>>
  <2>1. NThreads + 2 \in Buffers
    BY NThreadsAssumption DEF Buffers
  <2> QED BY <1>0, <1>8, <1>h, <2>1 DEF Places, Closing
<1>10. Types'
  BY <1>0, <1>1, <1>2, <1>b, <1>5, <1>7, <1>8, <1>h DEF Types, Pcs, Locked
<1>11. Lists'
  BY <1>0, <1>f, <1>n, <1>1, <1>b, <1>5, <1>7, <1>8, <1>h DEF Lists
<1>12. Control'
  BY <1>0, <1>f, <1>n, <1>1, <1>b, <1>5, <1>7, <1>8, <1>h DEF Control, Closing
<1>13. Places'
  <2>1. (\A z \in Objs : Live(z) => z <= nObjs /\ z \notin FreeObjs)'
    BY <1>0, <1>f, <1>n, <1>1, <1>2, <1>4, <1>b, <1>5, <1>7, <1>8, <1>h
      DEF Places, Live, Closing, Control
  <2>2. (\A z \in Objs : ~Live(z) => (z \in FreeObjs <=> z <= nObjs))'
    BY <1>0, <1>f, <1>n, <1>1, <1>2, <1>4, <1>b, <1>5, <1>7, <1>8, <1>h
      DEF Places, Live, Closing, Control
  <2>3. (pCurBuffer \notin FreeBuffers)'
    BY <1>1, <1>b, <1>5, <1>7, <1>8, <1>h DEF Places, Live, Closing, Control
  <2>4. (\A z \in Objs : Live(z) => /\ job[z].buf \notin FreeBuffers
                                    /\ job[z].buf # pCurBuffer)'
    BY <1>0, <1>f, <1>n, <1>1, <1>b, <1>5, <1>7, <1>8, <1>h
      DEF Places, Live, Closing, Control
  <2>5. (\A z, y \in Objs : Live(z) /\ z # y => job[y].buf # job[z].buf)'
    BY <1>0, <1>f, <1>n, <1>1, <1>b, <1>5, <1>7, <1>8, <1>h
      DEF Places, Live, Closing, Control
  <2>6. (~Closing => /\ NThreads + 2 \notin FreeBuffers \cup {pCurBuffer}
                     /\ \A z \in Objs : job[z].buf # NThreads + 2
                     /\ content[NThreads + 2] = <<>>)'
    BY <1>0, <1>1, <1>5, <1>7, <1>h, <1>m
      DEF Places, Live, Closing, Control
  <2> QED BY <2>1, <2>2, <2>3, <2>4, <2>5, <2>6
    DEF Places
<1>14. TasksOnLive'
  BY <1>0, <1>f, <1>n, <1>1, <1>2, <1>3, <1>4, <1>b, <1>5, <1>7, <1>8, <1>h
    DEF TasksOnLive, Live, Writing, Submitting
<1>15. Stages'
  BY <1>0, <1>f, <1>n, <1>1, <1>2, <1>3, <1>4, <1>b, <1>5, <1>7, <1>8, <1>h
    DEF Stages, TasksOnLive, InHand, Live, Writing, Submitting, Deflating,
        InCRCTask, Low, High, Closing, GzipFormat
<1>16. InHand'
  BY <1>1, <1>b, <1>5, <1>7, <1>8, <1>h DEF InHand, Stages, Live, GzipFormat
<1>17. Chunks'
  BY <1>0, <1>1, <1>b, <1>5, <1>7, <1>8, <1>h
    DEF Chunks, Live, Low, High, Closing, GzipFormat
<1>18. Loops'
  BY <1>1, <1>b, <1>5, <1>7, <1>8, <1>h DEF Loops, Locked, GzipFormat
<1>19. Closes'
  BY <1>1, <1>b, <1>5, <1>7, <1>8, <1>h
    DEF Closes, Control, Closing, GzipFormat
<1>20. Contents'
  <2>1. (pCurBuffer # None => content[pCurBuffer] = Chunk(nSeqNumberGenerated))'
    BY <1>1, <1>4, <1>5, <1>8, <1>h, <1>e
      DEF Contents, InHand, Stages, Writing, Live, Closing, Places
  <2>2. (\A z \in Objs : Live(z) => content[job[z].buf] = Chunk(job[z].seq))'
    BY <1>0, <1>1, <1>4, <1>8, <1>h
      DEF Contents, Live
  <2>3. (\A z \in Finished : job[z].bytes = content[job[z].buf])'
    BY <1>0, <1>f, <1>1, <1>2, <1>8, <1>h
      DEF Contents, Stages
  <2>4. (\A z \in CRCFinished : job[z].crc = content[job[z].buf])'
    BY <1>0, <1>f, <1>1, <1>2, <1>8, <1>h
      DEF Contents, Stages
  <2>5. (pc = "writeChunk" => job[psJob].bytes = content[job[psJob].buf])'
    BY <1>5
      DEF Contents, InHand, Stages, Writing, Live, Closing, Places
  <2>6. (Closing => \A z \in Objs : Live(z) /\ job[z].seq = nSeqNumberGenerated =>
                        job[z].finish)'
    BY <1>1, <1>h
      DEF Closing
  <2> QED BY <2>1, <2>2, <2>3, <2>4, <2>5, <2>6
    DEF Contents
<1>21. Output'
  BY <1>0, <1>n, <1>1, <1>4, <1>b, <1>5, <1>7, <1>8, <1>h DEF Output
<1>22. Index'
  BY <1>0, <1>1, <1>b, <1>5, <1>7, <1>8, <1>h DEF Index
<1>23. Trailer'
  BY <1>0, <1>n, <1>1, <1>4, <1>b, <1>5, <1>7, <1>8, <1>h
    DEF Trailer, GzipFormat
<1>24. Errors'
  BY <1>0, <1>f, <1>n, <1>1, <1>b, <1>5, <1>7, <1>8, <1>h DEF Errors
<1> QED
  BY <1>3, <1>10, <1>11, <1>12, <1>13, <1>14, <1>15, <1>16, <1>17, <1>18,
     <1>19, <1>20, <1>21, <1>22, <1>23, <1>24
    DEF WriterInv

(* Write() puts its last bytes in the current buffer, which is not full.   *)
LEMMA ConsumePart ==
    ASSUME WriterInv,
           UNCHANGED nDeflateType,
           Consume,
           nSeqNumberGenerated' = nSeqNumberGenerated
    PROVE  WriterInv'
<1>0. /\ Types /\ Lists /\ PoolShape /\ Control /\ Places /\ TasksOnLive
      /\ Stages /\ InHand /\ Chunks /\ Loops /\ Closes /\ Contents
      /\ Output /\ Index /\ Trailer /\ Errors
  BY DEF WriterInv
<1>f. /\ Finished \subseteq Objs /\ CRCFinished \subseteq Objs
      /\ FreeObjs \subseteq Objs /\ FreeBuffers \subseteq Buffers
      /\ \A p \in Objs : job[p].seq \in Nat
  BY <1>0, Typed
<1>n. /\ nSeqNumberGenerated \in Nat /\ nSeqNumberExpected \in Nat
      /\ nSeqNumberExpectedCRC \in Nat /\ nErrors \in Nat /\ nObjs \in Nat
      /\ nCurOffset \in Nat /\ caller \in {"Write", "Close1", "Close2"}
      /\ nRet \in {0, -1} /\ pc \in Pcs
  BY <1>0 DEF Types
<1>x. PICK n \in Nat :
         /\ pCurBuffer \in Buffers
         /\ n <= nLeft
         /\ nCurOffset + n <= Start(nSeqNumberGenerated) + ChunkSize
         /\ n = ChunkSize - Len(content[pCurBuffer]) <=>
               nCurOffset + n = Start(nSeqNumberGenerated) + ChunkSize
         /\ n = IF nLeft < ChunkSize - Len(content[pCurBuffer]) THEN nLeft
                ELSE ChunkSize - Len(content[pCurBuffer])
         /\ content' \in [Buffers -> Seq(1..MaxBytes)]
         /\ \A b \in Buffers : b # pCurBuffer => content'[b] = content[b]
         /\ content'[pCurBuffer] =
               [i \in 1..(nCurOffset + n - Start(nSeqNumberGenerated)) |->
                   Start(nSeqNumberGenerated) + i]
         /\ nCurOffset' = nCurOffset + n /\ nLeft' = nLeft - n
  BY <1>0, ConsumeBytes
<1>p. PICK b \in Buffers : b = pCurBuffer
  BY <1>x
<1>a. PICK a \in Nat : a = Start(nSeqNumberGenerated)
  BY <1>n, Starts
<1>q. /\ pc = "write" /\ caller = "Write" /\ b # None
      /\ a <= nCurOffset /\ nCurOffset < a + ChunkSize /\ ChunkSize \in Nat
      /\ b \notin FreeBuffers /\ \A z \in Objs : job[z].buf # b
      /\ nSeqNumberExpected <= nSeqNumberGenerated
      /\ \A z \in Objs : Live(z) => job[z].seq < nSeqNumberGenerated
      /\ \A z \in Objs : Live(z) => job[z].buf \in Buffers
      /\ b # NThreads + 2
  <2>1. pc = "write"
    BY DEF Consume
  <2>2. caller = "Write" /\ a <= nCurOffset /\ nCurOffset < a + ChunkSize
    BY <1>0, <1>n, <1>a, <2>1 DEF Control, Closing
  <2>3. b # None
    BY <1>0, <1>p, Typed
  <2>4. b \notin FreeBuffers /\ b # NThreads + 2
    BY <1>0, <1>p, <2>2 DEF Places, Closing
  <2>5. \A z \in Objs : job[z].buf # b
    BY <1>0, <1>p, <2>3 DEF Places, Live
  <2>6. nSeqNumberExpected <= nSeqNumberGenerated
    BY <1>0, <1>n, <2>2 DEF Chunks, High, Closing
  <2>7. \A z \in Objs : Live(z) => job[z].seq < nSeqNumberGenerated
    BY <1>0, <1>f, <1>n, <2>2 DEF Stages, High, Closing
  <2>8. \A z \in Objs : Live(z) => job[z].buf \in Buffers
    BY <1>0, Typed DEF Live
  <2>9. ChunkSize \in Nat
    BY Starts
  <2> QED BY <2>1, <2>2, <2>3, <2>4, <2>5, <2>6, <2>7, <2>8, <2>9
<1>v. nCurOffset + n <= a + ChunkSize /\ n <= nLeft /\ n \in Nat
  BY <1>x, <1>a
<1>z. /\ nCurOffset' = nCurOffset + n /\ nLeft' = nLeft - n
      /\ content'[b] = [i \in 1..(nCurOffset + n - a) |-> a + i]
  BY <1>x, <1>a, <1>p
<1>s. PICK room : room = ChunkSize - Len(content[pCurBuffer])
  OBVIOUS
<1>r. n # room
  <2>1. nSeqNumberGenerated + 1 # nSeqNumberGenerated
    BY <1>n
  <2> QED BY <1>x, <1>s, <2>1 DEF Consume
<1>w. /\ pc' = "idle"
      /\ UNCHANGED <<poolVars, objOf, pCurBuffer, nSeqNumberGenerated, job, nObjs, apoFreeJobs>>
  BY <1>x, <1>s, <1>r DEF Consume
<1>1. UNCHANGED <<nDeflateType, caller, aposBuffers, pCurBuffer, job, nObjs,
                  nSeqNumberGenerated, nSeqNumberExpected,
                  nSeqNumberExpectedCRC, apoFinishedJobs, apoCRCFinishedJobs,
                  apoFreeJobs, doItAgain, psJob, nCRC, out, ended, trailer,
                  panSOZIPIndex, nErrors, bHasErrored, nRet, objOf, deleted>>
  BY <1>w DEF Consume, seqs, file, lists
<1>2. Finished' = Finished /\ CRCFinished' = CRCFinished /\ FreeObjs' = FreeObjs /\ FreeBuffers' = FreeBuffers
  BY <1>1 DEF Finished, CRCFinished, FreeObjs, FreeBuffers
<1>3. Pending' = Pending /\ PoolShape'
  <2>1. UNCHANGED <<queued, running, inline, done, pushed>>
    BY <1>w DEF poolVars, Consume
  <2> QED BY <1>0, <2>1 DEF Pending, PoolShape, QueuedJobs
<1>4. /\ \A c \in Nat : c < nSeqNumberGenerated => Chunk(c)' = Chunk(c)
      /\ \A c \in Nat : c <= nSeqNumberGenerated => EndBefore(c)' = EndBefore(c)
      /\ Chunk(nSeqNumberGenerated)' = content'[b]
  <2>1. ASSUME NEW c \in Nat, c < nSeqNumberGenerated PROVE Chunk(c)' = Chunk(c)
    BY <1>1, <2>1 DEF Chunk
  <2>2. ASSUME NEW c \in Nat, c <= nSeqNumberGenerated PROVE EndBefore(c)' = EndBefore(c)
    BY <1>1, <2>2 DEF EndBefore
  <2>3. Chunk(nSeqNumberGenerated)' = content'[b]
    <3>1. ~(nSeqNumberGenerated < nSeqNumberGenerated) /\ nSeqNumberGenerated' = nSeqNumberGenerated
      BY <1>n, <1>1
    <3>2. Start(nSeqNumberGenerated)' = a
      BY <1>a, <3>1 DEF Start
    <3>3. Chunk(nSeqNumberGenerated)' = [i \in 1..(nCurOffset' - a) |-> a + i]
      BY <3>1, <3>2 DEF Chunk
    <3>4. PICK m : m = nCurOffset' - a
      OBVIOUS
    <3>5. m = nCurOffset + n - a
      <4>1. nCurOffset' = nCurOffset + n
        BY <1>z
      <4> QED BY <1>n, <3>4, <4>1
    <3>6. content'[b] = [i \in 1..m |-> a + i]
      BY <1>z, <3>5
    <3>7. Chunk(nSeqNumberGenerated)' = [i \in 1..m |-> a + i]
      BY <3>3, <3>4
    <3> QED BY <3>6, <3>7
  <2> QED BY <2>1, <2>2, <2>3
<1>t. \A z \in Objs : Live(z) => content'[job[z].buf] = content[job[z].buf]
  BY <1>p, <1>x, <1>q
<1>5. /\ pc' = "idle" /\ content' \in [Buffers -> Seq(1..MaxBytes)]
      /\ nCurOffset' = nCurOffset + n /\ nLeft' = nLeft - n /\ n <= nLeft
      /\ nCurOffset + n < a + ChunkSize
  <2>1. nCurOffset + n # a + ChunkSize
    BY <1>x, <1>a, <1>s, <1>r
  <2>2. nCurOffset + n < a + ChunkSize
    BY <1>n, <1>a, <1>v, <1>q, <2>1
  <2>3. content' \in [Buffers -> Seq(1..MaxBytes)]
    BY <1>x
  <2> QED BY <1>v, <1>w, <1>z, <2>2, <2>3
<1>10. Types'
  <2>1. nCurOffset' \in Nat /\ nLeft' \in 0..MaxWrite /\ nCurOffset' + nLeft' <= MaxBytes
    <3>1. nLeft \in 0..MaxWrite /\ nCurOffset \in Nat /\ nCurOffset + nLeft <= MaxBytes
      BY <1>0 DEF Types
    <3> QED BY <1>v, <1>z, <3>1, GzipAssumption
  <2> QED BY <1>0, <1>1, <1>5, <2>1 DEF Types, Pcs
<1>11. Lists'
  BY <1>0, <1>1, <1>q, <1>5 DEF Lists
<1>12. Control'
  <2>1. Start(nSeqNumberGenerated)' = a
    BY <1>1, <1>a DEF Start
  <2> QED BY <1>0, <1>n, <1>1, <1>5, <1>q, <1>p, <1>a, <2>1
            DEF Control, Closing
<1>13. Places'
  <2>1. (\A z \in Objs : Live(z) => z <= nObjs /\ z \notin FreeObjs)'
    BY <1>0, <1>f, <1>n, <1>1, <1>2, <1>q, <1>5
      DEF Places, Live, Closing, Control
  <2>2. (\A z \in Objs : ~Live(z) => (z \in FreeObjs <=> z <= nObjs))'
    BY <1>0, <1>f, <1>n, <1>1, <1>2, <1>q, <1>5
      DEF Places, Live, Closing, Control
  <2>3. (pCurBuffer \notin FreeBuffers)'
    BY <1>0, <1>f, <1>n, <1>1, <1>2, <1>q, <1>5
      DEF Places, Live, Closing, Control
  <2>4. (\A z \in Objs : Live(z) => /\ job[z].buf \notin FreeBuffers
                                    /\ job[z].buf # pCurBuffer)'
    BY <1>0, <1>f, <1>n, <1>1, <1>2, <1>q, <1>5
      DEF Places, Live, Closing, Control
  <2>5. (\A z, y \in Objs : Live(z) /\ z # y => job[y].buf # job[z].buf)'
    BY <1>0, <1>1, <1>q, <1>5 DEF Places, Live, Closing, Control
  <2>6. (~Closing => /\ NThreads + 2 \notin FreeBuffers \cup {pCurBuffer}
                     /\ \A z \in Objs : job[z].buf # NThreads + 2
                     /\ content[NThreads + 2] = <<>>)'
    <3>1. NThreads + 2 \in Buffers
      BY NThreadsAssumption DEF Buffers
    <3>2. content'[NThreads + 2] = content[NThreads + 2]
      BY <1>x, <1>p, <1>q, <3>1
    <3> QED BY <1>0, <1>1, <1>2, <1>5, <3>2 DEF Places, Closing
  <2> QED BY <2>1, <2>2, <2>3, <2>4, <2>5, <2>6
    DEF Places
<1>14. TasksOnLive'
  BY <1>0, <1>f, <1>n, <1>1, <1>2, <1>3, <1>q, <1>5
    DEF TasksOnLive, Live, Writing, Submitting
<1>15. Stages'
  BY <1>0, <1>f, <1>n, <1>1, <1>2, <1>3, <1>q, <1>5
    DEF Stages, TasksOnLive, InHand, Live, Writing, Submitting, Deflating,
        InCRCTask, Low, High, Closing, GzipFormat
<1>16. InHand'
  BY <1>q, <1>5 DEF InHand, Stages, Live, GzipFormat
<1>17. Chunks'
  BY <1>0, <1>f, <1>n, <1>1, <1>q, <1>5
    DEF Chunks, Live, Low, High, Closing, GzipFormat
<1>18. Loops'
  BY <1>q, <1>5 DEF Loops, Locked, GzipFormat
<1>19. Closes'
  BY <1>0, <1>1, <1>q, <1>5 DEF Closes, Control, Closing, GzipFormat
<1>20. Contents'
  <2>1. (pCurBuffer # None => content[pCurBuffer] = Chunk(nSeqNumberGenerated))'
    BY <1>1, <1>4, <1>p
      DEF Contents, InHand, Stages, Writing, Live, Closing, Places
  <2>2. (\A z \in Objs : Live(z) => content[job[z].buf] = Chunk(job[z].seq))'
    BY <1>0, <1>f, <1>1, <1>4, <1>q, <1>t
      DEF Contents, Live
  <2>3. (\A z \in Finished : job[z].bytes = content[job[z].buf])'
    BY <1>0, <1>f, <1>1, <1>2, <1>t
      DEF Contents, Stages
  <2>4. (\A z \in CRCFinished : job[z].crc = content[job[z].buf])'
    BY <1>0, <1>f, <1>1, <1>2, <1>t
      DEF Contents, Stages
  <2>5. (pc = "writeChunk" => job[psJob].bytes = content[job[psJob].buf])'
    BY <1>5
      DEF Contents, InHand, Stages, Writing, Live, Closing, Places
  <2>6. (Closing => \A z \in Objs : Live(z) /\ job[z].seq = nSeqNumberGenerated =>
                        job[z].finish)'
    BY <1>1, <1>q
      DEF Closing
  <2> QED BY <2>1, <2>2, <2>3, <2>4, <2>5, <2>6
    DEF Contents
<1>21. Output'
  <2>1. EndBefore(nSeqNumberExpected)' = EndBefore(nSeqNumberExpected)
    BY <1>n, <1>1, <1>4, <1>q DEF EndBefore
  <2> QED BY <1>0, <1>n, <1>1, <1>q, <2>1 DEF Output
<1>22. Index'
  BY <1>0, <1>n, <1>1, <1>q, <1>5
    DEF Index
<1>23. Trailer'
  <2>1. GzipFormat => EndBefore(nSeqNumberExpectedCRC)' = EndBefore(nSeqNumberExpectedCRC)
    BY <1>0, <1>n, <1>1, <1>4, <1>q DEF EndBefore, Chunks
  <2> QED BY <1>0, <1>n, <1>1, <1>5, <1>q, <2>1 DEF Trailer, GzipFormat
<1>24. Errors'
  BY <1>0, <1>1, <1>q, <1>5 DEF Errors
<1> QED
  BY <1>3, <1>10, <1>11, <1>12, <1>13, <1>14, <1>15, <1>16, <1>17, <1>18,
     <1>19, <1>20, <1>21, <1>22, <1>23, <1>24
    DEF WriterInv

(* Write() fills the current buffer: a Job object takes it, and its        *)
(* deflate task is submitted.                                              *)
LEMMA ConsumeFull ==
    ASSUME WriterInv,
           UNCHANGED nDeflateType,
           Consume,
           nSeqNumberGenerated' # nSeqNumberGenerated
    PROVE  WriterInv'
<1>0. /\ Types /\ Lists /\ PoolShape /\ Control /\ Places /\ TasksOnLive
      /\ Stages /\ InHand /\ Chunks /\ Loops /\ Closes /\ Contents
      /\ Output /\ Index /\ Trailer /\ Errors
  BY DEF WriterInv
<1>f. /\ Finished \subseteq Objs /\ CRCFinished \subseteq Objs
      /\ FreeObjs \subseteq Objs /\ FreeBuffers \subseteq Buffers
      /\ \A p \in Objs : job[p].seq \in Nat
  BY <1>0, Typed
<1>n. /\ nSeqNumberGenerated \in Nat /\ nSeqNumberExpected \in Nat
      /\ nSeqNumberExpectedCRC \in Nat /\ nErrors \in Nat /\ nObjs \in Nat
      /\ nCurOffset \in Nat /\ caller \in {"Write", "Close1", "Close2"}
      /\ nRet \in {0, -1} /\ pc \in Pcs
  BY <1>0 DEF Types
<1>x. PICK n \in Nat :
         /\ pCurBuffer \in Buffers
         /\ n <= nLeft
         /\ nCurOffset + n <= Start(nSeqNumberGenerated) + ChunkSize
         /\ n = ChunkSize - Len(content[pCurBuffer]) <=>
               nCurOffset + n = Start(nSeqNumberGenerated) + ChunkSize
         /\ n = IF nLeft < ChunkSize - Len(content[pCurBuffer]) THEN nLeft
                ELSE ChunkSize - Len(content[pCurBuffer])
         /\ content' \in [Buffers -> Seq(1..MaxBytes)]
         /\ \A b \in Buffers : b # pCurBuffer => content'[b] = content[b]
         /\ content'[pCurBuffer] =
               [i \in 1..(nCurOffset + n - Start(nSeqNumberGenerated)) |->
                   Start(nSeqNumberGenerated) + i]
         /\ nCurOffset' = nCurOffset + n /\ nLeft' = nLeft - n
  BY <1>0, ConsumeBytes
<1>p. PICK b \in Buffers : b = pCurBuffer
  BY <1>x
<1>a. PICK a \in Nat : a = Start(nSeqNumberGenerated)
  BY <1>n, Starts
<1>q. /\ pc = "write" /\ caller = "Write" /\ b # None
      /\ a <= nCurOffset /\ nCurOffset < a + ChunkSize /\ ChunkSize \in Nat
      /\ b \notin FreeBuffers /\ \A z \in Objs : job[z].buf # b
      /\ nSeqNumberExpected <= nSeqNumberGenerated
      /\ \A z \in Objs : Live(z) => job[z].seq < nSeqNumberGenerated
      /\ \A z \in Objs : Live(z) => job[z].buf \in Buffers
      /\ b # NThreads + 2
  <2>1. pc = "write"
    BY DEF Consume
  <2>2. caller = "Write" /\ a <= nCurOffset /\ nCurOffset < a + ChunkSize
    BY <1>0, <1>n, <1>a, <2>1 DEF Control, Closing
  <2>3. b # None
    BY <1>0, <1>p, Typed
  <2>4. b \notin FreeBuffers /\ b # NThreads + 2
    BY <1>0, <1>p, <2>2 DEF Places, Closing
  <2>5. \A z \in Objs : job[z].buf # b
    BY <1>0, <1>p, <2>3 DEF Places, Live
  <2>6. nSeqNumberExpected <= nSeqNumberGenerated
    BY <1>0, <1>n, <2>2 DEF Chunks, High, Closing
  <2>7. \A z \in Objs : Live(z) => job[z].seq < nSeqNumberGenerated
    BY <1>0, <1>f, <1>n, <2>2 DEF Stages, High, Closing
  <2>8. \A z \in Objs : Live(z) => job[z].buf \in Buffers
    BY <1>0, Typed DEF Live
  <2>9. ChunkSize \in Nat
    BY Starts
  <2> QED BY <2>1, <2>2, <2>3, <2>4, <2>5, <2>6, <2>7, <2>8, <2>9
<1>v. nCurOffset + n <= a + ChunkSize /\ n <= nLeft /\ n \in Nat
  BY <1>x, <1>a
<1>z. /\ nCurOffset' = nCurOffset + n /\ nLeft' = nLeft - n
      /\ content'[b] = [i \in 1..(nCurOffset + n - a) |-> a + i]
  BY <1>x, <1>a, <1>p
<1>s. PICK room : room = ChunkSize - Len(content[pCurBuffer])
  OBVIOUS
<1>r. n = room
  BY <1>x, <1>s DEF Consume
<1>w. /\ GetJobObject(b, FALSE, <<>>)
      /\ nSeqNumberGenerated' = nSeqNumberGenerated + 1
      /\ pCurBuffer' = None
      /\ SubmitTask("deflate", nSeqNumberGenerated, NewObj)
      /\ pc' = IF nLeft = n THEN "idle" ELSE "getBuffer"
  BY <1>x, <1>p, <1>s, <1>r DEF Consume
<1>y. PICK o : o = NewObj
  OBVIOUS
<1>o. /\ o \in Objs /\ ~Live(o)
      /\ o \notin Finished /\ o \notin CRCFinished
      /\ apoFreeJobs' \in Seq(Objs) /\ IsInjective(apoFreeJobs')
      /\ FreeObjs' = FreeObjs \ {o}
      /\ nObjs' \in 0..NThreads + 2 /\ o <= nObjs'
      /\ \A z \in Objs : z # o => (z <= nObjs' <=> z <= nObjs)
      /\ job' \in [Objs -> JobType]
      /\ \A z \in Objs : z # o => job'[z] = job[z]
      /\ job'[o].seq = nSeqNumberGenerated /\ job'[o].buf = b
      /\ job'[o].inCRC = FALSE
  <2>1. FALSE \in BOOLEAN /\ <<>> \in Seq(Nat)
    OBVIOUS
  <2> QED BY <1>0, <1>y, <1>q, <1>w, <2>1, NewObject
<1>u. PICK t : t = <<"deflate", nSeqNumberGenerated>>
  OBVIOUS
<1>1. UNCHANGED <<nDeflateType, caller, aposBuffers, nSeqNumberExpected,
                  nSeqNumberExpectedCRC, apoFinishedJobs, apoCRCFinishedJobs,
                  doItAgain, psJob, nCRC, out, ended, trailer, panSOZIPIndex,
                  nErrors, bHasErrored, nRet, deleted>>
  BY DEF Consume, file
<1>2. Finished' = Finished /\ CRCFinished' = CRCFinished /\ FreeBuffers' = FreeBuffers
  BY <1>1 DEF Finished, CRCFinished, FreeBuffers
<1>3. t \in Jobs /\ t \notin Pending /\ Pending' = Pending \cup {t} /\ PoolShape'
  <2>1. Submit(<<t>>) /\ UNCHANGED pushed
    BY <1>w, <1>u DEF SubmitTask, Consume
  <2> QED BY <1>0, <2>1, SubmitAddsPending
<1>g. nCurOffset' = Start(nSeqNumberGenerated') /\ Start(nSeqNumberGenerated') = a + ChunkSize
  <2>1. Start(nSeqNumberGenerated + 1) = a + ChunkSize
    BY <1>n, <1>a, Starts
  <2> QED BY <1>x, <1>a, <1>s, <1>r, <1>w, <2>1
<1>4. /\ \A c \in Nat : c < nSeqNumberGenerated => Chunk(c)' = Chunk(c)
      /\ \A c \in Nat : c <= nSeqNumberGenerated => EndBefore(c)' = EndBefore(c)
      /\ [i \in 1..ChunkSize |-> a + i] = content'[b]
  <2>1. ASSUME NEW c \in Nat, c < nSeqNumberGenerated PROVE Chunk(c)' = Chunk(c)
    <3>1. c < nSeqNumberGenerated'
      BY <1>n, <1>w, <2>1
    <3> QED BY <2>1, <3>1 DEF Chunk
  <2>2. ASSUME NEW c \in Nat, c <= nSeqNumberGenerated PROVE EndBefore(c)' = EndBefore(c)
    <3>1. c <= nSeqNumberGenerated'
      BY <1>n, <1>w, <2>2
    <3> QED BY <2>2, <3>1 DEF EndBefore
  <2>3. [i \in 1..ChunkSize |-> a + i] = content'[b]
    <3>1. nCurOffset + n = a + ChunkSize
      BY <1>a, <1>x, <1>s, <1>r
    <3>2. nCurOffset + n - a = ChunkSize
      BY <1>n, <1>a, <1>v, <1>q, <3>1
    <3> QED BY <1>z, <3>2
  <2> QED BY <2>1, <2>2, <2>3
<1>k. \A k \in {"deflate", "crc"}, c \in Nat : <<k, c>> = t <=> k = "deflate" /\ c = nSeqNumberGenerated
  BY <1>u, <1>n
<1>h. \A z \in Objs : Live(z) => content'[job[z].buf] = content[job[z].buf]
  BY <1>p, <1>x, <1>q
<1>5. /\ pc' \in {"idle", "getBuffer"} /\ content' \in [Buffers -> Seq(1..MaxBytes)]
      /\ nCurOffset' = nCurOffset + n /\ nLeft' = nLeft - n /\ n <= nLeft
      /\ pCurBuffer' = None /\ nSeqNumberGenerated' = nSeqNumberGenerated + 1
  BY <1>x, <1>w
<1>6. /\ objOf'[t] = o /\ \A z \in Jobs : z # t => objOf'[z] = objOf[z]
      /\ objOf' \in [Jobs -> Objs \cup {None}]
  <2>1. objOf' = [objOf EXCEPT ![t] = o]
    BY <1>w, <1>y, <1>u DEF SubmitTask
  <2> QED BY <1>0, <1>3, <1>o, <2>1 DEF Types
<1>j. Pending \subseteq Jobs
  BY <1>0, PendingJobs
<1>d. /\ \A z \in Objs : z # o /\ Deflating(z) => Deflating(z)'
      /\ \A z \in Objs : z # o /\ InCRCTask(z) => InCRCTask(z)'
      /\ Deflating(o)'
  <2>1. ASSUME NEW z \in Objs, z # o, Deflating(z) PROVE Deflating(z)'
    <3>1. <<"deflate", job[z].seq>> \in Pending /\ <<"deflate", job[z].seq>> # t
      BY <1>3, <2>1 DEF Deflating
    <3> QED BY <1>o, <1>j, <1>3, <1>6, <2>1, <3>1 DEF Deflating
  <2>2. ASSUME NEW z \in Objs, z # o, InCRCTask(z) PROVE InCRCTask(z)'
    <3>1. <<"crc", job[z].seq>> \in Pending /\ <<"crc", job[z].seq>> # t
      BY <1>3, <2>2 DEF InCRCTask
    <3> QED BY <1>o, <1>j, <1>3, <1>6, <2>2, <3>1 DEF InCRCTask
  <2>3. Deflating(o)'
    BY <1>o, <1>u, <1>3, <1>6 DEF Deflating
  <2> QED BY <2>1, <2>2, <2>3
<1>9. job' \in [Objs -> JobType]
  BY <1>o
<1>10. Types'
  <2>1. nCurOffset' \in Nat /\ nLeft' \in 0..MaxWrite /\ nCurOffset' + nLeft' <= MaxBytes
    <3>1. nLeft \in 0..MaxWrite /\ nCurOffset \in Nat /\ nCurOffset + nLeft <= MaxBytes
      BY <1>0 DEF Types
    <3> QED BY <1>v, <1>z, <3>1, GzipAssumption
  <2>2. nSeqNumberGenerated' \in Nat /\ pc' \in Pcs
    BY <1>n, <1>5 DEF Pcs
  <2> QED BY <1>0, <1>1, <1>5, <1>6, <1>o, <2>1, <2>2 DEF Types
<1>11. Lists'
  BY <1>0, <1>1, <1>q, <1>5, <1>o DEF Lists
<1>12. Control'
  <2>1. Start(nSeqNumberGenerated)' = a + ChunkSize /\ nCurOffset' = a + ChunkSize
    BY <1>g DEF Start
  <2>2. ChunkSize > 0
    BY Starts
  <2>3. a + ChunkSize < (a + ChunkSize) + ChunkSize
    BY <1>g, <2>2, Starts
  <2>4. /\ (Start(nSeqNumberGenerated) <= nCurOffset)'
        /\ (nCurOffset < Start(nSeqNumberGenerated) + ChunkSize)'
        /\ (nCurOffset = Start(nSeqNumberGenerated))'
    BY <1>g, <2>1, <2>2, <2>3, Starts
  <2> QED BY <1>0, <1>1, <1>5, <1>q, <2>4 DEF Control, Closing
<1>13. Places'
  <2>1. (\A z \in Objs : Live(z) => z <= nObjs /\ z \notin FreeObjs)'
    BY <1>0, <1>o
      DEF Places, Live
  <2>2. (\A z \in Objs : ~Live(z) => (z \in FreeObjs <=> z <= nObjs))'
    BY <1>0, <1>f, <1>o, <1>q
      DEF Places, Live
  <2>3. (pCurBuffer \notin FreeBuffers)'
    <3>1. None \notin FreeBuffers
      BY <1>0, Typed
    <3> QED BY <1>2, <1>5, <3>1
  <2>4. (\A z \in Objs : Live(z) => /\ job[z].buf \notin FreeBuffers
                                    /\ job[z].buf # pCurBuffer)'
    <3>1. \A z \in Objs : z # o => (Live(z)' <=> Live(z))
      BY <1>o DEF Live
    <3> QED BY <1>0, <1>2, <1>o, <1>q, <1>5, <3>1 DEF Places, Live
  <2>5. (\A z, y \in Objs : Live(z) /\ z # y => job[y].buf # job[z].buf)'
    BY <1>0, <1>o, <1>q
      DEF Places, Live
  <2>6. (~Closing => /\ NThreads + 2 \notin FreeBuffers \cup {pCurBuffer}
                     /\ \A z \in Objs : job[z].buf # NThreads + 2
                     /\ content[NThreads + 2] = <<>>)'
    <3>1. NThreads + 2 \in Buffers /\ None # NThreads + 2
      BY NThreadsAssumption DEF Buffers, None
    <3>2. content'[NThreads + 2] = content[NThreads + 2]
      BY <1>x, <1>p, <1>q, <3>1
    <3>3. \A z \in Objs : job'[z].buf # NThreads + 2
      BY <1>0, <1>o, <1>q DEF Places, Closing
    <3> QED BY <1>0, <1>1, <1>2, <1>5, <1>q, <3>1, <3>2, <3>3
              DEF Places, Closing
  <2> QED BY <2>1, <2>2, <2>3, <2>4, <2>5, <2>6
    DEF Places
<1>14. TasksOnLive'
  <2>1. ASSUME NEW c \in 0..MaxChunks, <<"deflate", c>> \in Pending'
        PROVE  (\E z \in Objs :
                  /\ objOf[<<"deflate", c>>] = z
                  /\ Live(z) /\ job[z].seq = c
                  /\ nSeqNumberExpected <= c
                  /\ ~job[z].inCRC
                  /\ z \notin Finished /\ ~Writing(z))'
    <3>1. CASE <<"deflate", c>> = t
      <4>1. c = nSeqNumberGenerated
        BY <1>k, <3>1
      <4> QED BY <1>o, <1>q, <1>1, <1>2, <1>5, <1>6, <3>1, <4>1
                DEF Live, Writing
    <3>2. CASE <<"deflate", c>> # t
      <4>1. <<"deflate", c>> \in Pending /\ objOf'[<<"deflate", c>>] = objOf[<<"deflate", c>>]
        BY <1>j, <1>3, <1>6, <2>1, <3>2
      <4>2. PICK z \in Objs : /\ objOf[<<"deflate", c>>] = z
                              /\ Live(z) /\ job[z].seq = c
                              /\ nSeqNumberExpected <= c
                              /\ ~job[z].inCRC
                              /\ z \notin Finished
        BY <1>0, <4>1 DEF TasksOnLive
      <4>3. z # o
        BY <1>o, <4>2
      <4> QED BY <1>o, <1>1, <1>2, <1>5, <4>1, <4>2, <4>3 DEF Live, Writing
    <3> QED BY <3>1, <3>2
  <2>2. ASSUME NEW c \in 0..MaxChunks, <<"crc", c>> \in Pending'
        PROVE  (\E z \in Objs :
                  /\ objOf[<<"crc", c>>] = z
                  /\ Live(z) /\ job[z].seq = c
                  /\ job[z].inCRC
                  /\ z \notin CRCFinished /\ ~Submitting(z))'
    <3>1. <<"crc", c>> # t
      BY <1>k
    <3>2. <<"crc", c>> \in Pending /\ objOf'[<<"crc", c>>] = objOf[<<"crc", c>>]
      BY <1>j, <1>3, <1>6, <2>2, <3>1
    <3>3. PICK z \in Objs : /\ objOf[<<"crc", c>>] = z
                            /\ Live(z) /\ job[z].seq = c
                            /\ job[z].inCRC /\ z \notin CRCFinished
      BY <1>0, <3>2 DEF TasksOnLive
    <3>4. z # o
      BY <1>o, <3>3
    <3> QED BY <1>o, <1>1, <1>2, <1>5, <3>2, <3>3, <3>4 DEF Live, Submitting
  <2> QED BY <2>1, <2>2 DEF TasksOnLive
<1>15. Stages'
  <2>1. (\A z \in Objs : Live(z) => Low <= job[z].seq /\ job[z].seq <= High)'
    <3>1. SUFFICES ASSUME NEW z \in Objs, Live(z)'
                   PROVE  (Low <= job[z].seq /\ job[z].seq <= High)'
      BY <1>1
    <3>2. Low' = Low /\ Low <= nSeqNumberExpected /\ Low \in Nat
      BY <1>0, <1>n, <1>1 DEF Low, GzipFormat, Chunks
    <3>3. High' = nSeqNumberGenerated
      BY <1>n, <1>1, <1>5, <1>q DEF High, Closing
    <3>4. CASE z = o
      BY <1>n, <1>o, <1>q, <3>2, <3>3, <3>4
    <3>5. CASE z # o
      <4>1. job'[z] = job[z] /\ Live(z)
        BY <1>o, <3>1, <3>5 DEF Live
      <4>2. Low <= job[z].seq /\ job[z].seq < nSeqNumberGenerated
        BY <1>0, <1>q, <4>1 DEF Stages
      <4> QED BY <1>f, <1>n, <3>2, <3>3, <4>1, <4>2
    <3> QED BY <3>4, <3>5
  <2>2. (\A z \in Objs : Live(z) /\ job[z].seq < nSeqNumberExpected =>
            job[z].inCRC /\ z \notin Finished)'
    BY <1>0, <1>f, <1>n, <1>1, <1>2, <1>o, <1>q DEF Stages, Live
  <2>3. (\A z \in Objs : Live(z) /\ nSeqNumberExpected <= job[z].seq =>
            Deflating(z) \/ z \in Finished \/ Writing(z))'
    <3>1. ASSUME NEW z \in Objs, Live(z)', nSeqNumberExpected' <= job'[z].seq
          PROVE  Deflating(z)' \/ z \in Finished'
      <4>1. CASE z = o
        BY <1>d, <4>1
      <4>2. CASE z # o
        <5>1. Live(z) /\ nSeqNumberExpected <= job[z].seq
          BY <1>1, <1>o, <3>1, <4>2 DEF Live
        <5>2. Deflating(z) \/ z \in Finished
          BY <1>0, <1>q, <5>1 DEF Stages, Writing
        <5> QED BY <1>2, <1>d, <4>2, <5>2
      <4> QED BY <4>1, <4>2
    <3> QED BY <3>1
  <2>4. (\A z \in Objs : Live(z) /\ job[z].inCRC =>
            GzipFormat /\ (Submitting(z) \/ InCRCTask(z) \/ z \in CRCFinished))'
    <3>1. ASSUME NEW z \in Objs, Live(z)', job'[z].inCRC
          PROVE  GzipFormat' /\ (InCRCTask(z)' \/ z \in CRCFinished')
      <4>1. z # o
        BY <1>o, <3>1
      <4>2. Live(z) /\ job[z].inCRC
        BY <1>o, <3>1, <4>1 DEF Live
      <4>3. GzipFormat /\ (InCRCTask(z) \/ z \in CRCFinished)
        BY <1>0, <1>q, <4>2 DEF Stages, Submitting
      <4> QED BY <1>1, <1>2, <1>d, <4>1, <4>3 DEF GzipFormat
    <3> QED BY <3>1
  <2>5. (\A z \in Finished : Live(z) /\ ~Writing(z))'
    BY <1>0, <1>f, <1>2, <1>5, <1>o
      DEF Stages, Live, Writing
  <2>6. (\A z \in CRCFinished : Live(z) /\ job[z].inCRC /\ ~Submitting(z))'
    BY <1>0, <1>f, <1>2, <1>5, <1>o
      DEF Stages, Live, Submitting
  <2> QED BY <2>1, <2>2, <2>3, <2>4, <2>5, <2>6
    DEF Stages
<1>16. InHand'
  BY <1>q, <1>5, <1>o DEF InHand, Stages, Live, GzipFormat
<1>17. Chunks'
  <2>1. (\A z, y \in Objs : Live(z) /\ Live(y) /\ job[z].seq = job[y].seq => z = y)'
    <3>1. \A z \in Objs : z # o => (Live(z)' <=> Live(z)) /\ job'[z].seq = job[z].seq
      BY <1>o DEF Live
    <3>2. \A z \in Objs : z # o /\ Live(z)' => job'[z].seq # job'[o].seq
      BY <1>f, <1>n, <1>o, <1>q, <3>1
    <3> QED BY <1>0, <3>1, <3>2 DEF Chunks
  <2>2. (\A c \in Nat : Low <= c /\ c <= High => \E z \in Objs : Live(z) /\ job[z].seq = c)'
    <3>1. SUFFICES ASSUME NEW c \in Nat, Low' <= c, c <= High'
                   PROVE  \E z \in Objs : Live(z)' /\ job'[z].seq = c
      OBVIOUS
    <3>2. CASE c = nSeqNumberGenerated
      BY <1>o, <1>q, <3>2 DEF Live
    <3>3. CASE c # nSeqNumberGenerated
      <4>1. Low <= c /\ c <= High
        BY <1>n, <1>1, <1>5, <1>q, <3>1, <3>3 DEF Low, High, Closing, GzipFormat
      <4>2. PICK z \in Objs : Live(z) /\ job[z].seq = c
        BY <1>0, <4>1 DEF Chunks
      <4> QED BY <1>o, <4>2 DEF Live
    <3> QED BY <3>2, <3>3
  <2>3. (nSeqNumberExpected <= High + 1)'
    BY <1>n, <1>1, <1>5, <1>q
      DEF High, Closing
  <2>4. (GzipFormat => nSeqNumberExpectedCRC <= nSeqNumberExpected)'
    BY <1>0, <1>1
      DEF Chunks, GzipFormat
  <2> QED BY <2>1, <2>2, <2>3, <2>4
    DEF Chunks
<1>18. Loops'
  BY <1>q, <1>5, <1>o DEF Loops, Locked, GzipFormat
<1>19. Closes'
  BY <1>0, <1>1, <1>q, <1>5, <1>o DEF Closes, Control, Closing, GzipFormat
<1>20. Contents'
  <2>1. (pCurBuffer # None => content[pCurBuffer] = Chunk(nSeqNumberGenerated))'
    BY <1>5
      DEF Contents, InHand, Stages, Writing, Live, Closing, Places
  <2>2. (\A z \in Objs : Live(z) => content[job[z].buf] = Chunk(job[z].seq))'
    <3>1. ASSUME NEW z \in Objs, Live(z)'
          PROVE  content'[job'[z].buf] = (Chunk(job[z].seq))'
      <4>1. CASE z = o
        <5>1. nSeqNumberGenerated < nSeqNumberGenerated'
          BY <1>n, <1>5
        <5>2. job'[z].seq = nSeqNumberGenerated /\ job'[z].buf = b
          BY <1>o, <4>1
        <5>3. (Chunk(job[z].seq))' = [i \in 1..ChunkSize |-> Start(nSeqNumberGenerated) + i]
          BY <5>1, <5>2 DEF Chunk, Start
        <5> QED BY <1>4, <1>a, <5>2, <5>3
      <4>2. CASE z # o
        <5>1. Live(z) /\ job'[z] = job[z] /\ job[z].seq < nSeqNumberGenerated /\ job[z].seq \in Nat
          BY <1>f, <1>o, <1>q, <3>1, <4>2 DEF Live
        <5>3. PICK c \in Nat : c = job[z].seq
          BY <5>1
        <5>4. Chunk(c)' = Chunk(c)
          BY <1>4, <5>1, <5>3
        <5>5. content'[job[z].buf] = Chunk(c)
          BY <1>0, <1>h, <5>1, <5>3 DEF Contents
        <5> QED BY <5>1, <5>3, <5>4, <5>5
      <4> QED BY <4>1, <4>2
    <3> QED BY <3>1
  <2>3. (\A z \in Finished : job[z].bytes = content[job[z].buf])'
    BY <1>0, <1>f, <1>o, <1>1, <1>2, <1>h
      DEF Contents, Stages
  <2>4. (\A z \in CRCFinished : job[z].crc = content[job[z].buf])'
    BY <1>0, <1>f, <1>o, <1>1, <1>2, <1>h
      DEF Contents, Stages
  <2>5. (pc = "writeChunk" => job[psJob].bytes = content[job[psJob].buf])'
    BY <1>5
      DEF Contents, InHand, Stages, Writing, Live, Closing, Places
  <2>6. (Closing => \A z \in Objs : Live(z) /\ job[z].seq = nSeqNumberGenerated =>
                        job[z].finish)'
    BY <1>1, <1>q
      DEF Closing
  <2> QED BY <2>1, <2>2, <2>3, <2>4, <2>5, <2>6
    DEF Contents
<1>21. Output'
  <2>1. EndBefore(nSeqNumberExpected)' = EndBefore(nSeqNumberExpected)
    <3>1. nSeqNumberExpected <= nSeqNumberGenerated' /\ nSeqNumberExpected' = nSeqNumberExpected
      BY <1>n, <1>1, <1>5, <1>q
    <3> QED BY <1>q, <3>1 DEF EndBefore, Start
  <2>2. nSeqNumberExpected' # nSeqNumberGenerated' + 1
    BY <1>n, <1>1, <1>5, <1>q
  <2> QED BY <1>0, <1>1, <2>1, <2>2 DEF Output
<1>22. Index'
  BY <1>0, <1>n, <1>1, <1>q, <1>5, <1>o
    DEF Index
<1>23. Trailer'
  <2>1. GzipFormat => EndBefore(nSeqNumberExpectedCRC)' = EndBefore(nSeqNumberExpectedCRC)
    <3>1. GzipFormat => nSeqNumberExpectedCRC <= nSeqNumberGenerated
                        /\ nSeqNumberExpectedCRC <= nSeqNumberGenerated'
      BY <1>0, <1>n, <1>5, <1>q DEF Chunks
    <3> QED BY <1>1, <3>1 DEF EndBefore, Start
  <2> QED BY <1>0, <1>n, <1>1, <1>5, <1>q, <2>1 DEF Trailer, GzipFormat
<1>24. Errors'
  BY <1>0, <1>1, <1>q, <1>5, <1>o DEF Errors
<1> QED
  BY <1>3, <1>10, <1>11, <1>12, <1>13, <1>14, <1>15, <1>16, <1>17, <1>18,
     <1>19, <1>20, <1>21, <1>22, <1>23, <1>24
    DEF WriterInv

(* Close() compresses what the current buffer has, or an empty buffer, as  *)
(* the last chunk, and puts its object in the list of finished jobs.       *)
LEMMA CloseKeeps ==
    ASSUME WriterInv,
           UNCHANGED nDeflateType,
           Close
    PROVE  WriterInv'
<1>0. /\ Types /\ Lists /\ PoolShape /\ Control /\ Places /\ TasksOnLive
      /\ Stages /\ InHand /\ Chunks /\ Loops /\ Closes /\ Contents
      /\ Output /\ Index /\ Trailer /\ Errors
  BY DEF WriterInv
<1>f. /\ Finished \subseteq Objs /\ CRCFinished \subseteq Objs
      /\ FreeObjs \subseteq Objs /\ FreeBuffers \subseteq Buffers
      /\ \A p \in Objs : job[p].seq \in Nat
  BY <1>0, Typed
<1>n. /\ nSeqNumberGenerated \in Nat /\ nSeqNumberExpected \in Nat
      /\ nSeqNumberExpectedCRC \in Nat /\ nErrors \in Nat /\ nObjs \in Nat
      /\ nCurOffset \in Nat /\ caller \in {"Write", "Close1", "Close2"}
      /\ nRet \in {0, -1} /\ pc \in Pcs
  BY <1>0 DEF Types
<1>q. /\ pc = "idle" /\ caller = "Write" /\ ~Closing
      /\ nSeqNumberExpected <= nSeqNumberGenerated
      /\ \A z \in Objs : Live(z) => job[z].seq < nSeqNumberGenerated
      /\ \A z \in Objs : Live(z) => job[z].buf \in Buffers
  <2>1. pc = "idle"
    BY DEF Close
  <2>2. caller = "Write" /\ ~Closing
    BY <1>0, <1>n, <2>1 DEF Control, Closing
  <2>3. nSeqNumberExpected <= nSeqNumberGenerated
    BY <1>0, <1>n, <2>2 DEF Chunks, High
  <2>4. \A z \in Objs : Live(z) => job[z].seq < nSeqNumberGenerated
    BY <1>0, <1>f, <1>n, <2>2 DEF Stages, High
  <2>5. \A z \in Objs : Live(z) => job[z].buf \in Buffers
    BY <1>0, Typed DEF Live
  <2> QED BY <2>1, <2>2, <2>3, <2>4, <2>5
<1>b. PICK b : b = IF pCurBuffer = None THEN NThreads + 2 ELSE pCurBuffer
  OBVIOUS
<1>m. NThreads + 2 \in Buffers /\ None # NThreads + 2
  BY NThreadsAssumption DEF Buffers, None
<1>p. /\ b \in Buffers /\ b # None /\ b \notin FreeBuffers
      /\ \A z \in Objs : job[z].buf # b
  <2>1. CASE pCurBuffer = None
    BY <1>0, <1>b, <1>m, <1>q, <2>1 DEF Places
  <2>2. CASE pCurBuffer # None
    <3>1. b = pCurBuffer /\ b \in Buffers
      BY <1>0, <1>b, <2>2 DEF Types
    <3> QED BY <1>0, <2>2, <3>1 DEF Places, Live
  <2> QED BY <2>1, <2>2
<1>e. content[b] = Chunk(nSeqNumberGenerated)
  <2>1. CASE pCurBuffer = None
    <3>1. nCurOffset = Start(nSeqNumberGenerated) /\ content[b] = <<>>
      BY <1>0, <1>b, <1>q, <2>1 DEF Control, Places
    <3>2. nCurOffset - Start(nSeqNumberGenerated) = 0 /\ ~(nSeqNumberGenerated < nSeqNumberGenerated)
      BY <1>n, <3>1
    <3>3. Chunk(nSeqNumberGenerated) = [i \in 1..0 |-> Start(nSeqNumberGenerated) + i]
      BY <3>2 DEF Chunk
    <3>4. 1..0 = {}
      OBVIOUS
    <3> QED BY <3>1, <3>3, <3>4
  <2>2. CASE pCurBuffer # None
    BY <1>0, <1>b, <2>2 DEF Contents
  <2> QED BY <2>1, <2>2
<1>w. PICK bs \in Seq(Nat) : bs = content[b]
  BY <1>0, <1>p, ContentBytes
<1>g. GetJobObject(b, TRUE, bs) /\ apoFinishedJobs' = Append(apoFinishedJobs, NewObj)
  BY <1>b, <1>w DEF Close
<1>y. PICK o : o = NewObj
  OBVIOUS
<1>o. /\ o \in Objs /\ ~Live(o)
      /\ o \notin Finished /\ o \notin CRCFinished
      /\ apoFreeJobs' \in Seq(Objs) /\ IsInjective(apoFreeJobs')
      /\ FreeObjs' = FreeObjs \ {o}
      /\ nObjs' \in 0..NThreads + 2 /\ o <= nObjs'
      /\ \A z \in Objs : z # o => (z <= nObjs' <=> z <= nObjs)
      /\ job' \in [Objs -> JobType]
      /\ \A z \in Objs : z # o => job'[z] = job[z]
      /\ job'[o].seq = nSeqNumberGenerated /\ job'[o].buf = b
      /\ job'[o].inCRC = FALSE /\ job'[o].bytes = bs /\ job'[o].finish
  <2>1. TRUE \in BOOLEAN
    OBVIOUS
  <2> QED BY <1>0, <1>y, <1>p, <1>g, <2>1, NewObject
<1>1. UNCHANGED <<nDeflateType, nLeft, nCurOffset, content, aposBuffers,
                  nSeqNumberGenerated, nSeqNumberExpected,
                  nSeqNumberExpectedCRC, apoCRCFinishedJobs, doItAgain,
                  psJob, nCRC, out, ended, trailer, panSOZIPIndex, nErrors,
                  bHasErrored, nRet, objOf, deleted>>
  BY DEF Close, seqs, file
<1>2. CRCFinished' = CRCFinished /\ FreeBuffers' = FreeBuffers
  BY <1>1 DEF CRCFinished, FreeBuffers
<1>3. Pending' = Pending /\ PoolShape'
  BY <1>0
    DEF Close, Pending, PoolShape, QueuedJobs, poolVars
<1>4. \A c : Chunk(c)' = Chunk(c) /\ EndBefore(c)' = EndBefore(c)
  BY <1>1 DEF Chunk, EndBefore
<1>5. pc' = "waitCompletion" /\ caller' = "Close1" /\ pCurBuffer' = None
  BY DEF Close
<1>6. /\ apoFinishedJobs' \in Seq(Objs) /\ IsInjective(apoFinishedJobs')
      /\ Finished' = Finished \cup {o}
  BY <1>0, <1>g, <1>y, <1>o, ListAppend DEF Lists, Finished
<1>7. /\ \A z \in Objs : z # o => (Live(z)' <=> Live(z)) /\ job'[z] = job[z]
      /\ Live(o)'
  BY <1>o, <1>p DEF Live
<1>d. /\ \A z \in Objs : z # o /\ Deflating(z) => Deflating(z)'
      /\ \A z \in Objs : z # o /\ InCRCTask(z) => InCRCTask(z)'
  BY <1>1, <1>3, <1>7 DEF Deflating, InCRCTask
<1>h. PICK e \in Nat : e = nSeqNumberGenerated /\ content[b] = Chunk(e)
  BY <1>n, <1>e
<1>9. job' \in [Objs -> JobType]
  BY <1>o
<1>10. Types'
  BY <1>0, <1>1, <1>5, <1>o DEF Types, Pcs
<1>11. Lists'
  BY <1>0, <1>1, <1>6, <1>o DEF Lists
<1>12. Control'
  BY <1>0, <1>1, <1>5, <1>q DEF Control, Closing, Start
<1>13. Places'
  <2>1. (\A z \in Objs : Live(z) => z <= nObjs /\ z \notin FreeObjs)'
    BY <1>0, <1>o, <1>7
      DEF Places
  <2>2. (\A z \in Objs : ~Live(z) => (z \in FreeObjs <=> z <= nObjs))'
    BY <1>0, <1>f, <1>o, <1>7
      DEF Places
  <2>3. (pCurBuffer \notin FreeBuffers)'
    <3>1. None \notin FreeBuffers
      BY <1>0, Typed
    <3> QED BY <1>2, <1>5, <3>1
  <2>4. (\A z \in Objs : Live(z) => /\ job[z].buf \notin FreeBuffers
                                    /\ job[z].buf # pCurBuffer)'
    BY <1>0, <1>2, <1>o, <1>p, <1>5, <1>7
      DEF Places, Live
  <2>5. (\A z, y \in Objs : Live(z) /\ z # y => job[y].buf # job[z].buf)'
    BY <1>0, <1>o, <1>p, <1>7
      DEF Places
  <2>6. (~Closing => /\ NThreads + 2 \notin FreeBuffers \cup {pCurBuffer}
                     /\ \A z \in Objs : job[z].buf # NThreads + 2
                     /\ content[NThreads + 2] = <<>>)'
    BY <1>5
      DEF Closing
  <2> QED BY <2>1, <2>2, <2>3, <2>4, <2>5, <2>6
    DEF Places
<1>14. TasksOnLive'
  <2>1. ASSUME NEW d \in 0..MaxChunks, <<"deflate", d>> \in Pending'
        PROVE  (\E z \in Objs :
                  /\ objOf[<<"deflate", d>>] = z
                  /\ Live(z) /\ job[z].seq = d
                  /\ nSeqNumberExpected <= d
                  /\ ~job[z].inCRC
                  /\ z \notin Finished /\ ~Writing(z))'
    <3>1. <<"deflate", d>> \in Pending
      BY <1>3, <2>1
    <3>2. PICK z \in Objs : /\ objOf[<<"deflate", d>>] = z
                            /\ Live(z) /\ job[z].seq = d
                            /\ nSeqNumberExpected <= d
                            /\ ~job[z].inCRC
                            /\ z \notin Finished
      BY <1>0, <3>1 DEF TasksOnLive
    <3>3. z # o
      BY <1>o, <3>2
    <3> QED BY <1>1, <1>5, <1>6, <1>7, <3>2, <3>3 DEF Writing
  <2>2. ASSUME NEW d \in 0..MaxChunks, <<"crc", d>> \in Pending'
        PROVE  (\E z \in Objs :
                  /\ objOf[<<"crc", d>>] = z
                  /\ Live(z) /\ job[z].seq = d
                  /\ job[z].inCRC
                  /\ z \notin CRCFinished /\ ~Submitting(z))'
    <3>1. <<"crc", d>> \in Pending
      BY <1>3, <2>2
    <3>2. PICK z \in Objs : /\ objOf[<<"crc", d>>] = z
                            /\ Live(z) /\ job[z].seq = d
                            /\ job[z].inCRC /\ z \notin CRCFinished
      BY <1>0, <3>1 DEF TasksOnLive
    <3>3. z # o
      BY <1>o, <3>2
    <3> QED BY <1>1, <1>2, <1>5, <1>7, <3>2, <3>3 DEF Submitting
  <2> QED BY <2>1, <2>2 DEF TasksOnLive
<1>15. Stages'
  <2>1. (\A z \in Objs : Live(z) => Low <= job[z].seq /\ job[z].seq <= High)'
    BY <1>0, <1>f, <1>n, <1>1, <1>5, <1>o, <1>7, <1>q
      DEF Stages, Chunks, Low, High, Closing, GzipFormat
  <2>2. (\A z \in Objs : Live(z) /\ job[z].seq < nSeqNumberExpected =>
            job[z].inCRC /\ z \notin Finished)'
    BY <1>0, <1>n, <1>1, <1>6, <1>o, <1>7, <1>q DEF Stages
  <2>3. (\A z \in Objs : Live(z) /\ nSeqNumberExpected <= job[z].seq =>
            Deflating(z) \/ z \in Finished \/ Writing(z))'
    <3>1. ASSUME NEW z \in Objs, Live(z)', nSeqNumberExpected' <= job'[z].seq
          PROVE  Deflating(z)' \/ z \in Finished'
      <4>1. CASE z = o
        BY <1>6, <4>1
      <4>2. CASE z # o
        <5>1. Live(z) /\ nSeqNumberExpected <= job[z].seq
          BY <1>1, <1>7, <3>1, <4>2
        <5>2. Deflating(z) \/ z \in Finished
          BY <1>0, <1>q, <5>1 DEF Stages, Writing
        <5> QED BY <1>6, <1>d, <4>2, <5>2
      <4> QED BY <4>1, <4>2
    <3> QED BY <3>1
  <2>4. (\A z \in Objs : Live(z) /\ job[z].inCRC =>
            GzipFormat /\ (Submitting(z) \/ InCRCTask(z) \/ z \in CRCFinished))'
    <3>1. ASSUME NEW z \in Objs, Live(z)', job'[z].inCRC
          PROVE  GzipFormat' /\ (InCRCTask(z)' \/ z \in CRCFinished')
      <4>1. z # o
        BY <1>o, <3>1
      <4>2. Live(z) /\ job[z].inCRC
        BY <1>7, <3>1, <4>1
      <4>3. GzipFormat /\ (InCRCTask(z) \/ z \in CRCFinished)
        BY <1>0, <1>q, <4>2 DEF Stages, Submitting
      <4> QED BY <1>1, <1>2, <1>d, <4>1, <4>3 DEF GzipFormat
    <3> QED BY <3>1
  <2>5. (\A z \in Finished : Live(z) /\ ~Writing(z))'
    BY <1>0, <1>f, <1>6, <1>5, <1>o, <1>7
      DEF Stages, Writing
  <2>6. (\A z \in CRCFinished : Live(z) /\ job[z].inCRC /\ ~Submitting(z))'
    BY <1>0, <1>f, <1>2, <1>5, <1>o, <1>7
      DEF Stages, Submitting
  <2> QED BY <2>1, <2>2, <2>3, <2>4, <2>5, <2>6
    DEF Stages
<1>16. InHand'
  BY <1>5 DEF InHand
<1>17. Chunks'
  <2>1. (\A z, y \in Objs : Live(z) /\ Live(y) /\ job[z].seq = job[y].seq => z = y)'
    <3>1. \A z \in Objs : z # o /\ Live(z)' => job'[z].seq # job'[o].seq
      BY <1>f, <1>n, <1>o, <1>7, <1>q
    <3> QED BY <1>0, <1>7, <3>1 DEF Chunks
  <2>2. (\A c \in Nat : Low <= c /\ c <= High => \E z \in Objs : Live(z) /\ job[z].seq = c)'
    <3>1. SUFFICES ASSUME NEW d \in Nat, Low' <= d, d <= High'
                   PROVE  \E z \in Objs : Live(z)' /\ job'[z].seq = d
      OBVIOUS
    <3>2. CASE d = nSeqNumberGenerated
      BY <1>o, <1>7, <3>2
    <3>3. CASE d # nSeqNumberGenerated
      <4>1. Low <= d /\ d <= High
        BY <1>n, <1>1, <1>5, <1>q, <3>1, <3>3 DEF Low, High, Closing, GzipFormat
      <4>2. PICK z \in Objs : Live(z) /\ job[z].seq = d
        BY <1>0, <4>1 DEF Chunks
      <4> QED BY <1>o, <1>7, <4>2
    <3> QED BY <3>2, <3>3
  <2>3. (nSeqNumberExpected <= High + 1)'
    BY <1>n, <1>1, <1>5, <1>q
      DEF High, Closing
  <2>4. (GzipFormat => nSeqNumberExpectedCRC <= nSeqNumberExpected)'
    BY <1>0, <1>1
      DEF Chunks, GzipFormat
  <2> QED BY <2>1, <2>2, <2>3, <2>4
    DEF Chunks
<1>18. Loops'
  BY <1>5 DEF Loops
<1>19. Closes'
  BY <1>5 DEF Closes
<1>20. Contents'
  <2>1. (pCurBuffer # None => content[pCurBuffer] = Chunk(nSeqNumberGenerated))'
    BY <1>5
      DEF Contents, InHand, Stages, Writing, Live, Closing, Places
  <2>2. (\A z \in Objs : Live(z) => content[job[z].buf] = Chunk(job[z].seq))'
    <3>1. ASSUME NEW z \in Objs, Live(z)'
          PROVE  content'[job'[z].buf] = (Chunk(job[z].seq))'
      <4>1. PICK d \in Nat : d = job'[z].seq
        BY <1>f, <1>n, <1>o
      <4>2. content'[job'[z].buf] = Chunk(d)
        <5>1. CASE z = o
          BY <1>1, <1>o, <1>h, <4>1, <5>1
        <5>2. CASE z # o
          BY <1>0, <1>1, <1>7, <3>1, <4>1, <5>2 DEF Contents
        <5> QED BY <5>1, <5>2
      <4>3. Chunk(d)' = Chunk(d)
        BY <1>4
      <4> QED BY <4>1, <4>2, <4>3
    <3> QED BY <3>1
  <2>3. (\A z \in Finished : job[z].bytes = content[job[z].buf])'
    BY <1>0, <1>f, <1>o, <1>1, <1>6, <1>7, <1>w DEF Contents
  <2>4. (\A z \in CRCFinished : job[z].crc = content[job[z].buf])'
    BY <1>0, <1>f, <1>o, <1>1, <1>2, <1>7
      DEF Contents
  <2>5. (pc = "writeChunk" => job[psJob].bytes = content[job[psJob].buf])'
    BY <1>5
      DEF Contents, InHand, Stages, Writing, Live, Closing, Places
  <2>6. (Closing => \A z \in Objs : Live(z) /\ job[z].seq = nSeqNumberGenerated =>
                        job[z].finish)'
    BY <1>f, <1>n, <1>1, <1>o, <1>7, <1>q
      DEF Contents, InHand, Stages, Writing, Live, Closing, Places
  <2> QED BY <2>1, <2>2, <2>3, <2>4, <2>5, <2>6
    DEF Contents
<1>21. Output'
  BY <1>0, <1>1, <1>4 DEF Output
<1>22. Index'
  BY <1>0, <1>1 DEF Index, Start
<1>23. Trailer'
  BY <1>0, <1>1, <1>4, <1>5 DEF Trailer, GzipFormat
<1>24. Errors'
  BY <1>0, <1>n, <1>1, <1>q, <1>5, <1>o DEF Errors
<1> QED
  BY <1>3, <1>10, <1>11, <1>12, <1>13, <1>14, <1>15, <1>16, <1>17, <1>18,
     <1>19, <1>20, <1>21, <1>22, <1>23, <1>24
    DEF WriterInv

-----------------------------------------------------------------------------
(* A new stream: all buffers but the one Close() may add are free, and no  *)
(* Job object has been made.                                               *)
LEMMA InitInv ==
    ASSUME Init
    PROVE  WriterInv
<1>e. /\ <<>> \in Seq(Nat) /\ <<>> \in Seq(Objs) /\ <<>> \in Seq(Buffers)
      /\ <<>> \in Seq(Jobs) /\ <<>> \in Seq(1..MaxBytes)
      /\ DOMAIN <<>> = {} /\ Len(<<>>) = 0
  OBVIOUS
<1>r. Range(<<>>) = {} /\ IsInjective(<<>>)
  BY <1>e DEF Range, IsInjective
<1>n. /\ NThreads \in Nat /\ MaxBytes \in Nat /\ MaxWrite \in Nat
      /\ ChunkSize \in Nat /\ ChunkSize > 0
  BY NThreadsAssumption, GzipAssumption
<1>s. Start(0) = 0
  BY Starts
<1>1. /\ pc = "idle" /\ caller = "Write" /\ nLeft = 0 /\ nCurOffset = 0
      /\ pCurBuffer = None /\ nObjs = 0 /\ nSeqNumberGenerated = 0
      /\ nSeqNumberExpected = 0 /\ nSeqNumberExpectedCRC = 0
      /\ doItAgain = FALSE /\ psJob = None /\ nErrors = 0
      /\ bHasErrored = FALSE /\ nRet = 0 /\ deleted = {} /\ ended = FALSE
  BY DEF Init
<1>2. /\ apoFinishedJobs = <<>> /\ apoCRCFinishedJobs = <<>> /\ apoFreeJobs = <<>>
      /\ nCRC = <<>> /\ out = <<>> /\ panSOZIPIndex = <<>>
  BY DEF Init
<1>3. Finished = {} /\ CRCFinished = {} /\ FreeObjs = {}
  BY <1>2, <1>r DEF Finished, CRCFinished, FreeObjs
<1>4. Pending = {} /\ PoolShape
  <2>1. queued = <<>> /\ running = {} /\ pushed = {}
    BY DEF Init, PoolInit
  <2>2. QueuedJobs = {}
    BY <1>e, <2>1 DEF QueuedJobs
  <2>3. IsFiniteSet({})
    BY FS_EmptySet
  <2> QED BY <1>e, <2>1, <2>2, <2>3 DEF Pending, PoolShape
<1>5. /\ \A o \in Objs : ~Live(o) /\ job[o].buf = None
      /\ job \in [Objs -> JobType]
  <2>1. EmptyJob \in JobType /\ EmptyJob.buf = None
    <3>1. 0 \in Nat /\ FALSE \in BOOLEAN
      OBVIOUS
    <3> QED BY <1>e, <3>1 DEF EmptyJob, JobType
  <2>2. job = [o \in Objs |-> EmptyJob]
    BY DEF Init
  <2> QED BY <2>1, <2>2 DEF Live
<1>6. /\ aposBuffers \in Seq(Buffers) /\ IsInjective(aposBuffers)
      /\ FreeBuffers = 1..1 + NThreads
  <2>1. aposBuffers = [i \in 1..1 + NThreads |-> i]
    BY DEF Init
  <2>2. 1..1 + NThreads \subseteq Buffers /\ 1 + NThreads \in Nat
    BY <1>n DEF Buffers
  <2>3. aposBuffers \in Seq(Buffers)
    BY <2>1, <2>2
  <2> QED BY <2>1, <2>2, <2>3 DEF FreeBuffers, Range, IsInjective
<1>7. /\ content \in [Buffers -> Seq(1..MaxBytes)]
      /\ content[NThreads + 2] = <<>>
  <2>1. content = [b \in Buffers |-> <<>>]
    BY DEF Init
  <2>2. NThreads + 2 \in Buffers
    BY <1>n DEF Buffers
  <2> QED BY <1>e, <2>1, <2>2
<1>10. Types
  <2>1. nDeflateType \in DeflateTypes /\ objOf \in [Jobs -> Objs \cup {None}]
    BY DEF Init
  <2>2. nObjs \in 0..NThreads + 2 /\ nLeft \in 0..MaxWrite /\ nCurOffset + nLeft <= MaxBytes
    BY <1>n, <1>1
  <2> QED BY <1>e, <1>1, <1>2, <1>5, <1>7, <2>1, <2>2 DEF Types, Pcs, Locked
<1>11. Lists
  BY <1>e, <1>r, <1>2, <1>6 DEF Lists
<1>12. Control
  BY <1>n, <1>s, <1>1 DEF Control, Closing
<1>13. Places
  <2>1. None \notin FreeBuffers /\ NThreads + 2 \notin FreeBuffers /\ None # NThreads + 2
    BY <1>n, <1>6 DEF None
  <2>2. \A o \in Objs : ~(o <= nObjs)
    BY <1>n, <1>1 DEF Objs
  <2> QED BY <1>1, <1>3, <1>5, <1>7, <2>1, <2>2 DEF Places
<1>14. TasksOnLive /\ Stages /\ InHand
  BY <1>1, <1>3, <1>4, <1>5 DEF TasksOnLive, Stages, InHand
<1>15. Chunks
  <2>1. High = -1 /\ Low = 0
    BY <1>1 DEF High, Low, Closing
  <2> QED BY <1>1, <1>5, <2>1 DEF Chunks
<1>16. Loops /\ Closes
  BY <1>1, <1>3, <1>4 DEF Loops, Closes
<1>17. Contents
  BY <1>1, <1>3, <1>5 DEF Contents, Closing
<1>18. EndBefore(0) = 0
  BY <1>s, <1>1 DEF EndBefore
<1>19. Output /\ Index /\ Trailer
  BY <1>e, <1>1, <1>2, <1>18 DEF Output, Index, Trailer
<1>20. Errors
  BY <1>1 DEF Errors
<1> QED
  BY <1>4, <1>10, <1>11, <1>12, <1>13, <1>14, <1>15, <1>16, <1>17, <1>19,
     <1>20
    DEF WriterInv

(* A step that changes nothing keeps the invariant.                        *)
LEMMA StutterKeeps ==
    ASSUME WriterInv, UNCHANGED vars
    PROVE  WriterInv'
<1>0. /\ Types /\ Lists /\ PoolShape /\ Control /\ Places /\ TasksOnLive
      /\ Stages /\ InHand /\ Chunks /\ Loops /\ Closes /\ Contents /\ Output
      /\ Index /\ Trailer /\ Errors
  BY DEF WriterInv
<1>1. UNCHANGED <<nDeflateType, pc, caller, nLeft, nCurOffset, content,
                  aposBuffers, pCurBuffer, job, nObjs, nSeqNumberGenerated,
                  nSeqNumberExpected, nSeqNumberExpectedCRC, apoFinishedJobs,
                  apoCRCFinishedJobs, apoFreeJobs, doItAgain, psJob, nCRC, out,
                  ended, trailer, panSOZIPIndex, nErrors, bHasErrored, nRet,
                  objOf, deleted, queued, running, done, pushed>>
  BY DEF vars, poolVars, data, lists, seqs, file
<1>2. Finished' = Finished /\ CRCFinished' = CRCFinished /\ FreeObjs' = FreeObjs /\ FreeBuffers' = FreeBuffers
  BY <1>1 DEF Finished, CRCFinished, FreeObjs, FreeBuffers
<1>3. Pending' = Pending /\ PoolShape'
  BY <1>0, <1>1 DEF Pending, PoolShape, QueuedJobs
<1>4. \A c : Chunk(c)' = Chunk(c) /\ EndBefore(c)' = EndBefore(c)
  BY <1>1 DEF Chunk, EndBefore
<1>5. /\ \A o : Live(o)' = Live(o) /\ Deflating(o)' = Deflating(o)
      /\ \A o : InCRCTask(o)' = InCRCTask(o)
      /\ \A o : Writing(o)' = Writing(o) /\ Submitting(o)' = Submitting(o)
      /\ Low' = Low /\ High' = High /\ Closing' = Closing /\ GzipFormat' = GzipFormat
  BY <1>1, <1>3
     DEF Live, Deflating, InCRCTask, Writing, Submitting, Low, High, Closing,
         GzipFormat
<1>6. Types' /\ Lists'
  BY <1>0, <1>1 DEF Types, Lists
<1>7. Control' /\ Errors' /\ Index'
  BY <1>0, <1>1, <1>5 DEF Control, Errors, Index
<1>8. Places' /\ TasksOnLive'
  BY <1>0, <1>1, <1>2, <1>3, <1>5 DEF Places, TasksOnLive
<1>9. Stages' /\ InHand' /\ Chunks'
  BY <1>0, <1>1, <1>2, <1>5 DEF Stages, InHand, Chunks
<1>10. Loops' /\ Closes'
  BY <1>0, <1>1, <1>2, <1>3, <1>5 DEF Loops, Closes
<1>11. Contents'
  BY <1>0, <1>1, <1>2, <1>4, <1>5 DEF Contents
<1>12. Output' /\ Trailer'
  BY <1>0, <1>1, <1>4, <1>5 DEF Output, Trailer
<1> QED
  BY <1>3, <1>6, <1>7, <1>8, <1>9, <1>10, <1>11, <1>12 DEF WriterInv

(* Every step keeps the invariant: the branches of each operation.         *)
LEMMA NextInv ==
    ASSUME WriterInv, [Next]_vars
    PROVE  WriterInv'
<1>1. CASE UNCHANGED vars
  BY <1>1, StutterKeeps
<1>2. CASE Next
  <2>u. UNCHANGED nDeflateType
    BY <1>2 DEF Next
  <2>1. CASE WriterStep
    <3>1. CASE EnterProcess
      BY <2>u, <3>1, EnterProcessKeeps
    <3>2. CASE CrcLoop
      BY <2>u, <3>2, CrcLoopEnds, CrcLoopFinds
    <3>3. CASE SubmitCrc
      BY <2>u, <3>3, SubmitCrcToPool, SubmitCrcWithoutPool
    <3>4. CASE WriteLoop
      BY <2>u, <3>4, WriteLoopEnds, WriteLoopFinds
    <3>5. CASE WriteChunk
      BY <2>u, <3>5, WriteChunkGzipOk, WriteChunkGzipFails, WriteChunkRawOk,
         WriteChunkRawFails
    <3>6. CASE Combine
      BY <2>u, <3>6, CombineFinds, CombineAgain, CombineReturns
    <3>7. CASE GetBuffer
      BY <2>u, <3>7, GetBufferWaits, GetBufferTakes
    <3>8. CASE WaitEvent
      BY <2>u, <3>8, WaitEventKeeps
    <3>9. CASE Consume
      BY <2>u, <3>9, ConsumePart, ConsumeFull
    <3>10. CASE CloseWaits
      BY <2>u, <3>10, CloseWaitsKeeps
    <3>11. CASE WriteTrailer
      BY <2>u, <3>11, WriteTrailerKeeps
    <3> QED
      BY <2>1, <3>1, <3>2, <3>3, <3>4, <3>5, <3>6, <3>7, <3>8, <3>9, <3>10,
         <3>11
        DEF WriterStep
  <2>2. CASE \E n \in 1..MaxWrite : Write(n)
    BY <2>u, <2>2, WriteKeeps
  <2>3. CASE Close
    BY <2>u, <2>3, CloseKeeps
  <2>4. CASE Delete
    BY <2>u, <2>4, DeleteKeeps
  <2>5. CASE PoolStep
    BY <2>u, <2>5, PoolStepKeeps
  <2>6. CASE Tasks
    <3>1. PICK s \in 0..MaxChunks : DeflateTask(s) \/ CRCTask(s)
      BY <2>6 DEF Tasks
    <3> QED BY <2>u, <3>1, DeflateTaskKeeps, CRCTaskKeeps
  <2> QED BY <1>2, <2>1, <2>2, <2>3, <2>4, <2>5, <2>6 DEF Next
<1> QED BY <1>1, <1>2

(* The inductive invariant of VSIGZipWriteHandleMT.                        *)
THEOREM WriterInvariant == Spec => []WriterInv
<1>1. Init => WriterInv
  BY InitInv
<1>2. WriterInv /\ [Next]_vars => WriterInv'
  BY NextInv
<1> QED BY <1>1, <1>2, PTL DEF Spec

-----------------------------------------------------------------------------
(* The objects in a list have been made by GetJobObject().                 *)
LEMMA ListedObjects ==
    ASSUME WriterInv, NEW l \in {apoFinishedJobs, apoCRCFinishedJobs, apoFreeJobs}
    PROVE  l \in Seq(1..nObjs)
<1>0. Types /\ Lists /\ Places /\ Stages
  BY DEF WriterInv
<1>1. /\ Finished \subseteq Objs /\ CRCFinished \subseteq Objs /\ FreeObjs \subseteq Objs
  BY <1>0, Typed
<1>2. \A o \in Finished \cup CRCFinished \cup FreeObjs : o \in Objs /\ o <= nObjs
  BY <1>0, <1>1 DEF Places, Stages
<1>3. \A o \in Finished \cup CRCFinished \cup FreeObjs : o \in 1..nObjs
  <2>1. nObjs \in Nat /\ NThreads \in Nat
    BY <1>0, NThreadsAssumption DEF Types
  <2> QED BY <1>2, <2>1 DEF Objs
<1>4. l \in Seq(Objs)
  BY <1>0 DEF Lists
<1>5. Range(l) \subseteq 1..nObjs
  BY <1>3 DEF Finished, CRCFinished, FreeObjs
<1> QED BY <1>4, <1>5, ListOver

(* What the invariant says of buffers and Job objects.                     *)
LEMMA InvBuffers ==
    ASSUME WriterInv
    PROVE  BuffersConsistent
<1>0. /\ Types /\ Lists /\ PoolShape /\ Control /\ Places /\ TasksOnLive
      /\ Stages /\ InHand /\ Closes
  BY DEF WriterInv
<1>t. /\ Finished \subseteq Objs /\ CRCFinished \subseteq Objs
      /\ FreeObjs \subseteq Objs /\ FreeBuffers \subseteq Buffers
      /\ \A o \in Objs : job[o].buf \in Buffers \cup {None}
      /\ None \notin Buffers
  BY <1>0, Typed
<1>1. TypeOK
  <2>1. Cardinality(Objs) = NThreads + 2
    <3>1. NThreads + 2 \in Int /\ 1 \in Int /\ ~(1 > NThreads + 2)
          /\ (NThreads + 2) - 1 + 1 = NThreads + 2
      BY NThreadsAssumption
    <3> QED BY <3>1, FS_Interval DEF Objs
  <2>2. nCurOffset \in 0..MaxBytes
    BY <1>0, GzipAssumption DEF Types
  <2>3. \A l \in {apoFinishedJobs, apoCRCFinishedJobs, apoFreeJobs} : l \in Seq(1..nObjs)
    BY ListedObjects
  <2> QED BY <1>0, <1>t, <2>1, <2>2, <2>3 DEF TypeOK, Types, Lists
<1>2. BufferInOnePlace
  BY <1>0, <1>t DEF BufferInOnePlace, Places, Lists, Live, FreeBuffers
<1>3. \A t \in Pending : objOf[t] \in Objs /\ Live(objOf[t])
  <2>1. ASSUME NEW t \in Pending PROVE objOf[t] \in Objs /\ Live(objOf[t])
    <3>1. t \in {"deflate", "crc"} \X (0..MaxChunks)
      BY <1>0, PendingJobs, GzipAssumption DEF PoolJobs
    <3>2. PICK k \in {"deflate", "crc"}, s \in 0..MaxChunks : t = <<k, s>>
      BY <3>1
    <3>3. CASE k = "deflate"
      <4>1. PICK o \in Objs : objOf[t] = o /\ Live(o)
        BY <1>0, <3>2, <3>3 DEF TasksOnLive
      <4> QED BY <4>1
    <3>4. CASE k = "crc"
      <4>1. PICK o \in Objs : objOf[t] = o /\ Live(o)
        BY <1>0, <3>2, <3>4 DEF TasksOnLive
      <4> QED BY <4>1
    <3> QED BY <3>3, <3>4
  <2> QED BY <2>1
<1>4. RecycledWhenThrough
  <2>1. ASSUME NEW o \in FreeObjs
        PROVE  /\ o \notin Finished \cup CRCFinished
               /\ pc = "writeChunk" => psJob # o
               /\ \A t \in Pending : objOf[t] # o
    <3>1. ~Live(o)
      BY <1>0, <1>t, <2>1 DEF Places
    <3> QED BY <1>0, <1>3, <3>1 DEF Stages, InHand
  <2> QED BY <2>1
             DEF RecycledWhenThrough, FreeObjs, Finished, CRCFinished, Pending
<1>5. NoTaskOnDeleted
  <2>1. nRet = 0 => \A t \in Pending : objOf[t] \notin deleted
    BY <1>0 DEF Control, Closes
  <2> QED BY <2>1 DEF NoTaskOnDeleted, Pending
<1> QED BY <1>1, <1>2, <1>4, <1>5 DEF BuffersConsistent

(* BuffersConsistent, for any number of threads, any size of the chunks,   *)
(* any writes and any number of errors: no buffer or Job object of         *)
(* VSIGZipWriteHandleMT is shared by two chunks, or reused or deleted      *)
(* under a task that runs in the pool.                                     *)
THEOREM BuffersAreConsistent == Spec => []BuffersConsistent
<1>1. WriterInv => BuffersConsistent
  BY InvBuffers
<1> QED BY <1>1, WriterInvariant, PTL

(* OutputInOrder, of ProcessCompletedJobs(): whatever the order the tasks  *)
(* end in, the file has the bytes in stream order, none twice, and as long *)
(* as no write has failed, without a hole and with a SOZip index that      *)
(* points at the starts of the chunks.                                     *)
THEOREM OutputIsInOrder == Spec => []OutputInOrder
<1>1. WriterInv => OutputInOrder
  <2>1. SUFFICES ASSUME WriterInv PROVE OutputInOrder
    OBVIOUS
  <2>2. Output /\ Index
    BY <2>1 DEF WriterInv
  <2> QED BY <2>2 DEF Output, Index, OutputInOrder, Start
<1> QED BY <1>1, WriterInvariant, PTL

(* What the invariant says of a stream that Close() has closed.            *)
LEMMA InvClosed ==
    ASSUME WriterInv
    PROVE  ClosedStreamComplete
<1>0. /\ Types /\ Lists /\ Control /\ Stages /\ Chunks /\ Closes /\ Output
      /\ Trailer /\ Errors
  BY DEF WriterInv
<1>n. /\ nSeqNumberGenerated \in Nat /\ nSeqNumberExpected \in Nat
      /\ nSeqNumberExpectedCRC \in Nat /\ nErrors \in Nat /\ nCurOffset \in Nat
      /\ caller \in {"Write", "Close1", "Close2"} /\ nRet \in {0, -1}
  BY <1>0 DEF Types
<1>t. /\ Finished \subseteq Objs /\ CRCFinished \subseteq Objs
      /\ \A p \in Objs : job[p].seq \in Nat
  BY <1>0, Typed
<1>1. ASSUME pc \in {"finish", "closed", "deleted"}, nRet = 0
      PROVE  /\ nSeqNumberExpected = nSeqNumberGenerated + 1
             /\ GzipFormat => nSeqNumberExpectedCRC = nSeqNumberGenerated + 1
  BY <1>0, <1>1 DEF Closes
<1>2. ASSUME pc \in {"finish", "closed"}, nRet = 0
      PROVE  apoFinishedJobs = <<>> /\ apoCRCFinishedJobs = <<>>
  <2>1. Closing
    BY <1>0, <1>n, <1>2 DEF Control, Closing
  <2>2. \A o \in Objs : ~Live(o)
    BY <1>0, <1>n, <1>t, <1>1, <1>2, <2>1 DEF Stages, Low, High
  <2>3. Finished = {} /\ CRCFinished = {}
    BY <1>0, <1>t, <2>2 DEF Stages
  <2>4. ASSUME NEW l \in Seq(Objs), Range(l) = {} PROVE l = <<>>
    <3>1. Len(l) \in Nat /\ ~(1 \in 1..Len(l))
      BY <2>4, ListElements
    <3>2. Len(l) = 0
      BY <3>1
    <3> QED BY <3>2
  <2> QED BY <1>0, <2>3, <2>4 DEF Lists, Finished, CRCFinished
<1>3. ASSUME pc \in {"closed", "deleted"}, nErrors = 0
      PROVE  /\ out = [i \in 1..nCurOffset |-> i] /\ ended
             /\ GzipFormat => trailer = <<out, nCurOffset>>
  <2>1. nRet = 0
    BY <1>0, <1>n, <1>3 DEF Errors
  <2>2. nSeqNumberExpected = nSeqNumberGenerated + 1
        /\ (GzipFormat => nSeqNumberExpectedCRC = nSeqNumberGenerated + 1)
    BY <1>1, <1>3, <2>1
  <2>3. EndBefore(nSeqNumberGenerated + 1) = nCurOffset
    BY <1>n DEF EndBefore
  <2>4. Len(out) = nCurOffset /\ ended /\ \A i \in DOMAIN out : out[i] = i
    BY <1>0, <1>3, <2>2, <2>3 DEF Output
  <2>5. ASSUME NEW l \in Seq(Nat), Len(l) = nCurOffset, \A i \in DOMAIN l : l[i] = i
        PROVE  l = [i \in 1..nCurOffset |-> i]
    <3>1. DOMAIN l = 1..nCurOffset
      BY <2>5
    <3>2. l = [i \in 1..nCurOffset |-> l[i]]
      BY <2>5, <3>1
    <3> QED BY <2>5, <3>1, <3>2
  <2>6. out = [i \in 1..nCurOffset |-> i]
    BY <1>0, <2>4, <2>5 DEF Types
  <2>7. ASSUME GzipFormat PROVE trailer = <<out, nCurOffset>>
    <3>1. Len(nCRC) = nCurOffset /\ \A i \in DOMAIN nCRC : nCRC[i] = i
      BY <1>0, <2>2, <2>3, <2>7 DEF Trailer
    <3>2. nCRC = out
      BY <1>0, <2>5, <2>6, <3>1 DEF Types
    <3>3. trailer = <<nCRC, nCurOffset>>
      BY <1>0, <1>3, <2>7 DEF Trailer
    <3> QED BY <3>2, <3>3
  <2> QED BY <2>4, <2>6, <2>7
<1> QED BY <1>2, <1>3 DEF ClosedStreamComplete, BodyComplete

(* ClosedStreamComplete: the assertions of Close() hold, and a stream that *)
(* was closed without a failed write of a chunk or of the trailer has all  *)
(* its bytes, its last deflate block, and a trailer with the CRC and the   *)
(* size of all of them.                                                    *)
THEOREM ClosedStreamsAreComplete == Spec => []ClosedStreamComplete
<1>1. WriterInv => ClosedStreamComplete
  BY InvClosed
<1> QED BY <1>1, WriterInvariant, PTL

(* ErrorReported: a failed write of a chunk, by ProcessCompletedJobs(), or *)
(* of the trailer, by Close(), is known to the caller when Write() or      *)
(* Close() returns.  A closed stream of which nothing was reported lacks   *)
(* its header at most, whose write the constructor does not check.         *)
THEOREM ErrorsAreReported == Spec => []ErrorReported
<1>1. ASSUME WriterInv
      PROVE  ErrorReported
  <2>1. /\ nErrors \in Nat
        /\ pc \in {"idle", "closed", "deleted"} /\ nErrors > 0 => bHasErrored \/ nRet = -1
    BY <1>1 DEF WriterInv, Types, Errors
  <2>2. pc \in {"closed", "deleted"} /\ nErrors = 0 => BodyComplete
    BY <1>1, InvClosed DEF ClosedStreamComplete
  <2> QED BY <2>1, <2>2 DEF ErrorReported, StreamComplete
<1> QED BY <1>1, WriterInvariant, PTL

==============================================================================
