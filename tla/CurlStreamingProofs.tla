-------------------------- MODULE CurlStreamingProofs --------------------------
(***************************************************************************)
(* What Read() of a /vsicurl_streaming/ file returns, for files, buffers,  *)
(* chunks and reads of any size and any number of failed transfers: the    *)
(* bytes of the file at the offset, whether they come from the ring buffer *)
(* of the download thread or from the cache of the start of the file, and  *)
(* less than was asked for only at the end of the file or with an error.   *)
(* This is under the hypothesis Trusted below, which is not something that *)
(* the code ensures.                                                       *)
(***************************************************************************)
EXTENDS CurlStreaming, SequenceTheorems, TLAPS

(* Min of two integers. *)
LEMMA MinOfTwo ==
    ASSUME NEW a \in Int, NEW b \in Int
    PROVE  /\ Min({a, b}) \in {a, b}
           /\ Min({a, b}) <= a /\ Min({a, b}) <= b
<1>1. \E x \in {a, b} : \A y \in {a, b} : x =< y
  <2>1. CASE a <= b
    BY <2>1
  <2>2. CASE b <= a
    BY <2>2
  <2> QED BY <2>1, <2>2
<1> DEFINE m == CHOOSE x \in {a, b} : \A y \in {a, b} : x =< y
<1>2. m \in {a, b} /\ \A y \in {a, b} : m =< y
  BY <1>1
<1> QED BY <1>2 DEF Min

(* Min of three integers. *)
LEMMA MinOfThree ==
    ASSUME NEW a \in Int, NEW b \in Int, NEW c \in Int
    PROVE  /\ Min({a, b, c}) \in {a, b, c}
           /\ Min({a, b, c}) <= a /\ Min({a, b, c}) <= b /\ Min({a, b, c}) <= c
<1>1. \E x \in {a, b, c} : \A y \in {a, b, c} : x =< y
  <2>1. CASE a <= b /\ a <= c
    BY <2>1
  <2>2. CASE b <= a /\ b <= c
    BY <2>2
  <2>3. CASE c <= a /\ c <= b
    BY <2>3
  <2> QED BY <2>1, <2>2, <2>3
<1> DEFINE m == CHOOSE x \in {a, b, c} : \A y \in {a, b, c} : x =< y
<1>2. m \in {a, b, c} /\ \A y \in {a, b, c} : m =< y
  BY <1>1
<1> QED BY <1>2 DEF Min

-----------------------------------------------------------------------------
(* The ring buffer *)

RingType == [buf : [0..BufferSize - 1 -> Int], off : 0..BufferSize - 1,
             len : 0..BufferSize]

(* A place in the buffer.  Wrap hides the modulo from the arithmetic of    *)
(* the provers; what they need of it are the next three lemmas.            *)
Wrap(i) == i % BufferSize
Place(r, i) == Wrap(r.off + i)

(* The bytes of r are those of the file from offset base on. *)
HoldsFrom(r, base) == \A i \in 0..r.len - 1 : r.buf[Place(r, i)] = base + i

(* Place(r, i) is the i-th byte after the first one, and how far a place   *)
(* is from the first one is i.                                             *)
LEMMA PlaceIsDistance ==
    ASSUME NEW off \in 0..BufferSize - 1, NEW i \in 0..BufferSize - 1
    PROVE  /\ Wrap(off + i) \in 0..BufferSize - 1
           /\ Wrap(Wrap(off + i) - off) = i
<1> USE SizesAssumption DEF Wrap
<1>1. BufferSize \in Nat \ {0}
  OBVIOUS
<1>2. CASE off + i < BufferSize
  <2>1. Wrap(off + i) = off + i
    BY <1>1, <1>2
  <2>2. Wrap(i) = i
    BY <1>1
  <2> QED BY <1>1, <1>2, <2>1, <2>2
<1>3. CASE off + i >= BufferSize
  <2>1. Wrap(off + i) = off + i - BufferSize
    BY <1>1, <1>3
  <2>2. i - BufferSize \in -BufferSize..-1
    BY <1>1
  <2>3. Wrap(i - BufferSize) = i
    BY <1>1, <2>2
  <2> QED BY <1>1, <1>3, <2>1, <2>3
<1> QED BY <1>1, <1>2, <1>3

(* Going n places and then i is going n + i, within the buffer. *)
LEMMA PlaceAdds ==
    ASSUME NEW off \in 0..BufferSize - 1, NEW n \in 0..BufferSize,
           NEW i \in 0..BufferSize - 1, n + i <= BufferSize - 1
    PROVE  /\ Wrap(off + n) \in 0..BufferSize - 1
           /\ Wrap(Wrap(off + n) + i) = Wrap(off + (n + i))
<1> USE SizesAssumption DEF Wrap
<1>1. BufferSize \in Nat \ {0}
  OBVIOUS
<1>2. CASE off + n < BufferSize
  <2>1. Wrap(off + n) = off + n
    BY <1>1, <1>2
  <2> QED BY <1>1, <1>2, <2>1
<1>3. CASE off + n >= BufferSize
  <2>1. Wrap(off + n) = off + n - BufferSize
    BY <1>1, <1>3
  <2>2. Wrap(off + n - BufferSize + i) = off + n - BufferSize + i
    BY <1>1, <1>3
  <2>3. Wrap(off + (n + i)) = off + (n + i) - BufferSize
    BY <1>1, <1>3
  <2> QED BY <1>1, <1>3, <2>1, <2>2, <2>3
<1> QED BY <1>1, <1>2, <1>3

(* How far the place of byte i is from the end of the bytes: before the    *)
(* end, it is a lap less; after the end, it is the number of new bytes.    *)
LEMMA DistanceFromEnd ==
    ASSUME NEW off \in 0..BufferSize - 1, NEW len \in 0..BufferSize,
           NEW i \in 0..BufferSize - 1
    PROVE  Wrap(Wrap(off + i) - Wrap(off + len))
             = IF i < len THEN i - len + BufferSize ELSE i - len
<1> USE SizesAssumption
<1>1. BufferSize \in Nat \ {0}
  OBVIOUS
<1> DEFINE P == Wrap(off + i)
           E == Wrap(off + len)
<1>2. P = IF off + i < BufferSize THEN off + i ELSE off + i - BufferSize
  BY <1>1 DEF Wrap
<1>3. E = IF off + len < BufferSize THEN off + len ELSE off + len - BufferSize
  BY <1>1 DEF Wrap
<1> HIDE DEF P, E
<1>4. P - E \in -BufferSize..BufferSize - 1
  BY <1>1, <1>2, <1>3
<1>5. \A z \in -BufferSize..BufferSize - 1 :
          Wrap(z) = IF z < 0 THEN z + BufferSize ELSE z
  BY <1>1 DEF Wrap
<1>6. Wrap(P - E) = IF P - E < 0 THEN P - E + BufferSize ELSE P - E
  BY <1>4, <1>5
<1>7. Wrap(P - E) = IF i < len THEN i - len + BufferSize ELSE i - len
  BY <1>1, <1>2, <1>3, <1>6
<1> QED BY <1>7 DEF P, E

(* The index of a byte that is written after the l bytes that are there.   *)
LEMMA IndexAfter ==
    \A i, l, m \in Int : i >= l /\ i - l < m => i - l + 1 \in 1..m
OBVIOUS

(* The byte of the file with that index.                                   *)
LEMMA ByteAfter ==
    ASSUME NEW b \in Int, NEW l \in Int, NEW i \in Int
    PROVE  b + l + (i - l + 1) - 1 = b + i
OBVIOUS

(* What leaves the chunk for the ring buffer does not change their sum.    *)
LEMMA MovedBytes ==
    ASSUME NEW z \in Int, NEW x \in Int, NEW y \in Int, NEW w \in Int
    PROVE  z + (x + w) + (y - w) = z + x + y
OBVIOUS

(* RingBuffer::Write() of the bytes that follow leaves those bytes and the *)
(* former ones in place.                                                   *)
LEMMA RingWriteInPlace ==
    ASSUME NEW r \in RingType, NEW base \in Int, HoldsFrom(r, base),
           NEW s \in Seq(Int), r.len + Len(s) <= BufferSize,
           \A k \in 1..Len(s) : s[k] = base + r.len + k - 1
    PROVE  /\ RingWrite(r, s) \in RingType
           /\ RingWrite(r, s).len = r.len + Len(s)
           /\ HoldsFrom(RingWrite(r, s), base)
<1> USE SizesAssumption
<1>1. BufferSize \in Nat \ {0} /\ r.len \in 0..BufferSize /\ Len(s) \in Nat
      /\ r.off \in 0..BufferSize - 1
  BY DEF RingType
<1> DEFINE q == RingWrite(r, s)
           K(i) == Wrap(i - Wrap(r.off + r.len))
           F == [i \in 0..BufferSize - 1 |->
                    IF K(i) < Len(s) THEN s[K(i) + 1] ELSE r.buf[i]]
<1>2. q = [buf |-> F, off |-> r.off, len |-> r.len + Len(s)]
  <2>1. DOMAIN r.buf = 0..BufferSize - 1
    BY DEF RingType
  <2>2. r = [buf |-> r.buf, off |-> r.off, len |-> r.len]
    BY DEF RingType
  <2>3. F = [i \in DOMAIN r.buf |->
                    LET k == (i - RingEnd(r)) % BufferSize
                    IN  IF k < Len(s) THEN s[k + 1] ELSE r.buf[i]]
    BY <2>1 DEF Wrap, RingEnd
  <2>4. RingWrite(r, s) = [r EXCEPT !.buf = F, !.len = r.len + Len(s)]
    BY <2>3 DEF RingWrite
  <2> HIDE DEF F
  <2> QED BY <2>2, <2>4
<1>3. \A i \in 0..BufferSize - 1 : K(i) \in Nat
  <2>1. ASSUME NEW z \in Int PROVE Wrap(z) \in Nat
    BY <1>1 DEF Wrap
  <2>2. PICK e \in Int : e = r.off + r.len
    BY <1>1
  <2>3. PICK w \in Nat : w = Wrap(e)
    BY <2>1
  <2>4. ASSUME NEW i \in 0..BufferSize - 1 PROVE K(i) \in Nat
    <3>1. PICK z \in Int : z = i - w
      BY <2>3
    <3>2. K(i) = Wrap(z)
      BY <2>2, <2>3, <3>1
    <3> QED BY <2>1, <3>2
  <2> QED BY <2>4
<1>4. F \in [0..BufferSize - 1 -> Int]
  <2> SUFFICES ASSUME NEW i \in 0..BufferSize - 1
               PROVE  (IF K(i) < Len(s) THEN s[K(i) + 1] ELSE r.buf[i]) \in Int
    OBVIOUS
  <2>1. r.buf[i] \in Int
    BY DEF RingType
  <2>2. K(i) \in Nat
    BY <1>3
  <2> HIDE DEF K
  <2>3. K(i) < Len(s) => s[K(i) + 1] \in Int
    BY <1>1, <2>2
  <2> QED BY <2>1, <2>3
<1>5. q \in RingType
  <2> HIDE DEF F, q
  <2> QED BY <1>1, <1>2, <1>4 DEF RingType
<1>6. q.buf = F /\ q.off = r.off /\ q.len = r.len + Len(s)
  <2> HIDE DEF F, q
  <2> QED BY <1>2
<1>7. ASSUME NEW i \in 0..r.len + Len(s) - 1
      PROVE  F[Place(r, i)] = base + i
  <2>1. i \in 0..BufferSize - 1
    BY <1>1
  <2>2. Place(r, i) \in 0..BufferSize - 1
    BY <1>1, <2>1, PlaceIsDistance DEF Place
  <2>3. K(Place(r, i)) = IF i < r.len THEN i - r.len + BufferSize ELSE i - r.len
    BY <1>1, <2>1, DistanceFromEnd DEF Place
  <2>4. F[Place(r, i)] = IF K(Place(r, i)) < Len(s)
                         THEN s[K(Place(r, i)) + 1] ELSE r.buf[Place(r, i)]
    BY <2>2
  <2> HIDE DEF K, F
  <2>5. CASE i < r.len
    <3>1. ~(K(Place(r, i)) < Len(s))
      BY <1>1, <2>1, <2>3, <2>5
    <3>2. r.buf[Place(r, i)] = base + i
      BY <1>1, <2>1, <2>5 DEF HoldsFrom
    <3> QED BY <2>4, <3>1, <3>2
  <2>6. CASE i >= r.len
    <3>1. K(Place(r, i)) = i - r.len /\ i - r.len < Len(s)
      <4>1. ~(i < r.len) /\ i - r.len < Len(s)
        BY <1>1, <2>1, <2>6
      <4> QED BY <2>3, <4>1
    <3>2. i - r.len + 1 \in 1..Len(s)
      <4>1. PICK l \in Nat, m \in Nat : l = r.len /\ m = Len(s)
        BY <1>1
      <4>2. i \in Int /\ l \in Int /\ m \in Int /\ i >= l /\ i - l < m
        BY <2>1, <2>6, <3>1, <4>1
      <4>3. i - l + 1 \in 1..m
        BY <4>2, IndexAfter, Zenon
      <4> QED BY <4>1, <4>3
    <3>3. s[i - r.len + 1] = base + r.len + (i - r.len + 1) - 1
      BY <3>2
    <3>4. F[Place(r, i)] = base + r.len + (i - r.len + 1) - 1
      BY <2>4, <3>1, <3>3
    <3>5. PICK l \in Nat : l = r.len
      BY <1>1
    <3>6. base + l + (i - l + 1) - 1 = base + i
      BY ByteAfter
    <3> QED BY <3>4, <3>5, <3>6
  <2>7. i < r.len \/ i >= r.len
    BY <1>1, <2>1
  <2> QED BY <2>5, <2>6, <2>7
<1>8. HoldsFrom(q, base)
  <2> HIDE DEF F, q
  <2>1. \A i \in 0..q.len - 1 : q.buf[Wrap(q.off + i)] = base + i
    <3> TAKE i \in 0..q.len - 1
    <3>1. i \in 0..r.len + Len(s) - 1
      BY <1>1, <1>6
    <3>2. F[Wrap(r.off + i)] = base + i
      BY <1>7, <3>1 DEF Place
    <3> QED BY <1>6, <3>2
  <2> QED BY <2>1 DEF HoldsFrom, Place
<1> QED BY <1>5, <1>6, <1>8

(* RingBuffer::Read() takes the first n bytes ... *)
LEMMA RingBytesExact ==
    ASSUME NEW r \in RingType, NEW base \in Int, HoldsFrom(r, base),
           NEW n \in 0..r.len
    PROVE  /\ RingBytes(r, n) = Iota(base, n)
           /\ Iota(base, n) \in Seq(Int) /\ Len(Iota(base, n)) = n
<1> USE SizesAssumption
<1>1. BufferSize \in Nat \ {0} /\ r.len \in 0..BufferSize /\ n \in Nat
      /\ r.off \in 0..BufferSize - 1
  BY DEF RingType
<1>2. ASSUME NEW i \in 1..n
      PROVE  r.buf[(r.off + i - 1) % BufferSize] = base + i - 1
  <2>1. i - 1 \in 0..r.len - 1 /\ r.off + i - 1 = r.off + (i - 1)
    BY <1>1
  <2>2. r.buf[Place(r, i - 1)] = base + (i - 1)
    BY <2>1 DEF HoldsFrom
  <2> QED BY <2>1, <2>2 DEF Place, Wrap
<1> QED BY <1>1, <1>2 DEF RingBytes, Iota

(* ... and leaves the others in place. *)
LEMMA RingReadInPlace ==
    ASSUME NEW r \in RingType, NEW base \in Int, HoldsFrom(r, base),
           NEW n \in 0..r.len
    PROVE  /\ RingAfterRead(r, n) \in RingType
           /\ RingAfterRead(r, n).len = r.len - n
           /\ HoldsFrom(RingAfterRead(r, n), base + n)
<1> USE SizesAssumption
<1>1. BufferSize \in Nat \ {0} /\ r.len \in 0..BufferSize /\ n \in 0..BufferSize
      /\ r.off \in 0..BufferSize - 1
  BY DEF RingType
<1> DEFINE q == RingAfterRead(r, n)
           F == [i \in 0..BufferSize - 1 |->
                    IF Wrap(i - r.off) < n THEN NoByte ELSE r.buf[i]]
<1>2. q = [buf |-> F, off |-> Wrap(r.off + n), len |-> r.len - n]
  <2>1. DOMAIN r.buf = 0..BufferSize - 1
    BY DEF RingType
  <2> QED BY <2>1 DEF RingAfterRead, Wrap
<1>3. Wrap(r.off + n) \in 0..BufferSize - 1
  BY <1>1 DEF Wrap
<1>4. F \in [0..BufferSize - 1 -> Int]
  BY DEF NoByte, RingType
<1>5. q.buf = F /\ q.off = Wrap(r.off + n) /\ q.len = r.len - n
  <2> HIDE DEF q, F
  <2> QED BY <1>2
<1>6. q \in RingType
  <2>1. r.len - n \in 0..BufferSize
    BY <1>1
  <2> HIDE DEF q, F
  <2> QED BY <1>2, <1>3, <1>4, <2>1 DEF RingType
<1>7. ASSUME NEW i \in 0..r.len - n - 1
      PROVE  F[Wrap(Wrap(r.off + n) + i)] = base + n + i
  <2>1. i \in 0..BufferSize - 1 /\ n + i \in 0..r.len - 1
        /\ n + i \in 0..BufferSize - 1 /\ n + i <= BufferSize - 1
    BY <1>1
  <2>2. Wrap(Wrap(r.off + n) + i) = Wrap(r.off + (n + i))
    BY <1>1, <2>1, PlaceAdds
  <2>3. /\ Wrap(r.off + (n + i)) \in 0..BufferSize - 1
        /\ Wrap(Wrap(r.off + (n + i)) - r.off) = n + i
    BY <1>1, <2>1, PlaceIsDistance
  <2>4. F[Wrap(r.off + (n + i))] = r.buf[Wrap(r.off + (n + i))]
    BY <1>1, <2>1, <2>3
  <2>5. r.buf[Wrap(r.off + (n + i))] = base + (n + i)
    BY <2>1 DEF HoldsFrom, Place
  <2> HIDE DEF F
  <2> QED BY <1>1, <2>1, <2>2, <2>4, <2>5
<1>8. HoldsFrom(q, base + n)
  <2> HIDE DEF q, F
  <2> QED BY <1>1, <1>5, <1>7 DEF HoldsFrom, Place
<1> QED BY <1>5, <1>6, <1>8
(* The empty buffer. *)
LEMMA EmptyRingHolds ==
    /\ EmptyRing \in RingType /\ EmptyRing.len = 0
    /\ HoldsFrom(EmptyRing, 0)
BY SizesAssumption DEF EmptyRing, RingType, HoldsFrom, NoByte

-----------------------------------------------------------------------------
(* Runs of bytes of the file *)

(* Iota(a, n) is a sequence of n bytes. *)
LEMMA IotaIsSeq ==
    ASSUME NEW a \in Int, NEW n \in Nat
    PROVE  /\ Iota(a, n) \in Seq(Int) /\ Len(Iota(a, n)) = n
           /\ \A i \in 1..n : Iota(a, n)[i] = a + i - 1
BY DEF Iota

(* What follows a run can be appended to it. *)
LEMMA IotaConcat ==
    ASSUME NEW a \in Int, NEW n \in Nat, NEW m \in Nat
    PROVE  Iota(a, n) \o Iota(a + n, m) = Iota(a, n + m)
<1> DEFINE s == Iota(a, n)
           u == Iota(a + n, m)
           w == Iota(a, n + m)
<1>1. s \in Seq(Int) /\ Len(s) = n /\ u \in Seq(Int) /\ Len(u) = m
      /\ w \in Seq(Int) /\ Len(w) = n + m
  BY IotaIsSeq
<1>2. \A i \in 1..n : s[i] = a + i - 1
  BY IotaIsSeq
<1>3. \A i \in 1..m : u[i] = a + n + i - 1
  BY IotaIsSeq
<1>4. \A i \in 1..n + m : w[i] = a + i - 1
  BY DEF Iota
<1> HIDE DEF s, u, w
<1>5. /\ s \o u \in Seq(Int) /\ Len(s \o u) = n + m
      /\ \A i \in 1..n + m : (s \o u)[i] = IF i <= n THEN s[i] ELSE u[i - n]
  BY <1>1, ConcatProperties
<1>6. ASSUME NEW i \in 1..n + m PROVE (s \o u)[i] = w[i]
  <2>1. CASE i <= n
    BY <1>2, <1>4, <1>5, <2>1
  <2>2. CASE ~(i <= n)
    <3>1. (s \o u)[i] = u[i - n] /\ i - n \in 1..m
      BY <1>5, <2>2
    <3>2. u[i - n] = a + n + (i - n) - 1
      BY <1>3, <3>1
    <3> QED BY <1>4, <3>1, <3>2
  <2> QED BY <2>1, <2>2
<1>7. s \o u = w
  <2>1. Len(s \o u) = Len(w)
    BY <1>1, <1>5
  <2>2. \A i \in 1..Len(s \o u) : (s \o u)[i] = w[i]
    BY <1>5, <1>6
  <2> QED BY <1>1, <1>5, <2>1, <2>2, SeqEqual
<1> QED BY <1>7 DEF s, u, w

(* A part of a run of the first L bytes. *)
LEMMA IotaPart ==
    ASSUME NEW L \in Nat, NEW a \in Nat, NEW m \in Nat, m <= L
    PROVE  SubSeq(Iota(0, L), a + 1, m) = Iota(a, IF a < m THEN m - a ELSE 0)
<1> DEFINE c == Iota(0, L)
           k == IF a < m THEN m - a ELSE 0
           s == SubSeq(c, a + 1, m)
           w == Iota(a, k)
<1>1. c \in Seq(Int) /\ Len(c) = L /\ \A i \in 1..L : c[i] = 0 + i - 1
  BY IotaIsSeq
<1>2. k \in Nat
  OBVIOUS
<1>3. w \in Seq(Int) /\ Len(w) = k /\ \A i \in 1..k : w[i] = a + i - 1
  <2> HIDE DEF k
  <2> QED BY <1>2 DEF Iota
<1> HIDE DEF c, w
<1>4. s \in Seq(Int) /\ Len(s) = k /\ \A i \in 1..k : s[i] = c[a + i]
  BY <1>1
<1>5. \A i \in 1..k : s[i] = w[i]
  <2> TAKE i \in 1..k
  <2>1. a + i \in 1..L
    OBVIOUS
  <2> QED BY <1>1, <1>3, <1>4, <2>1
<1> HIDE DEF s, k
<1>6. s = w
  BY <1>2, <1>3, <1>4, <1>5
<1> QED BY <1>6 DEF s, w, c, k

(* The cache is the start of the file. *)
FilePrefix(c) ==
    /\ c = Iota(0, Len(c))
    /\ Len(c) \in 0..BufferSize /\ Len(c) <= FileSize

(* AddRegion() of a run of bytes of the file leaves the start of the file. *)
LEMMA AddRegionExact ==
    ASSUME NEW c, FilePrefix(c), NEW start \in Nat, NEW n \in Nat,
           start + n <= FileSize
    PROVE  FilePrefix(AddRegion(c, start, Iota(start, n)))
<1> USE SizesAssumption
<1> DEFINE s == Iota(start, n)
           d == AddRegion(c, start, s)
<1>1. BufferSize \in Nat \ {0} /\ FileSize \in Nat /\ Len(c) \in Nat
  BY DEF FilePrefix
<1>2. Len(s) = n /\ \A i \in 1..n : s[i] = start + i - 1
  BY DEF Iota
<1>3. \A i \in 1..Len(c) : c[i] = i - 1
  <2>1. \A i \in 1..Len(c) : Iota(0, Len(c))[i] = 0 + i - 1
    BY <1>1, IotaIsSeq
  <2> QED BY <2>1 DEF FilePrefix
<1> HIDE DEF s
<1>4. CASE start <= Len(c) /\ start < BufferSize /\ start + n > Len(c)
  <2> DEFINE m == Min({start + n, BufferSize})
  <2>1. m \in {start + n, BufferSize} /\ m <= start + n /\ m <= BufferSize
    <3>1. PICK a \in Int, b \in Int : a = start + n /\ b = BufferSize
      BY <1>1
    <3>2. Min({a, b}) \in {a, b} /\ Min({a, b}) <= a /\ Min({a, b}) <= b
      BY MinOfTwo
    <3> QED BY <3>1, <3>2
  <2> HIDE DEF m
  <2>2. m \in Nat /\ m <= FileSize
    BY <1>1, <2>1
  <2>3. d = [i \in 1..m |-> IF i > start THEN s[i - start]
                            ELSE IF i <= Len(c) THEN c[i] ELSE NoByte]
    BY <1>2, <1>4 DEF AddRegion, AddRegionWithGap, m
  <2>4. ASSUME NEW i \in 1..m
        PROVE  (IF i > start THEN s[i - start]
                ELSE IF i <= Len(c) THEN c[i] ELSE NoByte) = 0 + i - 1
    <3>1. CASE i > start
      <4>1. i - start \in 1..n
        BY <2>1, <2>2, <3>1
      <4>2. s[i - start] = start + (i - start) - 1
        BY <1>2, <4>1
      <4> QED BY <2>2, <3>1, <4>2
    <3>2. CASE i <= start
      BY <1>1, <1>3, <1>4, <2>2, <3>2
    <3> QED BY <2>2, <3>1, <3>2
  <2> HIDE DEF d
  <2>5. d = Iota(0, m)
    BY <2>3, <2>4 DEF Iota
  <2>6. Len(d) = m
    BY <2>2, <2>5, IotaIsSeq
  <2> QED BY <1>1, <2>1, <2>2, <2>5, <2>6 DEF FilePrefix, d, s
<1>5. CASE ~(start <= Len(c) /\ start < BufferSize /\ start + n > Len(c))
  <2>1. d = c
    BY <1>2, <1>5 DEF AddRegion, AddRegionWithGap
  <2> QED BY <2>1 DEF s
<1> QED BY <1>4, <1>5

-----------------------------------------------------------------------------
(* The inductive invariant *)

(* No download is started between the two stores at the end of another,    *)
(* and servers answer with the file.  The code ensures neither: without    *)
(* the first the assertion of Read() about the ring buffer fails, without  *)
(* the second an error page is taken for the file (run v_http).            *)
Trusted == StartSeesGap = FALSE /\ Bodies = {"file"}

Shape ==
    /\ rpc \in {"idle", "begin", "cache", "start", "skip", "skipwait",
                "fillstart", "fill", "fillwait", "finish", "stop", "stopwait",
                "closed"}
    /\ curOffset \in 0..FileSize /\ ringOffset \in 0..FileSize
    /\ rd \in [req : Nat, ori : 0..FileSize, got : Seq(Int), retries : Nat,
               skip : Int, err : BOOLEAN, hasSize : BOOLEAN,
               after : {"none", "start", "retry", "close"}]
    /\ ring \in RingType
    /\ ppc \in {"none", "header", "body", "write", "full", "end", "ending", "done"}
    /\ nBodySize \in 0..FileSize /\ chunk \in Seq(Int) /\ body = "file"
    /\ fileSize \in 0..FileSize

Flags ==
    /\ bEOF \in BOOLEAN /\ bError \in BOOLEAN
    /\ bAskDownloadEnd \in BOOLEAN /\ hThread \in BOOLEAN
    /\ bErrorInThread \in BOOLEAN /\ bHasSize \in BOOLEAN
    /\ rWaits \in BOOLEAN /\ pWaits \in BOOLEAN
    /\ failed \in BOOLEAN /\ announced \in BOOLEAN
    /\ bDownloadInProgress = (ppc \in {"header", "body", "write", "full", "end"})
    /\ bDownloadStopped = (ppc = "done")

(* The bytes that the callback has, and where the ring buffer ends. *)
Received ==
    /\ HoldsFrom(ring, ringOffset)
    /\ \A k \in 1..Len(chunk) : chunk[k] = nBodySize - Len(chunk) + k - 1
    /\ ppc \notin {"write", "full"} => chunk = <<>>
    /\ ppc \in {"header", "body", "write", "full"} =>
            ringOffset + ring.len + Len(chunk) = nBodySize
    /\ ringOffset + ring.len + Len(chunk) <= FileSize
    /\ ppc = "none" => ringOffset = 0 /\ ring.len = 0

(* A download that ends without an error has put the whole file in the     *)
(* ring buffer.                                                            *)
EndedAtFileSize ==
    /\ ppc = "end" /\ failed = FALSE =>
            nBodySize = FileSize /\ ringOffset + ring.len = FileSize
    /\ ppc \in {"ending", "done"} /\ bErrorInThread = FALSE =>
            ringOffset + ring.len = FileSize

(* Where Read() is: in the file, and relative to the ring buffer. *)
InFile ==
    /\ FilePrefix(cached)
    /\ rd.got = Iota(rd.ori, Len(rd.got)) /\ Len(rd.got) <= rd.req
    /\ rpc \in {"begin", "cache"} => curOffset = rd.ori
    /\ rpc \in {"stop", "stopwait"} => rd.after # "none"
    /\ \/ rpc \in {"start", "skip", "skipwait", "fillstart", "fill", "fillwait",
                   "finish"}
       \/ rpc \in {"stop", "stopwait"} /\ rd.after = "start"
       => curOffset = rd.ori + Len(rd.got)

InRing ==
    /\ rpc = "start" => curOffset >= ringOffset
    /\ rpc \in {"skip", "skipwait"} =>
            rd.skip = curOffset - ringOffset /\ rd.skip >= 0
    /\ rpc \in {"fillstart", "fill", "fillwait"} => curOffset = ringOffset
    /\ rpc \in {"skip", "skipwait", "fill", "fillwait"} => ppc # "none"

(* What a short read, or bEOF, rests on. *)
EofExplained ==
    /\ rpc = "cache" /\ rd.hasSize => bHasSize
    /\ rpc \in {"idle", "begin"} /\ bEOF => bError \/ curOffset >= FileSize
    /\ rpc \in {"start", "skip", "skipwait", "fillstart", "fill", "fillwait"} =>
            bEOF = FALSE
    /\ rpc = "finish" =>
            /\ bEOF => curOffset >= FileSize
            /\ Len(rd.got) < rd.req => rd.err \/ curOffset >= FileSize

StreamInv ==
    /\ Shape /\ Flags /\ Received /\ EndedAtFileSize /\ InFile /\ InRing
    /\ SizeExact /\ EofExplained

-----------------------------------------------------------------------------
(* The steps of the two threads *)

(* Header keeps the invariant. *)
LEMMA HeaderStep ==
    ASSUME StreamInv, Trusted, Header
    PROVE  StreamInv'
<1> USE SizesAssumption
<1>0. /\ Shape /\ Flags /\ Received /\ EndedAtFileSize
      /\ InFile /\ InRing /\ SizeExact /\ EofExplained
  BY DEF StreamInv
<1>1. Shape'
  <2>1. body' = "file"
    BY DEF Header, Trusted
  <2> QED BY <1>0, <2>1 DEF Shape, Header, reader, flags, size
<1>2. Flags'
  <2>1. /\ bEOF' \in BOOLEAN /\ bError' \in BOOLEAN
        /\ bAskDownloadEnd' \in BOOLEAN /\ hThread' \in BOOLEAN
        /\ bErrorInThread' \in BOOLEAN /\ bHasSize' \in BOOLEAN
        /\ rWaits' \in BOOLEAN /\ pWaits' \in BOOLEAN
        /\ failed' \in BOOLEAN /\ announced' \in BOOLEAN
    BY <1>0 DEF Flags, Header, BodySize, reader, flags, size, producer
  <2>2. bDownloadInProgress' = (ppc' \in {"header", "body", "write", "full", "end"})
    BY <1>0 DEF Flags, Shape, Header, BodySize, reader, flags, size, producer
  <2>3. bDownloadStopped' = (ppc' = "done")
    BY <1>0 DEF Flags, Shape, Header, BodySize, reader, flags, size, producer
  <2> QED BY <2>1, <2>2, <2>3 DEF Flags
<1>3. Received'
  BY <1>0 DEF Shape, Received, Header, BodySize, reader, flags, size, producer
<1>4. EndedAtFileSize'
  BY <1>0
     DEF Shape, EndedAtFileSize, Header, BodySize, reader, flags, size,
         producer
<1>5. InFile'
  BY <1>0
     DEF Shape, InFile, FilePrefix, Header, BodySize, reader, flags, size,
         producer
<1>6. InRing'
  BY <1>0 DEF Shape, InRing, Header, BodySize, reader, flags, size, producer
<1>7. SizeExact'
  BY <1>0 DEF Shape, SizeExact, Header, BodySize, reader, flags, size, producer
<1>8. EofExplained'
  BY <1>0
     DEF Shape, EofExplained, Header, BodySize, reader, flags, size, producer
<1> QED BY <1>1, <1>2, <1>3, <1>4, <1>5, <1>6, <1>7, <1>8 DEF StreamInv

(* SleepFull keeps the invariant. *)
LEMMA SleepFullStep ==
    ASSUME StreamInv, Trusted, SleepFull
    PROVE  StreamInv'
<1> USE SizesAssumption
<1>0. /\ Shape /\ Flags /\ Received /\ EndedAtFileSize
      /\ InFile /\ InRing /\ SizeExact /\ EofExplained
  BY DEF StreamInv
<1>1. Shape'
  BY <1>0 DEF Shape, SleepFull, reader, flags, size, producer
<1>2. Flags'
  BY <1>0 DEF Shape, Flags, SleepFull, reader, flags, size, producer
<1>3. Received'
  BY <1>0 DEF Shape, Received, SleepFull, reader, flags, size, producer
<1>4. EndedAtFileSize'
  BY <1>0 DEF Shape, EndedAtFileSize, SleepFull, reader, flags, size, producer
<1>5. InFile'
  BY <1>0
     DEF Shape, InFile, FilePrefix, SleepFull, reader, flags, size, producer
<1>6. InRing'
  BY <1>0 DEF Shape, InRing, SleepFull, reader, flags, size, producer
<1>7. SizeExact'
  BY <1>0 DEF Shape, SizeExact, SleepFull, reader, flags, size, producer
<1>8. EofExplained'
  BY <1>0 DEF Shape, EofExplained, SleepFull, reader, flags, size, producer
<1> QED BY <1>1, <1>2, <1>3, <1>4, <1>5, <1>6, <1>7, <1>8 DEF StreamInv

(* WakeFull keeps the invariant. *)
LEMMA WakeFullStep ==
    ASSUME StreamInv, Trusted, WakeFull
    PROVE  StreamInv'
<1> USE SizesAssumption
<1>0. /\ Shape /\ Flags /\ Received /\ EndedAtFileSize
      /\ InFile /\ InRing /\ SizeExact /\ EofExplained
  BY DEF StreamInv
<1>1. Shape'
  BY <1>0 DEF Shape, WakeFull, MustWaitForReader, reader, flags, size, producer
<1>2. Flags'
  BY <1>0
     DEF Shape, Flags, WakeFull, MustWaitForReader, reader, flags, size,
         producer
<1>3. Received'
  <2>1. CASE bAskDownloadEnd
    <3>1. ppc' = "end" /\ chunk' = <<>> /\ UNCHANGED <<ring, ringOffset, nBodySize>>
      BY <2>1 DEF WakeFull
    <3>2. Len(chunk') = 0 /\ Len(chunk) \in Nat
      BY <1>0, <3>1 DEF Shape
    <3>3. HoldsFrom(ring, ringOffset)'
      BY <1>0, <3>1 DEF Received, HoldsFrom, Place
    <3>4. (ringOffset + ring.len + Len(chunk) <= FileSize)'
      <4>1. PICK a \in Nat, l \in Nat, c \in Nat :
                 a = ringOffset /\ l = ring.len /\ c = Len(chunk)
        <5>1. ringOffset \in 0..FileSize /\ ring.len \in 0..BufferSize
          BY <1>0 DEF Shape, RingType
        <5>2. ringOffset \in Nat /\ ring.len \in Nat
          BY <5>1
        <5> QED BY <3>2, <5>2
      <4>2. a + l + c <= FileSize /\ FileSize \in Nat
        BY <1>0, <4>1 DEF Received
      <4>3. a + l + 0 <= FileSize
        BY <4>1, <4>2
      <4> QED BY <3>1, <3>2, <4>1, <4>3
    <3>5. (\A k \in 1..Len(chunk) : chunk[k] = nBodySize - Len(chunk) + k - 1)'
      BY <3>2
    <3> QED BY <3>1, <3>3, <3>4, <3>5 DEF Received
  <2>2. CASE ~bAskDownloadEnd
    BY <1>0, <2>2 DEF Shape, Received, HoldsFrom, WakeFull
  <2> QED BY <2>1, <2>2
<1>4. EndedAtFileSize'
  BY <1>0
     DEF Shape, EndedAtFileSize, WakeFull, MustWaitForReader, reader, flags,
         size, producer
<1>5. InFile'
  BY <1>0
     DEF Shape, InFile, FilePrefix, WakeFull, MustWaitForReader, reader,
         flags, size, producer
<1>6. InRing'
  BY <1>0
     DEF Shape, InRing, WakeFull, MustWaitForReader, reader, flags, size,
         producer
<1>7. SizeExact'
  BY <1>0
     DEF Shape, SizeExact, WakeFull, MustWaitForReader, reader, flags, size,
         producer
<1>8. EofExplained'
  BY <1>0
     DEF Shape, EofExplained, WakeFull, MustWaitForReader, reader, flags,
         size, producer
<1> QED BY <1>1, <1>2, <1>3, <1>4, <1>5, <1>6, <1>7, <1>8 DEF StreamInv

(* PerformReturns keeps the invariant. *)
LEMMA PerformReturnsStep ==
    ASSUME StreamInv, Trusted, PerformReturns
    PROVE  StreamInv'
<1> USE SizesAssumption
<1>0. /\ Shape /\ Flags /\ Received /\ EndedAtFileSize
      /\ InFile /\ InRing /\ SizeExact /\ EofExplained
  BY DEF StreamInv
<1>1. Shape'
  BY <1>0 DEF Shape, PerformReturns, BodySize, reader, flags, size, producer
<1>2. Flags'
  <2>1. /\ bEOF' \in BOOLEAN /\ bError' \in BOOLEAN
        /\ bAskDownloadEnd' \in BOOLEAN /\ hThread' \in BOOLEAN
        /\ bErrorInThread' \in BOOLEAN /\ bHasSize' \in BOOLEAN
        /\ rWaits' \in BOOLEAN /\ pWaits' \in BOOLEAN
        /\ failed' \in BOOLEAN /\ announced' \in BOOLEAN
    BY <1>0 DEF Flags, PerformReturns, BodySize, reader, flags, size, producer
  <2>2. bDownloadInProgress' = (ppc' \in {"header", "body", "write", "full", "end"})
    BY <1>0
       DEF Flags, Shape, PerformReturns, BodySize, reader, flags, size,
           producer
  <2>3. bDownloadStopped' = (ppc' = "done")
    BY <1>0
       DEF Flags, Shape, PerformReturns, BodySize, reader, flags, size,
           producer
  <2> QED BY <2>1, <2>2, <2>3 DEF Flags
<1>3. Received'
  BY <1>0
     DEF Shape, Received, PerformReturns, BodySize, reader, flags, size,
         producer
<1>4. EndedAtFileSize'
  <2>1. chunk = <<>> /\ Len(chunk) = 0
    BY <1>0 DEF Received, PerformReturns
  <2>2. ppc = "body" => ringOffset + ring.len = nBodySize
    BY <1>0, <2>1 DEF Received, Shape, RingType
  <2> QED BY <1>0, <2>1, <2>2
             DEF Shape, EndedAtFileSize, PerformReturns, BodySize
<1>5. InFile'
  BY <1>0
     DEF Shape, InFile, FilePrefix, PerformReturns, BodySize, reader, flags,
         size, producer
<1>6. InRing'
  BY <1>0
     DEF Shape, InRing, PerformReturns, BodySize, reader, flags, size,
         producer
<1>7. SizeExact'
  BY <1>0
     DEF Shape, SizeExact, PerformReturns, BodySize, reader, flags, size,
         producer
<1>8. EofExplained'
  BY <1>0
     DEF Shape, EofExplained, PerformReturns, BodySize, reader, flags, size,
         producer
<1> QED BY <1>1, <1>2, <1>3, <1>4, <1>5, <1>6, <1>7, <1>8 DEF StreamInv

(* End keeps the invariant. *)
LEMMA EndStep ==
    ASSUME StreamInv, Trusted, End
    PROVE  StreamInv'
<1> USE SizesAssumption
<1>0. /\ Shape /\ Flags /\ Received /\ EndedAtFileSize
      /\ InFile /\ InRing /\ SizeExact /\ EofExplained
  BY DEF StreamInv
<1>1. Shape'
  BY <1>0 DEF Shape, End, LearnsSize, reader, flags, size, producer
<1>2. Flags'
  <2>1. /\ bEOF' \in BOOLEAN /\ bError' \in BOOLEAN
        /\ bAskDownloadEnd' \in BOOLEAN /\ hThread' \in BOOLEAN
        /\ bErrorInThread' \in BOOLEAN /\ bHasSize' \in BOOLEAN
        /\ rWaits' \in BOOLEAN /\ pWaits' \in BOOLEAN
        /\ failed' \in BOOLEAN /\ announced' \in BOOLEAN
    BY <1>0 DEF Flags, End, LearnsSize, reader, flags, size, producer
  <2>2. bDownloadInProgress' = (ppc' \in {"header", "body", "write", "full", "end"})
    <3>1. bDownloadInProgress' = FALSE /\ ppc' = "ending"
      BY DEF End
    <3>2. (ppc' \in {"header", "body", "write", "full", "end"}) = FALSE
      BY <3>1
    <3> QED BY <3>1, <3>2
  <2>3. bDownloadStopped' = (ppc' = "done")
    BY <1>0 DEF Flags, Shape, End, LearnsSize, reader, flags, size, producer
  <2> QED BY <2>1, <2>2, <2>3 DEF Flags
<1>3. Received'
  BY <1>0 DEF Shape, Received, End, LearnsSize, reader, flags, size, producer
<1>4. EndedAtFileSize'
  BY <1>0
     DEF Shape, EndedAtFileSize, End, LearnsSize, reader, flags, size,
         producer
<1>5. InFile'
  BY <1>0
     DEF Shape, InFile, FilePrefix, End, LearnsSize, reader, flags, size,
         producer
<1>6. InRing'
  BY <1>0 DEF Shape, InRing, End, LearnsSize, reader, flags, size, producer
<1>7. SizeExact'
  <2>1. CASE LearnsSize
    <3>1. failed = FALSE
      BY <1>0, <2>1 DEF LearnsSize, Flags
    <3> QED BY <1>0, <2>1, <3>1 DEF EndedAtFileSize, SizeExact, End
  <2>2. CASE ~LearnsSize
    BY <1>0, <2>2 DEF SizeExact, End, size
  <2> QED BY <2>1, <2>2
<1>8. EofExplained'
  BY <1>0
     DEF Shape, EofExplained, End, LearnsSize, reader, flags, size, producer
<1> QED BY <1>1, <1>2, <1>3, <1>4, <1>5, <1>6, <1>7, <1>8 DEF StreamInv

(* EndStopped keeps the invariant. *)
LEMMA EndStoppedStep ==
    ASSUME StreamInv, Trusted, EndStopped
    PROVE  StreamInv'
<1> USE SizesAssumption
<1>0. /\ Shape /\ Flags /\ Received /\ EndedAtFileSize
      /\ InFile /\ InRing /\ SizeExact /\ EofExplained
  BY DEF StreamInv
<1>1. Shape'
  BY <1>0 DEF Shape, EndStopped, reader, flags, size, producer
<1>2. Flags'
  <2>1. /\ bEOF' \in BOOLEAN /\ bError' \in BOOLEAN
        /\ bAskDownloadEnd' \in BOOLEAN /\ hThread' \in BOOLEAN
        /\ bErrorInThread' \in BOOLEAN /\ bHasSize' \in BOOLEAN
        /\ rWaits' \in BOOLEAN /\ pWaits' \in BOOLEAN
        /\ failed' \in BOOLEAN /\ announced' \in BOOLEAN
    BY <1>0 DEF Flags, EndStopped, reader, flags, size, producer
  <2>2. bDownloadInProgress' = (ppc' \in {"header", "body", "write", "full", "end"})
    BY <1>0 DEF Flags, Shape, EndStopped, reader, flags, size, producer
  <2>3. bDownloadStopped' = (ppc' = "done")
    BY <1>0 DEF Flags, Shape, EndStopped, reader, flags, size, producer
  <2> QED BY <2>1, <2>2, <2>3 DEF Flags
<1>3. Received'
  BY <1>0 DEF Shape, Received, EndStopped, reader, flags, size, producer
<1>4. EndedAtFileSize'
  BY <1>0 DEF Shape, EndedAtFileSize, EndStopped, reader, flags, size, producer
<1>5. InFile'
  BY <1>0
     DEF Shape, InFile, FilePrefix, EndStopped, reader, flags, size, producer
<1>6. InRing'
  BY <1>0 DEF Shape, InRing, EndStopped, reader, flags, size, producer
<1>7. SizeExact'
  BY <1>0 DEF Shape, SizeExact, EndStopped, reader, flags, size, producer
<1>8. EofExplained'
  BY <1>0 DEF Shape, EofExplained, EndStopped, reader, flags, size, producer
<1> QED BY <1>1, <1>2, <1>3, <1>4, <1>5, <1>6, <1>7, <1>8 DEF StreamInv

(* ClearErr keeps the invariant. *)
LEMMA ClearErrStep ==
    ASSUME StreamInv, Trusted, ClearErr
    PROVE  StreamInv'
<1> USE SizesAssumption
<1>0. /\ Shape /\ Flags /\ Received /\ EndedAtFileSize
      /\ InFile /\ InRing /\ SizeExact /\ EofExplained
  BY DEF StreamInv
<1>1. Shape'
  BY <1>0 DEF Shape, ClearErr, reader, flags, size, producer
<1>2. Flags'
  BY <1>0 DEF Shape, Flags, ClearErr, reader, flags, size, producer
<1>3. Received'
  BY <1>0 DEF Shape, Received, ClearErr, reader, flags, size, producer
<1>4. EndedAtFileSize'
  BY <1>0 DEF Shape, EndedAtFileSize, ClearErr, reader, flags, size, producer
<1>5. InFile'
  BY <1>0 DEF Shape, InFile, FilePrefix, ClearErr, reader, flags, size, producer
<1>6. InRing'
  BY <1>0 DEF Shape, InRing, ClearErr, reader, flags, size, producer
<1>7. SizeExact'
  BY <1>0 DEF Shape, SizeExact, ClearErr, reader, flags, size, producer
<1>8. EofExplained'
  BY <1>0 DEF Shape, EofExplained, ClearErr, reader, flags, size, producer
<1> QED BY <1>1, <1>2, <1>3, <1>4, <1>5, <1>6, <1>7, <1>8 DEF StreamInv

(* Begin keeps the invariant. *)
LEMMA BeginStep ==
    ASSUME StreamInv, Trusted, Begin
    PROVE  StreamInv'
<1> USE SizesAssumption
<1>0. /\ Shape /\ Flags /\ Received /\ EndedAtFileSize
      /\ InFile /\ InRing /\ SizeExact /\ EofExplained
  BY DEF StreamInv
<1>1. Shape'
  BY <1>0 DEF Shape, Begin, MutexFree, reader, flags, size, producer
<1>2. Flags'
  BY <1>0 DEF Shape, Flags, Begin, MutexFree, reader, flags, size, producer
<1>3. Received'
  BY <1>0 DEF Shape, Received, Begin, MutexFree, reader, flags, size, producer
<1>4. EndedAtFileSize'
  BY <1>0
     DEF Shape, EndedAtFileSize, Begin, MutexFree, reader, flags, size,
         producer
<1>5. InFile'
  BY <1>0
     DEF Shape, InFile, FilePrefix, Begin, MutexFree, reader, flags, size,
         producer
<1>6. InRing'
  BY <1>0 DEF Shape, InRing, Begin, MutexFree, reader, flags, size, producer
<1>7. SizeExact'
  BY <1>0 DEF Shape, SizeExact, Begin, MutexFree, reader, flags, size, producer
<1>8. EofExplained'
  <2>1. CASE bEOF'
    <3>1. rpc' = "idle" /\ UNCHANGED <<curOffset, bError>>
      BY <2>1 DEF Begin
    <3>2. bEOF \/ (bHasSize /\ curOffset >= fileSize)
      BY <2>1 DEF Begin
    <3>3. bError \/ curOffset >= FileSize
      BY <1>0, <3>2 DEF EofExplained, SizeExact, Begin
    <3> QED BY <3>1, <3>3 DEF EofExplained
  <2>2. CASE ~bEOF'
    <3>1. rpc' = "cache" /\ bHasSize' = bHasSize
      BY <2>2 DEF Begin, size
    <3>2. rd'.hasSize => bHasSize
      BY <1>0 DEF Begin, Shape
    <3> QED BY <3>1, <3>2 DEF EofExplained
  <2> QED BY <2>1, <2>2
<1> QED BY <1>1, <1>2, <1>3, <1>4, <1>5, <1>6, <1>7, <1>8 DEF StreamInv

(* SkipWake keeps the invariant. *)
LEMMA SkipWakeStep ==
    ASSUME StreamInv, Trusted, SkipWake
    PROVE  StreamInv'
<1> USE SizesAssumption
<1>0. /\ Shape /\ Flags /\ Received /\ EndedAtFileSize
      /\ InFile /\ InRing /\ SizeExact /\ EofExplained
  BY DEF StreamInv
<1>1. Shape'
  <2>1. rd' \in [req : Nat, ori : 0..FileSize, got : Seq(Int), retries : Nat,
                  skip : Int, err : BOOLEAN, hasSize : BOOLEAN,
                  after : {"none", "start", "retry", "close"}]
    <3>1. bErrorInThread \in BOOLEAN /\ rd.got \in Seq(Int) /\ <<>> \in Seq(Int)
      BY <1>0 DEF Flags, Shape
    <3>2. PICK g \in Seq(Int) : rd' = [rd EXCEPT !.err = bErrorInThread, !.got = g]
      BY <3>1 DEF SkipWake, ErrorSeen
    <3> QED BY <1>0, <3>1, <3>2 DEF Shape
  <2> QED BY <1>0, <2>1 DEF Shape, SkipWake, producer, size
<1>2. Flags'
  BY <1>0
     DEF Shape, Flags, SkipWake, MutexFree, MustWaitForWriter, ErrorSeen,
         reader, flags, size, producer
<1>3. Received'
  BY <1>0
     DEF Shape, Received, SkipWake, MutexFree, MustWaitForWriter, ErrorSeen,
         reader, flags, size, producer
<1>4. EndedAtFileSize'
  BY <1>0
     DEF Shape, EndedAtFileSize, SkipWake, MutexFree, MustWaitForWriter,
         ErrorSeen, reader, flags, size, producer
<1>5. InFile'
  <2>1. cached' = cached /\ curOffset' = curOffset /\ rd'.ori = rd.ori /\ rd'.req = rd.req
    BY <1>0 DEF Shape, SkipWake
  <2>2. CASE ring.len = 0 /\ ~bErrorInThread
    <3>1. rpc' = "idle" /\ rd'.got = <<>>
      BY <1>0, <2>2 DEF Shape, SkipWake, ErrorSeen
    <3>2. <<>> = Iota(rd.ori, 0) /\ Len(<<>>) = 0
      BY DEF Iota
    <3>3. rd'.got = Iota(rd'.ori, Len(rd'.got)) /\ Len(rd'.got) <= rd'.req
      BY <1>0, <2>1, <3>1, <3>2 DEF Shape
    <3> QED BY <1>0, <2>1, <3>1, <3>3 DEF InFile, FilePrefix
  <2>3. CASE ~(ring.len = 0 /\ ~bErrorInThread)
    <3>1. rpc' \in {"finish", "skip"} /\ rd'.got = rd.got
      BY <1>0, <2>3 DEF Shape, SkipWake, ErrorSeen
    <3>2. rpc = "skipwait"
      BY DEF SkipWake
    <3> QED BY <1>0, <2>1, <3>1, <3>2 DEF InFile, FilePrefix
  <2> QED BY <2>2, <2>3
<1>6. InRing'
  BY <1>0
     DEF Shape, InRing, SkipWake, MutexFree, MustWaitForWriter, ErrorSeen,
         reader, flags, size, producer
<1>7. SizeExact'
  BY <1>0
     DEF Shape, SizeExact, SkipWake, MutexFree, MustWaitForWriter, ErrorSeen,
         reader, flags, size, producer
<1>8. EofExplained'
  <2>1. bErrorInThread = FALSE /\ ring.len = 0 => curOffset >= FileSize
    <3>1. rpc = "skipwait" /\ ~(ring.len = 0 /\ bDownloadInProgress) /\ ppc # "ending"
      BY DEF SkipWake, MustWaitForWriter, MutexFree
    <3>2. ring.len = 0 => ppc = "done"
      BY <1>0, <3>1 DEF Shape, Flags, InRing
    <3>3. curOffset >= ringOffset
      BY <1>0, <3>1 DEF InRing, Shape
    <3> QED BY <1>0, <3>2, <3>3 DEF EndedAtFileSize, Shape
  <2>2. bErrorInThread \in BOOLEAN /\ rpc = "skipwait" /\ bEOF = FALSE
    BY <1>0 DEF Flags, SkipWake, EofExplained
  <2>3. curOffset' = curOffset /\ rd'.err = bErrorInThread
    BY <1>0 DEF Shape, SkipWake, ErrorSeen
  <2>4. CASE ring.len = 0 /\ bErrorInThread = FALSE
    <3>1. rpc' = "idle"
      BY <2>4 DEF SkipWake, ErrorSeen
    <3> QED BY <2>1, <2>3, <2>4, <3>1 DEF EofExplained
  <2>5. CASE ring.len # 0
    <3>1. rpc' = "skip" /\ bEOF' = FALSE
      BY <2>5 DEF SkipWake, ErrorSeen
    <3> QED BY <3>1 DEF EofExplained
  <2>6. CASE ring.len = 0 /\ bErrorInThread = TRUE
    <3>1. rpc' = "finish" /\ bEOF' = FALSE
      BY <2>6 DEF SkipWake, ErrorSeen
    <3> QED BY <2>3, <2>6, <3>1 DEF EofExplained
  <2> QED BY <2>2, <2>4, <2>5, <2>6
<1> QED BY <1>1, <1>2, <1>3, <1>4, <1>5, <1>6, <1>7, <1>8 DEF StreamInv

(* FillWake keeps the invariant. *)
LEMMA FillWakeStep ==
    ASSUME StreamInv, Trusted, FillWake
    PROVE  StreamInv'
<1> USE SizesAssumption
<1>0. /\ Shape /\ Flags /\ Received /\ EndedAtFileSize
      /\ InFile /\ InRing /\ SizeExact /\ EofExplained
  BY DEF StreamInv
<1>1. Shape'
  <2>1. bErrorInThread \in BOOLEAN
    BY <1>0 DEF Flags
  <2> QED BY <1>0, <2>1 DEF Shape, FillWake, ErrorSeen, producer, size
<1>2. Flags'
  BY <1>0
     DEF Shape, Flags, FillWake, MutexFree, MustWaitForWriter, ErrorSeen,
         reader, flags, size, producer
<1>3. Received'
  BY <1>0
     DEF Shape, Received, FillWake, MutexFree, MustWaitForWriter, ErrorSeen,
         reader, flags, size, producer
<1>4. EndedAtFileSize'
  BY <1>0
     DEF Shape, EndedAtFileSize, FillWake, MutexFree, MustWaitForWriter,
         ErrorSeen, reader, flags, size, producer
<1>5. InFile'
  BY <1>0
     DEF Shape, InFile, FilePrefix, FillWake, MutexFree, MustWaitForWriter,
         ErrorSeen, reader, flags, size, producer
<1>6. InRing'
  BY <1>0
     DEF Shape, InRing, FillWake, MutexFree, MustWaitForWriter, ErrorSeen,
         reader, flags, size, producer
<1>7. SizeExact'
  BY <1>0
     DEF Shape, SizeExact, FillWake, MutexFree, MustWaitForWriter, ErrorSeen,
         reader, flags, size, producer
<1>8. EofExplained'
  <2>1. bErrorInThread = FALSE /\ ring.len = 0 => curOffset >= FileSize
    <3>1. rpc = "fillwait" /\ ~(ring.len = 0 /\ bDownloadInProgress) /\ ppc # "ending"
      BY DEF FillWake, MustWaitForWriter, MutexFree
    <3>2. ring.len = 0 => ppc = "done"
      BY <1>0, <3>1 DEF Shape, Flags, InRing
    <3>3. curOffset >= ringOffset
      BY <1>0, <3>1 DEF InRing, Shape
    <3> QED BY <1>0, <3>2, <3>3 DEF EndedAtFileSize, Shape
  <2>2. bErrorInThread \in BOOLEAN /\ rpc = "fillwait" /\ bEOF' = FALSE
    BY <1>0 DEF Flags, FillWake, EofExplained
  <2>3. curOffset' = curOffset /\ rd'.err = bErrorInThread
    BY <1>0 DEF Shape, FillWake, ErrorSeen
  <2>4. CASE ring.len = 0 /\ bErrorInThread = FALSE
    <3>1. rpc' = "finish"
      BY <2>4 DEF FillWake, ErrorSeen
    <3> QED BY <2>1, <2>2, <2>3, <2>4, <3>1 DEF EofExplained
  <2>5. CASE bErrorInThread = TRUE
    <3>1. rpc' = "finish"
      BY <2>5 DEF FillWake, ErrorSeen
    <3> QED BY <2>2, <2>3, <2>5, <3>1 DEF EofExplained
  <2>6. CASE ring.len # 0 /\ bErrorInThread = FALSE
    <3>1. rpc' = "fill"
      BY <2>6 DEF FillWake, ErrorSeen
    <3> QED BY <2>2, <3>1 DEF EofExplained
  <2> QED BY <2>2, <2>4, <2>5, <2>6
<1> QED BY <1>1, <1>2, <1>3, <1>4, <1>5, <1>6, <1>7, <1>8 DEF StreamInv

(* Finish keeps the invariant. *)
LEMMA FinishStep ==
    ASSUME StreamInv, Trusted, Finish
    PROVE  StreamInv'
<1> USE SizesAssumption
<1>0. /\ Shape /\ Flags /\ Received /\ EndedAtFileSize
      /\ InFile /\ InRing /\ SizeExact /\ EofExplained
  BY DEF StreamInv
<1>1. Shape'
  <2>1. CASE rd' = [rd EXCEPT !.retries = @ - 1, !.after = "retry"] /\ rd.retries > 0
             /\ rpc' = "stop"
    <3>1. rd.retries - 1 \in Nat
      <4>1. rd.retries \in Nat
        BY <1>0 DEF Shape
      <4> QED BY <2>1, <4>1
    <3>2. rd' \in [req : Nat, ori : 0..FileSize, got : Seq(Int), retries : Nat,
                   skip : Int, err : BOOLEAN, hasSize : BOOLEAN,
                   after : {"none", "start", "retry", "close"}]
      <4>1. PICK k \in Nat : k = rd.retries - 1
        BY <3>1
      <4>2. rd' = [rd EXCEPT !.retries = k, !.after = "retry"]
        BY <2>1, <4>1
      <4> QED BY <1>0, <4>2 DEF Shape
    <3>3. UNCHANGED <<curOffset, ring, ringOffset, ppc, nBodySize, chunk, body,
                      fileSize>>
      BY DEF Finish, producer, size
    <3> QED BY <1>0, <2>1, <3>2, <3>3 DEF Shape
  <2>2. CASE rd' = rd /\ rpc' = "idle"
    BY <1>0, <2>2 DEF Shape, Finish, producer, size
  <2> QED BY <2>1, <2>2 DEF Finish
<1>2. Flags'
  BY <1>0 DEF Shape, Flags, Finish, Remaining, reader, flags, size, producer
<1>3. Received'
  BY <1>0 DEF Shape, Received, Finish, Remaining, reader, flags, size, producer
<1>4. EndedAtFileSize'
  BY <1>0
     DEF Shape, EndedAtFileSize, Finish, Remaining, reader, flags, size,
         producer
<1>5. InFile'
  BY <1>0
     DEF Shape, InFile, FilePrefix, Finish, Remaining, reader, flags, size,
         producer
<1>6. InRing'
  <2>1. rpc' \in {"stop", "idle"}
    BY DEF Finish
  <2> QED BY <2>1 DEF InRing
<1>7. SizeExact'
  BY <1>0 DEF Shape, SizeExact, Finish, Remaining, reader, flags, size, producer
<1>8. EofExplained'
  <2>1. CASE rpc' = "stop"
    BY <2>1 DEF EofExplained
  <2>2. CASE rpc' = "idle"
    <3>1. Remaining > 0 => Len(rd.got) < rd.req
      <4>1. rd.got \in Seq(Int) /\ rd.req \in Nat
        BY <1>0 DEF Shape
      <4>2. Len(rd.got) \in Nat
        BY <4>1
      <4> QED BY <4>1, <4>2 DEF Remaining
    <3>2. bEOF \/ Remaining > 0 => rd.err \/ bError \/ curOffset >= FileSize
      BY <1>0, <3>1 DEF EofExplained, Finish
    <3>3. /\ bEOF' => bEOF \/ Remaining > 0
          /\ rd.err \/ bError => bError'
          /\ curOffset' = curOffset
      BY <2>2, Zenon DEF Finish
    <3> QED BY <2>2, <3>2, <3>3 DEF EofExplained
  <2> QED BY <2>1, <2>2 DEF Finish
<1> QED BY <1>1, <1>2, <1>3, <1>4, <1>5, <1>6, <1>7, <1>8 DEF StreamInv

(* Close keeps the invariant. *)
LEMMA CloseStep ==
    ASSUME StreamInv, Trusted, Close
    PROVE  StreamInv'
<1> USE SizesAssumption
<1>0. /\ Shape /\ Flags /\ Received /\ EndedAtFileSize
      /\ InFile /\ InRing /\ SizeExact /\ EofExplained
  BY DEF StreamInv
<1>1. Shape'
  <2>1. rd' \in [req : Nat, ori : 0..FileSize, got : Seq(Int), retries : Nat,
                  skip : Int, err : BOOLEAN, hasSize : BOOLEAN,
                  after : {"none", "start", "retry", "close"}]
    <3>1. rd' = [req |-> 0, ori |-> 0, got |-> <<>>, retries |-> 0, skip |-> 0,
                 err |-> FALSE, hasSize |-> FALSE, after |-> "close"]
      BY DEF Close, NoRead
    <3>2. <<>> \in Seq(Int) /\ 0 \in 0..FileSize
      OBVIOUS
    <3> QED BY <3>1, <3>2
  <2> QED BY <1>0, <2>1 DEF Shape, Close, producer, size
<1>2. Flags'
  BY <1>0 DEF Shape, Flags, Close, NoRead, reader, flags, size, producer
<1>3. Received'
  BY <1>0 DEF Shape, Received, Close, NoRead, reader, flags, size, producer
<1>4. EndedAtFileSize'
  BY <1>0
     DEF Shape, EndedAtFileSize, Close, NoRead, reader, flags, size, producer
<1>5. InFile'
  <2>1. rd'.ori = 0 /\ rd'.got = <<>> /\ rd'.req = 0 /\ rd'.after = "close"
    BY DEF Close, NoRead
  <2>2. <<>> = Iota(0, 0) /\ Len(<<>>) = 0
    BY DEF Iota
  <2>3. rd'.got = Iota(rd'.ori, Len(rd'.got)) /\ Len(rd'.got) <= rd'.req
    BY <2>1, <2>2
  <2> QED BY <1>0, <2>1, <2>3 DEF InFile, FilePrefix, Close
<1>6. InRing'
  BY <1>0 DEF Shape, InRing, Close, NoRead, reader, flags, size, producer
<1>7. SizeExact'
  BY <1>0 DEF Shape, SizeExact, Close, NoRead, reader, flags, size, producer
<1>8. EofExplained'
  BY <1>0 DEF Shape, EofExplained, Close, NoRead, reader, flags, size, producer
<1> QED BY <1>1, <1>2, <1>3, <1>4, <1>5, <1>6, <1>7, <1>8 DEF StreamInv

(* StopDownload keeps the invariant. *)
LEMMA StopDownloadStep ==
    ASSUME StreamInv, Trusted, StopDownload
    PROVE  StreamInv'
<1> USE SizesAssumption
<1>0. /\ Shape /\ Flags /\ Received /\ EndedAtFileSize
      /\ InFile /\ InRing /\ SizeExact /\ EofExplained
  BY DEF StreamInv
<1>1. Shape'
  BY <1>0 DEF Shape, StopDownload, reader, flags, size, producer
<1>2. Flags'
  BY <1>0 DEF Shape, Flags, StopDownload, reader, flags, size, producer
<1>3. Received'
  BY <1>0 DEF Shape, Received, StopDownload, reader, flags, size, producer
<1>4. EndedAtFileSize'
  BY <1>0
     DEF Shape, EndedAtFileSize, StopDownload, reader, flags, size, producer
<1>5. InFile'
  BY <1>0
     DEF Shape, InFile, FilePrefix, StopDownload, reader, flags, size,
         producer
<1>6. InRing'
  BY <1>0 DEF Shape, InRing, StopDownload, reader, flags, size, producer
<1>7. SizeExact'
  BY <1>0 DEF Shape, SizeExact, StopDownload, reader, flags, size, producer
<1>8. EofExplained'
  BY <1>0 DEF Shape, EofExplained, StopDownload, reader, flags, size, producer
<1> QED BY <1>1, <1>2, <1>3, <1>4, <1>5, <1>6, <1>7, <1>8 DEF StreamInv

(* SleepEmpty keeps the invariant. *)
LEMMA SleepEmptyStep ==
    ASSUME StreamInv, Trusted, SleepEmpty
    PROVE  StreamInv'
<1> USE SizesAssumption
<1>0. /\ Shape /\ Flags /\ Received /\ EndedAtFileSize
      /\ InFile /\ InRing /\ SizeExact /\ EofExplained
  BY DEF StreamInv
<1>1. Shape'
  BY <1>0 DEF Shape, SleepEmpty, reader, flags, size, producer
<1>2. Flags'
  BY <1>0 DEF Shape, Flags, SleepEmpty, reader, flags, size, producer
<1>3. Received'
  BY <1>0 DEF Shape, Received, SleepEmpty, reader, flags, size, producer
<1>4. EndedAtFileSize'
  BY <1>0 DEF Shape, EndedAtFileSize, SleepEmpty, reader, flags, size, producer
<1>5. InFile'
  BY <1>0
     DEF Shape, InFile, FilePrefix, SleepEmpty, reader, flags, size, producer
<1>6. InRing'
  BY <1>0 DEF Shape, InRing, SleepEmpty, reader, flags, size, producer
<1>7. SizeExact'
  BY <1>0 DEF Shape, SizeExact, SleepEmpty, reader, flags, size, producer
<1>8. EofExplained'
  BY <1>0 DEF Shape, EofExplained, SleepEmpty, reader, flags, size, producer
<1> QED BY <1>1, <1>2, <1>3, <1>4, <1>5, <1>6, <1>7, <1>8 DEF StreamInv

(* Types of the numbers that Shape speaks about. *)
LEMMA Numbers ==
    ASSUME Shape
    PROVE  /\ ring.len \in Nat /\ ring.len <= BufferSize /\ BufferSize \in Nat
           /\ Len(chunk) \in Nat /\ Len(rd.got) \in Nat /\ rd.req \in Nat
           /\ ringOffset \in Nat /\ curOffset \in Nat /\ nBodySize \in Nat
           /\ rd.ori \in Nat /\ rd.skip \in Int /\ FileSize \in Nat
<1> USE SizesAssumption
<1>1. ring.len \in 0..BufferSize /\ BufferSize \in Nat
  BY DEF Shape, RingType
<1>2. Len(chunk) \in Nat
  BY DEF Shape
<1>3. rd.got \in Seq(Int) /\ rd.req \in Nat /\ rd.ori \in 0..FileSize /\ rd.skip \in Int
  BY DEF Shape
<1>4. Len(rd.got) \in Nat
  BY <1>3
<1>5. ringOffset \in Nat /\ curOffset \in Nat /\ nBodySize \in Nat
  BY DEF Shape
<1> QED BY <1>1, <1>2, <1>3, <1>4, <1>5

(* Bytes that are taken off the ring buffer, by Read() or to be kept in    *)
(* the cache, are those of the file at nRingBufferFileOffset, and what is  *)
(* left stays in place.                                                    *)
LEMMA Taken ==
    ASSUME Shape, Received, EndedAtFileSize, NEW n \in 0..ring.len,
           ring' = RingAfterRead(ring, n), ringOffset' = ringOffset + n,
           UNCHANGED <<ppc, nBodySize, chunk, failed, bErrorInThread>>
    PROVE  /\ RingBytes(ring, n) = Iota(ringOffset, n)
           /\ ringOffset + n <= FileSize
           /\ ring' \in RingType /\ ringOffset' \in 0..FileSize
           /\ ring'.len = ring.len - n
           /\ Received' /\ EndedAtFileSize'
<1> USE SizesAssumption
<1>1. ring \in RingType /\ ringOffset \in 0..FileSize /\ ringOffset \in Int
      /\ HoldsFrom(ring, ringOffset) /\ Len(chunk) \in Nat /\ ring.len \in Nat
  BY Numbers DEF Shape, Received
<1>2. RingBytes(ring, n) = Iota(ringOffset, n)
  BY <1>1, RingBytesExact
<1>3. /\ ring' \in RingType /\ ring'.len = ring.len - n
      /\ HoldsFrom(RingAfterRead(ring, n), ringOffset + n)
  BY <1>1, RingReadInPlace
<1>4. HoldsFrom(ring, ringOffset)'
  BY <1>3 DEF HoldsFrom, Place
<1>5. ringOffset + n <= FileSize /\ ringOffset' \in 0..FileSize
      /\ ringOffset' + ring'.len = ringOffset + ring.len
  <2>1. PICK a \in Nat, l \in Nat, c \in Nat :
             a = ringOffset /\ l = ring.len /\ c = Len(chunk)
    BY <1>1
  <2>2. n \in 0..l /\ a + l + c <= FileSize /\ FileSize \in Nat
    BY <2>1 DEF Received
  <2>3. a + n \in 0..FileSize /\ a + n <= FileSize /\ (a + n) + (l - n) = a + l
    BY <2>1, <2>2
  <2> QED BY <1>3, <2>1, <2>3
<1>6. Received'
  <2>1. ringOffset' + ring'.len + Len(chunk') = ringOffset + ring.len + Len(chunk)
    BY <1>5
  <2>2. ppc = "none" => n = 0
    BY <1>1 DEF Received
  <2>3. (ppc = "none" => ringOffset = 0 /\ ring.len = 0)'
    BY <1>1, <1>3, <2>2 DEF Received
  <2> QED BY <1>4, <2>1, <2>3 DEF Received
<1>7. EndedAtFileSize'
  BY <1>5 DEF EndedAtFileSize
<1> QED BY <1>2, <1>3, <1>5, <1>6, <1>7

(* ReceivedBytes() with n bytes keeps the invariant. *)
LEMMA ReceiveStep ==
    ASSUME StreamInv, Trusted, NEW n \in 1..MaxChunk, Receive(n)
    PROVE  StreamInv'
<1> USE SizesAssumption
<1>0. /\ Shape /\ Flags /\ Received /\ EndedAtFileSize
      /\ InFile /\ InRing /\ SizeExact /\ EofExplained
  BY DEF StreamInv
<1>a. /\ chunk' = [i \in 1..n |-> nBodySize + i - 1] /\ nBodySize' = nBodySize + n
      /\ nBodySize + n <= FileSize /\ n \in Nat /\ ppc = "body" /\ ppc' = "write"
      /\ chunk = <<>>
  BY <1>0 DEF Receive, BodySize, BodyByte, Shape, Received
<1>b. chunk' \in Seq(Int) /\ Len(chunk') = n
      /\ \A k \in 1..n : chunk'[k] = nBodySize + k - 1
  <2>1. nBodySize \in Int /\ n \in Nat
    BY <1>0, <1>a DEF Shape
  <2>2. \A i \in 1..n : nBodySize + i - 1 \in Int
    BY <2>1
  <2> QED BY <1>a, <2>1, <2>2
<1>1. Shape'
  <2>1. /\ UNCHANGED <<rpc, curOffset, ringOffset, rd, ring, body>>
        /\ fileSize' \in {fileSize, FileSize}
    BY DEF Receive, size, reader
  <2>2. nBodySize' \in 0..FileSize
    <3>1. nBodySize \in Nat /\ FileSize \in Nat
      BY <1>0 DEF Shape
    <3> QED BY <1>a, <3>1
  <2> QED BY <1>0, <1>a, <1>b, <2>1, <2>2 DEF Shape
<1>2. Flags'
  <2>1. /\ bEOF' \in BOOLEAN /\ bError' \in BOOLEAN
        /\ bAskDownloadEnd' \in BOOLEAN /\ hThread' \in BOOLEAN
        /\ bErrorInThread' \in BOOLEAN /\ bHasSize' \in BOOLEAN
        /\ rWaits' \in BOOLEAN /\ pWaits' \in BOOLEAN
        /\ failed' \in BOOLEAN /\ announced' \in BOOLEAN
    BY <1>0 DEF Flags, Receive, reader, flags, size, producer
  <2>2. bDownloadInProgress' = (ppc' \in {"header", "body", "write", "full", "end"})
    BY <1>0 DEF Flags, Shape, Receive, reader, flags, size, producer
  <2>3. bDownloadStopped' = (ppc' = "done")
    BY <1>0 DEF Flags, Shape, Receive, reader, flags, size, producer
  <2> QED BY <2>1, <2>2, <2>3 DEF Flags
<1>3. Received'
  <2>1. HoldsFrom(ring, ringOffset)'
    BY <1>0 DEF Received, Receive, HoldsFrom, Place
  <2>2. ringOffset + ring.len + Len(chunk) = nBodySize /\ Len(chunk) = 0
    BY <1>0, <1>a DEF Received
  <2>3. (ringOffset + ring.len + Len(chunk))' = nBodySize' /\ nBodySize' <= FileSize
    <3>1. ringOffset' = ringOffset /\ ring' = ring
      BY DEF Receive
    <3>2. PICK l \in Nat : l = ring.len
      BY <1>0, Numbers
    <3>3. nBodySize' = nBodySize + n /\ Len(chunk') = n /\ n \in Nat
          /\ nBodySize + n <= FileSize /\ ringOffset \in Nat
      BY <1>0, <1>a, <1>b, Numbers
    <3>4. ringOffset + l = nBodySize
      BY <2>2, <3>2, <3>3
    <3> QED BY <3>1, <3>2, <3>3, <3>4
  <2>4. \A k \in 1..Len(chunk') : chunk'[k] = nBodySize' - Len(chunk') + k - 1
    BY <1>0, <1>a, <1>b DEF Shape
  <2> QED BY <1>a, <2>1, <2>3, <2>4 DEF Received
<1>4. EndedAtFileSize'
  BY <1>0
     DEF Shape, EndedAtFileSize, Receive, BodySize, reader, flags, size,
         producer
<1>5. InFile'
  BY <1>0
     DEF Shape, InFile, FilePrefix, Receive, BodySize, reader, flags, size,
         producer
<1>6. InRing'
  BY <1>0 DEF Shape, InRing, Receive, BodySize, reader, flags, size, producer
<1>7. SizeExact'
  BY <1>0 DEF Shape, SizeExact, Receive, BodySize, reader, flags, size, producer
<1>8. EofExplained'
  BY <1>0
     DEF Shape, EofExplained, Receive, BodySize, reader, flags, size, producer
<1> QED BY <1>1, <1>2, <1>3, <1>4, <1>5, <1>6, <1>7, <1>8 DEF StreamInv

(* Write keeps the invariant. *)
LEMMA WriteStep ==
    ASSUME StreamInv, Trusted, Write
    PROVE  StreamInv'
<1> USE SizesAssumption
<1>0. /\ Shape /\ Flags /\ Received /\ EndedAtFileSize
      /\ InFile /\ InRing /\ SizeExact /\ EofExplained
  BY DEF StreamInv
<1> DEFINE f == BytesThatFit
           s == SubSeq(chunk, 1, f)
           u == SubSeq(chunk, f + 1, Len(chunk))
<1>a. /\ ring \in RingType /\ ring.len \in 0..BufferSize /\ BufferSize \in Nat
      /\ chunk \in Seq(Int) /\ Len(chunk) \in Nat /\ nBodySize \in Nat
      /\ ringOffset \in Int /\ ppc = "write"
  BY <1>0, Numbers DEF Shape, Write
<1>b. f \in 0..Len(chunk) /\ f <= BufferSize - ring.len
  <2>1. PICK a \in Int, b \in Int : a = Len(chunk) /\ b = BufferSize - ring.len
    BY <1>a
  <2>2. Min({a, b}) \in {a, b} /\ Min({a, b}) <= a /\ Min({a, b}) <= b
    BY MinOfTwo
  <2>3. f = Min({a, b})
    BY <2>1 DEF BytesThatFit
  <2> HIDE DEF f
  <2> QED BY <1>a, <2>1, <2>2, <2>3
<1>c. ring' = RingWrite(ring, s) /\ chunk' = u
  BY DEF Write
<1> HIDE DEF f
<1>d. s \in Seq(Int) /\ Len(s) = f /\ \A k \in 1..f : s[k] = chunk[k]
  BY <1>a, <1>b
<1>e. /\ u \in Seq(Int) /\ Len(u) = Len(chunk) - f
      /\ \A k \in 1..Len(chunk) - f : u[k] = chunk[f + k]
  BY <1>a, <1>b
<1>f. /\ ringOffset + ring.len + Len(chunk) = nBodySize
      /\ \A k \in 1..Len(chunk) : chunk[k] = nBodySize - Len(chunk) + k - 1
      /\ HoldsFrom(ring, ringOffset)
  BY <1>0, <1>a DEF Received
<1> HIDE DEF s, u
<1>g. \A k \in 1..Len(s) : s[k] = ringOffset + ring.len + k - 1
  <2> TAKE k \in 1..Len(s)
  <2>1. k \in 1..f /\ k \in 1..Len(chunk)
    BY <1>a, <1>b, <1>d
  <2>2. s[k] = nBodySize - Len(chunk) + k - 1
    BY <1>d, <1>f, <2>1
  <2>3. nBodySize - Len(chunk) = ringOffset + ring.len
    <3>1. ringOffset + ring.len + Len(chunk) = nBodySize
      BY <1>f
    <3>2. ringOffset \in Int /\ ring.len \in Int /\ Len(chunk) \in Int
      BY <1>a
    <3> QED BY <3>1, <3>2
  <2> QED BY <2>2, <2>3
<1>h. ring' \in RingType /\ ring'.len = ring.len + f
      /\ HoldsFrom(RingWrite(ring, s), ringOffset)
  <2>1. ring.len + Len(s) <= BufferSize
    BY <1>a, <1>b, <1>d
  <2> QED BY <1>a, <1>c, <1>d, <1>f, <1>g, <2>1, RingWriteInPlace
<1>i. ringOffset' = ringOffset /\ nBodySize' = nBodySize
  BY DEF Write
<1>j. ringOffset' + ring'.len + Len(chunk') = nBodySize'
  <2>1. PICK a \in Int, l \in Int, c \in Int, m \in Int :
             a = ringOffset /\ l = ring.len /\ c = Len(chunk) /\ m = f
    BY <1>a, <1>b
  <2>2. ringOffset' = a /\ ring'.len = l + m /\ Len(chunk') = c - m
    BY <1>c, <1>e, <1>h, <1>i, <2>1
  <2>3. a + l + c = nBodySize'
    BY <1>f, <1>i, <2>1
  <2>4. a + (l + m) + (c - m) = a + l + c
    BY MovedBytes
  <2> QED BY <2>2, <2>3, <2>4
<1>k. chunk' = <<>> => Len(chunk') = 0
  OBVIOUS
<1>1. Shape'
  BY <1>0, <1>c, <1>e, <1>h DEF Shape, Write, size, reader
<1>2. Flags'
  <2>1. /\ bEOF' \in BOOLEAN /\ bError' \in BOOLEAN
        /\ bAskDownloadEnd' \in BOOLEAN /\ hThread' \in BOOLEAN
        /\ bErrorInThread' \in BOOLEAN /\ bHasSize' \in BOOLEAN
        /\ rWaits' \in BOOLEAN /\ pWaits' \in BOOLEAN
        /\ failed' \in BOOLEAN /\ announced' \in BOOLEAN
    BY <1>0 DEF Flags, Write, reader, flags, size, producer
  <2>2. bDownloadInProgress' = (ppc' \in {"header", "body", "write", "full", "end"})
    BY <1>0 DEF Flags, Shape, Write, reader, flags, size, producer
  <2>3. bDownloadStopped' = (ppc' = "done")
    BY <1>0 DEF Flags, Shape, Write, reader, flags, size, producer
  <2> QED BY <2>1, <2>2, <2>3 DEF Flags
<1>3. Received'
  <2>1. HoldsFrom(ring, ringOffset)'
    BY <1>c, <1>h, <1>i DEF HoldsFrom, Place
  <2>2. \A k \in 1..Len(chunk') : chunk'[k] = nBodySize' - Len(chunk') + k - 1
    <3> TAKE k \in 1..Len(chunk')
    <3>1. k \in 1..Len(chunk) - f /\ f + k \in 1..Len(chunk)
      BY <1>a, <1>b, <1>c, <1>e
    <3>2. chunk[f + k] = nBodySize - Len(chunk) + (f + k) - 1
      BY <1>f, <3>1
    <3> QED BY <1>a, <1>b, <1>c, <1>e, <1>i, <3>1, <3>2
  <2>3. ppc' \notin {"write", "full"} => chunk' = <<>>
    BY DEF Write
  <2>4. nBodySize' <= FileSize /\ ppc' # "none"
    BY <1>0, <1>i DEF Shape, Write
  <2> QED BY <1>j, <2>1, <2>2, <2>3, <2>4 DEF Received
<1>4. EndedAtFileSize'
  <2>1. ppc' = "end" => failed' = TRUE
    BY <1>0 DEF Write, Flags
  <2>2. ppc' \notin {"ending", "done"}
    BY DEF Write
  <2> QED BY <2>1, <2>2 DEF EndedAtFileSize
<1>5. InFile'
  BY <1>0 DEF Shape, InFile, FilePrefix, Write, reader, flags, size, producer
<1>6. InRing'
  BY <1>0 DEF Shape, InRing, Write, reader, flags, size, producer
<1>7. SizeExact'
  BY <1>0 DEF Shape, SizeExact, Write, reader, flags, size, producer
<1>8. EofExplained'
  BY <1>0 DEF Shape, EofExplained, Write, reader, flags, size, producer
<1> QED BY <1>1, <1>2, <1>3, <1>4, <1>5, <1>6, <1>7, <1>8 DEF StreamInv

(* Seek keeps the invariant. *)
LEMMA SeekStep ==
    ASSUME StreamInv, Trusted, NEW o \in 0..FileSize, Seek(o)
    PROVE  StreamInv'
<1> USE SizesAssumption
<1>0. /\ Shape /\ Flags /\ Received /\ EndedAtFileSize
      /\ InFile /\ InRing /\ SizeExact /\ EofExplained
  BY DEF StreamInv
<1>1. Shape'
  BY <1>0 DEF Shape, Seek, reader, flags, size, producer
<1>2. Flags'
  BY <1>0 DEF Shape, Flags, Seek, reader, flags, size, producer
<1>3. Received'
  BY <1>0 DEF Shape, Received, Seek, reader, flags, size, producer
<1>4. EndedAtFileSize'
  BY <1>0 DEF Shape, EndedAtFileSize, Seek, reader, flags, size, producer
<1>5. InFile'
  <2>1. FilePrefix(cached')
    <3>1. FilePrefix(<<>>)
      BY DEF FilePrefix, Iota
    <3> QED BY <1>0, <3>1 DEF Seek, InFile
  <2>2. rpc' = "idle" /\ rd' = rd
    BY DEF Seek
  <2> QED BY <1>0, <2>1, <2>2 DEF InFile, FilePrefix
<1>6. InRing'
  BY <1>0 DEF Shape, InRing, Seek, reader, flags, size, producer
<1>7. SizeExact'
  BY <1>0 DEF Shape, SizeExact, Seek, reader, flags, size, producer
<1>8. EofExplained'
  BY <1>0 DEF Shape, EofExplained, Seek, reader, flags, size, producer
<1> QED BY <1>1, <1>2, <1>3, <1>4, <1>5, <1>6, <1>7, <1>8 DEF StreamInv

(* Read keeps the invariant. *)
LEMMA ReadStep ==
    ASSUME StreamInv, Trusted, NEW n \in 1..MaxRead, Read(n)
    PROVE  StreamInv'
<1> USE SizesAssumption
<1>0. /\ Shape /\ Flags /\ Received /\ EndedAtFileSize
      /\ InFile /\ InRing /\ SizeExact /\ EofExplained
  BY DEF StreamInv
<1>a. rd' = [req |-> n, ori |-> curOffset, got |-> <<>>, retries |-> MaxRetry, skip |-> 0,
             err |-> FALSE, hasSize |-> FALSE, after |-> "none"]
  BY DEF Read, NoRead
<1>b. <<>> \in Seq(Int) /\ Len(<<>>) = 0 /\ n \in Nat
  OBVIOUS
<1>1. Shape'
  <2>1. rd' \in [req : Nat, ori : 0..FileSize, got : Seq(Int), retries : Nat,
                  skip : Int, err : BOOLEAN, hasSize : BOOLEAN,
                  after : {"none", "start", "retry", "close"}]
    BY <1>0, <1>a, <1>b DEF Shape
  <2> QED BY <1>0, <2>1 DEF Shape, Read, producer, size
<1>2. Flags'
  BY <1>0 DEF Shape, Flags, Read, NoRead, reader, flags, size, producer
<1>3. Received'
  BY <1>0 DEF Shape, Received, Read, NoRead, reader, flags, size, producer
<1>4. EndedAtFileSize'
  BY <1>0
     DEF Shape, EndedAtFileSize, Read, NoRead, reader, flags, size, producer
<1>5. InFile'
  <2>1. rd'.ori = curOffset /\ rd'.got = <<>> /\ rd'.req = n
    BY <1>a
  <2>a. rpc' = "begin" /\ curOffset' = curOffset /\ cached' = cached
    BY DEF Read
  <2>2. <<>> = Iota(curOffset, 0)
    BY DEF Iota
  <2>3. rd'.got = Iota(rd'.ori, Len(rd'.got)) /\ Len(rd'.got) <= rd'.req
    BY <1>b, <2>1, <2>2
  <2> QED BY <1>0, <2>1, <2>a, <2>3 DEF InFile, FilePrefix
<1>6. InRing'
  BY <1>0 DEF Shape, InRing, Read, NoRead, reader, flags, size, producer
<1>7. SizeExact'
  BY <1>0 DEF Shape, SizeExact, Read, NoRead, reader, flags, size, producer
<1>8. EofExplained'
  BY <1>0 DEF Shape, EofExplained, Read, NoRead, reader, flags, size, producer
<1> QED BY <1>1, <1>2, <1>3, <1>4, <1>5, <1>6, <1>7, <1>8 DEF StreamInv

(* Skip keeps the invariant. *)
LEMMA SkipStep ==
    ASSUME StreamInv, Trusted, Skip
    PROVE  StreamInv'
<1> USE SizesAssumption
<1>0. /\ Shape /\ Flags /\ Received /\ EndedAtFileSize
      /\ InFile /\ InRing /\ SizeExact /\ EofExplained
  BY DEF StreamInv
<1> DEFINE n == Min({rd.skip, ring.len, SkipSize})
<1>a. /\ rpc = "skip" /\ ring.len \in Nat /\ rd.skip \in Nat /\ SkipSize \in Nat
      /\ rd.skip = curOffset - ringOffset
  BY <1>0 DEF Skip, Shape, RingType, InRing
<1>b. n \in 0..ring.len /\ n <= rd.skip
  <2>1. PICK a \in Int, b \in Int, c \in Int :
             a = rd.skip /\ b = ring.len /\ c = SkipSize
    BY <1>a
  <2>2. Min({a, b, c}) \in {a, b, c} /\ Min({a, b, c}) <= a /\ Min({a, b, c}) <= b
    BY MinOfThree
  <2>3. n = Min({a, b, c})
    BY <2>1
  <2> HIDE DEF n
  <2> QED BY <1>a, <2>1, <2>2, <2>3
<1>c. /\ cached' = AddRegion(cached, ringOffset, RingBytes(ring, n))
      /\ ring' = RingAfterRead(ring, n)
      /\ ringOffset' = ringOffset + n
      /\ rd' = [rd EXCEPT !.skip = rd.skip - n]
      /\ rpc' = IF rd.skip = n THEN "fillstart"
                ELSE IF n = 0 THEN "skipwait" ELSE "skip"
      /\ UNCHANGED <<curOffset, bEOF, bError, flags, size, rWaits, producer>>
  BY DEF Skip
<1> HIDE DEF n
<1>d. UNCHANGED <<ppc, nBodySize, chunk, failed, bErrorInThread, body, fileSize, bHasSize>>
  BY <1>c DEF flags, producer, size
<1>e. /\ RingBytes(ring, n) = Iota(ringOffset, n)
      /\ ringOffset + n <= FileSize
      /\ ring' \in RingType /\ ringOffset' \in 0..FileSize
      /\ Received' /\ EndedAtFileSize'
  BY <1>0, <1>b, <1>c, <1>d, Taken
<1>f. FilePrefix(cached')
  <2>1. ringOffset \in Nat /\ n \in Nat
    BY <1>0, <1>b DEF Shape
  <2> QED BY <1>0, <1>c, <1>e, <2>1, AddRegionExact DEF InFile
<1>g. /\ rd'.got = rd.got /\ rd'.ori = rd.ori /\ rd'.req = rd.req /\ rd'.err = rd.err
      /\ rd'.skip = rd.skip - n /\ rd'.hasSize = rd.hasSize
  BY <1>0, <1>c DEF Shape
<1>1. Shape'
  <2>1. PICK k \in Int : k = rd.skip - n
    BY <1>a, <1>b
  <2>2. rd' = [rd EXCEPT !.skip = k]
    BY <1>c, <2>1
  <2> QED BY <1>0, <1>c, <1>d, <1>e, <2>1, <2>2 DEF Shape
<1>2. Flags'
  BY <1>0 DEF Shape, Flags, Skip, reader, flags, size, producer
<1>3. Received'
  BY <1>e
<1>4. EndedAtFileSize'
  BY <1>e
<1>5. InFile'
  BY <1>0, <1>a, <1>c, <1>f, <1>g DEF InFile
<1>6. InRing'
  <2>1. ppc' # "none"
    BY <1>0, <1>a, <1>d DEF InRing
  <2>2. rd'.skip = curOffset' - ringOffset' /\ rd'.skip >= 0
    <3>1. /\ curOffset \in Nat /\ ringOffset \in Nat /\ n \in Nat
          /\ rd.skip = curOffset - ringOffset /\ n <= rd.skip
      BY <1>0, <1>a, <1>b, Numbers
    <3>2. curOffset' = curOffset /\ ringOffset' = ringOffset + n
      BY <1>c
    <3>3. PICK k \in Int : k = rd.skip
      BY <3>1
    <3>4. /\ k - n = curOffset - (ringOffset + n)
          /\ k - n >= 0
      BY <3>1, <3>3
    <3> QED BY <1>g, <3>2, <3>3, <3>4
  <2>3. rpc' = "fillstart" => curOffset' = ringOffset'
    <3>1. rpc' = "fillstart" => rd'.skip = 0
      BY <1>0, <1>a, <1>b, <1>c, <1>g, Numbers
    <3>2. curOffset' = curOffset /\ ringOffset' = ringOffset + n
          /\ curOffset \in Nat /\ ringOffset + n \in Nat
      <4>1. curOffset \in Nat /\ ringOffset \in Nat /\ n \in Nat
        BY <1>0, <1>b, Numbers
      <4> QED BY <1>c, <4>1
    <3> QED BY <2>2, <3>1, <3>2
  <2> QED BY <1>c, <2>1, <2>2, <2>3 DEF InRing
<1>7. SizeExact'
  BY <1>0, <1>d DEF SizeExact
<1>8. EofExplained'
  BY <1>0, <1>a, <1>c DEF EofExplained
<1> QED BY <1>1, <1>2, <1>3, <1>4, <1>5, <1>6, <1>7, <1>8 DEF StreamInv

(* Fill keeps the invariant. *)
LEMMA FillStep ==
    ASSUME StreamInv, Trusted, Fill
    PROVE  StreamInv'
<1> USE SizesAssumption
<1>0. /\ Shape /\ Flags /\ Received /\ EndedAtFileSize
      /\ InFile /\ InRing /\ SizeExact /\ EofExplained
  BY DEF StreamInv
<1> DEFINE n == Min({Remaining, ring.len})
<1>a. /\ rpc = "fill" /\ ring.len \in Nat /\ Remaining \in Nat
      /\ Remaining = rd.req - Len(rd.got) /\ Len(rd.got) \in Nat /\ rd.req \in Nat
      /\ curOffset = ringOffset /\ curOffset \in 0..FileSize
      /\ curOffset = rd.ori + Len(rd.got) /\ rd.ori \in Nat
  <2>1. rpc = "fill"
    BY DEF Fill
  <2>2. /\ curOffset = ringOffset /\ Len(rd.got) <= rd.req
        /\ curOffset = rd.ori + Len(rd.got)
    BY <1>0, <2>1 DEF InRing, InFile
  <2>3. curOffset \in 0..FileSize
    BY <1>0 DEF Shape
  <2> QED BY <1>0, <2>1, <2>2, <2>3, Numbers DEF Remaining
<1>b. n \in 0..ring.len /\ n <= Remaining /\ n \in Nat
  <2>1. PICK a \in Int, b \in Int : a = Remaining /\ b = ring.len
    BY <1>a
  <2>2. Min({a, b}) \in {a, b} /\ Min({a, b}) <= a /\ Min({a, b}) <= b
    BY MinOfTwo
  <2>3. n = Min({a, b})
    BY <2>1
  <2> HIDE DEF n
  <2> QED BY <1>a, <2>1, <2>2, <2>3
<1>c. /\ cached' = AddRegion(cached, curOffset, RingBytes(ring, n))
      /\ ring' = RingAfterRead(ring, n)
      /\ ringOffset' = ringOffset + n /\ curOffset' = curOffset + n
      /\ rd' = [rd EXCEPT !.got = rd.got \o RingBytes(ring, n)]
      /\ rpc' = IF n = Remaining THEN "finish"
                ELSE IF n = 0 THEN "fillwait" ELSE "fill"
      /\ UNCHANGED <<bEOF, bError, flags, size, rWaits, producer>>
  BY DEF Fill
<1> HIDE DEF n
<1>d. UNCHANGED <<ppc, nBodySize, chunk, failed, bErrorInThread, body, fileSize, bHasSize>>
  BY <1>c DEF flags, producer, size
<1>e. /\ RingBytes(ring, n) = Iota(ringOffset, n)
      /\ ringOffset + n <= FileSize
      /\ ring' \in RingType /\ ringOffset' \in 0..FileSize
      /\ Received' /\ EndedAtFileSize'
  BY <1>0, <1>b, <1>c, <1>d, Taken
<1>f. FilePrefix(cached')
  <2>1. ringOffset \in Nat /\ n \in Nat
    BY <1>0, <1>b DEF Shape
  <2> QED BY <1>0, <1>a, <1>c, <1>e, <2>1, AddRegionExact DEF InFile
<1>g. /\ rd'.got = rd.got \o Iota(ringOffset, n) /\ rd'.ori = rd.ori /\ rd'.req = rd.req
      /\ rd'.err = rd.err /\ rd'.hasSize = rd.hasSize
  BY <1>0, <1>c, <1>e DEF Shape
<1>h. rd'.got = Iota(rd.ori, Len(rd.got) + n) /\ rd'.got \in Seq(Int)
      /\ Len(rd'.got) = Len(rd.got) + n
  <2>1. PICK k \in Nat : k = Len(rd.got)
    BY <1>a
  <2>2. rd.got = Iota(rd.ori, k) /\ ringOffset = rd.ori + k
    BY <1>0, <1>a, <2>1 DEF InFile
  <2>3. Iota(rd.ori, k) \o Iota(rd.ori + k, n) = Iota(rd.ori, k + n)
    <3>1. rd.ori \in Int
      BY <1>a
    <3> QED BY <1>b, <3>1, IotaConcat
  <2>4. Iota(rd.ori, k + n) \in Seq(Int) /\ Len(Iota(rd.ori, k + n)) = k + n
    <3>1. rd.ori \in Int /\ k + n \in Nat
      BY <1>a, <1>b
    <3> QED BY <3>1, IotaIsSeq
  <2> QED BY <1>g, <2>1, <2>2, <2>3, <2>4
<1>1. Shape'
  <2>1. rd' \in [req : Nat, ori : 0..FileSize, got : Seq(Int), retries : Nat,
                  skip : Int, err : BOOLEAN, hasSize : BOOLEAN,
                  after : {"none", "start", "retry", "close"}]
    <3>1. PICK s : s = rd.got \o RingBytes(ring, n)
      OBVIOUS
    <3>2. s \in Seq(Int) /\ rd' = [rd EXCEPT !.got = s]
      BY <1>0, <1>c, <1>h, <3>1 DEF Shape
    <3> QED BY <1>0, <3>2 DEF Shape
  <2> QED BY <1>0, <1>a, <1>b, <1>c, <1>d, <1>e, <2>1 DEF Shape
<1>2. Flags'
  BY <1>0 DEF Shape, Flags, Fill, reader, flags, size, producer
<1>3. Received'
  BY <1>e
<1>4. EndedAtFileSize'
  BY <1>e
<1>5. InFile'
  <2>1. curOffset' = rd'.ori + Len(rd'.got) /\ Len(rd'.got) <= rd'.req
    <3>1. Len(rd'.got) = Len(rd.got) + n
      BY <1>h
    <3>2. curOffset' = curOffset + n /\ n <= rd.req - Len(rd.got)
      BY <1>a, <1>b, <1>c
    <3>3. curOffset = rd.ori + Len(rd.got) /\ rd.ori \in Nat /\ rd.req \in Nat
      BY <1>a
    <3>4. PICK l \in Nat : l = Len(rd.got)
      BY <1>a
    <3>5. rd'.ori = rd.ori /\ rd'.req = rd.req /\ n \in Nat
      BY <1>b, <1>g
    <3>6. PICK a \in Nat, q \in Nat, m \in Nat : a = rd.ori /\ q = rd.req /\ m = n
      BY <3>3, <3>5
    <3>7. (a + l) + m = a + (l + m) /\ (m <= q - l => l + m <= q)
      OBVIOUS
    <3>8. curOffset' = (a + l) + m /\ m <= q - l /\ Len(rd'.got) = l + m
      BY <3>1, <3>2, <3>3, <3>4, <3>6
    <3> QED BY <3>5, <3>6, <3>7, <3>8
  <2>2. rd'.got = Iota(rd'.ori, Len(rd'.got))
    BY <1>g, <1>h
  <2> QED BY <1>c, <1>f, <2>1, <2>2 DEF InFile
<1>6. InRing'
  <2>1. ppc' # "none"
    BY <1>0, <1>a, <1>d DEF InRing
  <2> QED BY <1>a, <1>c, <2>1 DEF InRing
<1>7. SizeExact'
  BY <1>0, <1>d DEF SizeExact
<1>8. EofExplained'
  <2>1. bEOF' = FALSE
    BY <1>0, <1>a, <1>c DEF EofExplained
  <2>2. rpc' = "finish" => Len(rd'.got) = rd'.req
    <3>1. Len(rd'.got) = Len(rd.got) + n
      BY <1>h
    <3>2. rpc' = "finish" => n = rd.req - Len(rd.got)
      BY <1>a, <1>c
    <3> QED BY <1>a, <1>b, <1>g, <3>1, <3>2
  <2>3. Len(rd'.got) = rd'.req => ~(Len(rd'.got) < rd'.req)
    BY <1>a, <1>g
  <2> QED BY <1>c, <2>1, <2>2, <2>3 DEF EofExplained
<1> QED BY <1>1, <1>2, <1>3, <1>4, <1>5, <1>6, <1>7, <1>8 DEF StreamInv

(* StartDownload() leaves a running download alone, and starts one when    *)
(* there is none: the reader's place in the ring buffer does not change.   *)
LEMMA Started ==
    ASSUME Shape, Flags, Received, EndedAtFileSize, Trusted, StartDownload,
           UNCHANGED <<bEOF, bError, bHasSize, rWaits, pWaits>>
    PROVE  /\ ringOffset' = ringOffset /\ ring' \in RingType
           /\ ppc' \in {"header", "body", "write", "full", "end", "ending", "done"}
           /\ nBodySize' \in 0..FileSize /\ chunk' \in Seq(Int) /\ body' = "file"
           /\ Flags' /\ Received' /\ EndedAtFileSize'
<1> USE SizesAssumption
<1>1. CASE IsStarted
  <2>1. UNCHANGED <<ring, ringOffset, flags, producer>>
    BY <1>1 DEF StartDownload
  <2>2. ppc # "none"
    BY <1>1 DEF IsStarted, Flags
  <2>3. Flags'
    BY <2>1 DEF Flags, flags, producer
  <2>4. Received' /\ EndedAtFileSize'
    BY <2>1 DEF Received, HoldsFrom, Place, EndedAtFileSize, flags, producer
  <2>5. ring' \in RingType /\ ringOffset' = ringOffset
    BY <2>1 DEF Shape
  <2>6. /\ ppc' \in {"header", "body", "write", "full", "end", "ending", "done"}
        /\ nBodySize' \in 0..FileSize /\ chunk' \in Seq(Int) /\ body' = "file"
    BY <2>1, <2>2 DEF Shape, producer
  <2> QED BY <2>3, <2>4, <2>5, <2>6
<1>2. CASE ~IsStarted
  <2>1. ppc # "ending"
    BY DEF StartDownload, MutexFree, Trusted
  <2>2. ppc = "none"
    BY <1>2, <2>1 DEF IsStarted, Flags, Shape
  <2>3. /\ ring' = EmptyRing /\ ringOffset' = 0 /\ ppc' = "header"
        /\ nBodySize' = 0 /\ chunk' = <<>> /\ body' = "file"
    BY <1>2 DEF StartDownload
  <2>4. ringOffset = 0
    BY <2>2 DEF Received
  <2>5. Flags'
    <3>1. /\ bDownloadInProgress' = TRUE /\ failed' = FALSE
          /\ bErrorInThread' = FALSE /\ hThread' = TRUE
          /\ UNCHANGED <<bDownloadStopped, bAskDownloadEnd, announced>>
      BY <1>2 DEF StartDownload
    <3>2. bDownloadStopped = (ppc = "done")
      BY DEF Flags
    <3>3. bDownloadStopped = FALSE
      BY <2>2, <3>2
    <3>4. bDownloadStopped' = (ppc' = "done")
      BY <2>3, <3>1, <3>3
    <3>5. bDownloadInProgress' = (ppc' \in {"header", "body", "write", "full", "end"})
      BY <2>3, <3>1
    <3> QED BY <3>1, <3>4, <3>5 DEF Flags
  <2>6. Received'
    <3>1. HoldsFrom(ring, ringOffset)'
      BY <2>3, EmptyRingHolds DEF HoldsFrom, Place
    <3>2. Len(chunk') = 0 /\ ring'.len = 0 /\ 0 <= FileSize
      BY <2>3, EmptyRingHolds
    <3> QED BY <2>3, <3>1, <3>2 DEF Received
  <2>7. EndedAtFileSize'
    BY <2>3 DEF EndedAtFileSize
  <2>8. ring' \in RingType /\ 0 \in 0..FileSize /\ <<>> \in Seq(Int)
    BY <2>3, EmptyRingHolds
  <2> QED BY <2>3, <2>4, <2>5, <2>6, <2>7, <2>8
<1> QED BY <1>1, <1>2

(* Start keeps the invariant. *)
LEMMA StartStep ==
    ASSUME StreamInv, Trusted, Start
    PROVE  StreamInv'
<1> USE SizesAssumption
<1>0. /\ Shape /\ Flags /\ Received /\ EndedAtFileSize
      /\ InFile /\ InRing /\ SizeExact /\ EofExplained
  BY DEF StreamInv
<1>a. /\ rpc = "start" /\ rpc' = "skip" /\ StartDownload
      /\ rd' = [rd EXCEPT !.skip = curOffset - ringOffset']
      /\ UNCHANGED <<curOffset, bEOF, bError, cached, bHasSize, fileSize, rWaits, pWaits>>
  BY DEF Start, size
<1>b. /\ ringOffset' = ringOffset /\ ring' \in RingType
      /\ ppc' \in {"header", "body", "write", "full", "end", "ending", "done"}
      /\ nBodySize' \in 0..FileSize /\ chunk' \in Seq(Int) /\ body' = "file"
      /\ Flags' /\ Received' /\ EndedAtFileSize'
  BY <1>0, <1>a, Started
<1>c. PICK k \in Int : k = curOffset - ringOffset /\ k >= 0
  BY <1>0, <1>a, Numbers DEF InRing
<1>d. rd' = [rd EXCEPT !.skip = k]
  BY <1>a, <1>b, <1>c
<1>e. /\ rd'.got = rd.got /\ rd'.ori = rd.ori /\ rd'.req = rd.req /\ rd'.skip = k
  BY <1>0, <1>d DEF Shape
<1>1. Shape'
  <2>1. rd' \in [req : Nat, ori : 0..FileSize, got : Seq(Int), retries : Nat,
                  skip : Int, err : BOOLEAN, hasSize : BOOLEAN,
                  after : {"none", "start", "retry", "close"}]
    BY <1>0, <1>d DEF Shape
  <2> QED BY <1>0, <1>a, <1>b, <2>1 DEF Shape
<1>2. Flags'
  BY <1>b
<1>3. Received'
  BY <1>b
<1>4. EndedAtFileSize'
  BY <1>b
<1>5. InFile'
  BY <1>0, <1>a, <1>e DEF InFile, FilePrefix
<1>6. InRing'
  BY <1>a, <1>b, <1>c, <1>e DEF InRing
<1>7. SizeExact'
  BY <1>0, <1>a DEF SizeExact
<1>8. EofExplained'
  BY <1>0, <1>a DEF EofExplained
<1> QED BY <1>1, <1>2, <1>3, <1>4, <1>5, <1>6, <1>7, <1>8 DEF StreamInv

(* FillStart keeps the invariant. *)
LEMMA FillStartStep ==
    ASSUME StreamInv, Trusted, FillStart
    PROVE  StreamInv'
<1> USE SizesAssumption
<1>0. /\ Shape /\ Flags /\ Received /\ EndedAtFileSize
      /\ InFile /\ InRing /\ SizeExact /\ EofExplained
  BY DEF StreamInv
<1>a. /\ rpc = "fillstart"
      /\ UNCHANGED <<curOffset, bEOF, bError, cached, rd, bHasSize, fileSize, rWaits, pWaits>>
  BY DEF FillStart, size
<1>1. CASE rd.err
  <2>1. rpc' = "finish" /\ UNCHANGED <<ring, ringOffset, flags, producer>>
    BY <1>1 DEF FillStart
  <2>2. Shape'
    BY <1>0, <1>a, <2>1 DEF Shape, producer
  <2>3. Flags'
    BY <1>0, <1>a, <2>1 DEF Flags, flags, producer
  <2>4. Received' /\ EndedAtFileSize'
    BY <1>0, <1>a, <2>1
       DEF Received, HoldsFrom, Place, EndedAtFileSize, flags, producer
  <2>5. InFile' /\ InRing'
    BY <1>0, <1>a, <2>1 DEF InFile, FilePrefix, InRing
  <2>6. SizeExact'
    BY <1>0, <1>a DEF SizeExact
  <2>7. EofExplained'
    <3>1. bEOF = FALSE
      BY <1>0, <1>a DEF EofExplained
    <3> QED BY <1>1, <1>a, <2>1, <3>1 DEF EofExplained
  <2> QED BY <2>2, <2>3, <2>4, <2>5, <2>6, <2>7 DEF StreamInv
<1>2. CASE ~rd.err
  <2>1. rpc' = "fill" /\ StartDownload
    BY <1>2 DEF FillStart
  <2>2. /\ ringOffset' = ringOffset /\ ring' \in RingType
        /\ ppc' \in {"header", "body", "write", "full", "end", "ending", "done"}
        /\ nBodySize' \in 0..FileSize /\ chunk' \in Seq(Int) /\ body' = "file"
        /\ Flags' /\ Received' /\ EndedAtFileSize'
    BY <1>0, <1>a, <2>1, Started
  <2>3. Shape'
    BY <1>0, <1>a, <2>1, <2>2 DEF Shape
  <2>4. InFile'
    BY <1>0, <1>a, <2>1 DEF InFile, FilePrefix
  <2>5. InRing'
    BY <1>0, <1>a, <2>1, <2>2 DEF InRing
  <2>6. SizeExact'
    BY <1>0, <1>a DEF SizeExact
  <2>7. EofExplained'
    BY <1>0, <1>a, <2>1 DEF EofExplained
  <2> QED BY <2>2, <2>3, <2>4, <2>5, <2>6, <2>7 DEF StreamInv
<1> QED BY <1>1, <1>2

(* Stopped keeps the invariant. *)
LEMMA StoppedStep ==
    ASSUME StreamInv, Trusted, Stopped
    PROVE  StreamInv'
<1> USE SizesAssumption
<1>0. /\ Shape /\ Flags /\ Received /\ EndedAtFileSize
      /\ InFile /\ InRing /\ SizeExact /\ EofExplained
  BY DEF StreamInv
<1>a. /\ rpc = "stopwait" /\ ppc' = "none" /\ ring' = EmptyRing /\ ringOffset' = 0
      /\ nBodySize' = 0 /\ bEOF' = FALSE
      /\ UNCHANGED <<bError, cached, bHasSize, fileSize, chunk, announced, body>>
  BY DEF Stopped, size
<1>b. /\ ring' \in RingType /\ ring'.len = 0 /\ HoldsFrom(ring, ringOffset)'
  BY <1>a, EmptyRingHolds DEF HoldsFrom, Place
<1>c. chunk' = <<>> /\ Len(chunk') = 0 /\ chunk' \in Seq(Int)
  <2>1. ppc \in {"none", "done"}
    BY DEF Stopped
  <2>2. chunk' = <<>>
    BY <1>0, <1>a, <2>1 DEF Received
  <2>3. Len(<<>>) = 0 /\ <<>> \in Seq(Int)
    OBVIOUS
  <2> QED BY <2>2, <2>3
<1>d. ASSUME rd.after = "retry"
      PROVE  Shape' /\ InFile' /\ InRing' /\ EofExplained'
  <2>1. curOffset' = rd.ori /\ rpc' = "begin" /\ rd' = [rd EXCEPT !.got = <<>>, !.err = FALSE]
    BY <1>d DEF Stopped
  <2>2. rd'.got = <<>> /\ rd'.ori = rd.ori /\ rd'.req = rd.req
    BY <1>0, <2>1 DEF Shape
  <2>3. Shape'
    <3>1. rd' \in [req : Nat, ori : 0..FileSize, got : Seq(Int), retries : Nat,
                  skip : Int, err : BOOLEAN, hasSize : BOOLEAN,
                  after : {"none", "start", "retry", "close"}]
      <4>1. <<>> \in Seq(Int)
        OBVIOUS
      <4> QED BY <1>0, <2>1, <4>1 DEF Shape
    <3>2. curOffset' \in 0..FileSize
      BY <1>0, <2>1 DEF Shape
    <3> QED BY <1>0, <1>a, <1>b, <1>c, <2>1, <3>1, <3>2 DEF Shape
  <2>4. InFile'
    <3>1. <<>> = Iota(rd.ori, 0) /\ Len(<<>>) = 0
      BY DEF Iota
    <3>2. rd'.got = Iota(rd'.ori, Len(rd'.got)) /\ Len(rd'.got) <= rd'.req
      BY <1>0, <2>2, <3>1, Numbers
    <3> QED BY <1>0, <1>a, <2>1, <2>2, <3>2 DEF InFile, FilePrefix
  <2>5. InRing'
    BY <2>1 DEF InRing
  <2>6. EofExplained'
    BY <1>a, <2>1 DEF EofExplained
  <2> QED BY <2>3, <2>4, <2>5, <2>6
<1>e. ASSUME rd.after # "retry"
      PROVE  Shape' /\ InFile' /\ InRing' /\ EofExplained'
  <2>1. curOffset' = curOffset /\ rd' = rd
    BY <1>e DEF Stopped
  <2>2. rpc' = IF rd.after = "close" THEN "closed"
               ELSE IF curOffset = 0 THEN "fillstart" ELSE "start"
    BY <1>e DEF Stopped
  <2>3. Shape'
    BY <1>0, <1>a, <1>b, <1>c, <2>1, <2>2 DEF Shape
  <2>4. InFile'
    <3>1. rpc' \in {"fillstart", "start"} => rd.after = "start"
      <4>1. rd.after \in {"none", "start", "retry", "close"}
        BY <1>0 DEF Shape
      <4>2. rd.after # "none"
        BY <1>0, <1>a DEF InFile
      <4> QED BY <1>e, <2>2, <4>1, <4>2
    <3>2. rpc' \notin {"begin", "cache"} /\ rpc' \in {"closed", "fillstart", "start"}
      BY <2>2
    <3> QED BY <1>0, <1>a, <2>1, <3>1, <3>2 DEF InFile, FilePrefix
  <2>5. InRing'
    BY <1>0, <1>a, <2>1, <2>2, Numbers DEF InRing
  <2>6. EofExplained'
    BY <1>a, <2>2 DEF EofExplained
  <2> QED BY <2>3, <2>4, <2>5, <2>6
<1>1. Shape'
  BY <1>d, <1>e
<1>2. Flags'
  <2>1. /\ bAskDownloadEnd' = FALSE /\ hThread' = FALSE /\ bErrorInThread' = FALSE
        /\ failed' = FALSE /\ bDownloadStopped' = FALSE
        /\ UNCHANGED <<bDownloadInProgress, rWaits, pWaits>>
    BY DEF Stopped
  <2>2. bDownloadInProgress = FALSE
    BY <1>0 DEF Stopped, Flags
  <2>3. bDownloadInProgress' = (ppc' \in {"header", "body", "write", "full", "end"})
    <3>1. (ppc' \in {"header", "body", "write", "full", "end"}) = FALSE
      BY <1>a
    <3> QED BY <2>1, <2>2, <3>1
  <2>4. bDownloadStopped' = (ppc' = "done")
    BY <1>a, <2>1
  <2> QED BY <1>0, <1>a, <2>1, <2>3, <2>4 DEF Flags
<1>3. Received'
  BY <1>a, <1>b, <1>c DEF Received
<1>4. EndedAtFileSize'
  BY <1>a DEF EndedAtFileSize
<1>5. InFile'
  BY <1>d, <1>e
<1>6. InRing'
  BY <1>d, <1>e
<1>7. SizeExact'
  BY <1>0, <1>a DEF SizeExact
<1>8. EofExplained'
  BY <1>d, <1>e
<1> QED BY <1>1, <1>2, <1>3, <1>4, <1>5, <1>6, <1>7, <1>8 DEF StreamInv

(* UseCache keeps the invariant. *)
LEMMA UseCacheStep ==
    ASSUME StreamInv, Trusted, UseCache
    PROVE  StreamInv'
<1> USE SizesAssumption
<1>0. /\ Shape /\ Flags /\ Received /\ EndedAtFileSize
      /\ InFile /\ InRing /\ SizeExact /\ EofExplained
  BY DEF StreamInv
<1> DEFINE n == BytesToKeep
           c == AddRegion(cached, ringOffset, RingBytes(ring, n))
           m == Min({curOffset + rd.req, Len(c)})
           got == SubSeq(c, curOffset + 1, m)
           atEnd == /\ rd.hasSize
                    /\ curOffset + Len(got) <= Len(c)
                    /\ curOffset + rd.req > fileSize
                    /\ fileSize = Len(c)
<1>a. /\ rpc = "cache" /\ ring' = RingAfterRead(ring, n) /\ ringOffset' = ringOffset + n
      /\ cached' = c /\ curOffset' = curOffset + Len(got)
      /\ rd' = [rd EXCEPT !.got = got, !.after = "start"]
      /\ UNCHANGED <<bError, flags, size, rWaits, producer>>
  BY DEF UseCache
<1>b. /\ bEOF' = atEnd /\ pWaits' = (pWaits /\ n = 0)
      /\ rpc' = IF atEnd \/ Len(got) = rd.req THEN "finish"
                ELSE IF curOffset' < ringOffset' THEN "stop"
                ELSE IF curOffset' > ringOffset' THEN "start"
                ELSE "fillstart"
  BY DEF UseCache
<1>c. /\ ring.len \in Nat /\ ringOffset \in Nat /\ curOffset \in Nat /\ rd.req \in Nat
      /\ BufferSize \in Nat /\ FileSize \in Nat /\ curOffset <= FileSize
  BY <1>0, Numbers DEF Shape
<1>d. n \in 0..ring.len /\ n \in Nat
  <2>1. CASE curOffset < ringOffset /\ ringOffset < BufferSize
    <3>1. PICK a \in Int, b \in Int : a = ring.len /\ b = BufferSize - ringOffset
      BY <1>c
    <3>2. Min({a, b}) \in {a, b} /\ Min({a, b}) <= a /\ Min({a, b}) <= b
      BY MinOfTwo
    <3>3. n = Min({a, b})
      BY <2>1, <3>1 DEF BytesToKeep
    <3> HIDE DEF n
    <3> QED BY <1>c, <2>1, <3>1, <3>2, <3>3
  <2>2. CASE ~(curOffset < ringOffset /\ ringOffset < BufferSize)
    <3>1. n = 0
      BY <2>2 DEF BytesToKeep
    <3> QED BY <1>c, <3>1
  <2> QED BY <2>1, <2>2
<1> HIDE DEF n
<1>e. UNCHANGED <<ppc, nBodySize, chunk, failed, bErrorInThread, body, fileSize, bHasSize>>
  BY <1>a DEF flags, producer, size
<1>f. /\ RingBytes(ring, n) = Iota(ringOffset, n)
      /\ ringOffset + n <= FileSize
      /\ ring' \in RingType /\ ringOffset' \in 0..FileSize
      /\ Received' /\ EndedAtFileSize'
  BY <1>0, <1>a, <1>d, <1>e, Taken
<1>g. FilePrefix(c)
  BY <1>0, <1>c, <1>d, <1>f, AddRegionExact DEF InFile
<1> HIDE DEF c
<1>h. Len(c) \in Nat /\ c = Iota(0, Len(c)) /\ Len(c) <= FileSize
  BY <1>c, <1>g DEF FilePrefix
<1>i. m \in Nat /\ m <= Len(c) /\ m <= curOffset + rd.req
      /\ m \in {curOffset + rd.req, Len(c)}
  <2>1. PICK a \in Int, b \in Int : a = curOffset + rd.req /\ b = Len(c)
    BY <1>c, <1>h
  <2>2. Min({a, b}) \in {a, b} /\ Min({a, b}) <= a /\ Min({a, b}) <= b
    BY MinOfTwo
  <2>3. m = Min({a, b})
    BY <2>1
  <2> HIDE DEF m
  <2> QED BY <1>c, <1>h, <2>1, <2>2, <2>3
<1> HIDE DEF m
<1>j. PICK k \in Nat : k = IF curOffset < m THEN m - curOffset ELSE 0
  <2>1. (IF curOffset < m THEN m - curOffset ELSE 0) \in Nat
    BY <1>c, <1>i
  <2> QED BY <2>1
<1>k. got = Iota(curOffset, k)
  <2>1. PICK L \in Nat : L = Len(c)
    BY <1>h
  <2>2. SubSeq(Iota(0, L), curOffset + 1, m)
          = Iota(curOffset, IF curOffset < m THEN m - curOffset ELSE 0)
    BY <1>c, <1>i, <2>1, IotaPart
  <2> QED BY <1>h, <1>j, <2>1, <2>2
<1> HIDE DEF got
<1>l. got \in Seq(Int) /\ Len(got) = k
  BY <1>c, <1>k, IotaIsSeq
<1>m. k <= rd.req /\ curOffset + k <= FileSize
  BY <1>c, <1>h, <1>i, <1>j
<1>n. /\ rd'.got = got /\ rd'.ori = rd.ori /\ rd'.req = rd.req /\ rd'.after = "start"
  BY <1>0, <1>a DEF Shape
<1>o. curOffset' = rd.ori + Len(got) /\ curOffset = rd.ori
  BY <1>0, <1>a DEF InFile
<1>p. atEnd => curOffset' >= FileSize
  <2> SUFFICES ASSUME atEnd PROVE curOffset' >= FileSize
    OBVIOUS
  <2>1. bHasSize
    BY <1>0, <1>a DEF EofExplained
  <2>2. Len(c) = FileSize /\ curOffset + rd.req > Len(c)
    BY <1>0, <2>1 DEF SizeExact
  <2>3. m = FileSize
    BY <1>c, <1>i, <2>2
  <2>4. curOffset' = curOffset + k
    BY <1>a, <1>l
  <2> QED BY <1>c, <1>j, <2>3, <2>4
<1>q. atEnd \in BOOLEAN
  <2>1. rd.hasSize \in BOOLEAN
    BY <1>0 DEF Shape
  <2> QED BY <2>1
<1> HIDE DEF atEnd
<1>1. Shape'
  <2>1. rd' \in [req : Nat, ori : 0..FileSize, got : Seq(Int), retries : Nat,
                  skip : Int, err : BOOLEAN, hasSize : BOOLEAN,
                  after : {"none", "start", "retry", "close"}]
    BY <1>0, <1>a, <1>l DEF Shape
  <2>2. curOffset' \in 0..FileSize
    BY <1>a, <1>c, <1>l, <1>m
  <2>3. rpc' \in {"finish", "stop", "start", "fillstart"}
    BY <1>b
  <2> QED BY <1>0, <1>a, <1>e, <1>f, <2>1, <2>2, <2>3 DEF Shape
<1>2. Flags'
  <2>1. bEOF' \in BOOLEAN
    BY <1>b, <1>q
  <2>2. pWaits' \in BOOLEAN
    BY <1>b
  <2> QED BY <1>0, <1>a, <1>e, <2>1, <2>2 DEF Flags, flags, producer
<1>3. Received'
  BY <1>f
<1>4. EndedAtFileSize'
  BY <1>f
<1>5. InFile'
  <2>1. rpc' \in {"finish", "stop", "start", "fillstart"}
    BY <1>b
  <2>2. rd'.got = Iota(rd'.ori, Len(rd'.got)) /\ Len(rd'.got) <= rd'.req
    BY <1>k, <1>l, <1>m, <1>n, <1>o
  <2>3. curOffset' = rd'.ori + Len(rd'.got)
    BY <1>n, <1>o
  <2>4. FilePrefix(cached')
    BY <1>a, <1>g
  <2> QED BY <1>n, <2>1, <2>2, <2>3, <2>4 DEF InFile
<1>6. InRing'
  <2>1. curOffset' \in Int /\ ringOffset' \in Int
    BY <1>a, <1>c, <1>d, <1>l
  <2> QED BY <1>b, <2>1 DEF InRing
<1>7. SizeExact'
  BY <1>0, <1>e DEF SizeExact
<1>8. EofExplained'
  <2>1. rpc' \in {"start", "fillstart"} => bEOF' = FALSE
    BY <1>b, <1>q
  <2>2. rpc' = "finish" /\ Len(rd'.got) < rd'.req => atEnd
    BY <1>b, <1>c, <1>l, <1>n
  <2>3. rpc' \in {"finish", "stop", "start", "fillstart"}
    BY <1>b
  <2> QED BY <1>b, <1>p, <2>1, <2>2, <2>3 DEF EofExplained
<1> QED BY <1>1, <1>2, <1>3, <1>4, <1>5, <1>6, <1>7, <1>8 DEF StreamInv

(* The initial states satisfy the invariant. *)
LEMMA StreamInit ==
    ASSUME Init, Trusted
    PROVE  StreamInv
<1> USE SizesAssumption
<1>1. <<>> \in Seq(Int) /\ Len(<<>>) = 0 /\ 0 \in 0..FileSize /\ <<>> = Iota(0, 0)
  BY DEF Iota
<1>2. rd = NoRead /\ rd \in [req : Nat, ori : 0..FileSize, got : Seq(Int), retries : Nat,
               skip : Int, err : BOOLEAN, hasSize : BOOLEAN,
               after : {"none", "start", "retry", "close"}]
      /\ rd.got = <<>> /\ rd.ori = 0 /\ rd.req = 0
  BY <1>1 DEF Init, NoRead
<1>3. ring \in RingType /\ ring.len = 0 /\ HoldsFrom(ring, ringOffset)
  BY EmptyRingHolds DEF Init
<1>4. fileSize \in 0..FileSize /\ (bHasSize => fileSize = FileSize)
  BY <1>1 DEF Init
<1>5. Shape
  BY <1>1, <1>2, <1>3, <1>4 DEF Init, Shape
<1>6. Flags
  <2>1. bDownloadInProgress = (ppc \in {"header", "body", "write", "full", "end"})
    <3>1. (ppc \in {"header", "body", "write", "full", "end"}) = FALSE
      BY DEF Init
    <3> QED BY <3>1 DEF Init
  <2>2. bDownloadStopped = (ppc = "done")
    BY DEF Init
  <2> QED BY <2>1, <2>2 DEF Init, Flags
<1>7. Received /\ EndedAtFileSize
  BY <1>1, <1>3 DEF Init, Received, EndedAtFileSize
<1>8. InFile
  BY <1>1, <1>2 DEF Init, InFile, FilePrefix
<1>9. InRing /\ SizeExact /\ EofExplained
  BY <1>4 DEF Init, InRing, SizeExact, EofExplained
<1> QED BY <1>5, <1>6, <1>7, <1>8, <1>9 DEF StreamInv

(* Every step keeps the invariant. *)
LEMMA StreamNext ==
    ASSUME StreamInv, Trusted, [Next]_vars
    PROVE  StreamInv'
<1>1. CASE UNCHANGED vars
  <2>1. Shape' /\ Flags'
    BY <1>1 DEF StreamInv, Shape, Flags, vars, reader, flags, size, producer
  <2>2. Received' /\ EndedAtFileSize'
    BY <1>1
       DEF StreamInv, Received, HoldsFrom, Place, EndedAtFileSize, vars,
           flags, producer
  <2>3. InFile' /\ InRing' /\ SizeExact' /\ EofExplained'
    BY <1>1 DEF StreamInv, InFile, FilePrefix, InRing, SizeExact, EofExplained,
                vars, reader, size, producer
  <2> QED BY <2>1, <2>2, <2>3 DEF StreamInv
<1>2. CASE Download
  BY <1>2, HeaderStep, ReceiveStep, WriteStep, SleepFullStep, WakeFullStep,
     PerformReturnsStep, EndStep, EndStoppedStep DEF Download
<1>3. CASE InCall
  BY <1>3, BeginStep, UseCacheStep, StartStep, SkipStep, SkipWakeStep,
     FillStartStep, FillStep, FillWakeStep, FinishStep, StopDownloadStep,
     StoppedStep, SleepEmptyStep DEF InCall
<1>4. CASE \E o \in 0..FileSize : Seek(o)
  BY <1>4, SeekStep
<1>5. CASE ClearErr
  BY <1>5, ClearErrStep
<1>6. CASE \E n \in 1..MaxRead : Read(n)
  BY <1>6, ReadStep
<1>7. CASE Close
  BY <1>7, CloseStep
<1> QED BY <1>1, <1>2, <1>3, <1>4, <1>5, <1>6, <1>7 DEF Next

-----------------------------------------------------------------------------
(* The invariant holds, for files, buffers, chunks and reads of any size   *)
(* and any number of errors and retries.                                   *)
THEOREM StreamInvariant == Trusted => (Spec => []StreamInv)
<1> SUFFICES ASSUME Trusted PROVE Spec => []StreamInv
  OBVIOUS
<1>1. Init => StreamInv
  BY StreamInit
<1>2. StreamInv /\ [Next]_vars => StreamInv'
  BY StreamNext
<1> QED BY <1>1, <1>2, PTL DEF Spec

(* Read() returns the bytes of the file at its offset, wherever it takes   *)
(* them from.                                                              *)
THEOREM ReadsAreExact == Trusted => (Spec => []ReadExact)
<1>1. StreamInv => ReadExact
  BY DEF StreamInv, InFile, ReadExact
<1> QED BY <1>1, StreamInvariant, PTL

(* The two threads agree about the ring buffer, its place in the file and  *)
(* the size of the file, and RingBuffer's assertions hold.                 *)
THEOREM StreamIsConsistent == Trusted => (Spec => []StreamConsistent)
<1>1. StreamInv => StreamConsistent
  <2> SUFFICES ASSUME StreamInv PROVE StreamConsistent
    OBVIOUS
  <2> USE SizesAssumption
  <2>0. Shape /\ Flags /\ Received /\ InFile /\ InRing /\ SizeExact
    BY DEF StreamInv
  <2>1. ring.off \in 0..BufferSize - 1 /\ ring.len \in 0..BufferSize
    BY <2>0 DEF Shape, RingType
  <2>2. {bEOF, bError, bDownloadInProgress, bDownloadStopped, bAskDownloadEnd,
         hThread, bErrorInThread, bHasSize, rWaits, pWaits} \subseteq BOOLEAN
    BY <2>0 DEF Flags
  <2>3. Len(cached) <= BufferSize
    BY <2>0 DEF InFile, FilePrefix
  <2>4. TypeOK
    BY <2>0, <2>1, <2>2, <2>3 DEF Shape, TypeOK
  <2>5. RingInPlace
    <3>1. ring \in RingType /\ ringOffset \in Int /\ HoldsFrom(ring, ringOffset)
      BY <2>0, Numbers DEF Shape, Received
    <3>2. ring.len \in 0..ring.len
      BY <2>1
    <3>3. RingBytes(ring, ring.len) = Iota(ringOffset, ring.len)
      BY <3>1, <3>2, RingBytesExact
    <3> QED BY <2>0, <3>3 DEF RingInPlace, Received
  <2>6. ReadsAtRingOffset
    BY <2>0 DEF InRing, ReadsAtRingOffset
  <2> QED BY <2>0, <2>4, <2>5, <2>6 DEF StreamConsistent
<1> QED BY <1>1, StreamInvariant, PTL

(* A Read() that returns fewer bytes than asked is at the end of the file  *)
(* or says that an error occurred.                                         *)
THEOREM ShortReadsAreExplained == Trusted => (Spec => ShortReadExplained)
<1> DEFINE A == rpc # "idle" /\ rpc' = "idle" /\ Len(rd'.got) < rd'.req
                => bError' \/ curOffset' >= FileSize
<1>1. StreamInv /\ [Next]_vars => [A]_vars
  <2> SUFFICES ASSUME StreamInv, Next, rpc # "idle", rpc' = "idle",
                      Len(rd'.got) < rd'.req
               PROVE  bError' \/ curOffset' >= FileSize
    OBVIOUS
  <2>0. Shape /\ Flags /\ EndedAtFileSize /\ InRing /\ SizeExact /\ EofExplained
    BY DEF StreamInv
  <2>1. Begin \/ SkipWake \/ Finish
    <3>1. ~Download
      BY DEF Download, Header, Receive, Write, SleepFull, WakeFull, PerformReturns,
             End, EndStopped, reader
    <3>2. ~(UseCache \/ Start \/ Skip \/ FillStart \/ Fill \/ FillWake
            \/ StopDownload \/ SleepEmpty)
      BY DEF UseCache, Start, Skip, FillStart, Fill, FillWake, StopDownload,
             SleepEmpty, reader
    <3>3. ~Stopped
      BY DEF Stopped
    <3>4. ~((\E o \in 0..FileSize : Seek(o)) \/ ClearErr
            \/ (\E n \in 1..MaxRead : Read(n)) \/ Close)
      BY DEF Seek, ClearErr, Read, Close
    <3> QED BY <3>1, <3>2, <3>3, <3>4 DEF Next, InCall
  <2>2. CASE Begin
    <3>1. bEOF' /\ UNCHANGED <<curOffset, bError>> /\ rpc = "begin"
      BY <2>2 DEF Begin
    <3>2. bEOF \/ (bHasSize /\ curOffset >= fileSize)
      BY <2>2, <3>1 DEF Begin
    <3> QED BY <2>0, <3>1, <3>2 DEF EofExplained, SizeExact
  <2>3. CASE SkipWake
    <3>1. rpc = "skipwait" /\ ring.len = 0 /\ ~bErrorInThread /\ curOffset' = curOffset
      BY <2>3 DEF SkipWake, ErrorSeen
    <3>2. ppc # "ending" /\ ~bDownloadInProgress
      BY <2>3, <3>1 DEF SkipWake, MutexFree, MustWaitForWriter
    <3>3. ppc = "done"
      BY <2>0, <3>1, <3>2 DEF Shape, Flags, InRing
    <3>4. bErrorInThread = FALSE
      BY <2>0, <3>1 DEF Flags
    <3>5. ringOffset + ring.len = FileSize
      BY <2>0, <3>3, <3>4 DEF EndedAtFileSize
    <3>6. curOffset >= ringOffset
      BY <2>0, <3>1, Numbers DEF InRing
    <3> QED BY <2>0, <3>1, <3>5, <3>6, Numbers
  <2>4. CASE Finish
    <3>1. rpc = "finish" /\ rd' = rd /\ curOffset' = curOffset
          /\ bError' = (bError \/ rd.err)
      BY <2>4 DEF Finish
    <3>2. rd.err \/ curOffset >= FileSize
      BY <2>0, <3>1 DEF EofExplained
    <3> QED BY <3>1, <3>2
  <2> QED BY <2>1, <2>2, <2>3, <2>4
<1> QED BY <1>1, StreamInvariant, PTL DEF Spec, ShortReadExplained
===============================================================================
