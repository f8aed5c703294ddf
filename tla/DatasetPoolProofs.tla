--------------------------- MODULE DatasetPoolProofs ---------------------------
(***************************************************************************)
(* Proofs about DatasetPool: whatever the threads, the proxies, the size   *)
(* of the pool and its limit of memory are, the entries agree with what    *)
(* the threads hold, a dataset in use stays open, two proxies use one      *)
(* dataset only if one is shared, and the pool outlives its proxies.       *)
(***************************************************************************)
EXTENDS DatasetPool, FiniteSetTheorems, SequenceTheorems, WellFoundedInduction,
        TLAPS

-----------------------------------------------------------------------------
(* The inductive invariant *)

Owners == {Owner[p] : p \in TopProxies} \cup Handles \cup {None}

EntryRecords == [file : Files \cup {None}, owner : Owners,
                 pid : Threads \cup {None}, ds : Handles \cup {None},
                 ram : Nat, refCount : Int]

PoolStates == [entry : [Entries -> EntryRecords],
               inner : [Handles -> InnerProxies \cup {None}],
               ram : Nat, open : SUBSET Handles]

UseRecords == [proxy : TopProxies \cup Handles, entry : Entries, ds : Handles]

CallRecords == [proxy : TopProxies \cup Handles \cup {None},
                entry : Entries \cup {None}, create : BOOLEAN]

Places == {"idle", "ref", "open", "trim", "release", "abandon", "unref"}

Types ==
    /\ singleton \in BOOLEAN
    /\ poolRefCount \in 0..MaxRefs
    /\ hDLMutex \in Threads \cup {None}
    /\ pid \in [TopProxies -> Threads \cup {None}]
    /\ use \in [Threads -> Seq(UseRecords)]
    /\ pc \in [Threads -> Places]
    /\ call \in [Threads -> CallRecords]
    /\ prevented \in Threads \cup {None}

(* The list holds the first entries, each once. *)
ListOf(l) ==
    /\ l \in Seq(Entries)
    /\ Len(l) <= MaxSize
    /\ ToSet(l) = 1..Len(l)
    /\ IsInjective(l)

ListOK == ListOf(list) /\ \A e \in Entries : e > Len(list) => entry[e] = FreeEntry

(* A state of the pool: each open dataset has one entry, only a VRT or a   *)
(* PRF has an inner proxy, which is one of a plain file, and the memory in *)
(* use is counted.                                                         *)
RamUnits(f) == UNION {{e} \X (1..f[e].ram) : e \in Entries}

OneEntryEach(s) ==
    /\ \A e \in Entries :
          IF s.entry[e].ds = None THEN s.entry[e].ram = 0
          ELSE s.entry[e].ds \in s.open /\ s.entry[e].file \in Files
    /\ \A d, e \in Entries :
          s.entry[d].ds = s.entry[e].ds /\ s.entry[e].ds # None => d = e
    /\ \A h \in s.open : \E e \in Entries : s.entry[e].ds = h

InnerOK(s) ==
    \A h \in Handles : s.inner[h] # None =>
        /\ Kind[s.inner[h].file] = "plain"
        /\ \E e \in Entries : s.entry[e].ds = h /\ Kind[s.entry[e].file] # "plain"

RamOK(s) ==
    IsFiniteSet(RamUnits(s.entry)) /\ s.ram = Cardinality(RamUnits(s.entry))

StateOK(s) == s \in PoolStates /\ OneEntryEach(s) /\ InnerOK(s) /\ RamOK(s)

(* While a thread is in ~GDALDriverManager() the others do nothing. *)
Prevention ==
    prevented # None =>
        \A t \in Threads : /\ use[t] = <<>>
                           /\ pc[t] = "idle" \/ (t = prevented /\ pc[t] = "unref")

(* What a thread uses, and what it is calling. *)
UseOK(t) ==
    /\ Len(use[t]) <= 2
    /\ use[t] # <<>> => use[t][1].proxy \in Alive
    /\ Len(use[t]) = 2 =>
          use[t][2].proxy = use[t][1].ds /\ inner[use[t][1].ds] # None
    /\ \A i \in 1..Len(use[t]) : entry[use[t][i].entry].ds = use[t][i].ds

CallsTop(t) == use[t] = <<>> /\ ~call[t].create /\ call[t].proxy \in Alive

CallsInner(t) ==
    /\ Len(use[t]) = 1
    /\ call[t].proxy = use[t][1].ds
    /\ inner[use[t][1].ds] # None

OpenOK(t) ==
    LET e == entry[call[t].entry]
        x == ParamsOf(call[t].proxy)
    IN  /\ e.file = x.file /\ e.owner = x.owner /\ e.pid = x.pid
        /\ e.ds = None /\ e.refCount = -1

CallOK(t) ==
    /\ pc[t] = "idle" => call[t] = NoCall
    /\ pc[t] \in {"ref", "abandon"} => call[t].create
    /\ pc[t] = "unref" /\ ~call[t].create =>
          use[t] = <<>> /\ (call[t].proxy \in Alive \/ prevented = t)
    /\ pc[t] \notin {"idle", "unref"} \/ call[t].create =>
          CallsTop(t) \/ CallsInner(t)
    /\ pc[t] \in {"open", "trim", "release"} => call[t].entry \in Entries
    /\ pc[t] = "trim" => entry[call[t].entry].ds # None
    /\ pc[t] = "open" => OpenOK(t)

(* One thread uses a proxy at a time. *)
ProxiesOf(t) ==
    {use[t][i].proxy : i \in 1..Len(use[t])}
    \cup (IF pc[t] = "idle" THEN {} ELSE {call[t].proxy})

Exclusive ==
    \A t, u \in Threads : t # u => ProxiesOf(t) \cap ProxiesOf(u) = {}

(* The references on entries: those of the uses, and those of the calls    *)
(* that have got their entry.                                              *)
Depth(t) == Len(use[t]) + (IF pc[t] \in {"trim", "release"} THEN 1 ELSE 0)

Slots == {s \in Threads \X (1..2) : s[2] <= Depth(s[1])}

SlotProxy(s) == IF s[2] <= Len(use[s[1]]) THEN use[s[1]][s[2]].proxy
                ELSE call[s[1]].proxy

SlotEntry(s) == IF s[2] <= Len(use[s[1]]) THEN use[s[1]][s[2]].entry
                ELSE call[s[1]].entry

EntrySlots(e) == {s \in Slots : SlotEntry(s) = e}

Openers(e) == {t \in Threads : pc[t] = "open" /\ call[t].entry = e}

Counted ==
    \A e \in Entries :
        /\ entry[e].refCount = IF Openers(e) = {} THEN Cardinality(EntrySlots(e))
                               ELSE -1
        /\ Openers(e) # {} => EntrySlots(e) = {}
        /\ \A t, u \in Openers(e) : t = u

SlotsMatch ==
    \A s \in Slots :
        LET e == entry[SlotEntry(s)]
            x == ParamsOf(SlotProxy(s))
        IN  e.file = x.file /\ (x.shared => e.pid = x.pid /\ e.owner = x.owner)

OneUnshared ==
    \A r, s \in Slots :
        r # s /\ SlotEntry(r) = SlotEntry(s) =>
            ParamsOf(SlotProxy(r)).shared \/ ParamsOf(SlotProxy(s)).shared

(* The pool counts the proxies that exist and the ones under construction. *)
Creating == {t \in Threads : call[t].create}

ProxiesCounted ==
    poolRefCount >= Cardinality(Alive) + Cardinality(Creating)

NothingLeft ==
    /\ Alive = {}
    /\ \A h \in Handles : inner[h] = None
    /\ \A t \in Threads : pc[t] = "idle" /\ use[t] = <<>>
    /\ prevented = None

PoolExists == ~singleton => NothingLeft

ThreadsOK == \A t \in Threads : UseOK(t) /\ CallOK(t)

PoolInv ==
    /\ Types
    /\ ListOK
    /\ StateOK(PoolState)
    /\ Prevention
    /\ ThreadsOK
    /\ Exclusive
    /\ Counted
    /\ SlotsMatch
    /\ OneUnshared
    /\ ProxiesCounted
    /\ PoolExists

-----------------------------------------------------------------------------
(* Lemmas about the operators of the model *)

(* The first place of a set of places in the list. *)
LEMMA MinIn ==
    ASSUME NEW S, S \subseteq Nat, S # {}
    PROVE  Min(S) \in S
<1>r. PICK R : R = OpToRel(<, Nat)
  OBVIOUS
<1>0. IsWellFoundedOn(R, Nat)
  BY <1>r, NatLessThanWellFounded
<1>1. PICK x \in S : \A y \in S : ~(<<y, x>> \in R)
  BY <1>0, WFMin
<1>2. R = {q \in Nat \X Nat : q[1] < q[2]}
  BY <1>r DEF OpToRel
<1>3. ASSUME NEW n \in Nat, NEW y \in Nat, y < n PROVE <<y, n>> \in R
  BY <1>2, <1>3
<1>4. \A y \in S : ~(y < x)
  BY <1>1, <1>3
<1>5. \A y \in S : x <= y
  BY <1>4
<1> QED BY <1>5 DEF Min

(* The last place of a set of places in a list of n entries. *)
LEMMA MaxIn ==
    ASSUME NEW n \in Nat, NEW S, S \subseteq 1..n, S # {}
    PROVE  Max(S) \in S
<1> DEFINE T == {n - i : i \in S}
<1>1. T \subseteq Nat /\ T # {}
  <2>1. ASSUME NEW i \in S PROVE n - i \in Nat
    OBVIOUS
  <2> QED BY <2>1
<1>r. PICK R : R = OpToRel(<, Nat)
  OBVIOUS
<1>0. IsWellFoundedOn(R, Nat)
  BY <1>r, NatLessThanWellFounded
<1>2. PICK x \in T : \A y \in T : ~(<<y, x>> \in R)
  <2> HIDE DEF T
  <2> QED BY <1>0, <1>1, WFMin
<1>3. R = {q \in Nat \X Nat : q[1] < q[2]}
  BY <1>r DEF OpToRel
<1>4. ASSUME NEW m \in Nat, NEW y \in Nat, y < m PROVE <<y, m>> \in R
  BY <1>3, <1>4
<1>5. \A y \in T : ~(y < x)
  BY <1>1, <1>2, <1>4
<1>6. PICK i \in S : x = n - i
  BY <1>2
<1>7. ASSUME NEW j \in S PROVE i >= j
  <2>1. n - j \in T
    OBVIOUS
  <2>2. ~(n - j < n - i)
    BY <1>5, <1>6, <2>1
  <2>3. i \in Int /\ j \in Int
    OBVIOUS
  <2> QED BY <2>2, <2>3
<1> QED BY <1>7 DEF Max

(* What the constants are. *)
LEMMA Sizes ==
    /\ MaxSize \in Nat /\ MaxSize > 1 /\ MaxRAMUsage \in Nat /\ MaxRefs \in Nat
    /\ Entries \subseteq Nat /\ IsFiniteSet(Entries) /\ IsFiniteSet(Handles)
    /\ Cardinality(Entries) = MaxSize /\ Cardinality(Handles) = MaxSize + 1
<1>1. MaxSize \in Nat /\ MaxSize > 1 /\ MaxRAMUsage \in Nat /\ MaxRefs \in Nat
  BY PoolAssumption
<1>2. Entries \subseteq Nat
  BY <1>1 DEF Entries
<1>3. IsFiniteSet(Entries) /\ Cardinality(Entries) = MaxSize
  BY <1>1, FS_Interval DEF Entries
<1>4. IsFiniteSet(Handles) /\ Cardinality(Handles) = MaxSize + 1
  BY <1>1, FS_Interval DEF Handles
<1> QED BY <1>1, <1>2, <1>3, <1>4

(* The memory of one entry is counted apart from the others. *)
LEMMA RamOfOneEntry ==
    ASSUME NEW f, NEW g, NEW e \in Entries, f[e].ram \in Nat, g[e].ram = 0,
           \A d \in Entries : d # e => f[d].ram = g[d].ram
    PROVE  /\ IsFiniteSet(RamUnits(f)) <=> IsFiniteSet(RamUnits(g))
           /\ IsFiniteSet(RamUnits(g)) =>
                 Cardinality(RamUnits(f)) = Cardinality(RamUnits(g)) + f[e].ram
<1> DEFINE box == {e} \X (1..f[e].ram)
<1>1. RamUnits(f) = RamUnits(g) \cup box
  <2>1. ASSUME NEW u \in RamUnits(f) PROVE u \in RamUnits(g) \cup box
    <3>1. PICK d \in Entries : u \in {d} \X (1..f[d].ram)
      BY DEF RamUnits
    <3>2. CASE d = e
      BY <3>1, <3>2
    <3>3. CASE d # e
      <4>1. u \in {d} \X (1..g[d].ram)
        BY <3>1, <3>3
      <4> QED BY <4>1 DEF RamUnits
    <3> QED BY <3>2, <3>3
  <2>2. ASSUME NEW u \in RamUnits(g) PROVE u \in RamUnits(f)
    <3>1. PICK d \in Entries : u \in {d} \X (1..g[d].ram)
      BY DEF RamUnits
    <3>2. d # e
      BY <3>1
    <3>3. u \in {d} \X (1..f[d].ram)
      BY <3>1, <3>2
    <3> QED BY <3>3 DEF RamUnits
  <2>3. box \subseteq RamUnits(f)
    BY DEF RamUnits
  <2> QED BY <2>1, <2>2, <2>3
<1>2. RamUnits(g) \cap box = {}
  <2>1. ASSUME NEW u \in RamUnits(g), u \in box PROVE FALSE
    <3>1. PICK d \in Entries : u \in {d} \X (1..g[d].ram)
      BY DEF RamUnits
    <3>2. u[1] = d /\ u[1] = e
      BY <2>1, <3>1
    <3> QED BY <3>1, <3>2
  <2> QED BY <2>1
<1>3. IsFiniteSet(box) /\ Cardinality(box) = f[e].ram
  <2>0. PICK r \in Nat : r = f[e].ram
    OBVIOUS
  <2>1. IsFiniteSet(1..r) /\ Cardinality(1..r) = r
    BY FS_Interval
  <2>2. IsFiniteSet({e}) /\ Cardinality({e}) = 1
    BY FS_Singleton
  <2>3. IsFiniteSet(box) /\ Cardinality(box) = Cardinality({e}) * Cardinality(1..r)
    BY <2>0, <2>1, <2>2, FS_Product
  <2>4. 1 * r = r
    OBVIOUS
  <2> QED BY <2>0, <2>1, <2>2, <2>3, <2>4
<1> HIDE DEF box
<1>4. ASSUME IsFiniteSet(RamUnits(g))
      PROVE  /\ IsFiniteSet(RamUnits(f))
             /\ Cardinality(RamUnits(f)) = Cardinality(RamUnits(g)) + f[e].ram
  <2>1. /\ IsFiniteSet(RamUnits(g) \cup box)
        /\ Cardinality(RamUnits(g) \cup box) =
              Cardinality(RamUnits(g))
              + (Cardinality(box) - Cardinality(RamUnits(g) \cap box))
    BY <1>3, <1>4, FS_Union
  <2>2. Cardinality({}) = 0
    BY FS_EmptySet
  <2>3. PICK c \in Nat : c = Cardinality(RamUnits(g))
    BY <1>4, FS_CardinalityType
  <2>4. PICK b \in Nat : b = Cardinality(box) /\ b = f[e].ram
    BY <1>3
  <2>5. c + (b - 0) = c + b
    OBVIOUS
  <2> QED BY <1>1, <1>2, <2>1, <2>2, <2>3, <2>4, <2>5
<1>5. ASSUME IsFiniteSet(RamUnits(f)) PROVE IsFiniteSet(RamUnits(g))
  <2>1. RamUnits(g) \in SUBSET RamUnits(f)
    BY <1>1
  <2> QED BY <1>5, <2>1, FS_Subset
<1> QED BY <1>4, <1>5

(* A list in terms of its places. *)
Permutes(l, n) ==
    /\ l \in [1..n -> Entries]
    /\ \A e \in 1..n : \E j \in 1..n : l[j] = e
    /\ \A j \in 1..n : l[j] \in 1..n
    /\ \A j, k \in 1..n : l[j] = l[k] => j = k

(* A list is one of the pool when it holds the entries 1..n, each once. *)
LEMMA ListPlaces ==
    ASSUME NEW l
    PROVE  ListOf(l) <=> \E n \in 0..MaxSize : Permutes(l, n)
<1> USE Sizes
<1>1. ASSUME ListOf(l)
      PROVE  \E n \in 0..MaxSize : Permutes(l, n)
  <2>n. PICK n \in Nat : n = Len(l)
    BY <1>1 DEF ListOf
  <2>1. l \in [1..n -> Entries] /\ DOMAIN l = 1..n /\ n \in 0..MaxSize
    BY <1>1, <2>n DEF ListOf
  <2>2. {l[i] : i \in 1..n} = 1..n
    BY <1>1, <2>n, <2>1 DEF ListOf, ToSet
  <2>3. \A j, k \in 1..n : l[j] = l[k] => j = k
    BY <1>1, <2>n, <2>1 DEF ListOf, IsInjective
  <2>4. \A e \in 1..n : \E j \in 1..n : l[j] = e
    <3> SUFFICES ASSUME NEW e \in 1..n PROVE \E j \in 1..n : l[j] = e
      OBVIOUS
    <3>1. e \in {l[i] : i \in 1..n}
      BY <2>2
    <3> QED BY <3>1, Zenon
  <2>5. \A j \in 1..n : l[j] \in 1..n
    BY <2>2
  <2> QED BY <2>1, <2>3, <2>4, <2>5 DEF Permutes
<1>2. ASSUME NEW n \in 0..MaxSize, Permutes(l, n) PROVE ListOf(l)
  <2>1. l \in Seq(Entries) /\ Len(l) = n /\ DOMAIN l = 1..n
    BY <1>2 DEF Permutes
  <2>2. {l[i] : i \in 1..n} = 1..n
    <3>1. ASSUME NEW e \in 1..n PROVE e \in {l[i] : i \in 1..n}
      BY <1>2 DEF Permutes
    <3>2. {l[i] : i \in 1..n} \subseteq 1..n
      BY <1>2 DEF Permutes
    <3> QED BY <3>1, <3>2
  <2>3. ToSet(l) = 1..Len(l)
    BY <2>1, <2>2 DEF ToSet
  <2>4. IsInjective(l)
    BY <1>2, <2>1 DEF IsInjective, Permutes
  <2> QED BY <2>1, <2>3, <2>4 DEF ListOf
<1> QED BY <1>1, <1>2

(* ToFront() moves two places to two places. *)
LEMMA FrontInjective ==
    ASSUME NEW i \in Int, NEW j \in Int, NEW k \in Int, NEW a \in Int,
           i >= 1, j >= 1, k >= 1,
           IF j = 1 THEN a = i ELSE IF j <= i THEN a = j - 1 ELSE a = j,
           IF k = 1 THEN a = i ELSE IF k <= i THEN a = k - 1 ELSE a = k
    PROVE  j = k
OBVIOUS

(* Moving the element at place i of a list of n entries to the front.      *)
LEMMA MovedToFront ==
    ASSUME NEW n \in Nat, NEW i \in 1..n, NEW l, Permutes(l, n), NEW m,
           m = [j \in 1..n |-> IF j = 1 THEN l[i]
                               ELSE IF j <= i THEN l[j - 1] ELSE l[j]]
    PROVE  Permutes(m, n)
<1>0. /\ l \in [1..n -> Entries]
      /\ \A e \in 1..n : \E j \in 1..n : l[j] = e
      /\ \A j \in 1..n : l[j] \in 1..n
      /\ \A j, k \in 1..n : l[j] = l[k] => j = k
  BY Zenon DEF Permutes
<1>1. ASSUME NEW j \in 1..n
      PROVE  \E a \in 1..n : /\ m[j] = l[a]
                             /\ IF j = 1 THEN a = i
                                ELSE IF j <= i THEN a = j - 1 ELSE a = j
  <2>1. CASE j = 1
    BY <2>1
  <2>2. CASE j # 1 /\ j <= i
    <3>1. j - 1 \in 1..n /\ m[j] = l[j - 1]
      BY <2>2
    <3> QED BY <2>2, <3>1
  <2>3. CASE j # 1 /\ ~(j <= i)
    BY <2>3
  <2> QED BY <2>1, <2>2, <2>3
<1>2. ASSUME NEW j \in 1..n PROVE m[j] \in Entries /\ m[j] \in 1..n
  <2>1. PICK a \in 1..n : m[j] = l[a]
    BY <1>1, Zenon
  <2>2. l[a] \in Entries /\ l[a] \in 1..n
    BY <1>0
  <2> QED BY <2>1, <2>2
<1>3. m \in [1..n -> Entries]
  BY <1>2
<1>4. ASSUME NEW e \in 1..n PROVE \E j \in 1..n : m[j] = e
  <2>1. PICK k \in 1..n : l[k] = e
    BY <1>0
  <2>2. CASE k = i
    <3>1. 1 \in 1..n /\ m[1] = l[i]
      OBVIOUS
    <3> QED BY <2>1, <2>2, <3>1
  <2>3. CASE k < i
    <3>1. k + 1 \in 1..n /\ k + 1 # 1 /\ k + 1 <= i /\ (k + 1) - 1 = k
      BY <2>3
    <3>2. m[k + 1] = l[(k + 1) - 1]
      BY <3>1
    <3> QED BY <2>1, <3>1, <3>2
  <2>4. CASE k > i
    <3>1. m[k] = l[k]
      BY <2>4
    <3> QED BY <2>1, <3>1
  <2> QED BY <2>2, <2>3, <2>4
<1>5. ASSUME NEW j \in 1..n, NEW k \in 1..n, m[j] = m[k] PROVE j = k
  <2>1. PICK a \in 1..n : m[j] = l[a] /\ (IF j = 1 THEN a = i
                          ELSE IF j <= i THEN a = j - 1 ELSE a = j)
    BY <1>1
  <2>2. PICK b \in 1..n : m[k] = l[b] /\ (IF k = 1 THEN b = i
                          ELSE IF k <= i THEN b = k - 1 ELSE b = k)
    BY <1>1
  <2>3. l[a] = l[b]
    BY <1>5, <2>1, <2>2
  <2>4. a = b
    BY <1>0, <2>3
  <2>5. /\ IF j = 1 THEN a = i ELSE IF j <= i THEN a = j - 1 ELSE a = j
        /\ IF k = 1 THEN a = i ELSE IF k <= i THEN a = k - 1 ELSE a = k
    BY <2>1, <2>2, <2>4
  <2> QED BY <2>5, FrontInjective
<1> QED BY <1>2, <1>3, <1>4, <1>5 DEF Permutes

(* Moving an entry to the front keeps the list. *)
LEMMA ToFrontKeepsList ==
    ASSUME ListOf(list), NEW i \in DOMAIN list
    PROVE  ListOf(ToFront(i)) /\ Len(ToFront(i)) = Len(list)
<1>0. PICK n \in 0..MaxSize : Permutes(list, n)
  BY ListPlaces
<1>1. /\ list \in [1..n -> Entries]
      /\ \A e \in 1..n : \E j \in 1..n : list[j] = e
      /\ \A j \in 1..n : list[j] \in 1..n
      /\ \A j, k \in 1..n : list[j] = list[k] => j = k
  BY <1>0 DEF Permutes
<1>2. n \in Nat /\ DOMAIN list = 1..n /\ i \in 1..n /\ Len(list) = n
  BY <1>1, Sizes
<1>3. PICK m : m = ToFront(i)
  OBVIOUS
<1>4. m = [j \in 1..n |-> IF j = 1 THEN list[i]
                          ELSE IF j <= i THEN list[j - 1] ELSE list[j]]
  BY <1>2, <1>3 DEF ToFront
<1>5. Permutes(m, n)
  BY <1>0, <1>2, <1>4, MovedToFront
<1>6. ListOf(m)
  BY <1>5, ListPlaces
<1>7. Len(m) = n
  BY <1>2, <1>5 DEF Permutes
<1> QED BY <1>2, <1>3, <1>6, <1>7

(* A new entry at the front. *)
LEMMA NewFrontKeepsList ==
    ASSUME ListOf(list), Len(list) < MaxSize
    PROVE  /\ ListOf(<<Len(list) + 1>> \o list)
           /\ Len(<<Len(list) + 1>> \o list) = Len(list) + 1
           /\ Len(list) + 1 \in Entries
<1>0. PICK n \in 0..MaxSize : Permutes(list, n)
  BY ListPlaces
<1>1. /\ list \in [1..n -> Entries]
      /\ \A e \in 1..n : \E j \in 1..n : list[j] = e
      /\ \A j \in 1..n : list[j] \in 1..n
      /\ \A j, k \in 1..n : list[j] = list[k] => j = k
  BY <1>0 DEF Permutes
<1>2. n \in Nat /\ list \in Seq(Entries) /\ Len(list) = n /\ n + 1 \in 0..MaxSize
  BY <1>1, Sizes DEF ListOf
<1>3. n + 1 \in Entries
  BY <1>2, Sizes DEF Entries
<1>4. PICK m : m = <<n + 1>> \o list
  OBVIOUS
<1>5. /\ m \in Seq(Entries) /\ Len(m) = n + 1 /\ m[1] = n + 1
      /\ \A j \in 1..n + 1 : j > 1 => m[j] = list[j - 1]
  <2>1. <<n + 1>> \in Seq(Entries) /\ Len(<<n + 1>>) = 1 /\ <<n + 1>>[1] = n + 1
    BY <1>3
  <2>2. m \in Seq(Entries) /\ Len(m) = 1 + n
    BY <1>2, <1>4, <2>1
  <2>3. ASSUME NEW j \in 1..n + 1
        PROVE  m[j] = IF j <= 1 THEN <<n + 1>>[j] ELSE list[j - 1]
    BY <1>2, <1>4, <2>1
  <2>4. m[1] = n + 1
    BY <1>2, <2>1, <2>3
  <2>5. \A j \in 1..n + 1 : j > 1 => m[j] = list[j - 1]
    BY <1>2, <2>3
  <2>6. 1 + n = n + 1
    BY <1>2
  <2> QED BY <2>2, <2>4, <2>5, <2>6
<1>6. m \in [1..n + 1 -> Entries]
  BY <1>5
<1>7. ASSUME NEW e \in 1..n + 1 PROVE \E j \in 1..n + 1 : m[j] = e
  <2>1. CASE e = n + 1
    BY <1>2, <1>5, <2>1
  <2>2. CASE e # n + 1
    <3>1. PICK k \in 1..n : list[k] = e
      BY <1>1, <1>2, <2>2
    <3>2. k + 1 \in 1..n + 1 /\ k + 1 > 1 /\ (k + 1) - 1 = k
      BY <1>2
    <3> QED BY <1>5, <3>1, <3>2
  <2> QED BY <2>1, <2>2
<1>8. ASSUME NEW j \in 1..n + 1, j > 1
      PROVE  j - 1 \in 1..n /\ m[j] = list[j - 1] /\ m[j] \in 1..n
  <2>1. j - 1 \in 1..n /\ m[j] = list[j - 1]
    BY <1>2, <1>5, <1>8
  <2> QED BY <1>1, <2>1
<1>9. ASSUME NEW j \in 1..n + 1 PROVE m[j] \in 1..n + 1
  BY <1>2, <1>5, <1>8
<1>10. ASSUME NEW j \in 1..n + 1, NEW k \in 1..n + 1, m[j] = m[k] PROVE j = k
  <2>1. CASE j = 1 \/ k = 1
    BY <1>2, <1>5, <1>8, <1>10, <2>1
  <2>2. CASE j > 1 /\ k > 1
    <3>1. PICK a \in 1..n : a = j - 1 /\ m[j] = list[a]
      BY <1>8, <2>2
    <3>2. PICK b \in 1..n : b = k - 1 /\ m[k] = list[b]
      BY <1>8, <2>2
    <3>3. a = b
      BY <1>1, <1>10, <3>1, <3>2
    <3> QED BY <1>2, <3>1, <3>2, <3>3
  <2> QED BY <1>2, <2>1, <2>2
<1>11. Permutes(m, n + 1)
  BY <1>6, <1>7, <1>9, <1>10 DEF Permutes
<1>12. ListOf(m)
  BY <1>2, <1>11, ListPlaces
<1> QED BY <1>2, <1>3, <1>4, <1>5, <1>12

-----------------------------------------------------------------------------
(* Closing datasets *)

(* What Emptied() does to a state of the pool. *)
LEMMA EmptiedFields ==
    ASSUME NEW s \in PoolStates, NEW e \in Entries
    PROVE  LET s1 == Emptied(s, e)
               h == s.entry[e].ds
           IN  /\ s1 = [entry |-> s1.entry, inner |-> s1.inner, ram |-> s1.ram,
                        open |-> s1.open]
               /\ s1.entry \in [Entries -> EntryRecords]
               /\ \A d \in Entries : d # e => s1.entry[d] = s.entry[d]
               /\ s1.entry[e].ds = None /\ s1.entry[e].ram = 0
               /\ s1.entry[e].refCount = s.entry[e].refCount
               /\ s1.inner = [k \in Handles |-> IF k = h THEN None ELSE s.inner[k]]
               /\ s1.ram = s.ram - s.entry[e].ram
               /\ s1.open = s.open \ {h}
<1> DEFINE h == s.entry[e].ds
           d0 == s.entry[e]
           f == [s.entry EXCEPT ![e] = [d0 EXCEPT !.file = None, !.owner = None,
                                                  !.ds = None, !.ram = 0]]
           g == [k \in Handles |-> IF k = d0.ds THEN None ELSE s.inner[k]]
           o == s.open \ {d0.ds}
           r == [entry |-> f, inner |-> g, ram |-> s.ram - s.entry[e].ram,
                 open |-> o]
<1>1. s.entry \in [Entries -> EntryRecords]
  BY DEF PoolStates
<1>2. EmptiedKeepsRam(s, e) = [entry |-> f, inner |-> g, ram |-> s.ram, open |-> o]
  BY Zenon DEF EmptiedKeepsRam
<1>3. Emptied(s, e) = r
  <2>1. Emptied(s, e) = [EmptiedKeepsRam(s, e) EXCEPT !.ram =
                            EmptiedKeepsRam(s, e).ram - s.entry[e].ram]
    BY DEF Emptied
  <2> HIDE DEF f, g, o
  <2> QED BY <1>2, <2>1
<1>4. s.entry[e] \in EntryRecords
  BY <1>1
<1>5. [s.entry[e] EXCEPT !.file = None, !.owner = None, !.ds = None, !.ram = 0]
         \in EntryRecords
  BY <1>4 DEF EntryRecords, Owners
<1>6. f \in [Entries -> EntryRecords]
  BY <1>1, <1>5
<1>7. /\ f[e].ds = None /\ f[e].ram = 0 /\ f[e].refCount = s.entry[e].refCount
      /\ \A d \in Entries : d # e => f[d] = s.entry[d]
  BY <1>1, <1>4 DEF EntryRecords
<1> QED BY <1>3, <1>6, <1>7

(* An entry that loses its dataset leaves a good state. *)
LEMMA EmptiedIsOK ==
    ASSUME NEW s, StateOK(s), NEW e \in Entries
    PROVE  StateOK(Emptied(s, e))
<1> DEFINE s1 == Emptied(s, e)
           h == s.entry[e].ds
<1>0. s \in PoolStates /\ OneEntryEach(s) /\ InnerOK(s) /\ RamOK(s)
  BY DEF StateOK
<1>1. /\ s1 = [entry |-> s1.entry, inner |-> s1.inner, ram |-> s1.ram,
               open |-> s1.open]
      /\ s1.entry \in [Entries -> EntryRecords]
      /\ \A d \in Entries : d # e => s1.entry[d] = s.entry[d]
      /\ s1.entry[e].ds = None /\ s1.entry[e].ram = 0
      /\ s1.inner = [k \in Handles |-> IF k = h THEN None ELSE s.inner[k]]
      /\ s1.ram = s.ram - s.entry[e].ram
      /\ s1.open = s.open \ {h}
  BY <1>0, EmptiedFields
<1> HIDE DEF s1
<1>2. /\ s.entry \in [Entries -> EntryRecords] /\ s.entry[e] \in EntryRecords
      /\ s.inner \in [Handles -> InnerProxies \cup {None}]
      /\ s.ram \in Nat /\ s.open \subseteq Handles
  BY <1>0 DEF PoolStates
<1>3. s.entry[e].ram \in Nat /\ h \in Handles \cup {None}
  BY <1>2 DEF EntryRecords
<1>4. /\ IsFiniteSet(RamUnits(s1.entry))
      /\ Cardinality(RamUnits(s.entry)) = Cardinality(RamUnits(s1.entry)) + s.entry[e].ram
  <2>1. \A d \in Entries : d # e => s.entry[d].ram = s1.entry[d].ram
    BY <1>1
  <2>2. IsFiniteSet(RamUnits(s.entry))
    BY <1>0 DEF RamOK
  <2> QED BY <1>1, <1>3, <2>1, <2>2, RamOfOneEntry
<1>5. RamOK(s1) /\ s1.ram \in Nat
  <2>1. PICK c \in Nat : c = Cardinality(RamUnits(s1.entry))
    BY <1>4, FS_CardinalityType
  <2>2. PICK r \in Nat : r = s.entry[e].ram
    BY <1>3
  <2>3. s.ram = c + r
    BY <1>0, <1>4, <2>1, <2>2 DEF RamOK
  <2>4. (c + r) - r = c
    OBVIOUS
  <2>5. s1.ram = c
    BY <1>1, <2>2, <2>3, <2>4
  <2> QED BY <1>4, <2>1, <2>5 DEF RamOK
<1>6. s1 \in PoolStates
  <2>1. s1.inner \in [Handles -> InnerProxies \cup {None}]
    BY <1>1, <1>2
  <2>2. s1.open \in SUBSET Handles
    BY <1>1, <1>2
  <2> QED BY <1>1, <1>5, <2>1, <2>2 DEF PoolStates
<1>7. OneEntryEach(s1)
  <2>1. ASSUME NEW d \in Entries
        PROVE  IF s1.entry[d].ds = None THEN s1.entry[d].ram = 0
               ELSE s1.entry[d].ds \in s1.open /\ s1.entry[d].file \in Files
    <3>1. CASE d = e
      BY <1>1, <3>1
    <3>2. CASE d # e
      <4>1. s1.entry[d] = s.entry[d]
        BY <1>1, <3>2
      <4>2. s.entry[d].ds # None => s.entry[d].ds # h
        BY <1>0, <3>2 DEF OneEntryEach
      <4>3. IF s.entry[d].ds = None THEN s.entry[d].ram = 0
            ELSE s.entry[d].ds \in s.open /\ s.entry[d].file \in Files
        BY <1>0 DEF OneEntryEach
      <4> QED BY <1>1, <4>1, <4>2, <4>3
    <3> QED BY <3>1, <3>2
  <2>2. ASSUME NEW c \in Entries, NEW d \in Entries,
               s1.entry[c].ds = s1.entry[d].ds, s1.entry[d].ds # None
        PROVE  c = d
    <3>1. c # e /\ d # e
      BY <1>1, <2>2
    <3>2. s1.entry[c] = s.entry[c] /\ s1.entry[d] = s.entry[d]
      BY <1>1, <3>1
    <3> QED BY <1>0, <2>2, <3>2 DEF OneEntryEach
  <2>3. ASSUME NEW k \in s1.open PROVE \E d \in Entries : s1.entry[d].ds = k
    <3>1. k \in s.open /\ k # h
      BY <1>1
    <3>2. PICK d \in Entries : s.entry[d].ds = k
      BY <1>0, <3>1 DEF OneEntryEach
    <3>3. d # e
      BY <3>1, <3>2
    <3> QED BY <1>1, <3>2, <3>3
  <2> QED BY <2>1, <2>2, <2>3 DEF OneEntryEach
<1>8. InnerOK(s1)
  <2>1. ASSUME NEW k \in Handles, s1.inner[k] # None
        PROVE  /\ Kind[s1.inner[k].file] = "plain"
               /\ \E d \in Entries : /\ s1.entry[d].ds = k
                                     /\ Kind[s1.entry[d].file] # "plain"
    <3>1. k # h /\ s1.inner[k] = s.inner[k]
      BY <1>1, <2>1
    <3>2. /\ Kind[s.inner[k].file] = "plain"
          /\ \E d \in Entries : s.entry[d].ds = k /\ Kind[s.entry[d].file] # "plain"
      BY <1>0, <2>1, <3>1 DEF InnerOK
    <3>3. PICK d \in Entries : s.entry[d].ds = k /\ Kind[s.entry[d].file] # "plain"
      BY <3>2
    <3>4. d # e
      BY <3>1, <3>3
    <3>5. s1.entry[d] = s.entry[d]
      BY <1>1, <3>4
    <3> QED BY <3>1, <3>2, <3>3, <3>5
  <2> QED BY <2>1 DEF InnerOK
<1> QED BY <1>5, <1>6, <1>7, <1>8 DEF StateOK, s1

(* What closing datasets may do to the pool: entries in use, and the       *)
(* inner proxies of the datasets that stay open, are left alone.           *)
Closing(s, s2) ==
    /\ \A e \in Entries :
          /\ s2.entry[e].refCount = s.entry[e].refCount
          /\ s.entry[e].refCount # 0 \/ e \notin ToSet(list) =>
                s2.entry[e] = s.entry[e]
    /\ s2.open \subseteq s.open
    /\ \A h \in s2.open : s2.inner[h] = s.inner[h]

(* No dataset is closed when the pool stays as it is. *)
LEMMA ClosingNothing ==
    ASSUME NEW s PROVE Closing(s, s)
BY DEF Closing

(* Closing some datasets and then others closes only unused ones. *)
LEMMA ClosingTwice ==
    ASSUME NEW s, NEW s1, NEW s2, Closing(s, s1), Closing(s1, s2)
    PROVE  Closing(s, s2)
BY DEF Closing

(* Emptying an unused entry closes its dataset only. *)
LEMMA EmptiedCloses ==
    ASSUME NEW s, StateOK(s), NEW e \in Entries, e \in ToSet(list),
           s.entry[e].refCount = 0
    PROVE  Closing(s, Emptied(s, e))
<1> DEFINE s1 == Emptied(s, e)
           h == s.entry[e].ds
<1>1. s \in PoolStates
  BY DEF StateOK
<1>2. /\ \A d \in Entries : d # e => s1.entry[d] = s.entry[d]
      /\ s1.entry[e].refCount = s.entry[e].refCount
      /\ s1.inner = [k \in Handles |-> IF k = h THEN None ELSE s.inner[k]]
      /\ s1.open = s.open \ {h}
  BY <1>1, EmptiedFields
<1> HIDE DEF s1
<1>3. s.open \subseteq Handles
  BY <1>1 DEF PoolStates
<1>4. \A d \in Entries :
         /\ s1.entry[d].refCount = s.entry[d].refCount
         /\ s.entry[d].refCount # 0 \/ d \notin ToSet(list) =>
               s1.entry[d] = s.entry[d]
  BY <1>2
<1>5. \A k \in s1.open : s1.inner[k] = s.inner[k]
  BY <1>2, <1>3
<1> QED BY <1>2, <1>4, <1>5 DEF Closing, s1

(* The entry at a place of the list. *)
LEMMA PlaceInList ==
    ASSUME ListOf(list), NEW i \in DOMAIN list
    PROVE  list[i] \in Entries /\ list[i] \in ToSet(list)
BY DEF ListOf, ToSet

(* The places of the list. *)
LEMMA ListDomain ==
    ASSUME ListOf(list)
    PROVE  Len(list) \in Nat /\ DOMAIN list = 1..Len(list) /\ DOMAIN list \subseteq Nat
BY DEF ListOf

(* CloseDatasetIfZeroRefCount() finds an unused entry of the list. *)
LEMMA FirstClosable ==
    ASSUME ListOf(list), NEW s, NEW x, Closable(s, x) # {}
    PROVE  LET e == list[Min(Closable(s, x))]
           IN  e \in Entries /\ e \in ToSet(list) /\ s.entry[e].refCount = 0
<1>1. Closable(s, x) \subseteq DOMAIN list
  BY DEF Closable
<1>2. Min(Closable(s, x)) \in Closable(s, x)
  BY <1>1, ListDomain, MinIn
<1> QED BY <1>1, <1>2, PlaceInList DEF Closable

(* The entry that is evicted is unused. *)
LEMMA LastEvictable ==
    ASSUME ListOf(list), NEW b, Evictable(b) # {}
    PROVE  LET i == Max(Evictable(b))
           IN  /\ i \in DOMAIN list /\ list[i] \in Entries
               /\ list[i] \in ToSet(list) /\ entry[list[i]].refCount = 0
<1>1. Evictable(b) \subseteq DOMAIN list
  BY DEF Evictable, EvictableInUse
<1>2. Max(Evictable(b)) \in Evictable(b)
  BY <1>1, ListDomain, MaxIn
<1> QED BY <1>1, <1>2, PlaceInList DEF Evictable, EvictableInUse

(* An entry that matches is not being opened and is one of the file. *)
LEMMA FirstMatch ==
    ASSUME ListOf(list), NEW x, Matches(x) # {}
    PROVE  LET i == Min(Matches(x))
               e == entry[list[i]]
           IN  /\ i \in DOMAIN list /\ list[i] \in Entries
               /\ e.refCount >= 0 /\ e.file = x.file
               /\ IF x.shared THEN e.pid = x.pid /\ e.owner = x.owner
                              ELSE e.refCount = 0
<1>1. Matches(x) \subseteq DOMAIN list
  BY DEF Matches, MatchesLoading
<1>2. Min(Matches(x)) \in Matches(x)
  BY <1>1, ListDomain, MinIn
<1> QED BY <1>1, <1>2, PlaceInList DEF Matches, MatchesLoading

(* GDALClose() of an entry that is not in use. *)
LEMMA ClosedCloses ==
    ASSUME ListOf(list), NEW s, StateOK(s), NEW e \in Entries,
           e \in ToSet(list), s.entry[e].refCount = 0
    PROVE  /\ StateOK(Closed(s, e)) /\ Closing(s, Closed(s, e))
           /\ Closed(s, e).entry[e].ds = None
<1>1. PICK s1 : s1 = Emptied(s, e)
  OBVIOUS
<1>2. StateOK(s1) /\ Closing(s, s1)
  BY <1>1, EmptiedIsOK, EmptiedCloses
<1>3. s1.entry[e].ds = None
  BY <1>1, EmptiedFields DEF StateOK
<1>4. CASE Closed(s, e) = s1
  BY <1>2, <1>3, <1>4
<1>5. ASSUME NEW d \in Entries, d \in ToSet(list), s1.entry[d].refCount = 0,
             Closed(s, e) = Emptied(s1, d)
      PROVE  /\ StateOK(Closed(s, e)) /\ Closing(s, Closed(s, e))
             /\ Closed(s, e).entry[e].ds = None
  <2>1. StateOK(Emptied(s1, d)) /\ Closing(s1, Emptied(s1, d))
    BY <1>2, <1>5, EmptiedIsOK, EmptiedCloses
  <2>2. Closing(s, Emptied(s1, d))
    BY <1>2, <2>1, ClosingTwice
  <2>3. s1 \in PoolStates
    BY <1>2 DEF StateOK
  <2>4. Emptied(s1, d).entry[e].ds = None
    <3>1. /\ Emptied(s1, d).entry[d].ds = None
          /\ \A c \in Entries : c # d => Emptied(s1, d).entry[c] = s1.entry[c]
      BY <2>3, EmptiedFields
    <3>2. CASE e = d
      BY <3>1, <3>2
    <3>3. CASE e # d
      <4>1. Emptied(s1, d).entry[e] = s1.entry[e]
        BY <3>1, <3>3
      <4> QED BY <1>3, <4>1
    <3> QED BY <3>2, <3>3
  <2> QED BY <1>5, <2>1, <2>2, <2>4
<1>6. \/ Closed(s, e) = s1
      \/ \E x : /\ Closable(s1, x) # {}
                /\ Closed(s, e) = Emptied(s1, list[Min(Closable(s1, x))])
  <2> DEFINE h == s.entry[e].ds
  <2>1. CASE h = None \/ s.inner[h] = None
    BY <1>1, <2>1 DEF Closed
  <2>2. CASE ~(h = None \/ s.inner[h] = None)
    <3>1. PICK x : x = s.inner[h]
      OBVIOUS
    <3>2. Closed(s, e) = IF Closable(s1, x) = {} THEN s1
                         ELSE Emptied(s1, list[Min(Closable(s1, x))])
      BY <1>1, <2>2, <3>1 DEF Closed
    <3> QED BY <3>2
  <2> QED BY <2>1, <2>2
<1>7. CASE Closed(s, e) # s1
  <2>1. PICK x : /\ Closable(s1, x) # {}
                 /\ Closed(s, e) = Emptied(s1, list[Min(Closable(s1, x))])
    BY <1>6, <1>7
  <2> DEFINE d == list[Min(Closable(s1, x))]
  <2>2. d \in Entries /\ d \in ToSet(list) /\ s1.entry[d].refCount = 0
    BY <2>1, FirstClosable
  <2> HIDE DEF d
  <2>3. Closed(s, e) = Emptied(s1, d)
    BY <2>1 DEF d
  <2> QED BY <1>5, <2>2, <2>3
<1> QED BY <1>4, <1>7

(* CloseDatasetIfZeroRefCount() closes unused datasets only. *)
LEMMA CloseUnusedCloses ==
    ASSUME ListOf(list), NEW s, StateOK(s), NEW x
    PROVE  /\ StateOK(CloseDatasetIfZeroRefCount(s, x))
           /\ Closing(s, CloseDatasetIfZeroRefCount(s, x))
<1>1. CASE Closable(s, x) = {}
  BY <1>1, ClosingNothing DEF CloseDatasetIfZeroRefCount
<1>2. CASE Closable(s, x) # {}
  <2> DEFINE e == list[Min(Closable(s, x))]
  <2>1. e \in Entries /\ e \in ToSet(list) /\ s.entry[e].refCount = 0
    BY <1>2, FirstClosable
  <2>2. CloseDatasetIfZeroRefCount(s, x) = Closed(s, e)
    BY <1>2 DEF CloseDatasetIfZeroRefCount
  <2> HIDE DEF e
  <2> QED BY <2>1, <2>2, ClosedCloses
<1> QED BY <1>1, <1>2

-----------------------------------------------------------------------------
(* What the invariant says of one thread and one slot *)

(* The types of what a thread uses. *)
LEMMA UseTypes ==
    ASSUME Types, NEW t \in Threads
    PROVE  /\ use[t] \in Seq(UseRecords) /\ Len(use[t]) \in Nat
           /\ use[t] = <<>> <=> Len(use[t]) = 0
           /\ \A i \in 1..Len(use[t]) :
                 /\ use[t][i].proxy \in TopProxies \cup Handles
                 /\ use[t][i].entry \in Entries /\ use[t][i].ds \in Handles
<1>1. use[t] \in Seq(UseRecords)
  BY DEF Types
<1>2. ASSUME NEW i \in 1..Len(use[t]) PROVE use[t][i] \in UseRecords
  BY <1>1
<1>3. \A i \in 1..Len(use[t]) :
         /\ use[t][i].proxy \in TopProxies \cup Handles
         /\ use[t][i].entry \in Entries /\ use[t][i].ds \in Handles
  BY <1>2 DEF UseRecords
<1>4. Len(use[t]) \in Nat /\ (use[t] = <<>> <=> Len(use[t]) = 0)
  BY <1>1, EmptySeq
<1> QED BY <1>1, <1>3, <1>4

(* The types of the call of a thread. *)
LEMMA CallTypes ==
    ASSUME Types, NEW t \in Threads
    PROVE  /\ call[t] \in CallRecords /\ pc[t] \in Places
           /\ call[t].proxy \in TopProxies \cup Handles \cup {None}
           /\ call[t].entry \in Entries \cup {None}
           /\ call[t].create \in BOOLEAN
<1>1. call[t] \in CallRecords /\ pc[t] \in Places
  BY DEF Types
<1> QED BY <1>1 DEF CallRecords

(* The types of the entries and of the datasets. *)
LEMMA EntryTypes ==
    ASSUME StateOK(PoolState)
    PROVE  /\ entry \in [Entries -> EntryRecords]
           /\ inner \in [Handles -> InnerProxies \cup {None}]
           /\ nRAMUsage \in Nat /\ open \subseteq Handles
           /\ \A e \in Entries :
                 /\ entry[e] \in EntryRecords
                 /\ entry[e].file \in Files \cup {None}
                 /\ entry[e].owner \in Owners
                 /\ entry[e].pid \in Threads \cup {None}
                 /\ entry[e].ds \in Handles \cup {None}
                 /\ entry[e].ram \in Nat
                 /\ entry[e].refCount \in Int
<1>1. /\ entry \in [Entries -> EntryRecords]
      /\ inner \in [Handles -> InnerProxies \cup {None}]
      /\ nRAMUsage \in Nat /\ open \subseteq Handles
  BY DEF StateOK, PoolState, PoolStates
<1>2. \A e \in Entries : entry[e] \in EntryRecords
  BY <1>1
<1>3. ASSUME NEW r \in EntryRecords
      PROVE  /\ r.file \in Files \cup {None} /\ r.owner \in Owners
             /\ r.pid \in Threads \cup {None} /\ r.ds \in Handles \cup {None}
             /\ r.ram \in Nat /\ r.refCount \in Int
  BY DEF EntryRecords
<1> QED BY <1>1, <1>2, <1>3

(* The record of the pool, component by component. *)
LEMMA StateParts ==
    ASSUME StateOK(PoolState)
    PROVE  /\ \A e \in Entries :
                 IF entry[e].ds = None THEN entry[e].ram = 0
                 ELSE entry[e].ds \in open /\ entry[e].file \in Files
           /\ \A d, e \in Entries :
                 entry[d].ds = entry[e].ds /\ entry[e].ds # None => d = e
           /\ \A h \in open : \E e \in Entries : entry[e].ds = h
           /\ \A h \in Handles : inner[h] # None =>
                 /\ Kind[inner[h].file] = "plain"
                 /\ \E e \in Entries : entry[e].ds = h /\ Kind[entry[e].file] # "plain"
           /\ IsFiniteSet(RamUnits(entry)) /\ nRAMUsage = Cardinality(RamUnits(entry))
<1>1. /\ PoolState.entry = entry /\ PoolState.inner = inner
      /\ PoolState.ram = nRAMUsage /\ PoolState.open = open
  BY DEF PoolState
<1>2. OneEntryEach(PoolState) /\ InnerOK(PoolState) /\ RamOK(PoolState)
  BY DEF StateOK
<1> QED BY <1>1, <1>2 DEF OneEntryEach, InnerOK, RamOK

(* The same in the next state. *)
LEMMA StateNext ==
    ASSUME NEW s, StateOK(s), SetPoolState(s)
    PROVE  StateOK(PoolState)'
<1>1. s = [entry |-> s.entry, inner |-> s.inner, ram |-> s.ram, open |-> s.open]
  BY DEF StateOK, PoolStates
<1>2. s = PoolState'
  BY <1>1 DEF SetPoolState, PoolState
<1> QED BY <1>2 DEF StateOK, OneEntryEach, InnerOK, RamOK

(* A reference belongs to a thread and is that of a use or of its call. *)
LEMMA SlotFacts ==
    ASSUME Types, ThreadsOK, NEW s \in Slots
    PROVE  /\ s[1] \in Threads /\ s[2] \in 1..2 /\ s = <<s[1], s[2]>>
           /\ s[2] <= Len(use[s[1]]) =>
                 /\ SlotEntry(s) = use[s[1]][s[2]].entry
                 /\ SlotProxy(s) = use[s[1]][s[2]].proxy
           /\ ~(s[2] <= Len(use[s[1]])) =>
                 /\ pc[s[1]] \in {"trim", "release"}
                 /\ s[2] = Len(use[s[1]]) + 1
                 /\ SlotEntry(s) = call[s[1]].entry
                 /\ SlotProxy(s) = call[s[1]].proxy
           /\ SlotEntry(s) \in Entries
           /\ SlotProxy(s) \in ProxiesOf(s[1])
           /\ SlotProxy(s) \in Alive \/ (/\ SlotProxy(s) = use[s[1]][1].ds
                                         /\ use[s[1]] # <<>>
                                         /\ inner[use[s[1]][1].ds] # None)
<1>1. s \in Threads \X (1..2) /\ s[2] <= Depth(s[1])
  BY DEF Slots
<1>2. s[1] \in Threads /\ s[2] \in 1..2 /\ s = <<s[1], s[2]>>
  BY <1>1
<1>3. PICK t \in Threads : t = s[1]
  BY <1>2
<1>4. PICK i \in 1..2 : i = s[2]
  BY <1>2
<1>5. UseOK(t) /\ CallOK(t)
  BY DEF ThreadsOK
<1>6. PICK n \in Nat : n = Len(use[t])
  BY UseTypes
<1>7. CASE i <= n
  <2>1. i \in 1..n /\ n # 0 /\ use[t] # <<>>
    BY <1>6, <1>7, UseTypes
  <2>2. SlotEntry(s) = use[t][i].entry /\ SlotProxy(s) = use[t][i].proxy
    BY <1>3, <1>4, <1>6, <1>7 DEF SlotEntry, SlotProxy
  <2>3. SlotEntry(s) \in Entries
    BY <1>6, <2>1, <2>2, UseTypes
  <2>4. use[t][i].proxy \in ProxiesOf(t)
    BY <1>6, <2>1 DEF ProxiesOf
  <2>5. CASE i = 1
    <3>1. use[t][1].proxy \in Alive
      BY <1>5, <2>1 DEF UseOK
    <3> QED BY <1>2, <1>3, <1>4, <1>6, <1>7, <2>2, <2>3, <2>4, <2>5, <3>1
  <2>6. CASE i = 2
    <3>0. n <= 2
      BY <1>5, <1>6 DEF UseOK
    <3>n. n = 2
      BY <1>7, <2>6, <3>0
    <3>1. Len(use[t]) = 2
      BY <1>6, <3>n
    <3>2. use[t][2].proxy = use[t][1].ds /\ inner[use[t][1].ds] # None
      BY <1>5, <3>1 DEF UseOK
    <3> QED BY <1>2, <1>3, <1>4, <1>6, <1>7, <2>1, <2>2, <2>3, <2>4, <2>6, <3>2
  <2> QED BY <2>5, <2>6
<1>8. CASE ~(i <= n)
  <2>0. i <= n + (IF pc[t] \in {"trim", "release"} THEN 1 ELSE 0)
    BY <1>1, <1>3, <1>4, <1>6 DEF Depth
  <2>1. pc[t] \in {"trim", "release"} /\ i = n + 1
    <3>1. CASE pc[t] \in {"trim", "release"}
      <4>1. i <= n + 1
        BY <2>0, <3>1
      <4> QED BY <1>8, <3>1, <4>1
    <3>2. CASE pc[t] \notin {"trim", "release"}
      <4>1. i <= n + 0
        BY <2>0, <3>2
      <4> QED BY <1>8, <4>1
    <3> QED BY <3>1, <3>2
  <2>2. SlotEntry(s) = call[t].entry /\ SlotProxy(s) = call[t].proxy
    BY <1>3, <1>4, <1>6, <1>8 DEF SlotEntry, SlotProxy
  <2>3. call[t].entry \in Entries
    BY <1>5, <2>1 DEF CallOK
  <2>4. call[t].proxy \in ProxiesOf(t)
    BY <2>1 DEF ProxiesOf
  <2>5. CallsTop(t) \/ CallsInner(t)
    BY <1>5, <2>1 DEF CallOK
  <2>6. \/ call[t].proxy \in Alive
        \/ call[t].proxy = use[t][1].ds /\ use[t] # <<>> /\ inner[use[t][1].ds] # None
    BY <2>5, UseTypes DEF CallsTop, CallsInner
  <2> QED BY <1>2, <1>3, <1>4, <1>6, <1>8, <2>1, <2>2, <2>3, <2>4, <2>6
<1> QED BY <1>7, <1>8

(* Each use of a thread is a reference. *)
LEMMA SlotOfUse ==
    ASSUME Types, ThreadsOK, NEW t \in Threads, NEW i \in 1..Len(use[t])
    PROVE  /\ <<t, i>> \in Slots /\ i \in 1..2
           /\ SlotEntry(<<t, i>>) = use[t][i].entry
           /\ SlotProxy(<<t, i>>) = use[t][i].proxy
<1>1. Len(use[t]) \in Nat /\ Len(use[t]) <= 2
  BY UseTypes DEF ThreadsOK, UseOK
<1>2. i \in 1..2 /\ i <= Len(use[t])
  BY <1>1
<1>3. i <= Depth(t)
  <2>1. PICK n \in Nat : n = Len(use[t])
    BY <1>1
  <2>2. PICK k \in {0, 1} : k = IF pc[t] \in {"trim", "release"} THEN 1 ELSE 0
    OBVIOUS
  <2>3. Depth(t) = n + k
    BY <2>1, <2>2 DEF Depth
  <2> QED BY <1>2, <2>1, <2>3
<1>4. <<t, i>>[1] = t /\ <<t, i>>[2] = i /\ <<t, i>> \in Threads \X (1..2)
  BY <1>2
<1> QED BY <1>2, <1>3, <1>4 DEF Slots, SlotEntry, SlotProxy

(* A call that has got its entry is a reference. *)
LEMMA SlotOfCall ==
    ASSUME Types, ThreadsOK, NEW t \in Threads, pc[t] \in {"trim", "release"}
    PROVE  /\ <<t, Len(use[t]) + 1>> \in Slots
           /\ SlotEntry(<<t, Len(use[t]) + 1>>) = call[t].entry
           /\ SlotProxy(<<t, Len(use[t]) + 1>>) = call[t].proxy
<1>1. PICK n \in Nat : n = Len(use[t])
  BY UseTypes
<1>2. CallsTop(t) \/ CallsInner(t)
  BY DEF ThreadsOK, CallOK
<1>3. n <= 1
  BY <1>1, <1>2, UseTypes DEF CallsTop, CallsInner
<1>4. Depth(t) = n + 1 /\ n + 1 \in 1..2 /\ ~(n + 1 <= n)
  BY <1>1, <1>3 DEF Depth
<1>5. <<t, n + 1>>[1] = t /\ <<t, n + 1>>[2] = n + 1 /\ <<t, n + 1>> \in Threads \X (1..2)
  BY <1>4
<1>6. <<t, n + 1>> \in Slots
  BY <1>4, <1>5 DEF Slots
<1>7. SlotEntry(<<t, n + 1>>) = call[t].entry /\ SlotProxy(<<t, n + 1>>) = call[t].proxy
  BY <1>1, <1>4, <1>5 DEF SlotEntry, SlotProxy
<1> QED BY <1>1, <1>6, <1>7

(* An entry has finitely many references. *)
LEMMA FiniteSlots ==
    ASSUME NEW e
    PROVE  /\ IsFiniteSet(EntrySlots(e)) /\ Cardinality(EntrySlots(e)) \in Nat
           /\ Cardinality(EntrySlots(e)) <= Cardinality(Threads) * 2
<1>1. IsFiniteSet(Threads)
  BY NamesAssumption
<1>2. IsFiniteSet(1..2) /\ Cardinality(1..2) = 2
  <2>1. 1 \in Int /\ 2 \in Int /\ ~(1 > 2) /\ 2 - 1 + 1 = 2
    OBVIOUS
  <2> QED BY <2>1, FS_Interval
<1>3. /\ IsFiniteSet(Threads \X (1..2))
      /\ Cardinality(Threads \X (1..2)) = Cardinality(Threads) * 2
  BY <1>1, <1>2, FS_Product
<1>4. EntrySlots(e) \in SUBSET (Threads \X (1..2))
  BY DEF EntrySlots, Slots
<1> QED BY <1>3, <1>4, FS_Subset, FS_CardinalityType

(* An entry is in use, being opened, or neither. *)
LEMMA RefCountCases ==
    ASSUME Counted, NEW e \in Entries
    PROVE  /\ entry[e].refCount >= -1 /\ entry[e].refCount \in Int
           /\ entry[e].refCount = -1 <=> Openers(e) # {}
           /\ entry[e].refCount = 0 <=> EntrySlots(e) = {} /\ Openers(e) = {}
           /\ entry[e].refCount > 0 <=> EntrySlots(e) # {}
           /\ Openers(e) = {} => entry[e].refCount = Cardinality(EntrySlots(e))
           /\ Openers(e) # {} => EntrySlots(e) = {}
<1>1. PICK c \in Nat : c = Cardinality(EntrySlots(e))
  BY FiniteSlots
<1>2. c = 0 <=> EntrySlots(e) = {}
  BY <1>1, FiniteSlots, FS_EmptySet
<1>3. /\ entry[e].refCount = IF Openers(e) = {} THEN c ELSE -1
      /\ Openers(e) # {} => EntrySlots(e) = {}
  BY <1>1 DEF Counted
<1>4. CASE Openers(e) = {}
  BY <1>1, <1>2, <1>3, <1>4
<1>5. CASE Openers(e) # {}
  BY <1>1, <1>2, <1>3, <1>5
<1> QED BY <1>4, <1>5

-----------------------------------------------------------------------------
(* Steps that leave alone what the threads hold *)

SameData(e) ==
    /\ entry'[e].file = entry[e].file /\ entry'[e].owner = entry[e].owner
    /\ entry'[e].pid = entry[e].pid /\ entry'[e].ds = entry[e].ds

InUse(h) == \E e \in Entries : entry[e].ds = h /\ entry[e].refCount > 0

(* Only the proxies of X and, of the entries being opened, only the ones   *)
(* of E may change.                                                        *)
PoolKeeps(X, E) ==
    /\ \A e \in Entries : entry[e].refCount > 0 => SameData(e)
    /\ \A e \in Entries \ E : entry[e].refCount = -1 => entry'[e] = entry[e]
    /\ \A p \in Alive \ X : pid'[p] = pid[p]
    /\ \A h \in Handles \ X : inner[h] # None /\ InUse(h) => inner'[h] = inner[h]

KeepsProxy(x) == IF x \in TopProxies THEN pid'[x] = pid[x] ELSE inner'[x] = inner[x]

(* A proxy that is kept has the same parameters. *)
LEMMA SameParams ==
    ASSUME NEW x, KeepsProxy(x)
    PROVE  ParamsOf(x)' = ParamsOf(x)
BY DEF KeepsProxy, ParamsOf

(* Closing datasets is such a step. *)
LEMMA ClosingKeeps ==
    ASSUME PoolInv, NEW s, StateOK(s), Closing(PoolState, s), SetPoolState(s),
           pid' = pid
    PROVE  PoolKeeps({}, {})
<1>0. /\ PoolState.entry = entry /\ PoolState.inner = inner
      /\ PoolState.open = open
  BY DEF PoolState
<1>1. entry' = s.entry /\ inner' = s.inner /\ open' = s.open
  BY DEF SetPoolState
<1>2. \A e \in Entries : entry[e].refCount # 0 => entry'[e] = entry[e]
  BY <1>0, <1>1 DEF Closing
<1>3. ASSUME NEW e \in Entries, entry[e].refCount > 0
      PROVE  entry[e].refCount # 0
  BY <1>3
<1>4. ASSUME NEW h \in Handles, inner[h] # None, InUse(h)
      PROVE  inner'[h] = inner[h]
  <2>1. PICK e \in Entries : entry[e].ds = h /\ entry[e].refCount > 0
    BY <1>4 DEF InUse
  <2>2. s.entry[e].ds = h
    BY <1>1, <1>2, <1>3, <2>1
  <2>3. h # None
    BY NamesAssumption
  <2>4. h \in s.open
    BY <2>2, <2>3 DEF StateOK, OneEntryEach
  <2> QED BY <1>0, <1>1, <2>4 DEF Closing
<1>5. \A e \in Entries : entry[e].refCount = -1 => entry[e].refCount # 0
  OBVIOUS
<1> QED BY <1>2, <1>3, <1>4, <1>5 DEF PoolKeeps, SameData

(* What a thread holds is kept. *)
LEMMA UsesKept ==
    ASSUME PoolInv, NEW X, NEW E, PoolKeeps(X, E), NEW t \in Threads
    PROVE  /\ \A i \in 1..Len(use[t]) : /\ SameData(use[t][i].entry)
                                        /\ InUse(use[t][i].ds)
           /\ pc[t] \in {"trim", "release"} => SameData(call[t].entry)
           /\ pc[t] = "open" /\ call[t].entry \notin E =>
                 entry'[call[t].entry] = entry[call[t].entry]
           /\ use[t] # <<>> /\ inner[use[t][1].ds] # None /\ use[t][1].ds \notin X =>
                 inner'[use[t][1].ds] = inner[use[t][1].ds]
           /\ \A p \in Alive \ X : p \in Alive' /\ pid'[p] = pid[p]
<1> USE DEF PoolInv
<1>1. ASSUME NEW i \in 1..Len(use[t])
      PROVE  SameData(use[t][i].entry) /\ InUse(use[t][i].ds)
  <2>1. <<t, i>> \in Slots /\ SlotEntry(<<t, i>>) = use[t][i].entry
    BY SlotOfUse
  <2>2. use[t][i].entry \in Entries
    BY UseTypes
  <2>3. <<t, i>> \in EntrySlots(use[t][i].entry)
    BY <2>1 DEF EntrySlots
  <2>4. entry[use[t][i].entry].refCount > 0
    BY <2>2, <2>3, RefCountCases
  <2>5. entry[use[t][i].entry].ds = use[t][i].ds
    BY DEF ThreadsOK, UseOK
  <2> QED BY <2>2, <2>4, <2>5 DEF PoolKeeps, InUse
<1>2. ASSUME pc[t] \in {"trim", "release"} PROVE SameData(call[t].entry)
  <2>1. PICK s \in Slots : SlotEntry(s) = call[t].entry
    BY <1>2, SlotOfCall
  <2>2. call[t].entry \in Entries
    BY <1>2 DEF ThreadsOK, CallOK
  <2>3. s \in EntrySlots(call[t].entry)
    BY <2>1 DEF EntrySlots
  <2>4. entry[call[t].entry].refCount > 0
    BY <2>2, <2>3, RefCountCases
  <2> QED BY <2>2, <2>4 DEF PoolKeeps
<1>3. ASSUME pc[t] = "open", call[t].entry \notin E
      PROVE  entry'[call[t].entry] = entry[call[t].entry]
  <2>1. call[t].entry \in Entries /\ OpenOK(t)
    BY <1>3 DEF ThreadsOK, CallOK
  <2>2. entry[call[t].entry].refCount = -1
    BY <2>1 DEF OpenOK
  <2> QED BY <1>3, <2>1, <2>2 DEF PoolKeeps
<1>4. ASSUME use[t] # <<>>, inner[use[t][1].ds] # None, use[t][1].ds \notin X
      PROVE  inner'[use[t][1].ds] = inner[use[t][1].ds]
  <2>1. 1 \in 1..Len(use[t])
    BY <1>4, UseTypes
  <2>2. use[t][1].ds \in Handles /\ InUse(use[t][1].ds)
    BY <1>1, <2>1, UseTypes
  <2> QED BY <1>4, <2>2 DEF PoolKeeps
<1>5. ASSUME NEW p \in Alive \ X PROVE p \in Alive' /\ pid'[p] = pid[p]
  BY DEF PoolKeeps, Alive
<1> QED BY <1>1, <1>2, <1>3, <1>4, <1>5

(* The uses of a thread are in order after such a step. *)
LEMMA UsesInOrder ==
    ASSUME PoolInv, NEW X, NEW E, PoolKeeps(X, E), NEW t \in Threads,
           use'[t] = use[t], \A i \in 1..Len(use[t]) : use[t][i].proxy \notin X
    PROVE  UseOK(t)'
<1>a. UseOK(t)
  BY DEF PoolInv, ThreadsOK
<1>b. /\ \A i \in 1..Len(use[t]) : SameData(use[t][i].entry)
      /\ use[t] # <<>> /\ inner[use[t][1].ds] # None /\ use[t][1].ds \notin X =>
            inner'[use[t][1].ds] = inner[use[t][1].ds]
      /\ \A p \in Alive \ X : p \in Alive' /\ pid'[p] = pid[p]
  BY UsesKept
<1>c. Len(use[t]) \in Nat /\ (use[t] = <<>> <=> Len(use[t]) = 0)
  BY UseTypes DEF PoolInv
<1>d. \A i \in 1..Len(use[t]) : use[t][i].proxy \notin X
  OBVIOUS
<1>1. use[t] # <<>> => use[t][1].proxy \in Alive'
  <2> SUFFICES ASSUME use[t] # <<>> PROVE use[t][1].proxy \in Alive'
    OBVIOUS
  <2>1. 1 \in 1..Len(use[t])
    BY <1>c
  <2>2. use[t][1].proxy \in Alive
    BY <1>a DEF UseOK
  <2> QED BY <1>b, <1>d, <2>1, <2>2
<1>2. Len(use[t]) = 2 => /\ use[t][2].proxy = use[t][1].ds
                         /\ inner'[use[t][1].ds] # None
  <2> SUFFICES ASSUME Len(use[t]) = 2
               PROVE  /\ use[t][2].proxy = use[t][1].ds
                      /\ inner'[use[t][1].ds] # None
    OBVIOUS
  <2>1. 2 \in 1..Len(use[t]) /\ use[t] # <<>>
    BY <1>c
  <2>2. use[t][2].proxy = use[t][1].ds /\ inner[use[t][1].ds] # None
    BY <1>a DEF UseOK
  <2> QED BY <1>b, <1>d, <2>1, <2>2
<1>3. \A i \in 1..Len(use[t]) : entry'[use[t][i].entry].ds = use[t][i].ds
  BY <1>a, <1>b DEF UseOK, SameData
<1>4. Len(use[t]) <= 2
  BY <1>a DEF UseOK
<1> QED BY <1>1, <1>2, <1>3, <1>4 DEF UseOK

(* A thread that does nothing is still in order after such a step. *)
LEMMA OtherThread ==
    ASSUME PoolInv, NEW X, NEW E, PoolKeeps(X, E), NEW t \in Threads,
           use'[t] = use[t], pc'[t] = pc[t], call'[t] = call[t],
           prevented = t => prevented' = t,
           ProxiesOf(t) \cap X = {},
           pc[t] = "open" => call[t].entry \notin E
    PROVE  UseOK(t)' /\ CallOK(t)'
<1>1. UseOK(t) /\ CallOK(t)
  BY DEF PoolInv, ThreadsOK
<1>2. Types
  BY DEF PoolInv
<1>3. /\ \A i \in 1..Len(use[t]) : SameData(use[t][i].entry)
      /\ pc[t] \in {"trim", "release"} => SameData(call[t].entry)
      /\ pc[t] = "open" => entry'[call[t].entry] = entry[call[t].entry]
      /\ use[t] # <<>> /\ inner[use[t][1].ds] # None /\ use[t][1].ds \notin X =>
            inner'[use[t][1].ds] = inner[use[t][1].ds]
      /\ \A p \in Alive \ X : p \in Alive' /\ pid'[p] = pid[p]
  BY UsesKept
<1>4. Len(use[t]) \in Nat /\ (use[t] = <<>> <=> Len(use[t]) = 0)
  BY <1>2, UseTypes
<1>5. ASSUME NEW i \in 1..Len(use[t]) PROVE use[t][i].proxy \notin X
  BY DEF ProxiesOf
<1>6. ASSUME pc[t] # "idle" PROVE call[t].proxy \notin X
  BY <1>6 DEF ProxiesOf
<1>7. UseOK(t)'
  BY <1>5, UsesInOrder
<1>8. ASSUME CallsTop(t), pc[t] # "idle" PROVE CallsTop(t)'
  BY <1>3, <1>6, <1>8 DEF CallsTop
<1>9. ASSUME CallsInner(t), pc[t] # "idle" PROVE CallsInner(t)'
  <2>1. use[t] # <<>> /\ use[t][1].ds \notin X
    BY <1>4, <1>6, <1>9 DEF CallsInner
  <2> QED BY <1>3, <1>9, <2>1 DEF CallsInner
<1>10. ASSUME pc[t] = "open" PROVE OpenOK(t)'
  <2>1. OpenOK(t) /\ (CallsTop(t) \/ CallsInner(t))
    BY <1>1, <1>10 DEF CallOK
  <2>2. KeepsProxy(call[t].proxy)
    <3>1. CASE CallsTop(t)
      <4>1. call[t].proxy \in Alive \ X /\ call[t].proxy \in TopProxies
        BY <1>6, <1>10, <3>1 DEF CallsTop, Alive
      <4> QED BY <1>3, <4>1 DEF KeepsProxy
    <3>2. CASE CallsInner(t)
      <4>1. 1 \in 1..Len(use[t]) /\ use[t] # <<>>
        BY <1>4, <3>2 DEF CallsInner
      <4>2. call[t].proxy \in Handles
        BY <1>2, <3>2, <4>1, UseTypes DEF CallsInner
      <4>3. call[t].proxy \notin TopProxies
        BY <4>2, NamesAssumption
      <4>4. inner'[call[t].proxy] = inner[call[t].proxy]
        BY <1>3, <1>6, <1>10, <3>2, <4>1 DEF CallsInner
      <4> QED BY <4>3, <4>4 DEF KeepsProxy
    <3> QED BY <2>1, <3>1, <3>2
  <2>3. \A x : x = call[t].proxy => ParamsOf(x)' = ParamsOf(x)
    BY <2>2, SameParams
  <2>4. PICK x : x = call[t].proxy
    OBVIOUS
  <2>5. ParamsOf(x)' = ParamsOf(x)
    BY <2>3, <2>4
  <2>6. ParamsOf(call[t].proxy)' = ParamsOf(x)'
    BY <2>4
  <2> QED BY <1>3, <1>10, <2>1, <2>4, <2>5, <2>6 DEF OpenOK
<1>11. CallOK(t)'
  <2>1. /\ pc[t] = "idle" => call[t] = NoCall
        /\ pc[t] \in {"ref", "abandon"} => call[t].create
        /\ pc[t] \in {"open", "trim", "release"} => call[t].entry \in Entries
    BY <1>1 DEF CallOK
  <2>2. pc[t] = "unref" /\ ~call[t].create =>
           use[t] = <<>> /\ (call[t].proxy \in Alive' \/ prevented' = t)
    <3> SUFFICES ASSUME pc[t] = "unref", ~call[t].create
                 PROVE  use[t] = <<>> /\ (call[t].proxy \in Alive' \/ prevented' = t)
      OBVIOUS
    <3>1. use[t] = <<>> /\ (call[t].proxy \in Alive \/ prevented = t)
      BY <1>1 DEF CallOK
    <3>2. call[t].proxy \notin X
      BY <1>6
    <3> QED BY <1>3, <3>1, <3>2
  <2>3. ~NoCall.create
    BY DEF NoCall
  <2>4. pc[t] \notin {"idle", "unref"} \/ call[t].create =>
           CallsTop(t)' \/ CallsInner(t)'
    <3> SUFFICES ASSUME pc[t] \notin {"idle", "unref"} \/ call[t].create
                 PROVE  CallsTop(t)' \/ CallsInner(t)'
      OBVIOUS
    <3>1. pc[t] # "idle"
      BY <2>1, <2>3
    <3>2. CallsTop(t) \/ CallsInner(t)
      BY <1>1 DEF CallOK
    <3> QED BY <1>8, <1>9, <3>1, <3>2
  <2>5. pc[t] = "trim" => entry'[call[t].entry].ds # None
    <3> SUFFICES ASSUME pc[t] = "trim" PROVE entry'[call[t].entry].ds # None
      OBVIOUS
    <3>1. entry[call[t].entry].ds # None
      BY <1>1 DEF CallOK
    <3> QED BY <1>3, <3>1 DEF SameData
  <2> QED BY <1>10, <2>1, <2>2, <2>4, <2>5 DEF CallOK
<1> QED BY <1>7, <1>11

-----------------------------------------------------------------------------
(* How a step changes the slots *)

SameSlot(s) == SlotEntry(s)' = SlotEntry(s) /\ SlotProxy(s)' = SlotProxy(s)

SameSlotsOf(t) ==
    Depth(t)' = Depth(t) /\ \A i \in 1..2 : i <= Depth(t) => SameSlot(<<t, i>>)

(* The slots of a thread that keeps its uses, and its call if it counts.   *)
LEMMA SlotsOfThread ==
    ASSUME NEW t \in Threads, use'[t] = use[t],
           pc'[t] \in {"trim", "release"} <=> pc[t] \in {"trim", "release"},
           \/ call'[t].entry = call[t].entry /\ call'[t].proxy = call[t].proxy
           \/ pc[t] \notin {"trim", "release"},
           Len(use[t]) \in Nat
    PROVE  SameSlotsOf(t)
<1>1. Depth(t)' = Depth(t)
  BY DEF Depth
<1>2. ASSUME NEW i \in 1..2, i <= Depth(t) PROVE SameSlot(<<t, i>>)
  <2>1. <<t, i>>[1] = t /\ <<t, i>>[2] = i
    OBVIOUS
  <2>2. CASE i <= Len(use[t])
    BY <2>1, <2>2 DEF SameSlot, SlotEntry, SlotProxy
  <2>3. CASE ~(i <= Len(use[t]))
    <3>1. pc[t] \in {"trim", "release"}
      <4> SUFFICES ASSUME pc[t] \notin {"trim", "release"} PROVE FALSE
        OBVIOUS
      <4>1. Depth(t) = Len(use[t]) + 0
        BY DEF Depth
      <4>2. PICK n \in Nat : n = Len(use[t])
        OBVIOUS
      <4>3. i <= n + 0 /\ ~(i <= n)
        BY <1>2, <2>3, <4>1, <4>2
      <4> QED BY <4>2, <4>3
    <3> QED BY <2>1, <2>3, <3>1 DEF SameSlot, SlotEntry, SlotProxy
  <2> QED BY <2>2, <2>3
<1> QED BY <1>1, <1>2 DEF SameSlotsOf

(* The thread and the depth of a reference, before and after a step. *)
LEMMA SlotParts ==
    ASSUME NEW s
    PROVE  /\ s \in Slots => /\ s[1] \in Threads /\ s[2] \in 1..2
                             /\ s = <<s[1], s[2]>> /\ s[2] <= Depth(s[1])
           /\ s \in Slots' => /\ s[1] \in Threads /\ s[2] \in 1..2
                              /\ s = <<s[1], s[2]>> /\ s[2] <= Depth(s[1])'
BY DEF Slots

(* Which pairs of a thread and a depth are references. *)
LEMMA SlotIs ==
    ASSUME NEW t \in Threads, NEW i \in 1..2
    PROVE  /\ <<t, i>> \in Slots <=> i <= Depth(t)
           /\ <<t, i>> \in Slots' <=> i <= Depth(t)'
<1>1. <<t, i>>[1] = t /\ <<t, i>>[2] = i /\ <<t, i>> \in Threads \X (1..2)
  OBVIOUS
<1> QED BY <1>1 DEF Slots

(* A step that changes no thread's references keeps them all. *)
LEMMA SlotsSame ==
    ASSUME \A t \in Threads : SameSlotsOf(t)
    PROVE  Slots' = Slots /\ \A s \in Slots : SameSlot(s)
<1>1. ASSUME NEW s \in Slots PROVE s \in Slots' /\ SameSlot(s)
  <2>1. /\ s[1] \in Threads /\ s[2] \in 1..2
        /\ s = <<s[1], s[2]>> /\ s[2] <= Depth(s[1])
    BY <1>1, SlotParts
  <2>2. PICK t \in Threads, i \in 1..2 : s = <<t, i>> /\ i <= Depth(t)
    BY <2>1
  <2>3. SameSlot(<<t, i>>) /\ Depth(t)' = Depth(t)
    BY <2>2 DEF SameSlotsOf
  <2>4. <<t, i>> \in Slots'
    BY <2>2, <2>3, SlotIs
  <2> QED BY <2>2, <2>3, <2>4
<1>2. ASSUME NEW s \in Slots' PROVE s \in Slots
  <2>1. PICK t \in Threads, i \in 1..2 : s = <<t, i>> /\ i <= Depth(t)'
    BY <1>2, SlotParts
  <2>2. Depth(t)' = Depth(t)
    BY DEF SameSlotsOf
  <2>3. <<t, i>> \in Slots
    BY <2>1, <2>2, SlotIs
  <2> QED BY <2>1, <2>3
<1> QED BY <1>1, <1>2

(* A thread that goes one deeper adds one reference. *)
LEMMA SlotsPush ==
    ASSUME NEW t \in Threads, NEW n \in {0, 1}, Depth(t) = n, Depth(t)' = n + 1,
           \A u \in Threads \ {t} : SameSlotsOf(u),
           \A i \in 1..n : SameSlot(<<t, i>>)
    PROVE  /\ <<t, n + 1>> \notin Slots
           /\ Slots' = Slots \cup {<<t, n + 1>>}
           /\ \A s \in Slots : SameSlot(s)
<1>0. n + 1 \in 1..2 /\ ~(n + 1 <= n)
  OBVIOUS
<1>1. <<t, n + 1>> \notin Slots /\ <<t, n + 1>> \in Slots'
  <2>1. PICK i \in 1..2 : i = n + 1 /\ i <= n + 1 /\ ~(i <= n)
    BY <1>0
  <2>2. /\ <<t, i>> \in Slots <=> i <= Depth(t)
        /\ <<t, i>> \in Slots' <=> i <= Depth(t)'
    BY SlotIs
  <2> QED BY <2>1, <2>2
<1>2. ASSUME NEW s \in Slots PROVE s \in Slots' /\ SameSlot(s)
  <2>1. PICK u \in Threads, i \in 1..2 : s = <<u, i>> /\ i <= Depth(u)
    BY <1>2, SlotParts
  <2>2. CASE u = t
    <3>1. i \in 1..n /\ i <= n + 1
      BY <2>1, <2>2
    <3>2. <<t, i>> \in Slots'
      BY <3>1, SlotIs
    <3> QED BY <2>1, <2>2, <3>1, <3>2
  <2>3. CASE u # t
    <3>1. SameSlot(<<u, i>>) /\ Depth(u)' = Depth(u)
      BY <2>1, <2>3 DEF SameSlotsOf
    <3>2. <<u, i>> \in Slots'
      BY <2>1, <3>1, SlotIs
    <3> QED BY <2>1, <3>1, <3>2
  <2> QED BY <2>2, <2>3
<1>3. ASSUME NEW s \in Slots', s # <<t, n + 1>> PROVE s \in Slots
  <2>1. PICK u \in Threads, i \in 1..2 : s = <<u, i>> /\ i <= Depth(u)'
    BY <1>3, SlotParts
  <2>2. CASE u = t
    <3>1. i <= n + 1 /\ i # n + 1
      BY <1>3, <2>1, <2>2
    <3>2. i <= n
      BY <3>1
    <3> QED BY <2>1, <2>2, <3>2, SlotIs
  <2>3. CASE u # t
    <3>1. Depth(u)' = Depth(u)
      BY <2>3 DEF SameSlotsOf
    <3> QED BY <2>1, <3>1, SlotIs
  <2> QED BY <2>2, <2>3
<1> QED BY <1>1, <1>2, <1>3

(* A thread that comes back drops its last reference. *)
LEMMA SlotsPop ==
    ASSUME NEW t \in Threads, NEW n \in {0, 1}, Depth(t) = n + 1, Depth(t)' = n,
           \A u \in Threads \ {t} : SameSlotsOf(u),
           \A i \in 1..n : SameSlot(<<t, i>>)
    PROVE  /\ <<t, n + 1>> \in Slots
           /\ Slots' = Slots \ {<<t, n + 1>>}
           /\ \A s \in Slots' : SameSlot(s)
<1>0. n + 1 \in 1..2 /\ ~(n + 1 <= n)
  OBVIOUS
<1>1. <<t, n + 1>> \in Slots /\ <<t, n + 1>> \notin Slots'
  <2>1. PICK i \in 1..2 : i = n + 1 /\ i <= n + 1 /\ ~(i <= n)
    BY <1>0
  <2>2. /\ <<t, i>> \in Slots <=> i <= Depth(t)
        /\ <<t, i>> \in Slots' <=> i <= Depth(t)'
    BY SlotIs
  <2> QED BY <2>1, <2>2
<1>2. ASSUME NEW s \in Slots' PROVE s \in Slots /\ SameSlot(s)
  <2>1. PICK u \in Threads, i \in 1..2 : s = <<u, i>> /\ i <= Depth(u)'
    BY <1>2, SlotParts
  <2>2. CASE u = t
    <3>1. i \in 1..n /\ i <= n + 1
      BY <2>1, <2>2
    <3>2. <<t, i>> \in Slots
      BY <3>1, SlotIs
    <3> QED BY <2>1, <2>2, <3>1, <3>2
  <2>3. CASE u # t
    <3>1. Depth(u)' = Depth(u) /\ i <= Depth(u)
      BY <2>1, <2>3 DEF SameSlotsOf
    <3>2. SameSlot(<<u, i>>)
      BY <2>3, <3>1 DEF SameSlotsOf
    <3>3. <<u, i>> \in Slots
      BY <3>1, SlotIs
    <3> QED BY <2>1, <3>2, <3>3
  <2> QED BY <2>2, <2>3
<1>3. ASSUME NEW s \in Slots, s # <<t, n + 1>> PROVE s \in Slots'
  <2>1. PICK u \in Threads, i \in 1..2 : s = <<u, i>> /\ i <= Depth(u)
    BY <1>3, SlotParts
  <2>2. CASE u = t
    <3>1. i <= n + 1 /\ i # n + 1
      BY <1>3, <2>1, <2>2
    <3>2. i <= n
      BY <3>1
    <3> QED BY <2>1, <2>2, <3>2, SlotIs
  <2>3. CASE u # t
    <3>1. Depth(u)' = Depth(u)
      BY <2>3 DEF SameSlotsOf
    <3> QED BY <2>1, <3>1, SlotIs
  <2> QED BY <2>2, <2>3
<1> QED BY <1>1, <1>2, <1>3

(* What a slot refers to is kept. *)
LEMMA SlotKept ==
    ASSUME PoolInv, NEW X, NEW E, PoolKeeps(X, E), NEW s \in Slots,
           SlotProxy(s) \notin X
    PROVE  SameData(SlotEntry(s)) /\ KeepsProxy(SlotProxy(s))
<1>1. Types /\ ThreadsOK /\ Counted
  BY DEF PoolInv
<1>2. /\ s[1] \in Threads
      /\ SlotEntry(s) \in Entries
      /\ SlotProxy(s) \in Alive \/ (/\ SlotProxy(s) = use[s[1]][1].ds
                                    /\ use[s[1]] # <<>>
                                    /\ inner[use[s[1]][1].ds] # None)
  BY <1>1, SlotFacts
<1>3. SameData(SlotEntry(s))
  <2>1. s \in EntrySlots(SlotEntry(s))
    BY DEF EntrySlots
  <2>2. entry[SlotEntry(s)].refCount > 0
    BY <1>1, <1>2, <2>1, RefCountCases
  <2> QED BY <1>2, <2>2 DEF PoolKeeps
<1>4. CASE SlotProxy(s) \in Alive
  <2>1. pid'[SlotProxy(s)] = pid[SlotProxy(s)] /\ SlotProxy(s) \in TopProxies
    BY <1>4 DEF PoolKeeps, Alive
  <2> QED BY <1>3, <2>1 DEF KeepsProxy
<1>5. CASE SlotProxy(s) \notin Alive
  <2>0. PICK t \in Threads : t = s[1]
    BY <1>2
  <2>1. SlotProxy(s) = use[t][1].ds /\ use[t] # <<>> /\ inner[use[t][1].ds] # None
    BY <1>2, <1>5, <2>0
  <2>2. 1 \in 1..Len(use[t])
    BY <1>1, <2>1, UseTypes
  <2>3. use[t][1].ds \in Handles
    BY <1>1, <2>2, UseTypes
  <2>4. use[t][1].ds \notin TopProxies
    BY <2>3, NamesAssumption
  <2>5. inner'[use[t][1].ds] = inner[use[t][1].ds]
    BY <2>1, UsesKept
  <2> QED BY <1>3, <2>1, <2>4, <2>5 DEF KeepsProxy
<1> QED BY <1>4, <1>5

(* A reference that is kept has the parameters it had. *)
LEMMA SlotParams ==
    ASSUME NEW s, SameSlot(s), KeepsProxy(SlotProxy(s)), SameData(SlotEntry(s))
    PROVE  /\ ParamsOf(SlotProxy(s))' = ParamsOf(SlotProxy(s))
           /\ entry[SlotEntry(s)].file' = entry[SlotEntry(s)].file
           /\ entry[SlotEntry(s)].owner' = entry[SlotEntry(s)].owner
           /\ entry[SlotEntry(s)].pid' = entry[SlotEntry(s)].pid
           /\ entry[SlotEntry(s)].ds' = entry[SlotEntry(s)].ds
<1>1. PICK x : x = SlotProxy(s)
  OBVIOUS
<1>2. ParamsOf(x)' = ParamsOf(x)
  BY <1>1, SameParams
<1>3. SlotProxy(s)' = x
  BY <1>1 DEF SameSlot
<1>4. ParamsOf(SlotProxy(s))' = ParamsOf(x)'
  BY <1>3 DEF ParamsOf
<1>5. PICK e : e = SlotEntry(s)
  OBVIOUS
<1>6. SlotEntry(s)' = e
  BY <1>5 DEF SameSlot
<1> QED BY <1>1, <1>2, <1>4, <1>5, <1>6 DEF SameData

(* Slots that are kept, or dropped, still match. *)
LEMMA MatchKept ==
    ASSUME PoolInv, NEW X, NEW E, PoolKeeps(X, E),
           Slots' \subseteq Slots, \A s \in Slots' : SameSlot(s),
           \A s \in Slots' : SlotProxy(s) \notin X
    PROVE  SlotsMatch' /\ OneUnshared'
<1>1. ASSUME NEW s \in Slots'
      PROVE  /\ ParamsOf(SlotProxy(s))' = ParamsOf(SlotProxy(s))
             /\ entry[SlotEntry(s)].file' = entry[SlotEntry(s)].file
             /\ entry[SlotEntry(s)].owner' = entry[SlotEntry(s)].owner
             /\ entry[SlotEntry(s)].pid' = entry[SlotEntry(s)].pid
             /\ SlotEntry(s)' = SlotEntry(s)
  <2>1. SameData(SlotEntry(s)) /\ KeepsProxy(SlotProxy(s))
    BY SlotKept
  <2>2. SameSlot(s)
    OBVIOUS
  <2> QED BY <2>1, <2>2, SlotParams DEF SameSlot
<1>2. SlotsMatch'
  <2>1. ASSUME NEW s \in Slots'
        PROVE  /\ entry[SlotEntry(s)].file' = ParamsOf(SlotProxy(s)).file'
               /\ ParamsOf(SlotProxy(s)).shared' =>
                     /\ entry[SlotEntry(s)].pid' = ParamsOf(SlotProxy(s)).pid'
                     /\ entry[SlotEntry(s)].owner' = ParamsOf(SlotProxy(s)).owner'
    <3>1. s \in Slots
      OBVIOUS
    <3>2. /\ entry[SlotEntry(s)].file = ParamsOf(SlotProxy(s)).file
          /\ ParamsOf(SlotProxy(s)).shared =>
                /\ entry[SlotEntry(s)].pid = ParamsOf(SlotProxy(s)).pid
                /\ entry[SlotEntry(s)].owner = ParamsOf(SlotProxy(s)).owner
      BY <3>1 DEF PoolInv, SlotsMatch
    <3> QED BY <1>1, <3>2
  <2> QED BY <2>1 DEF SlotsMatch
<1>3. OneUnshared'
  <2>1. ASSUME NEW r \in Slots', NEW s \in Slots', r # s,
               SlotEntry(r)' = SlotEntry(s)'
        PROVE  ParamsOf(SlotProxy(r)).shared' \/ ParamsOf(SlotProxy(s)).shared'
    <3>1. SlotEntry(r) = SlotEntry(s)
      BY <1>1, <2>1
    <3>2. ParamsOf(SlotProxy(r)).shared \/ ParamsOf(SlotProxy(s)).shared
      BY <2>1, <3>1 DEF PoolInv, OneUnshared
    <3> QED BY <1>1, <3>2
  <2> QED BY <2>1 DEF OneUnshared
<1> QED BY <1>2, <1>3

(* A new slot that matches, on an entry that only shared proxies use if it *)
(* is not shared itself.                                                   *)
LEMMA MatchPushed ==
    ASSUME PoolInv, NEW E, PoolKeeps({}, E),
           NEW s0, Slots' = Slots \cup {s0}, \A s \in Slots : SameSlot(s),
           NEW e \in Entries, NEW x, SlotEntry(s0)' = e, SlotProxy(s0)' = x,
           KeepsProxy(x),
           entry'[e].file = ParamsOf(x).file,
           ParamsOf(x).shared => /\ entry'[e].pid = ParamsOf(x).pid
                                 /\ entry'[e].owner = ParamsOf(x).owner,
           ParamsOf(x).shared \/ EntrySlots(e) = {}
    PROVE  SlotsMatch' /\ OneUnshared'
<1>1. ASSUME NEW s \in Slots
      PROVE  /\ ParamsOf(SlotProxy(s))' = ParamsOf(SlotProxy(s))
             /\ entry[SlotEntry(s)].file' = entry[SlotEntry(s)].file
             /\ entry[SlotEntry(s)].owner' = entry[SlotEntry(s)].owner
             /\ entry[SlotEntry(s)].pid' = entry[SlotEntry(s)].pid
             /\ SlotEntry(s)' = SlotEntry(s)
  <2>1. SameData(SlotEntry(s)) /\ KeepsProxy(SlotProxy(s))
    BY SlotKept
  <2>2. SameSlot(s)
    OBVIOUS
  <2> QED BY <2>1, <2>2, SlotParams DEF SameSlot
<1>2. ParamsOf(SlotProxy(s0))' = ParamsOf(x)
  <2>1. ParamsOf(x)' = ParamsOf(x)
    BY SameParams
  <2>2. ParamsOf(SlotProxy(s0))' = ParamsOf(x)'
    BY DEF ParamsOf
  <2> QED BY <2>1, <2>2
<1>3. /\ entry[SlotEntry(s0)].file' = entry'[e].file
      /\ entry[SlotEntry(s0)].pid' = entry'[e].pid
      /\ entry[SlotEntry(s0)].owner' = entry'[e].owner
  OBVIOUS
<1>4. SlotsMatch'
  <2>1. ASSUME NEW s \in Slots'
        PROVE  /\ entry[SlotEntry(s)].file' = ParamsOf(SlotProxy(s)).file'
               /\ ParamsOf(SlotProxy(s)).shared' =>
                     /\ entry[SlotEntry(s)].pid' = ParamsOf(SlotProxy(s)).pid'
                     /\ entry[SlotEntry(s)].owner' = ParamsOf(SlotProxy(s)).owner'
    <3>1. CASE s = s0
      BY <1>2, <1>3, <3>1
    <3>2. CASE s # s0
      <4>1. s \in Slots
        BY <3>2
      <4>2. /\ entry[SlotEntry(s)].file = ParamsOf(SlotProxy(s)).file
            /\ ParamsOf(SlotProxy(s)).shared =>
                  /\ entry[SlotEntry(s)].pid = ParamsOf(SlotProxy(s)).pid
                  /\ entry[SlotEntry(s)].owner = ParamsOf(SlotProxy(s)).owner
        BY <4>1 DEF PoolInv, SlotsMatch
      <4> QED BY <1>1, <4>1, <4>2
    <3> QED BY <3>1, <3>2
  <2> QED BY <2>1 DEF SlotsMatch
<1>5. ASSUME NEW s \in Slots, SlotEntry(s)' = e PROVE ParamsOf(x).shared
  <2>1. s \in EntrySlots(e)
    BY <1>1, <1>5 DEF EntrySlots
  <2> QED BY <2>1
<1>6. OneUnshared'
  <2>1. ASSUME NEW r \in Slots', NEW s \in Slots', r # s,
               SlotEntry(r)' = SlotEntry(s)'
        PROVE  ParamsOf(SlotProxy(r)).shared' \/ ParamsOf(SlotProxy(s)).shared'
    <3>1. CASE r = s0
      <4>1. s \in Slots /\ SlotEntry(s)' = e
        BY <2>1, <3>1
      <4> QED BY <1>2, <1>5, <3>1, <4>1
    <3>2. CASE s = s0
      <4>1. r \in Slots /\ SlotEntry(r)' = e
        BY <2>1, <3>2
      <4> QED BY <1>2, <1>5, <3>2, <4>1
    <3>3. CASE r # s0 /\ s # s0
      <4>1. r \in Slots /\ s \in Slots
        BY <3>3
      <4>2. SlotEntry(r) = SlotEntry(s)
        BY <1>1, <2>1, <4>1
      <4>3. ParamsOf(SlotProxy(r)).shared \/ ParamsOf(SlotProxy(s)).shared
        BY <2>1, <4>1, <4>2 DEF PoolInv, OneUnshared
      <4> QED BY <1>1, <4>1, <4>3
    <3> QED BY <3>1, <3>2, <3>3
  <2> QED BY <2>1 DEF OneUnshared
<1> QED BY <1>4, <1>6

(* The slots of each entry *)
LEMMA EntrySlotsSame ==
    ASSUME Slots' = Slots, \A s \in Slots : SameSlot(s), NEW e
    PROVE  EntrySlots(e)' = EntrySlots(e)
BY DEF EntrySlots, SameSlot

(* A new reference is one of the entry it is on. *)
LEMMA EntrySlotsPushed ==
    ASSUME NEW s0, s0 \notin Slots, Slots' = Slots \cup {s0},
           \A s \in Slots : SameSlot(s), NEW e
    PROVE  EntrySlots(e)' = IF SlotEntry(s0)' = e THEN EntrySlots(e) \cup {s0}
                            ELSE EntrySlots(e)
BY DEF EntrySlots, SameSlot

(* A dropped reference was one of the entry it was on. *)
LEMMA EntrySlotsPopped ==
    ASSUME NEW s0 \in Slots, Slots' = Slots \ {s0},
           \A s \in Slots' : SameSlot(s), NEW e
    PROVE  EntrySlots(e)' = IF SlotEntry(s0) = e THEN EntrySlots(e) \ {s0}
                            ELSE EntrySlots(e)
BY DEF EntrySlots, SameSlot

CountedAt(e) ==
    /\ entry[e].refCount = IF Openers(e) = {} THEN Cardinality(EntrySlots(e))
                           ELSE -1
    /\ Openers(e) # {} => EntrySlots(e) = {}
    /\ \A t, u \in Openers(e) : t = u

(* The count of an entry is right when its references are the same. *)
LEMMA CountedSame ==
    ASSUME Counted, NEW e \in Entries, EntrySlots(e)' = EntrySlots(e),
           Openers(e)' = Openers(e), entry'[e].refCount = entry[e].refCount
    PROVE  CountedAt(e)'
<1>1. CountedAt(e)
  BY DEF Counted, CountedAt
<1> QED BY <1>1 DEF CountedAt

(* Counted, entry by entry. *)
LEMMA CountedNext ==
    ASSUME \A e \in Entries : CountedAt(e)'
    PROVE  Counted'
BY DEF Counted, CountedAt

(* Openers that do not change. *)
LEMMA OpenersSame ==
    ASSUME NEW e,
           \A t \in Threads : \/ pc'[t] # "open" /\ pc[t] # "open"
                              \/ pc'[t] = pc[t] /\ call'[t].entry = call[t].entry
    PROVE  Openers(e)' = Openers(e)
BY DEF Openers

(* The proxies in use by other threads are others. *)
LEMMA ExclusiveNext ==
    ASSUME Exclusive, NEW t \in Threads,
           \A u \in Threads \ {t} : ProxiesOf(u)' = ProxiesOf(u),
           \A u \in Threads \ {t} : ProxiesOf(t)' \cap ProxiesOf(u) = {}
    PROVE  Exclusive'
<1>1. ASSUME NEW u \in Threads, NEW v \in Threads, u # v
      PROVE  ProxiesOf(u)' \cap ProxiesOf(v)' = {}
  <2>1. CASE u = t
    BY <1>1, <2>1
  <2>2. CASE v = t
    <3>1. ProxiesOf(u)' = ProxiesOf(u) /\ ProxiesOf(t)' \cap ProxiesOf(u) = {}
      BY <1>1, <2>2
    <3> QED BY <2>2, <3>1
  <2>3. CASE u # t /\ v # t
    <3>1. ProxiesOf(u)' = ProxiesOf(u) /\ ProxiesOf(v)' = ProxiesOf(v)
      BY <2>3
    <3>2. ProxiesOf(u) \cap ProxiesOf(v) = {}
      BY <1>1 DEF Exclusive
    <3> QED BY <3>1, <3>2
  <2> QED BY <2>1, <2>2, <2>3
<1> QED BY <1>1 DEF Exclusive

(* A thread that does nothing uses the proxies it used. *)
LEMMA SameProxies ==
    ASSUME NEW t, use'[t] = use[t], pc'[t] = pc[t], call'[t] = call[t]
    PROVE  ProxiesOf(t)' = ProxiesOf(t)
BY DEF ProxiesOf

-----------------------------------------------------------------------------
(* A step of one thread *)

Only(t) == \A u \in Threads \ {t} :
              use'[u] = use[u] /\ pc'[u] = pc[u] /\ call'[u] = call[u]

(* A step of one thread that keeps what the others use keeps them right. *)
LEMMA OneThread ==
    ASSUME PoolInv, NEW t \in Threads, NEW X, NEW E, PoolKeeps(X, E), Only(t),
           X \subseteq ProxiesOf(t),
           E = {} \/ (pc[t] = "open" /\ E = {call[t].entry}),
           prevented' = prevented \/ prevented = None,
           UseOK(t)', CallOK(t)',
           \A u \in Threads \ {t} : ProxiesOf(t)' \cap ProxiesOf(u) = {}
    PROVE  /\ ThreadsOK' /\ Exclusive'
           /\ \A u \in Threads \ {t} : SameSlotsOf(u)
<1>1. ASSUME NEW u \in Threads \ {t} PROVE UseOK(u)' /\ CallOK(u)'
  <2>1. use'[u] = use[u] /\ pc'[u] = pc[u] /\ call'[u] = call[u]
    BY DEF Only
  <2>2. ProxiesOf(u) \cap X = {}
    BY DEF PoolInv, Exclusive
  <2>3. pc[u] = "open" => call[u].entry \notin E
    <3> SUFFICES ASSUME pc[u] = "open", call[u].entry \in E PROVE FALSE
      OBVIOUS
    <3>1. pc[t] = "open" /\ call[u].entry = call[t].entry
      OBVIOUS
    <3>2. call[t].entry \in Entries
      BY <3>1 DEF PoolInv, ThreadsOK, CallOK
    <3>3. t \in Openers(call[t].entry) /\ u \in Openers(call[t].entry)
      BY <3>1 DEF Openers
    <3> QED BY <3>2, <3>3 DEF PoolInv, Counted
  <2>4. prevented = u => prevented' = u
    BY NamesAssumption
  <2> QED BY <2>1, <2>2, <2>3, <2>4, OtherThread
<1>2. ThreadsOK'
  BY <1>1 DEF ThreadsOK
<1>3. Exclusive'
  <2>1. Exclusive
    BY DEF PoolInv
  <2>2. \A u \in Threads \ {t} : ProxiesOf(u)' = ProxiesOf(u)
    BY SameProxies DEF Only
  <2> QED BY <2>1, <2>2, ExclusiveNext
<1>4. ASSUME NEW u \in Threads \ {t} PROVE SameSlotsOf(u)
  <2>1. use'[u] = use[u] /\ pc'[u] = pc[u] /\ call'[u] = call[u]
    BY DEF Only
  <2>2. Len(use[u]) \in Nat
    BY UseTypes DEF PoolInv
  <2> QED BY <2>1, <2>2, SlotsOfThread
<1> QED BY <1>2, <1>3, <1>4

(* A thread that has returned calls nothing. *)
LEMMA IdleIsOK ==
    ASSUME NEW t, pc'[t] = "idle", call'[t] = NoCall
    PROVE  CallOK(t)'
BY DEF CallOK, NoCall

(* A call goes on with the same proxy. *)
LEMMA CallGoesOn ==
    ASSUME PoolInv, NEW X, NEW E, PoolKeeps(X, E), NEW t \in Threads,
           use'[t] = use[t], call'[t].proxy = call[t].proxy,
           call'[t].create = call[t].create, call[t].proxy \notin X,
           CallsTop(t) \/ CallsInner(t)
    PROVE  CallsTop(t)' \/ CallsInner(t)'
<1>1. /\ use[t] # <<>> /\ inner[use[t][1].ds] # None /\ use[t][1].ds \notin X =>
            inner'[use[t][1].ds] = inner[use[t][1].ds]
      /\ \A p \in Alive \ X : p \in Alive' /\ pid'[p] = pid[p]
  BY UsesKept
<1>2. use[t] = <<>> <=> Len(use[t]) = 0
  BY UseTypes DEF PoolInv
<1>3. CASE CallsTop(t)
  BY <1>1, <1>3 DEF CallsTop
<1>4. CASE CallsInner(t)
  BY <1>1, <1>2, <1>4 DEF CallsInner
<1> QED BY <1>3, <1>4

(* A thread in the middle of a call means no ~GDALDriverManager(). *)
LEMMA NotPrevented ==
    ASSUME PoolInv, NEW t \in Threads,
           use[t] # <<>> \/ pc[t] \notin {"idle", "unref"}
    PROVE  prevented = None
BY DEF PoolInv, Prevention

(* The pool exists while it has a proxy or a thread works. *)
LEMMA PoolIsThere ==
    ASSUME PoolInv,
           \/ Alive # {} \/ prevented # None
           \/ \E t \in Threads : use[t] # <<>> \/ pc[t] # "idle"
           \/ \E h \in Handles : inner[h] # None
    PROVE  singleton
BY DEF PoolInv, PoolExists, NothingLeft

(* Finitely many proxies exist or are under construction. *)
LEMMA FiniteProxies ==
    /\ IsFiniteSet(Alive) /\ Cardinality(Alive) \in Nat
    /\ IsFiniteSet(Creating) /\ Cardinality(Creating) \in Nat
<1>1. Alive \in SUBSET TopProxies /\ Creating \in SUBSET Threads
  BY DEF Alive, Creating
<1> QED BY <1>1, NamesAssumption, FS_Subset, FS_CardinalityType

(* The pool is left alone. *)
SamePool == UNCHANGED <<list, entry, nRAMUsage, inner, open>>

(* A step that leaves the entries alone keeps the pool right. *)
LEMMA SamePoolIsOK ==
    ASSUME PoolInv, SamePool
    PROVE  ListOK' /\ StateOK(PoolState)'
<1>1. ListOK'
  BY DEF PoolInv, SamePool, ListOK, ListOf, ToSet, IsInjective
<1>2. SetPoolState(PoolState)
  BY DEF SamePool, SetPoolState, PoolState
<1>3. StateOK(PoolState)'
  BY <1>2, StateNext DEF PoolInv
<1> QED BY <1>1, <1>3

(* Such a step keeps what every thread uses. *)
LEMMA SamePoolKeeps ==
    ASSUME PoolInv, SamePool, \A p \in Alive : pid'[p] = pid[p]
    PROVE  PoolKeeps({}, {})
BY DEF SamePool, PoolKeeps, SameData

(* Steps that keep the slots keep what they match and, with the openers    *)
(* and the counts, their number.                                           *)
LEMMA SlotsKept ==
    ASSUME PoolInv, NEW X, NEW E, PoolKeeps(X, E),
           \A t \in Threads : SameSlotsOf(t),
           \A s \in Slots : SlotProxy(s) \notin X
    PROVE  /\ SlotsMatch' /\ OneUnshared'
           /\ \A e \in Entries : EntrySlots(e)' = EntrySlots(e)
<1>1. Slots' = Slots /\ \A s \in Slots : SameSlot(s)
  BY SlotsSame
<1> QED BY <1>1, MatchKept, EntrySlotsSame

(* The counts stay right when neither references nor counts change. *)
LEMMA CountsKept ==
    ASSUME PoolInv, \A e \in Entries : EntrySlots(e)' = EntrySlots(e),
           \A e \in Entries : entry'[e].refCount = entry[e].refCount,
           \A t \in Threads : \/ pc'[t] # "open" /\ pc[t] # "open"
                              \/ pc'[t] = pc[t] /\ call'[t].entry = call[t].entry
    PROVE  Counted'
<1>1. ASSUME NEW e \in Entries PROVE CountedAt(e)'
  BY OpenersSame, CountedSame DEF PoolInv
<1> QED BY <1>1, CountedNext

(* The conjuncts about threads, put together. *)
LEMMA QuietStep ==
    ASSUME PoolInv, NEW t \in Threads, PoolKeeps({}, {}), Only(t),
           prevented' = prevented \/ prevented = None, UseOK(t)', CallOK(t)',
           \A u \in Threads \ {t} : ProxiesOf(t)' \cap ProxiesOf(u) = {},
           SameSlotsOf(t),
           \/ pc'[t] # "open" /\ pc[t] # "open"
           \/ pc'[t] = pc[t] /\ call'[t].entry = call[t].entry,
           \A e \in Entries : entry'[e].refCount = entry[e].refCount
    PROVE  ThreadsOK' /\ Exclusive' /\ Counted' /\ SlotsMatch' /\ OneUnshared'
<1>1. /\ ThreadsOK' /\ Exclusive'
      /\ \A u \in Threads \ {t} : SameSlotsOf(u)
  BY OneThread
<1>2. /\ SlotsMatch' /\ OneUnshared'
      /\ \A e \in Entries : EntrySlots(e)' = EntrySlots(e)
  <2>1. \A u \in Threads : SameSlotsOf(u)
    BY <1>1
  <2> QED BY <2>1, SlotsKept
<1>3. Counted'
  <2>1. \A u \in Threads : \/ pc'[u] # "open" /\ pc[u] # "open"
                           \/ pc'[u] = pc[u] /\ call'[u].entry = call[u].entry
    BY DEF Only
  <2> QED BY <1>2, <2>1, CountsKept
<1> QED BY <1>1, <1>2, <1>3

(* No thread moves. *)
LEMMA NoThreadMoves ==
    ASSUME PoolInv, NEW t \in Threads, PoolKeeps({}, {}),
           UNCHANGED <<use, pc, call>>, prevented' = prevented \/ prevented = None,
           \A e \in Entries : entry'[e].refCount = entry[e].refCount
    PROVE  ThreadsOK' /\ Exclusive' /\ Counted' /\ SlotsMatch' /\ OneUnshared'
<1>1. Only(t)
  BY DEF Only
<1>2. UseOK(t)'
  BY UsesInOrder
<1>3. CallOK(t)'
  <2>1. prevented = t => prevented' = t
    BY NamesAssumption
  <2> QED BY <2>1, OtherThread
<1>4. \A u \in Threads \ {t} : ProxiesOf(t)' \cap ProxiesOf(u) = {}
  BY SameProxies DEF PoolInv, Exclusive
<1>5. SameSlotsOf(t)
  <2>1. Len(use[t]) \in Nat
    BY UseTypes DEF PoolInv
  <2> QED BY <2>1, SlotsOfThread
<1> QED BY <1>1, <1>2, <1>3, <1>4, <1>5, QuietStep

(* The proxies that a thread uses exist. *)
LEMMA UsedProxyExists ==
    ASSUME PoolInv, prevented = None, NEW t \in Threads, NEW x \in ProxiesOf(t)
    PROVE  x \in Alive \/ (x \in Handles /\ inner[x] # None)
<1>1. Types /\ UseOK(t) /\ CallOK(t)
  BY DEF PoolInv, ThreadsOK
<1>2. PICK n \in Nat : n = Len(use[t])
  BY <1>1, UseTypes
<1>3. n <= 2 /\ (use[t] = <<>> <=> n = 0)
  BY <1>1, <1>2, UseTypes DEF UseOK
<1>4. CASE n >= 1
  <2>1. 1 \in 1..n /\ use[t] # <<>>
    BY <1>3, <1>4
  <2>2. use[t][1].ds \in Handles /\ use[t][1].proxy \in Alive
    BY <1>1, <1>2, <2>1, UseTypes DEF UseOK
  <2>3. ASSUME NEW i \in 1..n, x = use[t][i].proxy
        PROVE  x \in Alive \/ (x \in Handles /\ inner[x] # None)
    <3>1. CASE i = 1
      BY <2>2, <2>3, <3>1
    <3>2. CASE i # 1
      <4>1. i = 2 /\ n = 2
        BY <1>3, <3>2
      <4>2. use[t][2].proxy = use[t][1].ds /\ inner[use[t][1].ds] # None
        BY <1>1, <1>2, <4>1 DEF UseOK
      <4> QED BY <2>2, <2>3, <4>1, <4>2
    <3> QED BY <3>1, <3>2
  <2>4. ASSUME pc[t] # "idle", x = call[t].proxy
        PROVE  x \in Alive \/ (x \in Handles /\ inner[x] # None)
    <3>1. pc[t] \notin {"idle", "unref"} \/ call[t].create
      BY <1>1, <2>1, <2>4 DEF CallOK
    <3>2. CallsTop(t) \/ CallsInner(t)
      BY <1>1, <3>1 DEF CallOK
    <3> QED BY <2>1, <2>2, <2>4, <3>2 DEF CallsTop, CallsInner
  <2> QED BY <1>2, <2>3, <2>4 DEF ProxiesOf
<1>5. CASE ~(n >= 1)
  <2>1. use[t] = <<>> /\ 1..n = {} /\ Len(use[t]) # 1
    BY <1>2, <1>3, <1>5
  <2>2. pc[t] # "idle" /\ x = call[t].proxy
    BY <1>2, <2>1 DEF ProxiesOf
  <2>3. prevented # t
    BY NamesAssumption
  <2>4. CASE pc[t] = "unref" /\ ~call[t].create
    BY <1>1, <2>2, <2>3, <2>4 DEF CallOK
  <2>5. CASE ~(pc[t] = "unref" /\ ~call[t].create)
    <3>1. CallsTop(t) \/ CallsInner(t)
      BY <1>1, <2>2, <2>5 DEF CallOK
    <3> QED BY <2>1, <2>2, <3>1 DEF CallsTop, CallsInner
  <2> QED BY <2>4, <2>5
<1> QED BY <1>2, <1>4, <1>5

(* Steps that close datasets *)
LEMMA ClosingStep ==
    ASSUME PoolInv, NEW s, StateOK(s), Closing(PoolState, s), SetPoolState(s),
           list' = list, pid' = pid
    PROVE  /\ ListOK' /\ StateOK(PoolState)' /\ PoolKeeps({}, {})
           /\ \A e \in Entries : entry'[e].refCount = entry[e].refCount
<1>1. PoolState.entry = entry /\ entry' = s.entry
  BY DEF PoolState, SetPoolState
<1>2. \A e \in Entries : entry'[e].refCount = entry[e].refCount
  BY <1>1 DEF Closing
<1>3. ListOK'
  <2>1. ListOf(list) /\ \A e \in Entries : e > Len(list) => entry[e] = FreeEntry
    BY DEF PoolInv, ListOK
  <2>2. ListOf(list')
    BY <2>1
  <2>3. ASSUME NEW e \in Entries, e > Len(list) PROVE entry'[e] = FreeEntry
    <3>1. e \notin 1..Len(list)
      BY <2>1, <2>3, ListDomain, Sizes
    <3>2. e \notin ToSet(list)
      BY <2>1, <3>1 DEF ListOf
    <3> QED BY <1>1, <2>1, <2>3, <3>2 DEF Closing
  <2> QED BY <2>2, <2>3 DEF ListOK, ListOf, ToSet, IsInjective
<1>4. StateOK(PoolState)'
  BY StateNext
<1>5. PoolKeeps({}, {})
  BY ClosingKeeps
<1> QED BY <1>2, <1>3, <1>4, <1>5

-----------------------------------------------------------------------------
(* The life of a proxy *)

(* A new proxy adds its reference on the pool first. *)
LEMMA NewProxyStep ==
    ASSUME PoolInv, NEW t \in Threads, NEW p \in TopProxies, NewProxy(t, p)
    PROVE  PoolInv'
<1>1. Types
  BY DEF PoolInv
<1>2. /\ p \notin Alive /\ prevented = None /\ poolRefCount < MaxRefs
      /\ singleton' = TRUE /\ poolRefCount' = poolRefCount + 1
      /\ pid' = [pid EXCEPT ![p] = t] /\ SamePool
      /\ UNCHANGED <<hDLMutex, use, pc, call, prevented>>
  BY DEF NewProxy, Ref, SamePool
<1>3. Types'
  BY <1>1, <1>2, Sizes DEF Types
<1>4. Alive' = Alive \cup {p}
  BY <1>1, <1>2, NamesAssumption DEF Alive, Types
<1>5. \A q \in Alive : pid'[q] = pid[q]
  BY <1>1, <1>2 DEF Types, Alive
<1>6. PoolKeeps({}, {})
  BY <1>2, <1>5, SamePoolKeeps
<1>7. \A e \in Entries : entry'[e].refCount = entry[e].refCount
  BY <1>2 DEF SamePool
<1>8. ThreadsOK' /\ Exclusive' /\ Counted' /\ SlotsMatch' /\ OneUnshared'
  BY <1>2, <1>6, <1>7, NoThreadMoves
<1>9. ProxiesCounted'
  <2>1. PICK a \in Nat : a = Cardinality(Alive)
    BY FiniteProxies
  <2>2. PICK c \in Nat : c = Cardinality(Creating)
    BY FiniteProxies
  <2>3. Cardinality(Alive') = a + 1
    BY <1>2, <1>4, <2>1, FiniteProxies, FS_AddElement
  <2>4. Creating' = Creating
    BY <1>2 DEF Creating
  <2>5. poolRefCount >= a + c /\ poolRefCount \in Int
    BY <1>1, <2>1, <2>2 DEF PoolInv, ProxiesCounted, Types
  <2>6. poolRefCount + 1 >= (a + 1) + c
    BY <2>5
  <2> QED BY <1>2, <2>2, <2>3, <2>4, <2>6 DEF ProxiesCounted
<1>10. Prevention' /\ PoolExists'
  BY <1>2 DEF Prevention, PoolExists
<1>11. ListOK' /\ StateOK(PoolState)'
  BY <1>2, SamePoolIsOK
<1> QED BY <1>3, <1>8, <1>9, <1>10, <1>11 DEF PoolInv

(* Nothing changes in the counts of proxies. *)
LEMMA ProxiesCountedKept ==
    ASSUME PoolInv, poolRefCount' = poolRefCount, pid' = pid,
           Creating' \subseteq Creating
    PROVE  ProxiesCounted'
<1>1. Alive' = Alive
  BY DEF Alive
<1>2. PICK a \in Nat : a = Cardinality(Alive)
  BY FiniteProxies
<1>3. PICK c \in Nat : c = Cardinality(Creating)
  BY FiniteProxies
<1>4. Creating' \in SUBSET Creating
  OBVIOUS
<1>5. IsFiniteSet(Creating') /\ Cardinality(Creating') <= c
  BY <1>3, <1>4, FiniteProxies, FS_Subset
<1>6. PICK d \in Nat : d = Cardinality(Creating')
  BY <1>5, FS_CardinalityType
<1>7. poolRefCount >= a + c /\ poolRefCount \in Int
  BY <1>2, <1>3 DEF PoolInv, ProxiesCounted, Types
<1>8. poolRefCount >= a + d
  BY <1>5, <1>6, <1>7
<1> QED BY <1>1, <1>2, <1>6, <1>8 DEF ProxiesCounted

(* A thread that does not start to construct adds no construction. *)
LEMMA CreatingKept ==
    ASSUME NEW t \in Threads, Only(t), call'[t].create => call[t].create
    PROVE  Creating' \subseteq Creating
BY DEF Creating, Only

(* Deleting a proxy that nobody uses preserves the invariant. *)
LEMMA DeleteProxyStep ==
    ASSUME PoolInv, NEW t \in Threads, NEW x \in TopProxies \cup Handles,
           DeleteProxy(t, x)
    PROVE  PoolInv'
<1>1. Types /\ UseOK(t) /\ CallOK(t)
  BY DEF PoolInv, ThreadsOK
<1> DEFINE s == CloseDatasetIfZeroRefCount(PoolState, ParamsOf(x))
<1>2. /\ pc[t] = "idle" /\ use[t] = <<>> /\ prevented \in {None, t}
      /\ x \in Alive \/ (prevented = t /\ inner[x] # None)
      /\ ~IsUsed(x) /\ SetPoolState(s)
      /\ pc' = [pc EXCEPT ![t] = "unref"]
      /\ call' = [call EXCEPT ![t].proxy = x]
      /\ UNCHANGED <<singleton, poolRefCount, list, hDLMutex, pid, use, prevented>>
  BY DEF DeleteProxy, Idle, Disabled
<1>3. ListOf(list) /\ StateOK(PoolState)
  BY DEF PoolInv, ListOK
<1>4. StateOK(s) /\ Closing(PoolState, s)
  BY <1>3, CloseUnusedCloses
<1> HIDE DEF s
<1>5. /\ ListOK' /\ StateOK(PoolState)' /\ PoolKeeps({}, {})
      /\ \A e \in Entries : entry'[e].refCount = entry[e].refCount
  BY <1>2, <1>4, ClosingStep
<1>6. call[t] = NoCall
  BY <1>1, <1>2 DEF CallOK
<1>7. /\ call'[t].proxy = x /\ call'[t].entry = None /\ call'[t].create = FALSE
      /\ pc'[t] = "unref" /\ use'[t] = <<>>
      /\ Only(t)
  BY <1>1, <1>2, <1>6 DEF Types, NoCall, Only
<1>8. Types'
  <2>1. [call[t] EXCEPT !.proxy = x] \in CallRecords
    BY <1>1, CallTypes DEF CallRecords
  <2>2. call' \in [Threads -> CallRecords] /\ pc' \in [Threads -> Places]
    BY <1>1, <1>2, <2>1 DEF Types, Places
  <2> QED BY <1>1, <1>2, <2>2 DEF Types
<1>9. UseOK(t)'
  BY <1>2, <1>5, UsesInOrder
<1>10. CallOK(t)'
  <2>1. Alive' = Alive
    BY <1>2 DEF Alive
  <2> QED BY <1>2, <1>7, <2>1 DEF CallOK
<1>11. \A u \in Threads \ {t} : ProxiesOf(t)' \cap ProxiesOf(u) = {}
  <2>1. ProxiesOf(t)' = {x}
    <3>1. 1..Len(<<>>) = {}
      OBVIOUS
    <3> QED BY <1>7, <3>1 DEF ProxiesOf
  <2>2. ASSUME NEW u \in Threads, x \in ProxiesOf(u) PROVE FALSE
    <3>1. DOMAIN use[u] = 1..Len(use[u])
      BY <1>1, UseTypes
    <3> QED BY <1>2, <2>2, <3>1 DEF ProxiesOf, IsUsed
  <2> QED BY <2>1, <2>2
<1>12. SameSlotsOf(t)
  <2>1. Len(use[t]) \in Nat
    BY <1>1, UseTypes
  <2> QED BY <1>2, <1>7, <2>1, SlotsOfThread
<1>13. ThreadsOK' /\ Exclusive' /\ Counted' /\ SlotsMatch' /\ OneUnshared'
  BY <1>2, <1>5, <1>7, <1>9, <1>10, <1>11, <1>12, QuietStep
<1>14. ProxiesCounted'
  BY <1>2, <1>7, CreatingKept, ProxiesCountedKept
<1>15. Prevention'
  <2>1. CASE prevented = None
    BY <1>2, <2>1 DEF Prevention
  <2>2. CASE prevented # None
    BY <1>2, <1>7, <2>2 DEF Prevention, PoolInv, Only
  <2> QED BY <2>1, <2>2
<1>16. singleton
  BY <1>2, NamesAssumption, PoolIsThere
<1>17. PoolExists'
  BY <1>2, <1>16 DEF PoolExists
<1> QED BY <1>5, <1>8, <1>13, <1>14, <1>15, <1>17 DEF PoolInv

(* A source whose construction fails preserves the invariant. *)
LEMMA AbandonSourceStep ==
    ASSUME PoolInv, NEW t \in Threads, AbandonSource(t)
    PROVE  PoolInv'
<1>1. Types /\ UseOK(t) /\ CallOK(t)
  BY DEF PoolInv, ThreadsOK
<1> DEFINE s == CloseDatasetIfZeroRefCount(PoolState, inner[call[t].proxy])
<1>2. /\ pc[t] = "abandon" /\ SetPoolState(s)
      /\ pc' = [pc EXCEPT ![t] = "unref"]
      /\ UNCHANGED <<singleton, poolRefCount, list, hDLMutex, pid, use, call,
                     prevented>>
  BY DEF AbandonSource
<1>3. ListOf(list) /\ StateOK(PoolState)
  BY DEF PoolInv, ListOK
<1>4. StateOK(s) /\ Closing(PoolState, s)
  BY <1>3, CloseUnusedCloses
<1> HIDE DEF s
<1>5. /\ ListOK' /\ StateOK(PoolState)' /\ PoolKeeps({}, {})
      /\ \A e \in Entries : entry'[e].refCount = entry[e].refCount
  BY <1>2, <1>4, ClosingStep
<1>6. call[t].create /\ (CallsTop(t) \/ CallsInner(t))
  BY <1>1, <1>2 DEF CallOK
<1>7. pc'[t] = "unref" /\ Only(t)
  BY <1>1, <1>2 DEF Types, Only
<1>8. Types'
  BY <1>1, <1>2 DEF Types, Places
<1>9. UseOK(t)'
  BY <1>2, <1>5, UsesInOrder
<1>10. CallOK(t)'
  <2>1. CallsTop(t)' \/ CallsInner(t)'
    BY <1>2, <1>5, <1>6, CallGoesOn
  <2> QED BY <1>2, <1>6, <1>7, <2>1 DEF CallOK
<1>11. \A u \in Threads \ {t} : ProxiesOf(t)' \cap ProxiesOf(u) = {}
  <2>1. ProxiesOf(t)' = ProxiesOf(t)
    BY <1>2, <1>7 DEF ProxiesOf
  <2> QED BY <2>1 DEF PoolInv, Exclusive
<1>12. SameSlotsOf(t)
  <2>1. Len(use[t]) \in Nat
    BY <1>1, UseTypes
  <2> QED BY <1>2, <1>7, <2>1, SlotsOfThread
<1>13. ThreadsOK' /\ Exclusive' /\ Counted' /\ SlotsMatch' /\ OneUnshared'
  BY <1>2, <1>5, <1>7, <1>9, <1>10, <1>11, <1>12, QuietStep
<1>14. ProxiesCounted'
  BY <1>2, <1>7, CreatingKept, ProxiesCountedKept
<1>15. prevented = None /\ singleton
  BY <1>2, NotPrevented, PoolIsThere
<1>16. Prevention' /\ PoolExists'
  BY <1>2, <1>15 DEF Prevention, PoolExists
<1> QED BY <1>5, <1>8, <1>13, <1>14, <1>16 DEF PoolInv

(* The dataset that a thread uses through an inner proxy is a plain one.   *)
LEMMA SecondIsPlain ==
    ASSUME PoolInv, NEW t \in Threads, Len(use[t]) = 2
    PROVE  /\ Kind[entry[use[t][2].entry].file] = "plain"
           /\ inner[use[t][2].ds] = None
<1>1. Types /\ ThreadsOK /\ UseOK(t) /\ StateOK(PoolState) /\ SlotsMatch
  BY DEF PoolInv, ThreadsOK
<1>2. 1 \in 1..Len(use[t]) /\ 2 \in 1..Len(use[t])
  OBVIOUS
<1>3. /\ use[t][1].ds \in Handles /\ use[t][2].ds \in Handles
      /\ use[t][2].entry \in Entries
  BY <1>1, <1>2, UseTypes
<1>4. use[t][2].proxy = use[t][1].ds /\ inner[use[t][1].ds] # None
  BY <1>1 DEF UseOK
<1>5. /\ <<t, 2>> \in Slots /\ SlotEntry(<<t, 2>>) = use[t][2].entry
      /\ SlotProxy(<<t, 2>>) = use[t][1].ds
  BY <1>1, <1>2, <1>4, SlotOfUse
<1>6. ParamsOf(use[t][1].ds) = inner[use[t][1].ds]
  BY <1>3, NamesAssumption DEF ParamsOf
<1>7. entry[use[t][2].entry].file = inner[use[t][1].ds].file
  BY <1>1, <1>5, <1>6 DEF SlotsMatch
<1>8. Kind[inner[use[t][1].ds].file] = "plain"
  BY <1>1, <1>3, <1>4, StateParts
<1>9. ASSUME inner[use[t][2].ds] # None PROVE FALSE
  <2>1. PICK e \in Entries : /\ entry[e].ds = use[t][2].ds
                             /\ Kind[entry[e].file] # "plain"
    BY <1>1, <1>3, <1>9, StateParts
  <2>2. entry[use[t][2].entry].ds = use[t][2].ds
    BY <1>1, <1>2 DEF UseOK
  <2>3. use[t][2].ds # None
    BY <1>3, NamesAssumption
  <2>4. e = use[t][2].entry
    BY <1>1, <1>3, <2>1, <2>2, <2>3, StateParts
  <2> QED BY <1>7, <1>8, <2>1, <2>4
<1> QED BY <1>7, <1>8, <1>9

(* The inner proxy of a VRT or PRF preserves the invariant. *)
LEMMA CreateSourceStep ==
    ASSUME PoolInv, NEW t \in Threads, CreateSource(t)
    PROVE  PoolInv'
<1>1. Types /\ ThreadsOK /\ UseOK(t) /\ CallOK(t) /\ StateOK(PoolState)
  BY DEF PoolInv, ThreadsOK
<1> DEFINE n == Len(use[t])
           u == use[t][n]
           f == entry[u.entry].file
           r == [file |-> Source[f], owner |-> u.ds, pid |-> t, shared |-> TRUE]
           c == [proxy |-> u.ds, entry |-> None, create |-> TRUE]
<1>2. /\ pc[t] = "idle" /\ use[t] # <<>> /\ poolRefCount < MaxRefs
      /\ Kind[f] = "vrt" /\ inner[u.ds] = None
      /\ inner' = [inner EXCEPT ![u.ds] = r]
      /\ call' = [call EXCEPT ![t] = c]
      /\ poolRefCount' = poolRefCount + 1
      /\ pc' = [pc EXCEPT ![t] = "ref"]
      /\ UNCHANGED <<singleton, list, entry, nRAMUsage, hDLMutex, pid, open, use,
                     prevented>>
  BY DEF CreateSource, Idle, Ref, Last
<1>3. n = 1
  <2>1. n \in Nat /\ n <= 2 /\ n # 0
    BY <1>1, <1>2, UseTypes DEF UseOK
  <2>2. n # 2
    BY <1>2, SecondIsPlain
  <2> HIDE DEF n
  <2> QED BY <2>1, <2>2
<1>4. u = use[t][1] /\ u.ds \in Handles /\ u.entry \in Entries /\ entry[u.entry].ds = u.ds
  <2>1. 1 \in 1..Len(use[t])
    BY <1>3
  <2> QED BY <1>1, <1>3, <2>1, UseTypes DEF UseOK
<1>5. u.ds # None /\ u.ds \notin TopProxies
  BY <1>4, NamesAssumption
<1>6. f \in Files
  BY <1>1, <1>4, <1>5, StateParts
<1>7. Source[f] \in Files /\ Kind[Source[f]] = "plain" /\ Kind[f] # "plain"
  BY <1>2, <1>6, ProxiesAssumption
<1>8. r \in InnerProxies /\ r # None /\ r.file = Source[f]
  <2>1. PICK g \in Files : g = Source[f]
    BY <1>7
  <2>2. PICK h \in Handles : h = u.ds
    BY <1>4
  <2>3. [file |-> g, owner |-> h, pid |-> t, shared |-> TRUE] \in InnerProxies
    BY DEF InnerProxies
  <2>4. r \in InnerProxies
    BY <2>1, <2>2, <2>3
  <2> QED BY <2>4, NamesAssumption
<1>h. c.proxy = u.ds /\ c.create = TRUE /\ c.entry = None /\ c \in CallRecords
  BY <1>4 DEF CallRecords
<1> HIDE DEF r, c, f, u, n
<1>9. prevented = None /\ singleton
  BY <1>2, NotPrevented, PoolIsThere
<1>10. /\ inner \in [Handles -> InnerProxies \cup {None}]
       /\ inner'[u.ds] = r /\ \A h \in Handles : h # u.ds => inner'[h] = inner[h]
       /\ inner' \in [Handles -> InnerProxies \cup {None}]
  <2>1. inner \in [Handles -> InnerProxies \cup {None}]
    BY <1>1, EntryTypes
  <2> QED BY <1>2, <1>4, <1>8, <2>1
<1>11. pc'[t] = "ref" /\ call'[t] = c /\ use'[t] = use[t] /\ Only(t)
  BY <1>1, <1>2 DEF Types, Only
<1>12. Types'
  BY <1>1, <1>2, <1>h, Sizes DEF Types, Places
<1>13. StateOK(PoolState)'
  <2> DEFINE s == [entry |-> entry, inner |-> inner', ram |-> nRAMUsage, open |-> open]
  <2>0. s.entry = entry /\ s.inner = inner' /\ s.ram = nRAMUsage /\ s.open = open
    OBVIOUS
  <2>1. s \in PoolStates
    <3>1. entry \in [Entries -> EntryRecords] /\ nRAMUsage \in Nat /\ open \subseteq Handles
      BY <1>1, EntryTypes
    <3> QED BY <1>10, <3>1 DEF PoolStates
  <2>2. SetPoolState(s)
    BY <1>2 DEF SetPoolState
  <2> HIDE DEF s
  <2>3. OneEntryEach(s) /\ RamOK(s)
    <3>1. OneEntryEach(PoolState) /\ RamOK(PoolState) /\ PoolState.entry = entry
          /\ PoolState.open = open /\ PoolState.ram = nRAMUsage
      BY <1>1 DEF StateOK, PoolState
    <3> QED BY <2>0, <3>1 DEF OneEntryEach, RamOK
  <2>4. InnerOK(s)
    <3>1. ASSUME NEW h \in Handles, inner'[h] # None
          PROVE  /\ Kind[inner'[h].file] = "plain"
                 /\ \E e \in Entries : entry[e].ds = h /\ Kind[entry[e].file] # "plain"
      <4>1. CASE h = u.ds
        BY <1>4, <1>7, <1>8, <1>10, <4>1 DEF f
      <4>2. CASE h # u.ds
        BY <1>1, <1>10, <3>1, <4>2, StateParts
      <4> QED BY <4>1, <4>2
    <3> QED BY <2>0, <3>1 DEF InnerOK
  <2>5. StateOK(s)
    BY <2>1, <2>3, <2>4 DEF StateOK
  <2> QED BY <2>2, <2>5, StateNext
<1>14. ListOK'
  BY <1>2 DEF PoolInv, ListOK, ListOf, ToSet, IsInjective
<1>15. PoolKeeps({}, {})
  <2>1. \A h \in Handles : inner[h] # None => inner'[h] = inner[h]
    BY <1>2, <1>10
  <2>2. entry' = entry /\ pid' = pid
    BY <1>2
  <2> QED BY <2>1, <2>2 DEF PoolKeeps, SameData
<1>16. UseOK(t)'
  BY <1>11, <1>15, UsesInOrder
<1>17. CallOK(t)'
  <2>1. CallsInner(t)'
    BY <1>3, <1>4, <1>8, <1>10, <1>11, <1>h DEF CallsInner, n
  <2> QED BY <1>11, <1>h, <2>1 DEF CallOK
<1>18. \A v \in Threads \ {t} : ProxiesOf(t)' \cap ProxiesOf(v) = {}
  <2>1. ProxiesOf(t)' \subseteq ProxiesOf(t) \cup {u.ds}
    BY <1>11, <1>h DEF ProxiesOf
  <2>2. ASSUME NEW v \in Threads, u.ds \in ProxiesOf(v) PROVE FALSE
    <3>1. u.ds \in Alive \/ inner[u.ds] # None
      BY <1>9, <2>2, UsedProxyExists
    <3> QED BY <1>2, <1>5, <3>1 DEF Alive
  <2>3. \A v \in Threads \ {t} : ProxiesOf(t) \cap ProxiesOf(v) = {}
    BY DEF PoolInv, Exclusive
  <2> QED BY <2>1, <2>2, <2>3
<1>19. SameSlotsOf(t)
  <2>1. Len(use[t]) \in Nat
    BY <1>1, UseTypes
  <2> QED BY <1>2, <1>11, <2>1, SlotsOfThread
<1>20. ThreadsOK' /\ Exclusive' /\ Counted' /\ SlotsMatch' /\ OneUnshared'
  BY <1>2, <1>11, <1>15, <1>16, <1>17, <1>18, <1>19, QuietStep
<1>21. ProxiesCounted'
  <2>1. Alive' = Alive
    BY <1>2 DEF Alive
  <2>2. ~call[t].create
    BY <1>1, <1>2 DEF CallOK, NoCall
  <2>3. Creating' = Creating \cup {t} /\ t \notin Creating
    BY <1>11, <1>h, <2>2 DEF Creating, Only
  <2>4. PICK a \in Nat : a = Cardinality(Alive)
    BY FiniteProxies
  <2>5. PICK k \in Nat : k = Cardinality(Creating)
    BY FiniteProxies
  <2>6. Cardinality(Creating') = k + 1
    BY <2>3, <2>5, FiniteProxies, FS_AddElement
  <2>7. poolRefCount >= a + k /\ poolRefCount \in Int
    BY <1>1, <2>4, <2>5 DEF PoolInv, ProxiesCounted, Types
  <2>8. poolRefCount + 1 >= a + (k + 1)
    BY <2>7
  <2> QED BY <1>2, <2>1, <2>4, <2>6, <2>8 DEF ProxiesCounted
<1>22. Prevention' /\ PoolExists'
  BY <1>2, <1>9 DEF Prevention, PoolExists
<1> QED BY <1>12, <1>13, <1>14, <1>20, <1>21, <1>22 DEF PoolInv

-----------------------------------------------------------------------------
(* No pool: the first state, and the state after its deletion *)

NoPool ==
    /\ Types /\ NothingLeft /\ ~singleton /\ poolRefCount = 0
    /\ \A t \in Threads : call[t] = NoCall
    /\ list = <<>>
    /\ entry = [e \in Entries |-> FreeEntry]
    /\ inner = [h \in Handles |-> None]
    /\ nRAMUsage = 0
    /\ open = {}

(* The invariant holds when there is no pool. *)
LEMMA NoPoolIsOK == NoPool => PoolInv
<1> SUFFICES ASSUME NoPool PROVE PoolInv
  OBVIOUS
<1>1. /\ Types /\ NothingLeft /\ ~singleton /\ poolRefCount = 0
      /\ \A t \in Threads : call[t] = NoCall
      /\ list = <<>> /\ entry = [e \in Entries |-> FreeEntry]
      /\ inner = [h \in Handles |-> None] /\ nRAMUsage = 0 /\ open = {}
  BY DEF NoPool
<1>2. /\ Alive = {} /\ prevented = None
      /\ \A t \in Threads : pc[t] = "idle" /\ use[t] = <<>>
  BY <1>1 DEF NothingLeft
<1>3. \A e \in Entries : entry[e] = FreeEntry
  BY <1>1
<1>4. Len(<<>>) = 0 /\ 1..0 = {}
  OBVIOUS
<1>5. ListOK
  <2>1. ListOf(<<>>)
    BY <1>4, Sizes DEF ListOf, ToSet, IsInjective
  <2> QED BY <1>1, <1>3, <2>1 DEF ListOK
<1>6. StateOK(PoolState)
  <2>1. FreeEntry \in EntryRecords
    BY DEF FreeEntry, EntryRecords, Owners
  <2>2. PoolState \in PoolStates
    <3>1. entry \in [Entries -> EntryRecords]
      BY <1>1, <2>1
    <3>2. inner \in [Handles -> InnerProxies \cup {None}]
      BY <1>1
    <3> QED BY <1>1, <3>1, <3>2 DEF PoolState, PoolStates
  <2>3. /\ PoolState.entry = entry /\ PoolState.inner = inner
        /\ PoolState.open = {} /\ PoolState.ram = 0
    BY <1>1 DEF PoolState
  <2>4. OneEntryEach(PoolState)
    BY <1>3, <2>3 DEF OneEntryEach, FreeEntry
  <2>5. InnerOK(PoolState)
    BY <1>1, <2>3 DEF InnerOK
  <2>6. RamUnits(entry) = {}
    <3>1. \A e \in Entries : {e} \X (1..entry[e].ram) = {}
      BY <1>3, <1>4 DEF FreeEntry
    <3> QED BY <3>1 DEF RamUnits
  <2>7. RamOK(PoolState)
    BY <2>3, <2>6, FS_EmptySet DEF RamOK
  <2> QED BY <2>2, <2>4, <2>5, <2>7 DEF StateOK
<1>7. Prevention
  BY <1>2 DEF Prevention
<1>8. ThreadsOK
  <2>1. ASSUME NEW t \in Threads PROVE UseOK(t)
    BY <1>2, <1>4 DEF UseOK
  <2>2. ASSUME NEW t \in Threads PROVE CallOK(t)
    <3>1. pc[t] = "idle" /\ call[t] = NoCall
      BY <1>1, <1>2
    <3>2. ~NoCall.create
      BY DEF NoCall
    <3> QED BY <3>1, <3>2 DEF CallOK
  <2> QED BY <2>1, <2>2 DEF ThreadsOK
<1>9. Exclusive
  <2>1. ASSUME NEW t \in Threads PROVE ProxiesOf(t) = {}
    BY <1>2, <1>4 DEF ProxiesOf
  <2> QED BY <2>1 DEF Exclusive
<1>10. Slots = {}
  <2>1. ASSUME NEW t \in Threads PROVE Depth(t) = 0
    <3>1. Len(use[t]) = 0 /\ pc[t] \notin {"trim", "release"}
      BY <1>2, <1>4
    <3> QED BY <3>1 DEF Depth
  <2>2. ASSUME NEW s \in Slots PROVE FALSE
    BY <2>1, SlotParts
  <2> QED BY <2>2
<1>11. Counted
  <2>1. ASSUME NEW e \in Entries
        PROVE  EntrySlots(e) = {} /\ Openers(e) = {} /\ entry[e].refCount = 0
    BY <1>2, <1>3, <1>10 DEF EntrySlots, Openers, FreeEntry
  <2> QED BY <2>1, FS_EmptySet DEF Counted
<1>12. SlotsMatch /\ OneUnshared
  BY <1>10 DEF SlotsMatch, OneUnshared
<1>13. ProxiesCounted
  <2>1. Creating = {}
    BY <1>1 DEF Creating, NoCall
  <2> QED BY <1>1, <1>2, <2>1, FS_EmptySet DEF ProxiesCounted
<1>14. PoolExists
  BY <1>1 DEF PoolExists
<1> QED BY <1>1, <1>5, <1>6, <1>7, <1>8, <1>9, <1>11, <1>12, <1>13, <1>14 DEF PoolInv

(* The same of the next state. *)
LEMMA NoPoolNext == NoPool' => PoolInv'
BY NoPoolIsOK, PTL

(* The invariant holds initially. *)
LEMMA InitIsOK == Init => PoolInv
<1> SUFFICES ASSUME Init PROVE NoPool
  BY NoPoolIsOK
<1>1. Types
  <2>1. NoCall \in CallRecords
    BY DEF NoCall, CallRecords
  <2>2. <<>> \in Seq(UseRecords)
    OBVIOUS
  <2>3. call \in [Threads -> CallRecords] /\ use \in [Threads -> Seq(UseRecords)]
    BY <2>1, <2>2 DEF Init
  <2>4. poolRefCount \in 0..MaxRefs
    BY Sizes DEF Init
  <2>5. pc \in [Threads -> Places] /\ pid \in [TopProxies -> Threads \cup {None}]
    BY DEF Init, Places
  <2>6. singleton \in BOOLEAN /\ hDLMutex = None /\ prevented = None
    BY DEF Init
  <2> QED BY <2>3, <2>4, <2>5, <2>6 DEF Types
<1>2. NothingLeft
  BY DEF Init, NothingLeft, Alive
<1> QED BY <1>1, <1>2 DEF Init, NoPool

-----------------------------------------------------------------------------
(* The end of a proxy and of the pool *)

(* It holds when the pool has just been deleted. *)
LEMMA DeletedPool ==
    ASSUME PoolInv, DeletePool, hDLMutex' = hDLMutex, prevented' = None,
           use' = use, pid' \in [TopProxies -> Threads \cup {None}],
           pc' \in [Threads -> Places], call' \in [Threads -> CallRecords],
           Alive' = {},
           \A u \in Threads : use[u] = <<>> /\ pc'[u] = "idle" /\ call'[u] = NoCall
    PROVE  PoolInv'
<1>1. /\ singleton' = FALSE /\ poolRefCount' = 0 /\ list' = <<>>
      /\ entry' = [e \in Entries |-> FreeEntry]
      /\ inner' = [h \in Handles |-> None] /\ nRAMUsage' = 0 /\ open' = {}
  BY DEF DeletePool, SetPoolState
<1>2. Types'
  <2>1. use \in [Threads -> Seq(UseRecords)] /\ hDLMutex \in Threads \cup {None}
    BY DEF PoolInv, Types
  <2>2. singleton' \in BOOLEAN
    BY <1>1
  <2>3. poolRefCount' \in 0..MaxRefs
    <3>1. 0 \in 0..MaxRefs
      BY Sizes
    <3> QED BY <1>1, <3>1
  <2> QED BY <2>1, <2>2, <2>3 DEF Types
<1>3. NothingLeft'
  BY <1>1 DEF NothingLeft
<1>4. NoPool'
  BY <1>1, <1>2, <1>3 DEF NoPool
<1> QED BY <1>4, NoPoolNext

(* PreventDestroy() happens when no thread uses a dataset. *)
LEMMA PreventDestroyStep ==
    ASSUME PoolInv, NEW t \in Threads, PreventDestroy(t)
    PROVE  PoolInv'
<1>1. /\ \A u \in Threads : pc[u] = "idle" /\ use[u] = <<>>
      /\ prevented = None /\ singleton /\ prevented' = t /\ SamePool
      /\ UNCHANGED <<singleton, poolRefCount, hDLMutex, pid, use, pc, call>>
  BY DEF PreventDestroy, AllIdle, Idle, SamePool
<1>2. Types'
  BY <1>1 DEF PoolInv, Types
<1>3. PoolKeeps({}, {})
  BY <1>1, SamePoolKeeps
<1>4. \A e \in Entries : entry'[e].refCount = entry[e].refCount
  BY <1>1 DEF SamePool
<1>5. ThreadsOK' /\ Exclusive' /\ Counted' /\ SlotsMatch' /\ OneUnshared'
  BY <1>1, <1>3, <1>4, NoThreadMoves
<1>6. Prevention' /\ PoolExists'
  BY <1>1 DEF Prevention, PoolExists
<1>7. ProxiesCounted'
  <2>1. Creating' \subseteq Creating
    BY <1>1 DEF Creating
  <2> QED BY <1>1, <2>1, ProxiesCountedKept
<1>8. ListOK' /\ StateOK(PoolState)'
  BY <1>1, SamePoolIsOK
<1> QED BY <1>2, <1>5, <1>6, <1>7, <1>8 DEF PoolInv

(* ForceDestroy() deletes the pool only once nothing uses it. *)
LEMMA ForceDestroyStep ==
    ASSUME PoolInv, NEW t \in Threads, ForceDestroy(t)
    PROVE  PoolInv'
<1>1. /\ pc[t] = "idle" /\ prevented = t /\ Alive = {}
      /\ prevented' = None /\ DeletePool
      /\ UNCHANGED <<hDLMutex, pid, use, pc, call>>
  BY DEF ForceDestroy, Idle
<1>2. Types /\ Prevention /\ ThreadsOK
  BY DEF PoolInv
<1>3. prevented # None
  BY <1>1, NamesAssumption
<1>4. ASSUME NEW u \in Threads
      PROVE  use[u] = <<>> /\ pc[u] = "idle" /\ call[u] = NoCall
  <2>1. use[u] = <<>> /\ pc[u] = "idle"
    BY <1>1, <1>2, <1>3 DEF Prevention
  <2>2. call[u] = NoCall
    BY <1>2, <2>1 DEF ThreadsOK, CallOK
  <2> QED BY <2>1, <2>2
<1>5. Alive' = {}
  BY <1>1 DEF Alive
<1> QED BY <1>1, <1>2, <1>4, <1>5, DeletedPool DEF Types

(* A thread that is not idle uses a top-level proxy. *)
LEMMA ActiveUsesTop ==
    ASSUME PoolInv, prevented = None, NEW t \in Threads,
           pc[t] # "idle" \/ use[t] # <<>>
    PROVE  \E p \in Alive : p \in ProxiesOf(t)
<1>1. Types /\ UseOK(t) /\ CallOK(t)
  BY DEF PoolInv, ThreadsOK
<1>2. CASE use[t] # <<>>
  <2>1. 1 \in 1..Len(use[t])
    <3>1. PICK n \in Nat : n = Len(use[t])
      BY <1>1, UseTypes
    <3>2. n # 0
      BY <1>1, <1>2, <3>1, UseTypes
    <3> QED BY <3>1, <3>2
  <2>2. use[t][1].proxy \in Alive
    BY <1>1, <1>2 DEF UseOK
  <2>3. use[t][1].proxy \in ProxiesOf(t)
    BY <2>1 DEF ProxiesOf
  <2> QED BY <2>2, <2>3
<1>3. CASE use[t] = <<>>
  <2>1. pc[t] # "idle" /\ Len(use[t]) # 1
    BY <1>3
  <2>2. call[t].proxy \in ProxiesOf(t)
    BY <2>1 DEF ProxiesOf
  <2>3. prevented # t
    BY NamesAssumption
  <2>4. CASE pc[t] = "unref" /\ ~call[t].create
    BY <1>1, <2>2, <2>3, <2>4 DEF CallOK
  <2>5. CASE ~(pc[t] = "unref" /\ ~call[t].create)
    <3>1. CallsTop(t) \/ CallsInner(t)
      BY <1>1, <2>1, <2>5 DEF CallOK
    <3> QED BY <2>1, <2>2, <3>1 DEF CallsTop, CallsInner
  <2> QED BY <2>4, <2>5
<1> QED BY <1>2, <1>3

(* What a thread in Unref() is about to drop. *)
LEMMA UnrefFacts ==
    ASSUME PoolInv, NEW t \in Threads, pc[t] = "unref"
    PROVE  LET x == call[t].proxy IN
           /\ x \in ProxiesOf(t)
           /\ \A i \in 1..Len(use[t]) : use[t][i].proxy # x
           /\ prevented \in {None, t}
           /\ prevented = None =>
                 IF call[t].create THEN x \notin Alive /\ Alive # {}
                                   ELSE x \in Alive /\ use[t] = <<>>
<1>1. Types /\ UseOK(t) /\ CallOK(t) /\ Prevention
  BY DEF PoolInv, ThreadsOK
<1>2. call[t].proxy \in ProxiesOf(t)
  BY DEF ProxiesOf
<1>3. prevented \in {None, t}
  BY <1>1 DEF Prevention
<1>4. CASE call[t].create
  <2>1. CallsInner(t)
    BY <1>1, <1>4 DEF CallOK, CallsTop
  <2>2. Len(use[t]) = 1 /\ call[t].proxy = use[t][1].ds /\ use[t] # <<>>
    BY <2>1 DEF CallsInner
  <2>3. 1 \in 1..Len(use[t])
    BY <2>2
  <2>4. use[t][1].ds \in Handles /\ use[t][1].proxy \in Alive
    BY <1>1, <2>2, <2>3, UseTypes DEF UseOK
  <2>5. call[t].proxy \notin Alive
    BY <2>2, <2>4, NamesAssumption DEF Alive
  <2>6. \A i \in 1..Len(use[t]) : i = 1
    BY <2>2
  <2>7. \A i \in 1..Len(use[t]) : use[t][i].proxy # call[t].proxy
    BY <2>4, <2>5, <2>6
  <2> QED BY <1>2, <1>3, <1>4, <2>4, <2>5, <2>7
<1>5. CASE ~call[t].create
  <2>1. use[t] = <<>> /\ (call[t].proxy \in Alive \/ prevented = t)
    BY <1>1, <1>5 DEF CallOK
  <2>2. 1..Len(use[t]) = {}
    BY <2>1
  <2> QED BY <1>2, <1>3, <1>5, <2>1, <2>2, NamesAssumption
<1> QED BY <1>4, <1>5

(* The last Unref() deletes the pool: no proxy is left. *)
LEMMA UnrefDeletesPool ==
    ASSUME PoolInv, NEW t \in Threads, Unref(t),
           UnrefCount(t) = 1 /\ poolRefCount = 1
    PROVE  PoolInv'
<1>1. Types /\ ThreadsOK /\ CallOK(t)
  BY DEF PoolInv, ThreadsOK
<1> DEFINE x == call[t].proxy
<1>2. /\ pc[t] = "unref"
      /\ pid' = [p \in TopProxies |-> IF p = x THEN None ELSE pid[p]]
      /\ DeletePool
      /\ pc' = [pc EXCEPT ![t] = "idle"]
      /\ call' = [call EXCEPT ![t] = NoCall]
      /\ UNCHANGED <<hDLMutex, use, prevented>>
  BY DEF Unref
<1>3. prevented = None
  <2>1. prevented # t
    BY DEF UnrefCount, Disabled
  <2> QED BY <1>2, <2>1, UnrefFacts
<1>4. PICK a \in Nat : a = Cardinality(Alive)
  BY FiniteProxies
<1>5. PICK c \in Nat : c = Cardinality(Creating)
  BY FiniteProxies
<1>6. 1 >= a + c
  BY <1>4, <1>5 DEF PoolInv, ProxiesCounted
<1>7. Alive # {} => a # 0
  BY <1>4, FiniteProxies, FS_EmptySet
<1>8. Creating # {} => c # 0
  BY <1>5, FiniteProxies, FS_EmptySet
<1>9. Alive # {}
  BY <1>2, <1>3, ActiveUsesTop
<1>10. c = 0 /\ a = 1
  BY <1>6, <1>7, <1>9
<1>11. Creating = {}
  BY <1>8, <1>10
<1>12. ~call[t].create
  BY <1>11 DEF Creating
<1>13. x \in Alive /\ use[t] = <<>> /\ x \in ProxiesOf(t)
  BY <1>2, <1>3, <1>12, UnrefFacts
<1>14. Alive = {x}
  <2>1. PICK y : Alive = {y}
    BY <1>4, <1>10, FiniteProxies, FS_Singleton
  <2> QED BY <1>13, <2>1
<1>15. ASSUME NEW u \in Threads \ {t} PROVE use[u] = <<>> /\ pc[u] = "idle"
  <2> SUFFICES ASSUME pc[u] # "idle" \/ use[u] # <<>> PROVE FALSE
    OBVIOUS
  <2>1. x \in ProxiesOf(u)
    BY <1>3, <1>14, ActiveUsesTop
  <2> QED BY <1>13, <2>1 DEF PoolInv, Exclusive
<1>16. ASSUME NEW u \in Threads
       PROVE  use[u] = <<>> /\ pc'[u] = "idle" /\ call'[u] = NoCall
  <2>1. CASE u = t
    BY <1>1, <1>2, <1>13, <2>1 DEF Types
  <2>2. CASE u # t
    <3>1. call[u] = NoCall
      BY <1>1, <1>15, <2>2 DEF ThreadsOK, CallOK
    <3> QED BY <1>1, <1>2, <1>15, <2>2, <3>1 DEF Types
  <2> QED BY <2>1, <2>2
<1>17. Alive' = {}
  BY <1>2, <1>14 DEF Alive
<1>18. pid' \in [TopProxies -> Threads \cup {None}]
  BY <1>1, <1>2 DEF Types
<1>19. pc' \in [Threads -> Places] /\ call' \in [Threads -> CallRecords]
  BY <1>1, <1>2 DEF Types, Places, NoCall, CallRecords
<1> HIDE DEF x
<1> QED BY <1>2, <1>3, <1>16, <1>17, <1>18, <1>19, DeletedPool

(* Removing an inner proxy leaves a good state of the pool. *)
LEMMA InnerGone ==
    ASSUME StateOK(PoolState), NEW x, UNCHANGED <<entry, nRAMUsage, open>>,
           inner' = [h \in Handles |-> IF h = x THEN None ELSE inner[h]]
    PROVE  StateOK(PoolState)'
<1> DEFINE s == [entry |-> entry, inner |-> inner', ram |-> nRAMUsage, open |-> open]
<1>0. s.entry = entry /\ s.inner = inner' /\ s.ram = nRAMUsage /\ s.open = open
  OBVIOUS
<1>t. /\ entry \in [Entries -> EntryRecords] /\ nRAMUsage \in Nat
      /\ open \subseteq Handles /\ inner \in [Handles -> InnerProxies \cup {None}]
  BY EntryTypes
<1>1. s \in PoolStates
  <2>1. inner' \in [Handles -> InnerProxies \cup {None}]
    BY <1>t
  <2> QED BY <1>t, <2>1 DEF PoolStates
<1>2. SetPoolState(s)
  BY DEF SetPoolState
<1> HIDE DEF s
<1>3. OneEntryEach(s) /\ RamOK(s)
  <2>1. /\ OneEntryEach(PoolState) /\ RamOK(PoolState) /\ PoolState.entry = entry
        /\ PoolState.open = open /\ PoolState.ram = nRAMUsage
    BY DEF StateOK, PoolState
  <2> QED BY <1>0, <2>1 DEF OneEntryEach, RamOK
<1>4. InnerOK(s)
  <2>1. ASSUME NEW h \in Handles, inner'[h] # None
        PROVE  /\ Kind[inner'[h].file] = "plain"
               /\ \E e \in Entries : entry[e].ds = h /\ Kind[entry[e].file] # "plain"
    <3>1. inner'[h] = inner[h]
      BY <2>1
    <3> QED BY <2>1, <3>1, StateParts
  <2> QED BY <1>0, <2>1 DEF InnerOK
<1>5. StateOK(s)
  BY <1>1, <1>3, <1>4 DEF StateOK
<1> QED BY <1>2, <1>5, StateNext

(* Any other Unref() keeps a reference per proxy that exists. *)
LEMMA UnrefKeepsPool ==
    ASSUME PoolInv, NEW t \in Threads, Unref(t),
           ~(UnrefCount(t) = 1 /\ poolRefCount = 1)
    PROVE  PoolInv'
<1>1. Types /\ ThreadsOK /\ StateOK(PoolState) /\ Prevention
  BY DEF PoolInv
<1>p. PICK x : x = call[t].proxy
  OBVIOUS
<1>k. PICK k : k = UnrefCount(t)
  OBVIOUS
<1>2. /\ pc[t] = "unref"
      /\ pid' = [p \in TopProxies |-> IF p = x THEN None ELSE pid[p]]
      /\ poolRefCount' = poolRefCount - k
      /\ inner' = [h \in Handles |-> IF h = x THEN None ELSE inner[h]]
      /\ UNCHANGED <<singleton, list, entry, nRAMUsage, open>>
      /\ pc' = [pc EXCEPT ![t] = "idle"]
      /\ call' = [call EXCEPT ![t] = NoCall]
      /\ UNCHANGED <<hDLMutex, use, prevented>>
  BY <1>p, <1>k DEF Unref
<1>3. /\ x \in ProxiesOf(t)
      /\ \A i \in 1..Len(use[t]) : use[t][i].proxy # x
      /\ prevented \in {None, t}
      /\ prevented = None =>
            IF call[t].create THEN x \notin Alive /\ Alive # {}
                              ELSE x \in Alive /\ use[t] = <<>>
  BY <1>2, <1>p, UnrefFacts
<1>4. pc'[t] = "idle" /\ call'[t] = NoCall /\ use'[t] = use[t] /\ Only(t)
  BY <1>1, <1>2 DEF Types, Only
<1>5. PoolKeeps({x}, {})
  <2>1. \A p \in Alive \ {x} : pid'[p] = pid[p]
    BY <1>2 DEF Alive
  <2>2. \A h \in Handles \ {x} : inner'[h] = inner[h]
    BY <1>2
  <2>3. entry' = entry
    BY <1>2
  <2> QED BY <2>1, <2>2, <2>3 DEF PoolKeeps, SameData
<1>6. UseOK(t)'
  BY <1>3, <1>4, <1>5, UsesInOrder
<1>7. CallOK(t)'
  BY <1>4, IdleIsOK
<1>8. \A u \in Threads \ {t} : ProxiesOf(t)' \cap ProxiesOf(u) = {}
  <2>1. ProxiesOf(t)' \subseteq ProxiesOf(t)
    BY <1>4 DEF ProxiesOf
  <2> QED BY <2>1 DEF PoolInv, Exclusive
<1>9. /\ ThreadsOK' /\ Exclusive'
      /\ \A u \in Threads \ {t} : SameSlotsOf(u)
  <2>1. {x} \subseteq ProxiesOf(t)
    BY <1>3
  <2> QED BY <1>2, <1>4, <1>5, <1>6, <1>7, <1>8, <2>1, OneThread
<1>10. SameSlotsOf(t)
  <2>1. Len(use[t]) \in Nat
    BY <1>1, UseTypes
  <2> QED BY <1>2, <1>4, <2>1, SlotsOfThread
<1>11. ASSUME NEW s \in Slots PROVE SlotProxy(s) \notin {x}
  <2>1. /\ s[1] \in Threads /\ s[2] \in 1..2
        /\ s[2] <= Len(use[s[1]]) => SlotProxy(s) = use[s[1]][s[2]].proxy
        /\ ~(s[2] <= Len(use[s[1]])) => pc[s[1]] \in {"trim", "release"}
        /\ SlotProxy(s) \in ProxiesOf(s[1])
    BY <1>1, SlotFacts
  <2>2. CASE s[1] # t
    BY <1>3, <2>1, <2>2 DEF PoolInv, Exclusive
  <2>3. CASE s[1] = t
    <3>1. s[2] <= Len(use[t])
      BY <1>2, <2>1, <2>3
    <3>2. s[2] \in 1..Len(use[t])
      BY <1>1, <2>1, <3>1, UseTypes
    <3> QED BY <1>3, <2>1, <2>3, <3>1, <3>2
  <2> QED BY <2>2, <2>3
<1>12. /\ SlotsMatch' /\ OneUnshared'
       /\ \A e \in Entries : EntrySlots(e)' = EntrySlots(e)
  <2>1. \A u \in Threads : SameSlotsOf(u)
    BY <1>9, <1>10
  <2> QED BY <1>5, <1>11, <2>1, SlotsKept
<1>13. Counted'
  <2>1. \A u \in Threads : \/ pc'[u] # "open" /\ pc[u] # "open"
                           \/ pc'[u] = pc[u] /\ call'[u].entry = call[u].entry
    BY <1>2, <1>4 DEF Only
  <2>2. \A e \in Entries : entry'[e].refCount = entry[e].refCount
    BY <1>2
  <2> QED BY <1>12, <2>1, <2>2, CountsKept
<1>14. StateOK(PoolState)'
  BY <1>1, <1>2, InnerGone
<1>15. ListOK'
  BY <1>2 DEF PoolInv, ListOK, ListOf, ToSet, IsInjective
<1>16. PICK a \in Nat : a = Cardinality(Alive)
  BY FiniteProxies
<1>17. PICK c \in Nat : c = Cardinality(Creating)
  BY FiniteProxies
<1>18. poolRefCount \in Nat /\ poolRefCount >= a + c /\ poolRefCount <= MaxRefs
  BY <1>1, <1>16, <1>17, Sizes DEF PoolInv, ProxiesCounted, Types
<1>19. /\ Alive' \in SUBSET Alive /\ Creating' \in SUBSET Creating
       /\ x \in Alive => Alive' = Alive \ {x}
       /\ call[t].create => Creating' = Creating \ {t} /\ t \in Creating
  <2>1. ~NoCall.create
    BY DEF NoCall
  <2>2. Creating' = Creating \ {t}
    BY <1>4, <2>1 DEF Creating, Only
  <2> QED BY <1>2, <2>2 DEF Alive, Creating
<1>20. PICK a2 \in Nat : a2 = Cardinality(Alive') /\ a2 <= a
  BY <1>16, <1>19, FiniteProxies, FS_Subset, FS_CardinalityType
<1>21. PICK c2 \in Nat : c2 = Cardinality(Creating') /\ c2 <= c
  BY <1>17, <1>19, FiniteProxies, FS_Subset, FS_CardinalityType
<1>22. (k = 0 \/ k = 1) /\ (k = 1 => prevented # t)
  BY <1>k DEF UnrefCount, Disabled
<1>23. k = 1 => a >= 1 /\ a2 + c2 <= a + c - 1
  <2> SUFFICES ASSUME k = 1 PROVE a >= 1 /\ a2 + c2 <= a + c - 1
    OBVIOUS
  <2>1. prevented = None
    BY <1>3, <1>22
  <2>2. Alive # {}
    BY <1>2, <2>1, ActiveUsesTop
  <2>3. a >= 1
    BY <1>16, <2>2, FiniteProxies, FS_EmptySet
  <2>4. CASE call[t].create
    <3>1. c2 = c - 1
      BY <1>17, <1>19, <1>21, <2>4, FiniteProxies, FS_RemoveElement
    <3> QED BY <1>20, <2>3, <3>1
  <2>5. CASE ~call[t].create
    <3>1. a2 = a - 1
      BY <1>3, <1>16, <1>19, <1>20, <2>1, <2>5, FiniteProxies, FS_RemoveElement
    <3> QED BY <1>21, <2>3, <3>1
  <2> QED BY <2>4, <2>5
<1>24. poolRefCount' \in 0..MaxRefs /\ poolRefCount' >= a2 + c2
  <2>1. PICK n \in Nat : n = poolRefCount
    BY <1>18
  <2>2. CASE k = 0
    BY <1>2, <1>18, <1>20, <1>21, <2>1, <2>2, Sizes
  <2>3. CASE k = 1
    BY <1>2, <1>18, <1>20, <1>21, <1>23, <2>1, <2>3, Sizes
  <2> QED BY <1>22, <2>2, <2>3
<1>25. ProxiesCounted'
  BY <1>20, <1>21, <1>24 DEF ProxiesCounted
<1>26. Types'
  <2>1. pid' \in [TopProxies -> Threads \cup {None}]
    BY <1>1, <1>2 DEF Types
  <2>2. pc' \in [Threads -> Places] /\ call' \in [Threads -> CallRecords]
    BY <1>1, <1>2 DEF Types, Places, NoCall, CallRecords
  <2> QED BY <1>1, <1>2, <1>24, <2>1, <2>2 DEF Types
<1>27. Prevention'
  BY <1>1, <1>2, <1>4 DEF Prevention, Only
<1>28. PoolExists'
  <2>1. singleton
    BY <1>2, PoolIsThere
  <2> QED BY <1>2, <2>1 DEF PoolExists
<1> QED BY <1>9, <1>12, <1>13, <1>14, <1>15, <1>25, <1>26, <1>27, <1>28 DEF PoolInv

-----------------------------------------------------------------------------
(* The references of calls *)

(* Who can enter _RefDataset(), and for which proxy. *)
LEMMA CallShape ==
    ASSUME PoolInv, NEW t \in Threads, NEW x \in TopProxies \cup Handles,
           Calls(t, x)
    PROVE  /\ prevented = None /\ singleton /\ pc[t] \in {"idle", "ref"}
           /\ \/ use[t] = <<>> /\ x \in Alive /\ ~call[t].create
              \/ Len(use[t]) = 1 /\ x = use[t][1].ds /\ inner[x] # None
           /\ Len(use[t]) \in {0, 1} /\ Depth(t) = Len(use[t])
           /\ \A u \in Threads \ {t} : x \notin ProxiesOf(u)
           /\ pc[t] = "ref" => call[t].proxy = x
<1>1. Types /\ UseOK(t) /\ CallOK(t)
  BY DEF PoolInv, ThreadsOK
<1>2. PICK n \in Nat : n = Len(use[t])
  BY <1>1, UseTypes
<1>3. n <= 2 /\ (use[t] = <<>> <=> n = 0)
  BY <1>1, <1>2, UseTypes DEF UseOK
<1>4. CASE pc[t] = "idle" /\ prevented = None /\ x \in Callable(t) /\ ~IsUsed(x)
  <2>1. ~call[t].create
    <3>1. ~NoCall.create
      BY DEF NoCall
    <3> QED BY <1>1, <1>4, <3>1 DEF CallOK
  <2>2. ASSUME NEW u \in Threads, x \in ProxiesOf(u) PROVE FALSE
    <3>1. DOMAIN use[u] = 1..Len(use[u])
      BY <1>1, UseTypes
    <3> QED BY <1>4, <2>2, <3>1 DEF ProxiesOf, IsUsed
  <2>3. CASE n = 0
    <3>1. x \in Alive /\ use[t] = <<>>
      BY <1>3, <1>4, <2>3 DEF Callable
    <3>2. singleton
      BY <3>1, PoolIsThere
    <3>3. Depth(t) = Len(use[t])
      BY <1>2, <1>4, <2>3 DEF Depth
    <3> QED BY <1>2, <1>4, <2>1, <2>2, <2>3, <3>1, <3>2, <3>3
  <2>4. CASE n # 0
    <3>1. x = use[t][n].ds /\ inner[x] # None
      BY <1>2, <1>3, <1>4, <2>4 DEF Callable, Last
    <3>2. n # 2
      BY <1>2, <3>1, SecondIsPlain
    <3>3. n = 1
      BY <1>3, <2>4, <3>2
    <3>4. singleton
      BY <1>3, <2>4, PoolIsThere
    <3>5. Depth(t) = Len(use[t])
      BY <1>2, <1>4, <3>3 DEF Depth
    <3> QED BY <1>2, <1>4, <2>2, <3>1, <3>3, <3>4, <3>5
  <2> QED BY <2>3, <2>4
<1>5. CASE pc[t] = "ref" /\ call[t].proxy = x
  <2>1. call[t].create /\ (CallsTop(t) \/ CallsInner(t))
    BY <1>1, <1>5 DEF CallOK
  <2>2. CallsInner(t)
    BY <2>1 DEF CallsTop
  <2>3. n = 1 /\ x = use[t][1].ds /\ inner[x] # None
    BY <1>2, <1>5, <2>2 DEF CallsInner
  <2>4. x \in ProxiesOf(t)
    BY <1>5 DEF ProxiesOf
  <2>5. \A u \in Threads \ {t} : x \notin ProxiesOf(u)
    BY <2>4 DEF PoolInv, Exclusive
  <2>6. prevented = None /\ singleton
    BY <1>5, NotPrevented, PoolIsThere
  <2>7. Depth(t) = Len(use[t])
    BY <1>2, <1>5, <2>3 DEF Depth
  <2> QED BY <1>2, <1>5, <2>3, <2>5, <2>6, <2>7
<1> QED BY <1>4, <1>5 DEF Calls, Idle

(* A call that failed. *)
LEMMA AfterFailure ==
    ASSUME PoolInv, NEW t \in Threads, pc[t] \in {"idle", "ref", "release"},
           pc' = PcAfterFailure(t), call' = CallAfterFailure(t), use' = use,
           PoolKeeps({}, {})
    PROVE  /\ Only(t) /\ UseOK(t)' /\ CallOK(t)'
           /\ ProxiesOf(t)' \subseteq ProxiesOf(t)
           /\ pc'[t] \in {"idle", "abandon"} /\ Creating' \subseteq Creating
           /\ pc' \in [Threads -> Places] /\ call' \in [Threads -> CallRecords]
<1>1. Types /\ UseOK(t) /\ CallOK(t)
  BY DEF PoolInv, ThreadsOK
<1>2. UseOK(t)'
  BY UsesInOrder
<1>3. Only(t)
  BY <1>1 DEF Types, PcAfterFailure, CallAfterFailure, Only
<1>4. NoCall \in CallRecords /\ ~NoCall.create
  BY DEF NoCall, CallRecords
<1>5. pc' \in [Threads -> Places] /\ call' \in [Threads -> CallRecords]
  <2>1. pc' \in [Threads -> Places]
    BY <1>1 DEF Types, PcAfterFailure, Places
  <2>2. call' \in [Threads -> CallRecords]
    BY <1>1, <1>4 DEF Types, CallAfterFailure
  <2> QED BY <2>1, <2>2
<1>6. CASE call[t].create
  <2>1. pc'[t] = "abandon" /\ call' = call
    BY <1>1, <1>6 DEF Types, PcAfterFailure, CallAfterFailure
  <2>2. pc[t] # "idle"
    BY <1>1, <1>4, <1>6 DEF CallOK
  <2>3. CallsTop(t) \/ CallsInner(t)
    BY <1>1, <1>6 DEF CallOK
  <2>4. CallsTop(t)' \/ CallsInner(t)'
    BY <2>1, <2>3, CallGoesOn
  <2>5. CallOK(t)'
    BY <1>6, <2>1, <2>4 DEF CallOK
  <2>6. ProxiesOf(t)' = ProxiesOf(t)
    BY <2>1, <2>2 DEF ProxiesOf
  <2>7. Creating' = Creating
    BY <2>1 DEF Creating
  <2> QED BY <1>2, <1>3, <1>5, <2>1, <2>5, <2>6, <2>7
<1>7. CASE ~call[t].create
  <2>1. pc'[t] = "idle" /\ call'[t] = NoCall
    BY <1>1, <1>7 DEF Types, PcAfterFailure, CallAfterFailure
  <2>2. CallOK(t)'
    BY <2>1, IdleIsOK
  <2>3. ProxiesOf(t)' \subseteq ProxiesOf(t)
    BY <2>1 DEF ProxiesOf
  <2>4. Creating' \subseteq Creating
    BY <1>3, <1>4, <2>1, CreatingKept
  <2> QED BY <1>2, <1>3, <1>5, <2>1, <2>2, <2>3, <2>4
<1> QED BY <1>6, <1>7

(* A pool whose entries are all in use refuses the call. *)
LEMMA RefTooManyStep ==
    ASSUME PoolInv, NEW t \in Threads, NEW x \in TopProxies \cup Handles,
           RefTooMany(t, x)
    PROVE  PoolInv'
<1>1. /\ Calls(t, x) /\ pc' = PcAfterFailure(t) /\ call' = CallAfterFailure(t)
      /\ SamePool
      /\ UNCHANGED <<singleton, poolRefCount, hDLMutex, pid, use, prevented>>
  BY DEF RefTooMany, SamePool
<1>2. prevented = None /\ singleton /\ pc[t] \in {"idle", "ref"}
  BY <1>1, CallShape
<1>3. PoolKeeps({}, {})
  BY <1>1, SamePoolKeeps
<1>4. /\ Only(t) /\ UseOK(t)' /\ CallOK(t)'
      /\ ProxiesOf(t)' \subseteq ProxiesOf(t)
      /\ pc'[t] \in {"idle", "abandon"} /\ Creating' \subseteq Creating
      /\ pc' \in [Threads -> Places] /\ call' \in [Threads -> CallRecords]
  BY <1>1, <1>2, <1>3, AfterFailure
<1>5. \A u \in Threads \ {t} : ProxiesOf(t)' \cap ProxiesOf(u) = {}
  BY <1>4 DEF PoolInv, Exclusive
<1>6. SameSlotsOf(t)
  <2>1. Len(use[t]) \in Nat
    BY UseTypes DEF PoolInv
  <2>2. pc[t] \notin {"trim", "release"} /\ pc'[t] \notin {"trim", "release"}
    BY <1>2, <1>4
  <2> QED BY <1>1, <2>1, <2>2, SlotsOfThread
<1>7. \A e \in Entries : entry'[e].refCount = entry[e].refCount
  BY <1>1 DEF SamePool
<1>8. ThreadsOK' /\ Exclusive' /\ Counted' /\ SlotsMatch' /\ OneUnshared'
  <2>1. pc'[t] # "open" /\ pc[t] # "open"
    BY <1>2, <1>4
  <2> QED BY <1>1, <1>3, <1>4, <1>5, <1>6, <1>7, <2>1, QuietStep
<1>9. Types'
  BY <1>1, <1>4 DEF PoolInv, Types
<1>10. ProxiesCounted'
  BY <1>1, <1>4, ProxiesCountedKept
<1>11. Prevention' /\ PoolExists'
  BY <1>1, <1>2 DEF Prevention, PoolExists
<1>12. ListOK' /\ StateOK(PoolState)'
  BY <1>1, SamePoolIsOK
<1> QED BY <1>8, <1>9, <1>10, <1>11, <1>12 DEF PoolInv

(* Trimming the memory closes unused datasets only. *)
LEMMA TrimStep ==
    ASSUME PoolInv, NEW t \in Threads, Trim(t)
    PROVE  PoolInv'
<1> DEFINE e == list[Max(Evictable(TRUE))]
           s == Closed(PoolState, e)
<1>1. /\ pc[t] = "trim" /\ Evictable(TRUE) # {} /\ SetPoolState(s)
      /\ UNCHANGED <<singleton, poolRefCount, list, hDLMutex, pid, use, pc, call,
                     prevented>>
  BY DEF Trim, TooMuchRam
<1>2. ListOf(list) /\ StateOK(PoolState) /\ PoolState.entry = entry
  BY DEF PoolInv, ListOK, PoolState
<1>3. e \in Entries /\ e \in ToSet(list) /\ entry[e].refCount = 0
  BY <1>1, <1>2, LastEvictable
<1> HIDE DEF e
<1>4. StateOK(s) /\ Closing(PoolState, s)
  BY <1>2, <1>3, ClosedCloses
<1> HIDE DEF s
<1>5. /\ ListOK' /\ StateOK(PoolState)' /\ PoolKeeps({}, {})
      /\ \A d \in Entries : entry'[d].refCount = entry[d].refCount
  BY <1>1, <1>4, ClosingStep
<1>6. ThreadsOK' /\ Exclusive' /\ Counted' /\ SlotsMatch' /\ OneUnshared'
  BY <1>1, <1>5, NoThreadMoves
<1>7. Types'
  BY <1>1 DEF PoolInv, Types
<1>8. ProxiesCounted'
  <2>1. Creating' \subseteq Creating
    BY <1>1 DEF Creating
  <2> QED BY <1>1, <2>1, ProxiesCountedKept
<1>9. prevented = None /\ singleton
  BY <1>1, NotPrevented, PoolIsThere
<1>10. Prevention' /\ PoolExists'
  BY <1>1, <1>9 DEF Prevention, PoolExists
<1> QED BY <1>5, <1>6, <1>7, <1>8, <1>10 DEF PoolInv

(* A thread takes a reference on entry e for proxy x: its slot n + 1. *)
CanUse(t, x) ==
    \/ use[t] = <<>> /\ x \in Alive /\ ~call[t].create
    \/ Len(use[t]) = 1 /\ x = use[t][1].ds /\ inner[x] # None

Pushes(t, x, e, n) ==
    /\ Only(t) /\ UseOK(t)' /\ CallOK(t)' /\ Depth(t)' = n + 1
    /\ SlotEntry(<<t, n + 1>>)' = e /\ SlotProxy(<<t, n + 1>>)' = x
    /\ \A i \in 1..n : SameSlot(<<t, i>>)
    /\ ProxiesOf(t)' \subseteq ProxiesOf(t) \cup {x}
    /\ pc'[t] # "open" /\ Creating' \subseteq Creating
    /\ use' \in [Threads -> Seq(UseRecords)] /\ pc' \in [Threads -> Places]
    /\ call' \in [Threads -> CallRecords]

(* Append() adds one element at the end. *)
LEMMA AppendFacts ==
    ASSUME NEW S, NEW q \in Seq(S), NEW r \in S
    PROVE  /\ Append(q, r) \in Seq(S) /\ Len(Append(q, r)) = Len(q) + 1
           /\ Append(q, r)[Len(q) + 1] = r
           /\ \A i \in 1..Len(q) : Append(q, r)[i] = q[i]
OBVIOUS

(* A proxy that a thread may use is still there after the step. *)
LEMMA CanUseNext ==
    ASSUME PoolInv, NEW E, PoolKeeps({}, E), NEW t \in Threads, NEW x, CanUse(t, x)
    PROVE  /\ KeepsProxy(x)
           /\ use[t] = <<>> => x \in Alive'
           /\ use[t] # <<>> => x = use[t][1].ds /\ inner'[x] # None
<1>0. /\ use[t] = <<>> <=> Len(use[t]) = 0
      /\ Len(use[t]) = 1 => use[t][1].ds \in Handles
  BY UseTypes DEF PoolInv
<1>1. CASE use[t] = <<>>
  <2>1. x \in Alive
    BY <1>0, <1>1 DEF CanUse
  <2>2. x \in Alive' /\ pid'[x] = pid[x] /\ x \in TopProxies
    BY <2>1, UsesKept DEF Alive
  <2> QED BY <1>1, <2>2 DEF KeepsProxy
<1>2. CASE use[t] # <<>>
  <2>1. x = use[t][1].ds /\ inner[x] # None /\ x \in Handles
    BY <1>0, <1>2 DEF CanUse
  <2>2. inner'[x] = inner[x]
    BY <1>2, <2>1, UsesKept
  <2>3. x \notin TopProxies
    BY <2>1, NamesAssumption
  <2> QED BY <1>2, <2>1, <2>2, <2>3 DEF KeepsProxy
<1> QED BY <1>1, <1>2

(* Getting a dataset adds a use. *)
LEMMA UsePushes ==
    ASSUME PoolInv, NEW E, PoolKeeps({}, E), NEW t \in Threads,
           NEW x \in TopProxies \cup Handles, NEW e \in Entries, NEW h \in Handles,
           NEW n \in {0, 1}, Len(use[t]) = n, CanUse(t, x), entry'[e].ds = h,
           use' = [use EXCEPT ![t] = Append(@, [proxy |-> x, entry |-> e, ds |-> h])],
           pc' = [pc EXCEPT ![t] = "idle"], call' = [call EXCEPT ![t] = NoCall]
    PROVE  Pushes(t, x, e, n)
<1>1. Types /\ UseOK(t) /\ use[t] \in Seq(UseRecords)
  BY UseTypes DEF PoolInv, ThreadsOK
<1> DEFINE r == [proxy |-> x, entry |-> e, ds |-> h]
<1>2. r \in UseRecords /\ r.proxy = x /\ r.entry = e /\ r.ds = h
  BY DEF UseRecords
<1>3. use' = [use EXCEPT ![t] = Append(use[t], r)]
  BY <1>1 DEF Types
<1> HIDE DEF r
<1>4. /\ Append(use[t], r) \in Seq(UseRecords) /\ Len(Append(use[t], r)) = n + 1
      /\ Append(use[t], r)[n + 1] = r
      /\ \A i \in 1..n : Append(use[t], r)[i] = use[t][i]
  BY <1>1, <1>2, AppendFacts
<1>5. /\ use'[t] \in Seq(UseRecords) /\ Len(use'[t]) = n + 1
      /\ use'[t][n + 1] = r /\ \A i \in 1..n : use'[t][i] = use[t][i]
  BY <1>1, <1>3, <1>4 DEF Types
<1>6. use' \in [Threads -> Seq(UseRecords)] /\ pc' \in [Threads -> Places]
  BY <1>1, <1>3, <1>4 DEF Types, Places
<1>7. NoCall \in CallRecords /\ ~NoCall.create
  BY DEF NoCall, CallRecords
<1>8. call' \in [Threads -> CallRecords]
  BY <1>1, <1>7 DEF Types
<1>9. pc'[t] = "idle" /\ call'[t] = NoCall /\ Only(t)
  BY <1>1, <1>3 DEF Types, Only
<1>10. CallOK(t)' /\ Creating' \subseteq Creating
  BY <1>7, <1>9, IdleIsOK, CreatingKept
<1>11. Depth(t)' = n + 1
  <2>1. Depth(t)' = (n + 1) + 0
    BY <1>5, <1>9 DEF Depth
  <2> QED BY <2>1
<1>12. SlotEntry(<<t, n + 1>>)' = e /\ SlotProxy(<<t, n + 1>>)' = x
  <2>1. n + 1 <= n + 1
    OBVIOUS
  <2> QED BY <1>2, <1>5, <2>1 DEF SlotEntry, SlotProxy
<1>13. ASSUME NEW i \in 1..n PROVE SameSlot(<<t, i>>)
  <2>1. i <= Len(use[t]) /\ i <= Len(use'[t])
    BY <1>5
  <2> QED BY <1>5, <2>1 DEF SameSlot, SlotEntry, SlotProxy
<1>14. ProxiesOf(t)' \subseteq ProxiesOf(t) \cup {x}
  <2>1. ASSUME NEW y \in ProxiesOf(t)' PROVE y \in ProxiesOf(t) \cup {x}
    <3>1. PICK i \in 1..n + 1 : y = use'[t][i].proxy
      BY <1>5, <1>9 DEF ProxiesOf
    <3>2. CASE i = n + 1
      BY <1>2, <1>5, <3>1, <3>2
    <3>3. CASE i # n + 1
      <4>1. i \in 1..n
        BY <3>3
      <4>2. y = use[t][i].proxy
        BY <1>5, <3>1, <4>1
      <4> QED BY <4>1, <4>2 DEF ProxiesOf
    <3> QED BY <3>2, <3>3
  <2> QED BY <2>1
<1>15. UseOK(t)'
  <2>0. use[t] = <<>> <=> n = 0
    BY <1>1, UseTypes
  <2>1. /\ \A i \in 1..n : SameData(use[t][i].entry)
        /\ \A p \in Alive : p \in Alive'
    BY UsesKept
  <2>2. /\ n = 0 => x \in Alive'
        /\ n # 0 => x = use[t][1].ds /\ inner'[x] # None
    BY <2>0, CanUseNext
  <2>3. Len(use'[t]) <= 2
    BY <1>5
  <2>4. use'[t][1].proxy \in Alive'
    <3>1. CASE n = 0
      BY <1>2, <1>5, <2>2, <3>1
    <3>2. CASE n = 1
      BY <1>1, <1>5, <2>0, <2>1, <3>2 DEF UseOK
    <3> QED BY <3>1, <3>2
  <2>5. Len(use'[t]) = 2 => use'[t][2].proxy = use'[t][1].ds /\ inner'[use'[t][1].ds] # None
    <3> SUFFICES ASSUME n = 1
                 PROVE  use'[t][2].proxy = use'[t][1].ds /\ inner'[use'[t][1].ds] # None
      BY <1>5
    <3>1. use'[t][2] = r /\ use'[t][1] = use[t][1]
      BY <1>5
    <3> QED BY <1>2, <2>2, <3>1
  <2>6. ASSUME NEW i \in 1..n + 1 PROVE entry'[use'[t][i].entry].ds = use'[t][i].ds
    <3>1. CASE i = n + 1
      BY <1>2, <1>5, <3>1
    <3>2. CASE i # n + 1
      <4>1. i \in 1..n
        BY <3>2
      <4>2. entry[use[t][i].entry].ds = use[t][i].ds
        BY <1>1, <4>1 DEF UseOK
      <4> QED BY <1>5, <2>1, <4>1, <4>2 DEF SameData
    <3> QED BY <3>1, <3>2
  <2> QED BY <1>5, <2>3, <2>4, <2>5, <2>6 DEF UseOK
<1> QED BY <1>6, <1>8, <1>9, <1>10, <1>11, <1>12, <1>13, <1>14, <1>15 DEF Pushes

(* A call that gets its entry adds a reference. *)
LEMMA CallPushes ==
    ASSUME PoolInv, NEW E, PoolKeeps({}, E), NEW t \in Threads,
           NEW x \in TopProxies \cup Handles, NEW e \in Entries,
           NEW n \in {0, 1}, Len(use[t]) = n, CanUse(t, x),
           use' = use, pc' \in [Threads -> Places], call' \in [Threads -> CallRecords],
           pc'[t] \in {"trim", "release"},
           pc'[t] = "trim" => entry'[e].ds # None,
           call'[t].proxy = x, call'[t].entry = e,
           call'[t].create = call[t].create, Only(t)
    PROVE  Pushes(t, x, e, n)
<1>1. Types /\ UseOK(t)
  BY DEF PoolInv, ThreadsOK
<1>2. UseOK(t)'
  BY UsesInOrder
<1>3. /\ use[t] = <<>> => x \in Alive'
      /\ use[t] # <<>> => x = use[t][1].ds /\ inner'[x] # None
  BY CanUseNext
<1>4. CallsTop(t)' \/ CallsInner(t)'
  <2>0. use[t] = <<>> <=> Len(use[t]) = 0
    BY <1>1, UseTypes, Zenon
  <2>1. Len(use[t]) = 1 => use[t] # <<>>
    BY <2>0
  <2>2. CASE use[t] = <<>>
    <3>1. ~call[t].create
      BY <2>1, <2>2 DEF CanUse
    <3> QED BY <1>3, <2>2, <3>1 DEF CallsTop
  <2>3. CASE use[t] # <<>>
    BY <1>3, <2>3 DEF CallsInner, CanUse
  <2> QED BY <2>2, <2>3
<1>5. CallOK(t)'
  BY <1>4 DEF CallOK
<1>6. Depth(t)' = n + 1
  BY DEF Depth
<1>7. SlotEntry(<<t, n + 1>>)' = e /\ SlotProxy(<<t, n + 1>>)' = x
  <2>1. ~(n + 1 <= n)
    OBVIOUS
  <2> QED BY <2>1 DEF SlotEntry, SlotProxy
<1>8. ASSUME NEW i \in 1..n PROVE SameSlot(<<t, i>>)
  <2>1. i <= Len(use[t])
    OBVIOUS
  <2> QED BY <2>1 DEF SameSlot, SlotEntry, SlotProxy
<1>9. ProxiesOf(t)' \subseteq ProxiesOf(t) \cup {x}
  BY DEF ProxiesOf
<1>10. Creating' \subseteq Creating
  BY CreatingKept
<1> QED BY <1>1, <1>2, <1>5, <1>6, <1>7, <1>8, <1>9, <1>10 DEF Pushes, Types

(* The counts of references when one is taken. *)
LEMMA CountedPushed ==
    ASSUME PoolInv, NEW t \in Threads, NEW s0, s0 \notin Slots,
           Slots' = Slots \cup {s0}, \A s \in Slots : SameSlot(s),
           NEW e \in Entries, SlotEntry(s0)' = e,
           \A u \in Threads \ {t} : pc'[u] = pc[u] /\ call'[u] = call[u],
           pc'[t] # "open", pc[t] = "open" => call[t].entry = e,
           Openers(e) \subseteq {t},
           entry'[e].refCount = Cardinality(EntrySlots(e)) + 1,
           \A d \in Entries \ {e} : entry'[d].refCount = entry[d].refCount
    PROVE  Counted'
<1>1. ASSUME NEW d \in Entries, d # e PROVE CountedAt(d)'
  <2>1. EntrySlots(d)' = EntrySlots(d)
    BY <1>1, EntrySlotsPushed
  <2>2. Openers(d)' = Openers(d)
    BY <1>1 DEF Openers
  <2> QED BY <1>1, <2>1, <2>2, CountedSame DEF PoolInv
<1>2. CountedAt(e)'
  <2>1. EntrySlots(e)' = EntrySlots(e) \cup {s0}
    BY EntrySlotsPushed
  <2>2. s0 \notin EntrySlots(e)
    BY DEF EntrySlots
  <2>3. Openers(e)' = {}
    BY DEF Openers
  <2>4. Cardinality(EntrySlots(e) \cup {s0}) = Cardinality(EntrySlots(e)) + 1
    BY <2>2, FiniteSlots, FS_AddElement
  <2> QED BY <2>1, <2>3, <2>4 DEF CountedAt
<1> QED BY <1>1, <1>2, CountedNext

(* Taking a reference. *)
LEMMA PushStep ==
    ASSUME PoolInv, NEW t \in Threads, NEW x \in TopProxies \cup Handles,
           NEW e \in Entries, NEW n \in {0, 1}, NEW E, PoolKeeps({}, E),
           E = {} \/ (pc[t] = "open" /\ E = {call[t].entry}),
           Depth(t) = n, CanUse(t, x), Pushes(t, x, e, n),
           prevented' = prevented,
           \A u \in Threads \ {t} : x \notin ProxiesOf(u),
           entry'[e].file = ParamsOf(x).file,
           ParamsOf(x).shared => /\ entry'[e].pid = ParamsOf(x).pid
                                 /\ entry'[e].owner = ParamsOf(x).owner,
           ParamsOf(x).shared \/ EntrySlots(e) = {},
           Openers(e) \subseteq {t}, pc[t] = "open" => call[t].entry = e,
           entry'[e].refCount = Cardinality(EntrySlots(e)) + 1,
           \A d \in Entries \ {e} : entry'[d].refCount = entry[d].refCount
    PROVE  ThreadsOK' /\ Exclusive' /\ Counted' /\ SlotsMatch' /\ OneUnshared'
<1>1. /\ Only(t) /\ UseOK(t)' /\ CallOK(t)' /\ Depth(t)' = n + 1
      /\ SlotEntry(<<t, n + 1>>)' = e /\ SlotProxy(<<t, n + 1>>)' = x
      /\ \A i \in 1..n : SameSlot(<<t, i>>)
      /\ ProxiesOf(t)' \subseteq ProxiesOf(t) \cup {x} /\ pc'[t] # "open"
  BY DEF Pushes
<1>2. \A u \in Threads \ {t} : ProxiesOf(t)' \cap ProxiesOf(u) = {}
  <2>1. \A u \in Threads \ {t} : ProxiesOf(t) \cap ProxiesOf(u) = {}
    BY DEF PoolInv, Exclusive
  <2> QED BY <1>1, <2>1
<1>3. /\ ThreadsOK' /\ Exclusive'
      /\ \A u \in Threads \ {t} : SameSlotsOf(u)
  BY <1>1, <1>2, OneThread
<1>s. PICK s0 : s0 = <<t, n + 1>>
  OBVIOUS
<1>4. s0 \notin Slots /\ Slots' = Slots \cup {s0} /\ \A s \in Slots : SameSlot(s)
  BY <1>1, <1>3, <1>s, SlotsPush
<1>5. SlotEntry(s0)' = e /\ SlotProxy(s0)' = x
  BY <1>1, <1>s
<1>6. SlotsMatch' /\ OneUnshared'
  <2>1. KeepsProxy(x)
    BY CanUseNext
  <2> QED BY <1>4, <1>5, <2>1, MatchPushed
<1>7. Counted'
  BY <1>1, <1>4, <1>5, CountedPushed DEF Only
<1> QED BY <1>3, <1>6, <1>7

(* Only the count of references of an entry changes. *)
LEMMA CountChange ==
    ASSUME PoolInv, NEW e \in Entries, NEW k \in Int, e \in ToSet(list),
           entry' = [entry EXCEPT ![e].refCount = k],
           UNCHANGED <<nRAMUsage, inner, open>>, pid' = pid,
           ListOf(list'), Len(list') = Len(list)
    PROVE  /\ ListOK' /\ StateOK(PoolState)' /\ PoolKeeps({}, {e})
           /\ entry[e].refCount # -1 => PoolKeeps({}, {})
           /\ entry'[e].refCount = k /\ \A d \in Entries : SameData(d)
           /\ \A d \in Entries \ {e} : entry'[d] = entry[d]
<1>1. /\ ListOf(list) /\ StateOK(PoolState)
      /\ \A d \in Entries : d > Len(list) => entry[d] = FreeEntry
  BY DEF PoolInv, ListOK
<1>2. entry \in [Entries -> EntryRecords] /\ entry[e] \in EntryRecords
  BY <1>1, EntryTypes
<1>3. /\ entry' \in [Entries -> EntryRecords] /\ entry'[e].refCount = k
      /\ \A d \in Entries \ {e} : entry'[d] = entry[d]
      /\ entry'[e].file = entry[e].file /\ entry'[e].owner = entry[e].owner
      /\ entry'[e].pid = entry[e].pid /\ entry'[e].ds = entry[e].ds
      /\ entry'[e].ram = entry[e].ram
  <2>1. [entry[e] EXCEPT !.refCount = k] \in EntryRecords
    BY <1>2 DEF EntryRecords
  <2> QED BY <1>2, <2>1 DEF EntryRecords
<1>4. \A d \in Entries : SameData(d) /\ entry'[d].ram = entry[d].ram
  BY <1>3 DEF SameData
<1>5. PoolKeeps({}, {e}) /\ (entry[e].refCount # -1 => PoolKeeps({}, {}))
  BY <1>3, <1>4 DEF PoolKeeps
<1>6. ListOK'
  <2>1. ASSUME NEW d \in Entries, d > Len(list) PROVE entry'[d] = FreeEntry
    <3>1. d \notin 1..Len(list)
      BY <1>1, <2>1, ListDomain, Sizes
    <3>2. d # e
      BY <1>1, <3>1 DEF ListOf
    <3> QED BY <1>1, <1>3, <2>1, <3>2
  <2> QED BY <2>1 DEF ListOK, ListOf, ToSet, IsInjective
<1>7. StateOK(PoolState)'
  <2> DEFINE s == [entry |-> entry', inner |-> inner, ram |-> nRAMUsage, open |-> open]
  <2>0. s.entry = entry' /\ s.inner = inner /\ s.ram = nRAMUsage /\ s.open = open
    OBVIOUS
  <2>1. s \in PoolStates
    <3>1. /\ nRAMUsage \in Nat /\ open \subseteq Handles
          /\ inner \in [Handles -> InnerProxies \cup {None}]
      BY <1>1, EntryTypes
    <3> QED BY <1>3, <3>1 DEF PoolStates
  <2>2. SetPoolState(s)
    BY DEF SetPoolState
  <2> HIDE DEF s
  <2>3. \A d \in Entries : /\ entry'[d].ds = entry[d].ds /\ entry'[d].ram = entry[d].ram
                           /\ entry'[d].file = entry[d].file
    BY <1>4 DEF SameData
  <2>4. OneEntryEach(s)
    <3>1. OneEntryEach(PoolState) /\ PoolState.entry = entry /\ PoolState.open = open
      BY <1>1 DEF StateOK, PoolState
    <3> QED BY <2>0, <2>3, <3>1 DEF OneEntryEach
  <2>5. InnerOK(s)
    <3>1. InnerOK(PoolState) /\ PoolState.entry = entry /\ PoolState.inner = inner
      BY <1>1 DEF StateOK, PoolState
    <3> QED BY <2>0, <2>3, <3>1 DEF InnerOK
  <2>6. RamOK(s)
    <3>1. RamUnits(entry') = RamUnits(entry)
      BY <2>3 DEF RamUnits
    <3>2. IsFiniteSet(RamUnits(entry)) /\ nRAMUsage = Cardinality(RamUnits(entry))
      BY <1>1, StateParts
    <3> QED BY <2>0, <3>1, <3>2 DEF RamOK
  <2>7. StateOK(s)
    BY <2>1, <2>4, <2>5, <2>6 DEF StateOK
  <2> QED BY <2>2, <2>7, StateNext
<1> QED BY <1>3, <1>4, <1>5, <1>6, <1>7

(* Using an entry again counts one more reference on it. *)
LEMMA RefHitStep ==
    ASSUME PoolInv, NEW t \in Threads, NEW x \in TopProxies \cup Handles,
           RefHit(t, x)
    PROVE  PoolInv'
<1>1. Types /\ ListOf(list) /\ StateOK(PoolState) /\ Counted
  BY DEF PoolInv, ListOK
<1>i. PICK i : i = Min(Matches(ParamsOf(x)))
  OBVIOUS
<1>e. PICK e : e = list[i]
  OBVIOUS
<1>2. /\ Calls(t, x) /\ Matches(ParamsOf(x)) # {}
      /\ list' = ToFront(i)
      /\ entry' = [entry EXCEPT ![e].refCount = @ + 1]
      /\ Returns(t, x, e, entry[e].ds)
      /\ UNCHANGED <<singleton, poolRefCount, nRAMUsage, hDLMutex, pid, inner,
                     open, prevented>>
  BY <1>i, <1>e DEF RefHit
<1>3. /\ prevented = None /\ singleton /\ pc[t] \in {"idle", "ref"}
      /\ CanUse(t, x)
      /\ Len(use[t]) \in {0, 1} /\ Depth(t) = Len(use[t])
      /\ \A u \in Threads \ {t} : x \notin ProxiesOf(u)
  BY <1>2, CallShape DEF CanUse
<1>4. /\ i \in DOMAIN list /\ e \in Entries
      /\ entry[e].refCount >= 0 /\ entry[e].file = ParamsOf(x).file
      /\ IF ParamsOf(x).shared
         THEN entry[e].pid = ParamsOf(x).pid /\ entry[e].owner = ParamsOf(x).owner
         ELSE entry[e].refCount = 0
  BY <1>1, <1>2, <1>i, <1>e, FirstMatch
<1>5. e \in ToSet(list)
  BY <1>1, <1>4, <1>e, PlaceInList
<1>6. ListOf(list') /\ Len(list') = Len(list)
  BY <1>1, <1>2, <1>4, ToFrontKeepsList
<1>k. PICK k \in Int : k = entry[e].refCount
  BY <1>1, <1>4, EntryTypes
<1>7. /\ ListOK' /\ StateOK(PoolState)' /\ PoolKeeps({}, {})
      /\ entry'[e].refCount = k + 1 /\ \A d \in Entries : SameData(d)
      /\ \A d \in Entries \ {e} : entry'[d] = entry[d]
  <2>0. PICK m \in Int : m = k + 1
    OBVIOUS
  <2>1. entry' = [entry EXCEPT ![e].refCount = m]
    BY <1>1, <1>2, <1>4, <1>k, <2>0, EntryTypes
  <2>2. entry[e].refCount # -1
    BY <1>4, <1>k
  <2>3. UNCHANGED <<nRAMUsage, inner, open>> /\ pid' = pid
    BY <1>2
  <2>4. /\ ListOK' /\ StateOK(PoolState)' /\ PoolKeeps({}, {})
        /\ entry'[e].refCount = m /\ \A d \in Entries : SameData(d)
        /\ \A d \in Entries \ {e} : entry'[d] = entry[d]
    BY <1>4, <1>5, <1>6, <2>1, <2>2, <2>3, CountChange
  <2> QED BY <2>0, <2>4
<1>8. /\ Openers(e) = {} /\ k = Cardinality(EntrySlots(e))
      /\ k = 0 => EntrySlots(e) = {}
  <2>1. k # -1
    BY <1>4, <1>k
  <2> QED BY <1>1, <1>4, <1>k, <2>1, RefCountCases
<1>n. PICK n \in {0, 1} : n = Len(use[t])
  BY <1>3
<1>9. Pushes(t, x, e, n)
  <2>1. entry'[e].ds = entry[e].ds
    BY <1>4, <1>7 DEF SameData
  <2>2. CASE entry[e].ds # None
    <3>1. entry[e].ds \in Handles
      BY <1>1, <1>4, <2>2, EntryTypes
    <3>2. /\ use' = [use EXCEPT ![t] = Append(@, [proxy |-> x, entry |-> e,
                                                  ds |-> entry[e].ds])]
          /\ pc' = [pc EXCEPT ![t] = "idle"] /\ call' = [call EXCEPT ![t] = NoCall]
      BY <1>2, <2>2 DEF Returns
    <3> QED BY <1>3, <1>4, <1>7, <1>n, <2>1, <3>1, <3>2, UsePushes
  <2>3. CASE entry[e].ds = None
    <3>1. /\ pc' = [pc EXCEPT ![t] = "release"] /\ use' = use
          /\ call' = [call EXCEPT ![t].proxy = x, ![t].entry = e]
      BY <1>2, <2>3 DEF Returns
    <3>2. /\ call[t] \in CallRecords /\ pc'[t] = "release" /\ Only(t)
          /\ pc' \in [Threads -> Places]
      BY <1>1, <3>1 DEF Types, Places, Only
    <3>3. /\ call'[t].proxy = x /\ call'[t].entry = e
          /\ call'[t].create = call[t].create
          /\ call' \in [Threads -> CallRecords]
      BY <1>1, <1>4, <3>1, <3>2 DEF Types, CallRecords
    <3>4. pc'[t] \in {"trim", "release"} /\ (pc'[t] = "trim" => entry'[e].ds # None)
      BY <3>2
    <3>5. PoolKeeps({}, {}) /\ CanUse(t, x) /\ Len(use[t]) = n /\ use' = use
      BY <1>3, <1>7, <1>n, <3>1
    <3> QED BY <1>4, <3>2, <3>3, <3>4, <3>5, CallPushes
  <2> QED BY <2>2, <2>3
<1>10. ThreadsOK' /\ Exclusive' /\ Counted' /\ SlotsMatch' /\ OneUnshared'
  <2>1. /\ entry'[e].file = ParamsOf(x).file
        /\ ParamsOf(x).shared => /\ entry'[e].pid = ParamsOf(x).pid
                                 /\ entry'[e].owner = ParamsOf(x).owner
    BY <1>4, <1>7 DEF SameData
  <2>2. ParamsOf(x).shared \/ EntrySlots(e) = {}
    BY <1>4, <1>8, <1>k
  <2>3. Openers(e) \subseteq {t} /\ pc[t] # "open"
    BY <1>3, <1>8
  <2>4. entry'[e].refCount = Cardinality(EntrySlots(e)) + 1
    BY <1>7, <1>8
  <2>5. \A d \in Entries \ {e} : entry'[d].refCount = entry[d].refCount
    BY <1>7
  <2> QED BY <1>2, <1>3, <1>4, <1>7, <1>9, <1>n, <2>1, <2>2, <2>3, <2>4, <2>5, PushStep
<1>11. Types'
  BY <1>1, <1>2, <1>9 DEF Types, Pushes
<1>12. ProxiesCounted'
  BY <1>2, <1>9, ProxiesCountedKept DEF Pushes
<1>13. Prevention' /\ PoolExists'
  BY <1>2, <1>3 DEF Prevention, PoolExists
<1> QED BY <1>7, <1>10, <1>11, <1>12, <1>13 DEF PoolInv

(* The proxy of a call. *)
LEMMA CallCanUse ==
    ASSUME PoolInv, NEW t \in Threads, pc[t] \notin {"idle", "unref"}
    PROVE  /\ CanUse(t, call[t].proxy) /\ call[t].proxy \in TopProxies \cup Handles
           /\ Len(use[t]) \in {0, 1} /\ call[t].proxy \in ProxiesOf(t)
           /\ prevented = None /\ singleton
           /\ \A u \in Threads \ {t} : call[t].proxy \notin ProxiesOf(u)
<1>1. Types /\ CallOK(t)
  BY DEF PoolInv, ThreadsOK
<1>2. CallsTop(t) \/ CallsInner(t)
  BY <1>1 DEF CallOK
<1>3. call[t].proxy \in ProxiesOf(t)
  BY DEF ProxiesOf
<1>4. \A u \in Threads \ {t} : call[t].proxy \notin ProxiesOf(u)
  BY <1>3 DEF PoolInv, Exclusive
<1>5. prevented = None /\ singleton
  BY NotPrevented, PoolIsThere
<1>6. Len(<<>>) = 0
  OBVIOUS
<1>7. CASE CallsTop(t)
  BY <1>3, <1>4, <1>5, <1>6, <1>7 DEF CallsTop, CanUse, Alive
<1>8. CASE CallsInner(t)
  <2>1. Len(use[t]) = 1 => use[t][1].ds \in Handles
    BY <1>1, UseTypes
  <2> QED BY <1>3, <1>4, <1>5, <1>8, <2>1 DEF CallsInner, CanUse
<1> QED BY <1>2, <1>7, <1>8

(* A call that returns its dataset turns its reference into a use. *)
LEMMA EndTrimStep ==
    ASSUME PoolInv, NEW t \in Threads, EndTrim(t)
    PROVE  PoolInv'
<1>1. Types /\ ThreadsOK /\ CallOK(t) /\ StateOK(PoolState)
  BY DEF PoolInv, ThreadsOK
<1>x. PICK x : x = call[t].proxy
  OBVIOUS
<1>e. PICK e : e = call[t].entry
  OBVIOUS
<1>h. PICK h : h = entry[e].ds
  OBVIOUS
<1>2. /\ pc[t] = "trim" /\ hDLMutex' = None /\ Returns(t, x, e, h) /\ SamePool
      /\ UNCHANGED <<singleton, poolRefCount, pid, prevented>>
  BY <1>x, <1>e, <1>h DEF EndTrim, SamePool
<1>3. e \in Entries /\ h # None
  BY <1>1, <1>2, <1>e, <1>h DEF CallOK
<1>4. h \in Handles /\ entry'[e].ds = h
  BY <1>1, <1>2, <1>3, <1>h, EntryTypes DEF SamePool
<1>5. /\ CanUse(t, x) /\ x \in TopProxies \cup Handles
      /\ Len(use[t]) \in {0, 1} /\ x \in ProxiesOf(t)
      /\ prevented = None /\ singleton
  BY <1>2, <1>x, CallCanUse
<1>n. PICK n \in {0, 1} : n = Len(use[t])
  BY <1>5
<1>6. PoolKeeps({}, {})
  BY <1>2, SamePoolKeeps
<1>7. /\ use' = [use EXCEPT ![t] = Append(@, [proxy |-> x, entry |-> e, ds |-> h])]
      /\ pc' = [pc EXCEPT ![t] = "idle"] /\ call' = [call EXCEPT ![t] = NoCall]
  BY <1>2, <1>3 DEF Returns
<1>8. Pushes(t, x, e, n)
  BY <1>3, <1>4, <1>5, <1>6, <1>7, <1>n, UsePushes
<1>9. /\ Only(t) /\ UseOK(t)' /\ CallOK(t)' /\ Depth(t)' = n + 1
      /\ SlotEntry(<<t, n + 1>>)' = e /\ SlotProxy(<<t, n + 1>>)' = x
      /\ \A i \in 1..n : SameSlot(<<t, i>>)
      /\ ProxiesOf(t)' \subseteq ProxiesOf(t) \cup {x}
      /\ pc'[t] # "open" /\ Creating' \subseteq Creating
      /\ use' \in [Threads -> Seq(UseRecords)] /\ pc' \in [Threads -> Places]
      /\ call' \in [Threads -> CallRecords]
  BY <1>8 DEF Pushes
<1>10. SameSlotsOf(t)
  <2>1. Depth(t) = n + 1
    BY <1>2, <1>n DEF Depth
  <2>2. SlotEntry(<<t, n + 1>>) = e /\ SlotProxy(<<t, n + 1>>) = x
    BY <1>1, <1>2, <1>e, <1>x, <1>n, SlotOfCall
  <2>3. SameSlot(<<t, n + 1>>)
    BY <1>9, <2>2 DEF SameSlot
  <2>4. \A i \in 1..2 : i <= n + 1 => i \in 1..n \/ i = n + 1
    OBVIOUS
  <2>5. \A i \in 1..2 : i <= n + 1 => SameSlot(<<t, i>>)
    BY <1>9, <2>3, <2>4
  <2> QED BY <1>9, <2>1, <2>5 DEF SameSlotsOf
<1>11. \A u \in Threads \ {t} : ProxiesOf(t)' \cap ProxiesOf(u) = {}
  BY <1>5, <1>9 DEF PoolInv, Exclusive
<1>12. ThreadsOK' /\ Exclusive' /\ Counted' /\ SlotsMatch' /\ OneUnshared'
  <2>1. \A d \in Entries : entry'[d].refCount = entry[d].refCount
    BY <1>2 DEF SamePool
  <2> QED BY <1>2, <1>6, <1>9, <1>10, <1>11, <2>1, QuietStep
<1>13. Types'
  BY <1>1, <1>2, <1>9 DEF Types
<1>14. ProxiesCounted'
  BY <1>2, <1>9, ProxiesCountedKept
<1>15. Prevention' /\ PoolExists'
  BY <1>2, <1>5 DEF Prevention, PoolExists
<1>16. ListOK' /\ StateOK(PoolState)'
  BY <1>2, SamePoolIsOK
<1> QED BY <1>12, <1>13, <1>14, <1>15, <1>16 DEF PoolInv

(* Dropping a reference. *)
LEMMA PopStep ==
    ASSUME PoolInv, NEW t \in Threads, NEW n \in {0, 1}, Depth(t) = n + 1,
           Depth(t)' = n, \A i \in 1..n : SameSlot(<<t, i>>),
           Only(t), UseOK(t)', CallOK(t)', ProxiesOf(t)' \subseteq ProxiesOf(t),
           PoolKeeps({}, {}), prevented' = prevented,
           pc[t] # "open", pc'[t] # "open",
           NEW e \in Entries, e = SlotEntry(<<t, n + 1>>),
           entry'[e].refCount = entry[e].refCount - 1,
           \A d \in Entries \ {e} : entry'[d] = entry[d]
    PROVE  ThreadsOK' /\ Exclusive' /\ Counted' /\ SlotsMatch' /\ OneUnshared'
<1>1. \A u \in Threads \ {t} : ProxiesOf(t)' \cap ProxiesOf(u) = {}
  BY DEF PoolInv, Exclusive
<1>2. /\ ThreadsOK' /\ Exclusive'
      /\ \A u \in Threads \ {t} : SameSlotsOf(u)
  BY <1>1, OneThread
<1>s. PICK s0 : s0 = <<t, n + 1>>
  OBVIOUS
<1>3. s0 \in Slots /\ Slots' = Slots \ {s0} /\ \A s \in Slots' : SameSlot(s)
  BY <1>2, <1>s, SlotsPop
<1>4. SlotsMatch' /\ OneUnshared'
  BY <1>3, MatchKept
<1>5. \A d : Openers(d)' = Openers(d)
  <2>1. \A u \in Threads : \/ pc'[u] # "open" /\ pc[u] # "open"
                           \/ pc'[u] = pc[u] /\ call'[u].entry = call[u].entry
    BY DEF Only
  <2> QED BY <2>1, OpenersSame
<1>6. ASSUME NEW d \in Entries, d # e PROVE CountedAt(d)'
  <2>1. EntrySlots(d)' = EntrySlots(d)
    BY <1>3, <1>6, <1>s, EntrySlotsPopped
  <2> QED BY <1>5, <1>6, <2>1, CountedSame DEF PoolInv
<1>7. CountedAt(e)'
  <2>1. EntrySlots(e)' = EntrySlots(e) \ {s0} /\ s0 \in EntrySlots(e)
    BY <1>3, <1>s, EntrySlotsPopped DEF EntrySlots
  <2>2. Openers(e) = {} /\ entry[e].refCount = Cardinality(EntrySlots(e))
    BY <2>1, RefCountCases DEF PoolInv
  <2>3. Cardinality(EntrySlots(e) \ {s0}) = Cardinality(EntrySlots(e)) - 1
    <3>1. PICK A : A = EntrySlots(e) /\ IsFiniteSet(A) /\ s0 \in A
      BY <2>1, FiniteSlots
    <3>2. Cardinality(A \ {s0}) = Cardinality(A) - 1
      BY <3>1, FS_RemoveElement
    <3> QED BY <3>1, <3>2
  <2> QED BY <1>5, <2>1, <2>2, <2>3 DEF CountedAt
<1>8. Counted'
  BY <1>6, <1>7, CountedNext
<1> QED BY <1>2, <1>4, <1>8

(* An entry with references is in the list. *)
LEMMA HeldInList ==
    ASSUME PoolInv, NEW s \in Slots, NEW e \in Entries, e = SlotEntry(s)
    PROVE  /\ e \in ToSet(list) /\ entry[e].refCount \in Int
           /\ entry[e].refCount > 0
<1>1. ListOf(list) /\ \A d \in Entries : d > Len(list) => entry[d] = FreeEntry
  BY DEF PoolInv, ListOK
<1>2. s \in EntrySlots(e)
  BY DEF EntrySlots
<1>3. entry[e].refCount \in Int /\ entry[e].refCount > 0
  BY <1>2, RefCountCases DEF PoolInv
<1>4. entry[e] # FreeEntry
  <2>1. FreeEntry.refCount = 0
    BY DEF FreeEntry
  <2> QED BY <1>3, <2>1
<1>5. e \in 1..Len(list)
  <2>1. ~(e > Len(list)) /\ e \in Nat /\ e >= 1
    BY <1>1, <1>4, Sizes DEF Entries
  <2>2. Len(list) \in Nat
    BY <1>1, ListDomain
  <2> QED BY <2>1, <2>2
<1> QED BY <1>1, <1>3, <1>5 DEF ListOf

(* A call that failed gives its reference back. *)
LEMMA ReleaseStep ==
    ASSUME PoolInv, NEW t \in Threads, Release(t)
    PROVE  PoolInv'
<1>1. Types /\ ThreadsOK /\ CallOK(t) /\ StateOK(PoolState) /\ ListOf(list)
  BY DEF PoolInv, ThreadsOK, ListOK
<1>e. PICK e : e = call[t].entry
  OBVIOUS
<1>2. /\ pc[t] = "release"
      /\ entry' = [entry EXCEPT ![e].refCount = @ - 1]
      /\ pc' = PcAfterFailure(t) /\ call' = CallAfterFailure(t)
      /\ UNCHANGED <<singleton, poolRefCount, list, nRAMUsage, hDLMutex, pid,
                     inner, open, use, prevented>>
  BY <1>e DEF Release
<1>3. e \in Entries
  BY <1>1, <1>2, <1>e DEF CallOK
<1>4. Len(use[t]) \in {0, 1} /\ prevented = None /\ singleton
  BY <1>2, CallCanUse
<1>n. PICK n \in {0, 1} : n = Len(use[t])
  BY <1>4
<1>5. Depth(t) = n + 1
  BY <1>2, <1>n DEF Depth
<1>6. <<t, n + 1>> \in Slots /\ SlotEntry(<<t, n + 1>>) = e
  BY <1>1, <1>2, <1>e, <1>n, SlotOfCall
<1>7. e \in ToSet(list) /\ entry[e].refCount \in Int /\ entry[e].refCount > 0
  BY <1>3, <1>6, HeldInList
<1>k. PICK k \in Int : k = entry[e].refCount - 1
  BY <1>7
<1>8. /\ ListOK' /\ StateOK(PoolState)' /\ PoolKeeps({}, {})
      /\ entry'[e].refCount = k /\ \A d \in Entries \ {e} : entry'[d] = entry[d]
  <2>1. entry' = [entry EXCEPT ![e].refCount = k]
    BY <1>1, <1>2, <1>3, <1>k, EntryTypes
  <2>2. entry[e].refCount # -1
    BY <1>7
  <2>3. UNCHANGED <<nRAMUsage, inner, open>> /\ pid' = pid /\ list' = list
    BY <1>2
  <2>4. ListOf(list') /\ Len(list') = Len(list)
    BY <1>1, <2>3
  <2> QED BY <1>3, <1>7, <2>1, <2>2, <2>3, <2>4, CountChange
<1>9. /\ Only(t) /\ UseOK(t)' /\ CallOK(t)'
      /\ ProxiesOf(t)' \subseteq ProxiesOf(t)
      /\ pc'[t] \in {"idle", "abandon"} /\ Creating' \subseteq Creating
      /\ pc' \in [Threads -> Places] /\ call' \in [Threads -> CallRecords]
  BY <1>2, <1>8, AfterFailure
<1>10. Depth(t)' = n /\ \A i \in 1..n : SameSlot(<<t, i>>)
  <2>1. pc'[t] \notin {"trim", "release"}
    BY <1>9
  <2>2. Depth(t)' = n
    BY <1>2, <1>n, <2>1 DEF Depth
  <2>3. ASSUME NEW i \in 1..n PROVE SameSlot(<<t, i>>)
    <3>1. i <= Len(use[t])
      BY <1>n
    <3> QED BY <1>2, <3>1 DEF SameSlot, SlotEntry, SlotProxy
  <2> QED BY <2>2, <2>3
<1>11. ThreadsOK' /\ Exclusive' /\ Counted' /\ SlotsMatch' /\ OneUnshared'
  <2>1. pc[t] # "open" /\ pc'[t] # "open"
    BY <1>2, <1>9
  <2>2. entry'[e].refCount = entry[e].refCount - 1
    BY <1>8, <1>k
  <2> QED BY <1>2, <1>3, <1>5, <1>6, <1>8, <1>9, <1>10, <2>1, <2>2, PopStep
<1>12. Types'
  BY <1>1, <1>2, <1>9 DEF Types
<1>13. ProxiesCounted'
  BY <1>2, <1>9, ProxiesCountedKept
<1>14. Prevention' /\ PoolExists'
  BY <1>2, <1>4 DEF Prevention, PoolExists
<1> QED BY <1>8, <1>11, <1>12, <1>13, <1>14 DEF PoolInv

(* UnrefDataset() gives back the reference of the last use. *)
LEMMA UnrefDatasetStep ==
    ASSUME PoolInv, NEW t \in Threads, UnrefDataset(t)
    PROVE  PoolInv'
<1>1. Types /\ ThreadsOK /\ UseOK(t) /\ CallOK(t) /\ StateOK(PoolState) /\ ListOf(list)
  BY DEF PoolInv, ThreadsOK, ListOK
<1>2. PICK m \in Nat : m = Len(use[t])
  BY <1>1, UseTypes
<1>3. m <= 2 /\ (use[t] = <<>> <=> m = 0) /\ use[t] \in Seq(UseRecords)
  BY <1>1, <1>2, UseTypes DEF UseOK
<1>4. pc[t] = "idle" /\ use[t] # <<>>
  BY DEF UnrefDataset, Idle
<1>n. PICK n \in {0, 1} : m = n + 1
  <2>1. m = 1 \/ m = 2
    BY <1>3, <1>4
  <2> QED BY <2>1
<1>e. PICK e : e = use[t][n + 1].entry
  OBVIOUS
<1>5. /\ entry' = [entry EXCEPT ![e].refCount = @ - 1]
      /\ use' = [use EXCEPT ![t] = Front(@)]
      /\ UNCHANGED <<singleton, poolRefCount, list, nRAMUsage, hDLMutex, pid,
                     inner, open, pc, call, prevented>>
  BY <1>2, <1>n, <1>e DEF UnrefDataset, Last
<1>6. n + 1 \in 1..Len(use[t])
  BY <1>2, <1>n
<1>7. /\ e \in Entries /\ <<t, n + 1>> \in Slots /\ SlotEntry(<<t, n + 1>>) = e
  BY <1>1, <1>6, <1>e, UseTypes, SlotOfUse
<1>8. e \in ToSet(list) /\ entry[e].refCount \in Int /\ entry[e].refCount > 0
  BY <1>7, HeldInList
<1>k. PICK k \in Int : k = entry[e].refCount - 1
  BY <1>8
<1>9. /\ ListOK' /\ StateOK(PoolState)' /\ PoolKeeps({}, {})
      /\ entry'[e].refCount = k /\ \A d \in Entries \ {e} : entry'[d] = entry[d]
      /\ \A d \in Entries : SameData(d)
  <2>1. entry' = [entry EXCEPT ![e].refCount = k]
    BY <1>1, <1>5, <1>7, <1>k, EntryTypes
  <2>2. entry[e].refCount # -1
    BY <1>8
  <2>3. UNCHANGED <<nRAMUsage, inner, open>> /\ pid' = pid /\ list' = list
    BY <1>5
  <2>4. ListOf(list') /\ Len(list') = Len(list)
    BY <1>1, <2>3
  <2> QED BY <1>7, <1>8, <2>1, <2>2, <2>3, <2>4, CountChange
<1>10. /\ use'[t] \in Seq(UseRecords) /\ Len(use'[t]) = n
       /\ \A i \in 1..n : use'[t][i] = use[t][i]
       /\ use' \in [Threads -> Seq(UseRecords)] /\ Only(t)
  <2>1. use' = [use EXCEPT ![t] = Front(use[t])]
    BY <1>1, <1>5 DEF Types
  <2>2. Front(use[t]) = SubSeq(use[t], 1, Len(use[t]) - 1) /\ Len(use[t]) - 1 = n
    BY <1>2, <1>n DEF Front
  <2>3. /\ Front(use[t]) \in Seq(UseRecords) /\ Len(Front(use[t])) = n
        /\ \A i \in 1..n : Front(use[t])[i] = use[t][i]
    <3>1. PICK q : q = use[t]
      OBVIOUS
    <3>2. \A i \in 1..n : q[i] \in UseRecords
      <4>1. q \in Seq(UseRecords) /\ Len(q) = n + 1
        BY <1>2, <1>3, <1>n, <3>1
      <4>2. \A i \in 1..n : i \in 1..Len(q)
        BY <4>1
      <4> QED BY <4>1, <4>2
    <3>3. /\ SubSeq(q, 1, n) \in Seq(UseRecords)
          /\ Len(SubSeq(q, 1, n)) = IF 1 <= n THEN n - 1 + 1 ELSE 0
          /\ \A i \in 1..(n - 1 + 1) : SubSeq(q, 1, n)[i] = q[1 + i - 1]
      BY <3>2, SubSeqProperties
    <3>4. n - 1 + 1 = n /\ (IF 1 <= n THEN n - 1 + 1 ELSE 0) = n
      OBVIOUS
    <3>5. \A i \in 1..n : 1 + i - 1 = i
      OBVIOUS
    <3> QED BY <2>2, <3>1, <3>3, <3>4, <3>5
  <2>4. use'[t] = Front(use[t]) /\ use' \in [Threads -> Seq(UseRecords)] /\ Only(t)
    BY <1>1, <1>5, <2>1, <2>3 DEF Types, Only
  <2> QED BY <2>3, <2>4
<1>11. UseOK(t)'
  <2>1. Alive' = Alive
    BY <1>5 DEF Alive
  <2>2. ASSUME use'[t] # <<>> PROVE use'[t][1].proxy \in Alive
    <3>1. n = 1
      BY <1>10, <2>2
    <3> QED BY <1>1, <1>4, <1>10, <3>1 DEF UseOK
  <2>3. ASSUME NEW i \in 1..n PROVE entry'[use'[t][i].entry].ds = use'[t][i].ds
    <3>1. i \in 1..Len(use[t])
      BY <1>2, <1>n
    <3>2. entry[use[t][i].entry].ds = use[t][i].ds /\ use[t][i].entry \in Entries
      BY <1>1, <3>1, UseTypes DEF UseOK
    <3> QED BY <1>9, <1>10, <3>2 DEF SameData
  <2>4. Len(use'[t]) <= 2 /\ Len(use'[t]) # 2
    BY <1>10
  <2> QED BY <1>10, <2>1, <2>2, <2>3, <2>4 DEF UseOK
<1>12. CallOK(t)'
  BY <1>1, <1>4, <1>5, IdleIsOK DEF CallOK
<1>13. ProxiesOf(t)' \subseteq ProxiesOf(t)
  <2>1. pc'[t] = "idle"
    BY <1>4, <1>5
  <2>2. ASSUME NEW i \in 1..n PROVE use'[t][i].proxy \in ProxiesOf(t)
    <3>1. i \in 1..Len(use[t])
      BY <1>2, <1>n
    <3> QED BY <1>10, <3>1 DEF ProxiesOf
  <2> QED BY <1>10, <2>1, <2>2 DEF ProxiesOf
<1>14. Depth(t) = n + 1 /\ Depth(t)' = n /\ \A i \in 1..n : SameSlot(<<t, i>>)
  <2>1. Depth(t) = n + 1 /\ Depth(t)' = n
    BY <1>2, <1>n, <1>4, <1>5, <1>10 DEF Depth
  <2>2. ASSUME NEW i \in 1..n PROVE SameSlot(<<t, i>>)
    <3>1. i <= Len(use[t]) /\ i <= Len(use'[t])
      BY <1>2, <1>n, <1>10
    <3> QED BY <1>10, <3>1 DEF SameSlot, SlotEntry, SlotProxy
  <2> QED BY <2>1, <2>2
<1>15. ThreadsOK' /\ Exclusive' /\ Counted' /\ SlotsMatch' /\ OneUnshared'
  <2>1. pc[t] # "open" /\ pc'[t] # "open"
    BY <1>4, <1>5
  <2>2. entry'[e].refCount = entry[e].refCount - 1
    BY <1>9, <1>k
  <2> QED BY <1>5, <1>7, <1>9, <1>10, <1>11, <1>12, <1>13, <1>14, <2>1, <2>2, PopStep
<1>16. Types'
  BY <1>1, <1>5, <1>10 DEF Types
<1>17. ProxiesCounted'
  <2>1. Creating' \subseteq Creating
    BY <1>5 DEF Creating
  <2> QED BY <1>5, <2>1, ProxiesCountedKept
<1>18. prevented = None /\ singleton
  BY <1>4, NotPrevented, PoolIsThere
<1>19. Prevention' /\ PoolExists'
  BY <1>5, <1>18 DEF Prevention, PoolExists
<1> QED BY <1>9, <1>15, <1>16, <1>17, <1>19 DEF PoolInv

-----------------------------------------------------------------------------
(* Opening a dataset *)

(* An entry without a dataset may be given to another file. *)
LEMMA ReservedIsOK ==
    ASSUME NEW s, StateOK(s), NEW e \in Entries, s.entry[e].ds = None,
           NEW r \in EntryRecords, r.ds = None, r.ram = 0
    PROVE  LET s2 == [s EXCEPT !.entry[e] = r]
           IN  /\ StateOK(s2) /\ s2.inner = s.inner /\ s2.open = s.open
               /\ s2.entry[e] = r
               /\ \A d \in Entries : d # e => s2.entry[d] = s.entry[d]
<1> DEFINE s2 == [s EXCEPT !.entry[e] = r]
<1>1. s \in PoolStates /\ OneEntryEach(s) /\ InnerOK(s) /\ RamOK(s)
  BY DEF StateOK
<1>2. s.entry[e].ram = 0
  BY <1>1 DEF OneEntryEach
<1>3. /\ s2.entry = [s.entry EXCEPT ![e] = r] /\ s2.inner = s.inner
      /\ s2.open = s.open /\ s2.ram = s.ram /\ s2 \in PoolStates
  BY <1>1 DEF PoolStates
<1>4. s2.entry[e] = r /\ \A d \in Entries : d # e => s2.entry[d] = s.entry[d]
  BY <1>1, <1>3 DEF PoolStates
<1> HIDE DEF s2
<1>5. OneEntryEach(s2)
  <2>1. ASSUME NEW d \in Entries
        PROVE  IF s2.entry[d].ds = None THEN s2.entry[d].ram = 0
               ELSE s2.entry[d].ds \in s2.open /\ s2.entry[d].file \in Files
    <3>1. CASE d = e
      BY <1>4, <3>1
    <3>2. CASE d # e
      BY <1>1, <1>3, <1>4, <3>2 DEF OneEntryEach
    <3> QED BY <3>1, <3>2
  <2>2. ASSUME NEW c \in Entries, NEW d \in Entries,
               s2.entry[c].ds = s2.entry[d].ds, s2.entry[d].ds # None
        PROVE  c = d
    <3>1. c # e /\ d # e
      BY <1>4, <2>2
    <3> QED BY <1>1, <1>4, <2>2, <3>1 DEF OneEntryEach
  <2>3. ASSUME NEW h \in s2.open PROVE \E d \in Entries : s2.entry[d].ds = h
    <3>1. PICK d \in Entries : s.entry[d].ds = h
      BY <1>1, <1>3 DEF OneEntryEach
    <3>2. h # None
      BY <1>1, <1>3, NamesAssumption DEF PoolStates
    <3>3. d # e
      BY <3>1, <3>2
    <3> QED BY <1>4, <3>1, <3>3
  <2> QED BY <2>1, <2>2, <2>3 DEF OneEntryEach
<1>6. InnerOK(s2)
  <2>1. ASSUME NEW h \in Handles, s2.inner[h] # None
        PROVE  /\ Kind[s2.inner[h].file] = "plain"
               /\ \E d \in Entries : s2.entry[d].ds = h /\ Kind[s2.entry[d].file] # "plain"
    <3>1. PICK d \in Entries : s.entry[d].ds = h /\ Kind[s.entry[d].file] # "plain"
      BY <1>1, <1>3, <2>1 DEF InnerOK
    <3>2. d # e
      BY <3>1, NamesAssumption
    <3>3. Kind[s2.inner[h].file] = "plain"
      BY <1>1, <1>3, <2>1 DEF InnerOK
    <3> QED BY <1>4, <3>1, <3>2, <3>3
  <2> QED BY <2>1 DEF InnerOK
<1>7. RamOK(s2)
  <2>1. \A d \in Entries : s2.entry[d].ram = s.entry[d].ram
    BY <1>2, <1>4
  <2>2. RamUnits(s2.entry) = RamUnits(s.entry)
    BY <2>1 DEF RamUnits
  <2> QED BY <1>1, <1>3, <2>2 DEF RamOK
<1>8. StateOK(s2)
  BY <1>3, <1>5, <1>6, <1>7 DEF StateOK
<1> QED BY <1>3, <1>4, <1>8 DEF s2

(* What a proxy passes to the pool. *)
LEMMA ParamTypes ==
    ASSUME PoolInv, NEW t \in Threads, NEW x, CanUse(t, x)
    PROVE  /\ ParamsOf(x).file \in Files /\ ParamsOf(x).owner \in Owners
           /\ ParamsOf(x).pid \in Threads
<1>1. Types /\ StateOK(PoolState)
  BY DEF PoolInv
<1>2. CASE x \in Alive
  <2>1. x \in TopProxies
    BY <1>2 DEF Alive
  <2>2. /\ ParamsOf(x).file = File[x] /\ ParamsOf(x).owner = Owner[x]
        /\ ParamsOf(x).pid = pid[x]
    BY <2>1 DEF ParamsOf
  <2>3. File[x] \in Files /\ pid[x] \in Threads
    BY <1>1, <1>2, <2>1, ProxiesAssumption DEF Types, Alive
  <2>4. Owner[x] \in Owners
    BY <2>1 DEF Owners
  <2> QED BY <2>2, <2>3, <2>4
<1>3. CASE Len(use[t]) = 1 /\ x = use[t][1].ds /\ inner[x] # None
  <2>1. x \in Handles
    BY <1>1, <1>3, UseTypes
  <2>2. inner[x] \in InnerProxies
    BY <1>1, <1>3, <2>1, EntryTypes
  <2>3. ParamsOf(x) = inner[x]
    BY <2>1, NamesAssumption DEF ParamsOf
  <2>4. /\ inner[x].file \in Files /\ inner[x].owner \in Handles \cup {None}
        /\ inner[x].pid \in Threads
    BY <2>2 DEF InnerProxies
  <2> QED BY <2>3, <2>4 DEF Owners
<1> QED BY <1>2, <1>3 DEF CanUse

(* Reserving an unused entry for a file to open preserves the invariant. *)
LEMMA ReserveStep ==
    ASSUME PoolInv, NEW t \in Threads, NEW x \in TopProxies \cup Handles,
           Calls(t, x), NEW s, NEW e \in Entries, StateOK(s),
           Closing(PoolState, s), s.entry[e].ds = None, entry[e].refCount = 0,
           ListOf(list'), Len(list) <= Len(list'), e \in ToSet(list'),
           Reserve(t, x, s, e)
    PROVE  PoolInv'
<1>1. Types /\ ThreadsOK /\ StateOK(PoolState) /\ ListOK /\ Counted
  BY DEF PoolInv
<1>2. /\ prevented = None /\ singleton /\ pc[t] \in {"idle", "ref"}
      /\ CanUse(t, x)
      /\ Len(use[t]) \in {0, 1} /\ Depth(t) = Len(use[t])
      /\ \A u \in Threads \ {t} : x \notin ProxiesOf(u)
  BY CallShape DEF CanUse
<1>a. PICK a : a = ParamsOf(x)
  OBVIOUS
<1>r. PICK r : r = [file |-> a.file, owner |-> a.owner, pid |-> a.pid,
                    ds |-> None, ram |-> 0, refCount |-> -1]
  OBVIOUS
<1>3. a.file \in Files /\ a.owner \in Owners /\ a.pid \in Threads \cup {None}
  BY <1>2, <1>a, ParamTypes
<1>4. /\ r \in EntryRecords /\ r.ds = None /\ r.ram = 0 /\ r.refCount = -1
      /\ r.file = a.file /\ r.owner = a.owner /\ r.pid = a.pid
  BY <1>3, <1>r DEF EntryRecords
<1>5. /\ SetPoolState([s EXCEPT !.entry[e] = r])
      /\ pc' = [pc EXCEPT ![t] = "open"]
      /\ call' = [call EXCEPT ![t].proxy = x, ![t].entry = e]
      /\ UNCHANGED <<singleton, poolRefCount, hDLMutex, pid, use, prevented>>
  BY <1>a, <1>r DEF Reserve
<1>z. PICK z : z = [s EXCEPT !.entry[e] = r]
  OBVIOUS
<1>6. /\ StateOK(z) /\ z.inner = s.inner /\ z.open = s.open /\ z.entry[e] = r
      /\ \A d \in Entries : d # e => z.entry[d] = s.entry[d]
  BY <1>4, <1>z, ReservedIsOK
<1>7. SetPoolState(z) /\ entry' = z.entry /\ inner' = z.inner
  BY <1>5, <1>z DEF SetPoolState
<1>8. StateOK(PoolState)'
  BY <1>6, <1>7, StateNext
<1>9. /\ PoolState.entry = entry /\ PoolState.inner = inner
      /\ \A d \in Entries :
            /\ s.entry[d].refCount = entry[d].refCount
            /\ entry[d].refCount # 0 \/ d \notin ToSet(list) => s.entry[d] = entry[d]
      /\ \A h \in s.open : s.inner[h] = inner[h]
  BY DEF Closing, PoolState
<1>10. /\ entry'[e] = r
       /\ \A d \in Entries : d # e => entry'[d] = s.entry[d]
       /\ \A d \in Entries : entry[d].refCount # 0 => entry'[d] = entry[d]
       /\ \A d \in Entries : d # e => entry'[d].refCount = entry[d].refCount
  BY <1>6, <1>7, <1>9
<1>11. PoolKeeps({}, {})
  <2>1. ASSUME NEW d \in Entries, entry[d].refCount > 0 PROVE SameData(d)
    <3>1. entry'[d] = entry[d]
      BY <1>10, <2>1
    <3> QED BY <3>1 DEF SameData
  <2>2. ASSUME NEW d \in Entries, entry[d].refCount = -1 PROVE entry'[d] = entry[d]
    BY <1>10, <2>2
  <2>3. ASSUME NEW h \in Handles, inner[h] # None, InUse(h) PROVE inner'[h] = inner[h]
    <3>1. PICK d \in Entries : entry[d].ds = h /\ entry[d].refCount > 0
      BY <2>3 DEF InUse
    <3>2. s.entry[d].ds = h
      BY <1>9, <3>1
    <3>3. h \in s.open
      BY <3>2, NamesAssumption DEF StateOK, OneEntryEach
    <3> QED BY <1>6, <1>7, <1>9, <3>3
  <2>4. \A p \in Alive : pid'[p] = pid[p]
    BY <1>5
  <2> QED BY <2>1, <2>2, <2>3, <2>4 DEF PoolKeeps
<1>12. ListOK'
  <2>1. ListOf(list) /\ \A d \in Entries : d > Len(list) => entry[d] = FreeEntry
    BY <1>1 DEF ListOK
  <2>2. PICK m \in Nat : m = Len(list) /\ ToSet(list) = 1..m
    BY <2>1, ListDomain DEF ListOf
  <2>3. PICK k \in Nat : k = Len(list') /\ ToSet(list') = 1..k /\ m <= k
    BY <2>2 DEF ListOf
  <2>4. ASSUME NEW d \in Entries, d > k PROVE entry'[d] = FreeEntry
    <3>1. d \in Nat
      BY Sizes
    <3>2. d # e /\ d > m /\ d \notin 1..m
      BY <2>3, <2>4, <3>1
    <3>3. s.entry[d] = entry[d] /\ entry[d] = FreeEntry
      BY <1>9, <2>1, <2>2, <3>2
    <3> QED BY <1>10, <3>2, <3>3
  <2> QED BY <2>3, <2>4 DEF ListOK, ListOf, ToSet, IsInjective
<1>13. /\ pc'[t] = "open" /\ use'[t] = use[t] /\ Only(t)
       /\ pc' \in [Threads -> Places]
  BY <1>1, <1>5 DEF Types, Places, Only
<1>14. /\ call'[t].proxy = x /\ call'[t].entry = e
       /\ call'[t].create = call[t].create
       /\ call' \in [Threads -> CallRecords]
  <2>1. call \in [Threads -> CallRecords] /\ call[t] \in CallRecords
    BY <1>1 DEF Types
  <2> QED BY <1>5, <2>1 DEF CallRecords
<1>15. UseOK(t)'
  BY <1>11, <1>13, UsesInOrder
<1>16. CallOK(t)'
  <2>1. /\ KeepsProxy(x)
        /\ use[t] = <<>> => x \in Alive'
        /\ use[t] # <<>> => x = use[t][1].ds /\ inner'[x] # None
    BY <1>2, <1>11, CanUseNext
  <2>2. CallsTop(t)' \/ CallsInner(t)'
    <3>1. Len(use[t]) = 1 => use[t] # <<>>
      <4>1. use[t] = <<>> <=> Len(use[t]) = 0
        BY <1>1, UseTypes
      <4> QED BY <4>1
    <3>2. CASE use[t] = <<>>
      <4>1. ~call[t].create
        BY <1>2, <3>1, <3>2 DEF CanUse
      <4> QED BY <1>13, <1>14, <2>1, <3>2, <4>1 DEF CallsTop
    <3>3. CASE use[t] # <<>>
      BY <1>2, <1>13, <1>14, <2>1, <3>3 DEF CallsInner, CanUse
    <3> QED BY <3>2, <3>3
  <2>3. ParamsOf(x)' = a
    BY <1>a, <2>1, SameParams
  <2>4. ParamsOf(call[t].proxy)' = a
    BY <1>14, <2>3 DEF ParamsOf
  <2>5. OpenOK(t)'
    BY <1>4, <1>10, <1>14, <2>4 DEF OpenOK
  <2> QED BY <1>13, <1>14, <2>2, <2>5 DEF CallOK
<1>17. \A u \in Threads \ {t} : ProxiesOf(t)' \cap ProxiesOf(u) = {}
  <2>1. ProxiesOf(t)' \subseteq ProxiesOf(t) \cup {x}
    BY <1>13, <1>14 DEF ProxiesOf
  <2>2. \A u \in Threads \ {t} : ProxiesOf(t) \cap ProxiesOf(u) = {}
    BY DEF PoolInv, Exclusive
  <2> QED BY <1>2, <2>1, <2>2
<1>18. /\ ThreadsOK' /\ Exclusive'
       /\ \A u \in Threads \ {t} : SameSlotsOf(u)
  BY <1>5, <1>11, <1>13, <1>15, <1>16, <1>17, OneThread
<1>19. SameSlotsOf(t)
  <2>1. Len(use[t]) \in Nat
    BY <1>1, UseTypes
  <2>2. pc[t] \notin {"trim", "release"} /\ pc'[t] \notin {"trim", "release"}
    BY <1>2, <1>13
  <2> QED BY <1>13, <2>1, <2>2, SlotsOfThread
<1>20. /\ SlotsMatch' /\ OneUnshared'
       /\ \A d \in Entries : EntrySlots(d)' = EntrySlots(d)
  <2>1. \A u \in Threads : SameSlotsOf(u)
    BY <1>18, <1>19
  <2> QED BY <1>11, <2>1, SlotsKept
<1>21. Counted'
  <2>1. ASSUME NEW d \in Entries, d # e PROVE CountedAt(d)'
    <3>1. Openers(d)' = Openers(d)
      <4>1. pc[t] # "open"
        BY <1>2
      <4> QED BY <1>13, <1>14, <2>1, <4>1 DEF Openers, Only
    <3> QED BY <1>1, <1>10, <1>20, <2>1, <3>1, CountedSame
  <2>2. CountedAt(e)'
    <3>1. Openers(e) = {} /\ EntrySlots(e) = {}
      BY <1>1, RefCountCases
    <3>2. Openers(e)' = {t}
      BY <1>13, <1>14, <3>1 DEF Openers, Only
    <3>3. EntrySlots(e)' = {} /\ entry'[e].refCount = -1
      BY <1>4, <1>10, <1>20, <3>1
    <3> QED BY <3>2, <3>3 DEF CountedAt
  <2> QED BY <2>1, <2>2, CountedNext
<1>22. Types'
  BY <1>1, <1>5, <1>13, <1>14 DEF Types
<1>23. ProxiesCounted'
  <2>1. Creating' \subseteq Creating
    BY <1>13, <1>14, CreatingKept
  <2> QED BY <1>5, <2>1, ProxiesCountedKept
<1>24. Prevention' /\ PoolExists'
  BY <1>2, <1>5 DEF Prevention, PoolExists
<1> QED BY <1>8, <1>12, <1>18, <1>20, <1>21, <1>22, <1>23, <1>24 DEF PoolInv

(* A new entry extends the list and is reserved. *)
LEMMA RefNewStep ==
    ASSUME PoolInv, NEW t \in Threads, NEW x \in TopProxies \cup Handles,
           RefNew(t, x)
    PROVE  PoolInv'
<1>1. /\ ListOf(list) /\ StateOK(PoolState) /\ PoolState.entry = entry
      /\ \A d \in Entries : d > Len(list) => entry[d] = FreeEntry
  BY DEF PoolInv, ListOK, PoolState
<1>n. PICK n \in Nat : n = Len(list)
  BY <1>1, ListDomain
<1>2. /\ Calls(t, x) /\ n < MaxSize /\ list' = <<n + 1>> \o list
      /\ Reserve(t, x, PoolState, n + 1)
  BY <1>n DEF RefNew
<1>3. ListOf(list') /\ Len(list') = n + 1 /\ n + 1 \in Entries
  BY <1>1, <1>2, <1>n, NewFrontKeepsList
<1>4. entry[n + 1] = FreeEntry
  BY <1>1, <1>3, <1>n
<1>5. entry[n + 1].ds = None /\ entry[n + 1].refCount = 0
  BY <1>4 DEF FreeEntry
<1>6. n + 1 \in ToSet(list') /\ Len(list) <= Len(list')
  BY <1>3, <1>n DEF ListOf
<1>e. PICK e \in Entries : e = n + 1
  BY <1>3
<1> QED BY <1>1, <1>2, <1>3, <1>5, <1>6, <1>e, ClosingNothing, ReserveStep

(* The evicted entry is unused, moves to the front and is reserved. *)
LEMMA RefEvictStep ==
    ASSUME PoolInv, NEW t \in Threads, NEW x \in TopProxies \cup Handles,
           RefEvict(t, x)
    PROVE  PoolInv'
<1>1. ListOf(list) /\ StateOK(PoolState) /\ PoolState.entry = entry
  BY DEF PoolInv, ListOK, PoolState
<1>i. PICK i : i = Max(Evictable(FALSE))
  OBVIOUS
<1>e. PICK e : e = list[i]
  OBVIOUS
<1>s. PICK s : s = Closed(PoolState, e)
  OBVIOUS
<1>2. /\ Calls(t, x) /\ Evictable(FALSE) # {} /\ list' = ToFront(i)
      /\ Reserve(t, x, s, e)
  BY <1>i, <1>e, <1>s DEF RefEvict
<1>3. /\ i \in DOMAIN list /\ e \in Entries /\ e \in ToSet(list)
      /\ entry[e].refCount = 0
  BY <1>1, <1>2, <1>i, <1>e, LastEvictable
<1>4. StateOK(s) /\ Closing(PoolState, s) /\ s.entry[e].ds = None
  BY <1>1, <1>3, <1>s, ClosedCloses
<1>5. ListOf(list') /\ Len(list') = Len(list)
  BY <1>1, <1>2, <1>3, ToFrontKeepsList
<1>6. e \in ToSet(list') /\ Len(list) <= Len(list')
  <2>1. Len(list) \in Nat
    BY <1>1, ListDomain
  <2>2. ToSet(list') = ToSet(list)
    BY <1>1, <1>5 DEF ListOf
  <2> QED BY <1>3, <1>5, <2>1, <2>2
<1> QED BY <1>2, <1>3, <1>4, <1>5, <1>6, ReserveStep

(* The entry that a thread is opening. *)
LEMMA OpenFacts ==
    ASSUME PoolInv, NEW t \in Threads, pc[t] = "open"
    PROVE  LET e == call[t].entry
               x == call[t].proxy IN
           /\ e \in Entries /\ e \in ToSet(list)
           /\ entry[e].file = ParamsOf(x).file /\ entry[e].owner = ParamsOf(x).owner
           /\ entry[e].pid = ParamsOf(x).pid
           /\ entry[e].ds = None /\ entry[e].refCount = -1 /\ entry[e].ram = 0
           /\ entry[e].file \in Files /\ entry[e].pid \in Threads
           /\ Openers(e) = {t} /\ EntrySlots(e) = {}
           /\ Depth(t) = Len(use[t])
<1>e. PICK e : e = call[t].entry
  OBVIOUS
<1>x. PICK x : x = call[t].proxy
  OBVIOUS
<1>1. /\ Types /\ CallOK(t) /\ StateOK(PoolState) /\ ListOf(list) /\ Counted
      /\ \A d \in Entries : d > Len(list) => entry[d] = FreeEntry
  BY DEF PoolInv, ThreadsOK, ListOK
<1>2. e \in Entries /\ OpenOK(t)
  BY <1>1, <1>e DEF CallOK
<1>3. /\ entry[e].file = ParamsOf(x).file /\ entry[e].owner = ParamsOf(x).owner
      /\ entry[e].pid = ParamsOf(x).pid
      /\ entry[e].ds = None /\ entry[e].refCount = -1
  BY <1>2, <1>e, <1>x DEF OpenOK
<1>4. entry[e].ram = 0
  BY <1>1, <1>2, <1>3, StateParts
<1>5. entry[e].file \in Files /\ entry[e].pid \in Threads
  <2>1. CanUse(t, x)
    BY <1>x, CallCanUse
  <2> QED BY <1>3, <2>1, ParamTypes
<1>6. Openers(e) = {t} /\ EntrySlots(e) = {}
  <2>1. t \in Openers(e)
    BY <1>e DEF Openers
  <2> QED BY <1>1, <1>2, <2>1 DEF Counted
<1>7. e \in ToSet(list)
  <2>1. FreeEntry.refCount = 0
    BY DEF FreeEntry
  <2>2. entry[e] # FreeEntry
    BY <1>3, <2>1
  <2>3. ~(e > Len(list)) /\ e \in Nat /\ e >= 1
    BY <1>1, <1>2, <2>2, Sizes DEF Entries
  <2>4. Len(list) \in Nat
    BY <1>1, ListDomain
  <2>5. e \in 1..Len(list)
    BY <2>3, <2>4
  <2> QED BY <1>1, <2>5 DEF ListOf
<1>8. Depth(t) = Len(use[t])
  <2>1. Len(use[t]) \in Nat
    BY <1>1, UseTypes
  <2> QED BY <2>1 DEF Depth
<1> QED BY <1>2, <1>3, <1>4, <1>5, <1>6, <1>7, <1>8, <1>e, <1>x

(* The rest of a step that ends the opening of a dataset. *)
LEMMA OpenedStep ==
    ASSUME PoolInv, NEW t \in Threads, pc[t] = "open", NEW e, e = call[t].entry,
           NEW x, x = call[t].proxy, NEW n \in {0, 1}, Len(use[t]) = n,
           PoolKeeps({}, {e}), Pushes(t, x, e, n), prevented' = prevented,
           entry'[e].file = entry[e].file, entry'[e].owner = entry[e].owner,
           entry'[e].pid = entry[e].pid, entry'[e].refCount = 1,
           \A d \in Entries \ {e} : entry'[d] = entry[d],
           UNCHANGED <<singleton, poolRefCount, pid>>,
           hDLMutex' \in Threads \cup {None}
    PROVE  /\ Types' /\ Prevention' /\ ThreadsOK' /\ Exclusive' /\ Counted'
           /\ SlotsMatch' /\ OneUnshared' /\ ProxiesCounted' /\ PoolExists'
<1>1. /\ e \in Entries
      /\ entry[e].file = ParamsOf(x).file /\ entry[e].owner = ParamsOf(x).owner
      /\ entry[e].pid = ParamsOf(x).pid
      /\ Openers(e) = {t} /\ EntrySlots(e) = {} /\ Depth(t) = Len(use[t])
  BY OpenFacts
<1>2. /\ CanUse(t, x) /\ x \in TopProxies \cup Handles
      /\ prevented = None /\ singleton
      /\ \A u \in Threads \ {t} : x \notin ProxiesOf(u)
  BY CallCanUse
<1>3. entry'[e].refCount = Cardinality(EntrySlots(e)) + 1
  <2>1. Cardinality({}) = 0
    BY FS_EmptySet
  <2>2. Cardinality(EntrySlots(e)) = 0
    BY <1>1, <2>1
  <2> QED BY <2>2
<1>4. ThreadsOK' /\ Exclusive' /\ Counted' /\ SlotsMatch' /\ OneUnshared'
  <2>1. {e} = {call[t].entry} /\ Depth(t) = n
    BY <1>1
  <2>2. /\ entry'[e].file = ParamsOf(x).file
        /\ ParamsOf(x).shared => /\ entry'[e].pid = ParamsOf(x).pid
                                 /\ entry'[e].owner = ParamsOf(x).owner
    BY <1>1
  <2>3. Openers(e) \subseteq {t} /\ (ParamsOf(x).shared \/ EntrySlots(e) = {})
    BY <1>1
  <2>4. \A d \in Entries \ {e} : entry'[d].refCount = entry[d].refCount
    OBVIOUS
  <2> QED BY <1>1, <1>2, <1>3, <2>1, <2>2, <2>3, <2>4, PushStep
<1>5. Types'
  <2>1. Types
    BY DEF PoolInv
  <2>2. /\ use' \in [Threads -> Seq(UseRecords)] /\ pc' \in [Threads -> Places]
        /\ call' \in [Threads -> CallRecords]
    BY DEF Pushes
  <2> QED BY <2>1, <2>2 DEF Types
<1>6. ProxiesCounted'
  BY ProxiesCountedKept DEF Pushes
<1>7. Prevention' /\ PoolExists'
  BY <1>2 DEF Prevention, PoolExists
<1> QED BY <1>4, <1>5, <1>6, <1>7

(* A file that does not open leaves an entry without a dataset. *)
LEMMA OpenFailsStep ==
    ASSUME PoolInv, NEW t \in Threads, OpenFails(t)
    PROVE  PoolInv'
<1>1. Types /\ StateOK(PoolState) /\ ListOf(list)
  BY DEF PoolInv, ListOK
<1>e. PICK e : e = call[t].entry
  OBVIOUS
<1>x. PICK x : x = call[t].proxy
  OBVIOUS
<1>2. /\ pc[t] = "open"
      /\ entry' = [entry EXCEPT ![e].refCount = 1]
      /\ Returns(t, x, e, None)
      /\ UNCHANGED <<singleton, poolRefCount, list, nRAMUsage, hDLMutex, pid,
                     inner, open, prevented>>
  BY <1>e, <1>x DEF OpenFails
<1>3. e \in Entries /\ e \in ToSet(list)
  BY <1>2, <1>e, OpenFacts
<1>4. /\ ListOK' /\ StateOK(PoolState)' /\ PoolKeeps({}, {e})
      /\ entry'[e].refCount = 1 /\ \A d \in Entries : SameData(d)
      /\ \A d \in Entries \ {e} : entry'[d] = entry[d]
  <2>1. UNCHANGED <<nRAMUsage, inner, open>> /\ pid' = pid
    BY <1>2
  <2>2. ListOf(list') /\ Len(list') = Len(list)
    BY <1>1, <1>2
  <2>3. 1 \in Int
    OBVIOUS
  <2> QED BY <1>2, <1>3, <2>1, <2>2, <2>3, CountChange
<1>5. CanUse(t, x) /\ x \in TopProxies \cup Handles /\ Len(use[t]) \in {0, 1}
  BY <1>2, <1>x, CallCanUse
<1>n. PICK n \in {0, 1} : Len(use[t]) = n
  BY <1>5
<1>6. Pushes(t, x, e, n)
  <2>1. /\ pc' = [pc EXCEPT ![t] = "release"] /\ use' = use
        /\ call' = [call EXCEPT ![t].proxy = x, ![t].entry = e]
    BY <1>2 DEF Returns
  <2>2. /\ call[t] \in CallRecords /\ pc'[t] = "release" /\ Only(t)
        /\ pc' \in [Threads -> Places]
    BY <1>1, <2>1 DEF Types, Places, Only
  <2>3. /\ call'[t].proxy = x /\ call'[t].entry = e
        /\ call'[t].create = call[t].create
        /\ call' \in [Threads -> CallRecords]
    BY <1>1, <1>3, <1>5, <2>1, <2>2 DEF Types, CallRecords
  <2>4. pc'[t] \in {"trim", "release"} /\ (pc'[t] = "trim" => entry'[e].ds # None)
    BY <2>2
  <2>5. PoolKeeps({}, {e}) /\ use' = use
    BY <1>4, <2>1
  <2> QED BY <1>3, <1>5, <1>n, <2>2, <2>3, <2>4, <2>5, CallPushes
<1>7. /\ Types' /\ Prevention' /\ ThreadsOK' /\ Exclusive' /\ Counted'
      /\ SlotsMatch' /\ OneUnshared' /\ ProxiesCounted' /\ PoolExists'
  <2>1. /\ entry'[e].file = entry[e].file /\ entry'[e].owner = entry[e].owner
        /\ entry'[e].pid = entry[e].pid
    BY <1>3, <1>4 DEF SameData
  <2>2. hDLMutex' \in Threads \cup {None}
    BY <1>1, <1>2 DEF Types
  <2> QED BY <1>2, <1>4, <1>6, <1>e, <1>x, <1>n, <2>1, <2>2, OpenedStep
<1> QED BY <1>4, <1>7 DEF PoolInv

(* There is a name for a new dataset. *)
LEMMA FreeHandleIsFree ==
    ASSUME StateOK(PoolState)
    PROVE  FreeHandle \in Handles /\ FreeHandle \notin open
<1>1. \E h \in Handles : h \notin open
  <2> SUFFICES ASSUME Handles \subseteq open PROVE FALSE
    OBVIOUS
  <2> DEFINE f == [e \in Entries |-> entry[e].ds]
             T == {entry[e].ds : e \in Entries}
  <2>1. f \in Surjection(Entries, T)
    BY DEF Surjection
  <2> HIDE DEF f
  <2>2. IsFiniteSet(T) /\ Cardinality(T) <= Cardinality(Entries)
    <3> HIDE DEF T
    <3> QED BY <2>1, Sizes, FS_Surjection
  <2>3. Handles \in SUBSET T
    BY StateParts
  <2>4. Cardinality(Handles) <= Cardinality(T)
    <3> HIDE DEF T
    <3> QED BY <2>2, <2>3, FS_Subset
  <2>5. PICK c \in Nat : c = Cardinality(T)
    <3> HIDE DEF T
    <3> QED BY <2>2, FS_CardinalityType
  <2>6. MaxSize + 1 <= c /\ c <= MaxSize /\ MaxSize \in Nat
    BY <2>2, <2>4, <2>5, Sizes
  <2> QED BY <2>6
<1> QED BY <1>1 DEF FreeHandle

(* The inner proxy of a dataset is one of a plain file. *)
LEMMA NewInnerIsOK ==
    ASSUME NEW e \in Entries, entry[e].file \in Files, entry[e].pid \in Threads
    PROVE  /\ NewInner(e) \in InnerProxies \cup {None}
           /\ NewInner(e) # None => /\ Kind[NewInner(e).file] = "plain"
                                    /\ Kind[entry[e].file] # "plain"
<1>1. CASE Kind[entry[e].file] = "prf"
  <2>1. PICK g \in Files : g = Source[entry[e].file] /\ Kind[g] = "plain"
    BY <1>1, ProxiesAssumption
  <2>2. PICK u \in Threads : u = entry[e].pid
    OBVIOUS
  <2>3. PICK r : r = [file |-> g, owner |-> None, pid |-> u, shared |-> FALSE]
    OBVIOUS
  <2>4. r \in InnerProxies /\ r.file = g
    BY <2>3 DEF InnerProxies
  <2>5. NewInner(e) = r
    BY <1>1, <2>1, <2>2, <2>3 DEF NewInner
  <2> QED BY <1>1, <2>1, <2>4, <2>5
<1>2. CASE Kind[entry[e].file] # "prf"
  BY <1>2 DEF NewInner
<1> QED BY <1>1, <1>2

(* The pool with a new dataset h in entry e. *)
WithDataset(f, e, h, r) ==
    [f EXCEPT ![e].ds = h, ![e].refCount = 1, ![e].ram = r]

OpenedState(e, h, r) ==
    [entry |-> WithDataset(entry, e, h, r),
     inner |-> [inner EXCEPT ![h] = NewInner(e)],
     ram   |-> nRAMUsage + r,
     open  |-> open \cup {h}]

(* What an entry holds once its file is open. *)
LEMMA OpenedEntry ==
    ASSUME NEW f \in [Entries -> EntryRecords], NEW e \in Entries,
           NEW h \in Handles, NEW r \in Nat, NEW g,
           g = WithDataset(f, e, h, r)
    PROVE  /\ g \in [Entries -> EntryRecords]
           /\ g[e].ds = h /\ g[e].refCount = 1 /\ g[e].ram = r
           /\ g[e].file = f[e].file /\ g[e].owner = f[e].owner
           /\ g[e].pid = f[e].pid
           /\ \A d \in Entries \ {e} : g[d] = f[d]
<1>1. PICK q : q = f[e] /\ q \in EntryRecords
  OBVIOUS
<1>2. PICK q1 : q1 = [q EXCEPT !.ds = h]
  OBVIOUS
<1>3. /\ q1 \in EntryRecords /\ q1.ds = h /\ q1.file = q.file
      /\ q1.owner = q.owner /\ q1.pid = q.pid
  BY <1>1, <1>2 DEF EntryRecords
<1>4. PICK q2 : q2 = [q1 EXCEPT !.refCount = 1]
  OBVIOUS
<1>5. /\ q2 \in EntryRecords /\ q2.ds = h /\ q2.file = q.file
      /\ q2.owner = q.owner /\ q2.pid = q.pid /\ q2.refCount = 1
  BY <1>3, <1>4 DEF EntryRecords
<1>6. PICK q3 : q3 = [q2 EXCEPT !.ram = r]
  OBVIOUS
<1>7. /\ q3 \in EntryRecords /\ q3.ds = h /\ q3.file = q.file
      /\ q3.owner = q.owner /\ q3.pid = q.pid /\ q3.refCount = 1 /\ q3.ram = r
  BY <1>5, <1>6 DEF EntryRecords
<1>8. g = [f EXCEPT ![e] = q3]
  BY <1>1, <1>2, <1>4, <1>6 DEF WithDataset
<1>9. g[e] = q3 /\ \A d \in Entries \ {e} : g[d] = f[d]
  BY <1>8
<1>10. g \in [Entries -> EntryRecords]
  BY <1>7, <1>8
<1> QED BY <1>1, <1>7, <1>9, <1>10

(* The pool once a file is open. *)
LEMMA OpenedIsOK ==
    ASSUME StateOK(PoolState), NEW e \in Entries, entry[e].ds = None,
           entry[e].file \in Files, entry[e].pid \in Threads,
           NEW r \in Nat, NEW h \in Handles, h \notin open,
           NEW s, s = OpenedState(e, h, r)
    PROVE  /\ StateOK(s)
           /\ s.entry[e].ds = h /\ s.entry[e].refCount = 1
           /\ s.entry[e].file = entry[e].file /\ s.entry[e].owner = entry[e].owner
           /\ s.entry[e].pid = entry[e].pid
           /\ \A d \in Entries \ {e} : s.entry[d] = entry[d]
           /\ \A k \in Handles \ {h} : s.inner[k] = inner[k]
<1>1. /\ entry \in [Entries -> EntryRecords]
      /\ inner \in [Handles -> InnerProxies \cup {None}]
      /\ nRAMUsage \in Nat /\ open \subseteq Handles
  BY EntryTypes
<1>f. PICK f : f = WithDataset(entry, e, h, r)
  OBVIOUS
<1>g. PICK g : g = [inner EXCEPT ![h] = NewInner(e)]
  OBVIOUS
<1>2. /\ f \in [Entries -> EntryRecords]
      /\ f[e].ds = h /\ f[e].refCount = 1 /\ f[e].ram = r
      /\ f[e].file = entry[e].file /\ f[e].owner = entry[e].owner
      /\ f[e].pid = entry[e].pid
      /\ \A d \in Entries \ {e} : f[d] = entry[d]
  BY <1>1, <1>f, OpenedEntry
<1>3. /\ g \in [Handles -> InnerProxies \cup {None}]
      /\ g[h] = NewInner(e) /\ \A k \in Handles \ {h} : g[k] = inner[k]
      /\ NewInner(e) # None => /\ Kind[NewInner(e).file] = "plain"
                               /\ Kind[entry[e].file] # "plain"
  BY <1>1, <1>g, NewInnerIsOK
<1>4. /\ \A d \in Entries : IF entry[d].ds = None THEN entry[d].ram = 0
                            ELSE entry[d].ds \in open /\ entry[d].file \in Files
      /\ \A c, d \in Entries :
            entry[c].ds = entry[d].ds /\ entry[d].ds # None => c = d
      /\ \A k \in open : \E d \in Entries : entry[d].ds = k
      /\ \A k \in Handles : inner[k] # None =>
            /\ Kind[inner[k].file] = "plain"
            /\ \E d \in Entries : entry[d].ds = k /\ Kind[entry[d].file] # "plain"
      /\ IsFiniteSet(RamUnits(entry)) /\ nRAMUsage = Cardinality(RamUnits(entry))
  BY StateParts
<1>m. PICK m \in Nat : m = nRAMUsage + r
  BY <1>1
<1>o. PICK o : o = open \cup {h} /\ o \subseteq Handles
  <2>1. open \cup {h} \subseteq Handles
    BY <1>1
  <2> QED BY <2>1
<1>s. s = [entry |-> f, inner |-> g, ram |-> m, open |-> o]
  BY <1>f, <1>g, <1>m, <1>o DEF OpenedState
<1>5. s.entry = f /\ s.inner = g /\ s.ram = m /\ s.open = o
  BY <1>s
<1>6. s \in PoolStates
  BY <1>2, <1>3, <1>o, <1>s DEF PoolStates
<1>8. OneEntryEach(s)
  <2>1. ASSUME NEW d \in Entries
        PROVE  IF f[d].ds = None THEN f[d].ram = 0
               ELSE f[d].ds \in o /\ f[d].file \in Files
    <3>1. CASE d = e
      BY <1>2, <1>o, <3>1, NamesAssumption
    <3>2. CASE d # e
      BY <1>2, <1>4, <1>o, <3>2
    <3> QED BY <3>1, <3>2
  <2>2. ASSUME NEW d \in Entries, d # e PROVE f[d].ds # h
    <3>1. f[d].ds = entry[d].ds
      BY <1>2, <2>2
    <3> QED BY <1>4, <3>1, NamesAssumption
  <2>3. ASSUME NEW c \in Entries, NEW d \in Entries,
               f[c].ds = f[d].ds, f[d].ds # None
        PROVE  c = d
    <3>1. CASE c = e \/ d = e
      BY <1>2, <2>2, <2>3, <3>1
    <3>2. CASE c # e /\ d # e
      BY <1>2, <1>4, <2>3, <3>2
    <3> QED BY <3>1, <3>2
  <2>4. ASSUME NEW k \in o PROVE \E d \in Entries : f[d].ds = k
    <3>1. CASE k = h
      BY <1>2, <3>1
    <3>2. CASE k # h
      <4>1. PICK d \in Entries : entry[d].ds = k
        BY <1>4, <1>o, <3>2
      <4>2. d # e
        BY <1>o, <4>1, NamesAssumption
      <4> QED BY <1>2, <4>1, <4>2
    <3> QED BY <3>1, <3>2
  <2> QED BY <1>5, <2>1, <2>3, <2>4 DEF OneEntryEach
<1>9. InnerOK(s)
  <2>1. ASSUME NEW k \in Handles, g[k] # None
        PROVE  /\ Kind[g[k].file] = "plain"
               /\ \E d \in Entries : f[d].ds = k /\ Kind[f[d].file] # "plain"
    <3>1. CASE k = h
      BY <1>2, <1>3, <2>1, <3>1
    <3>2. CASE k # h
      <4>1. g[k] = inner[k]
        BY <1>3, <3>2
      <4>2. PICK d \in Entries : entry[d].ds = k /\ Kind[entry[d].file] # "plain"
        BY <1>4, <2>1, <4>1
      <4>3. d # e
        BY <4>2, NamesAssumption
      <4>4. f[d] = entry[d] /\ Kind[inner[k].file] = "plain"
        BY <1>2, <1>4, <2>1, <4>1, <4>3
      <4> QED BY <4>1, <4>2, <4>4
    <3> QED BY <3>1, <3>2
  <2> QED BY <1>5, <2>1 DEF InnerOK
<1>10. RamOK(s)
  <2>1. entry[e].ram = 0 /\ f[e].ram \in Nat
    BY <1>2, <1>4
  <2>2. \A d \in Entries : d # e => f[d].ram = entry[d].ram
    BY <1>2
  <2>3. /\ IsFiniteSet(RamUnits(f)) <=> IsFiniteSet(RamUnits(entry))
        /\ IsFiniteSet(RamUnits(entry)) =>
              Cardinality(RamUnits(f)) = Cardinality(RamUnits(entry)) + f[e].ram
    BY <2>1, <2>2, RamOfOneEntry
  <2>4. IsFiniteSet(RamUnits(f)) /\ Cardinality(RamUnits(f)) = m
    BY <1>2, <1>4, <1>m, <2>3
  <2> QED BY <1>5, <2>4 DEF RamOK
<1>11. StateOK(s)
  BY <1>6, <1>8, <1>9, <1>10 DEF StateOK
<1> QED BY <1>2, <1>3, <1>5, <1>11

(* A file that opens gives its entry a dataset of its own. *)
LEMMA OpenSucceedsStep ==
    ASSUME PoolInv, NEW t \in Threads, OpenSucceeds(t)
    PROVE  PoolInv'
<1>1. /\ Types /\ StateOK(PoolState) /\ ListOf(list)
      /\ \A d \in Entries : d > Len(list) => entry[d] = FreeEntry
  BY DEF PoolInv, ListOK
<1>e. PICK e : e = call[t].entry
  OBVIOUS
<1>x. PICK x : x = call[t].proxy
  OBVIOUS
<1>h. PICK h : h = FreeHandle
  OBVIOUS
<1>r. PICK r : r = Ram[entry[e].file]
  OBVIOUS
<1>2. /\ pc[t] = "open"
      /\ entry' = [entry EXCEPT ![e].ds = h, ![e].refCount = 1, ![e].ram = r]
      /\ nRAMUsage' = nRAMUsage + r
      /\ open' = open \cup {h}
      /\ inner' = [inner EXCEPT ![h] = NewInner(e)]
      /\ UNCHANGED <<singleton, poolRefCount, list, pid, prevented>>
  BY <1>e, <1>x, <1>h, <1>r DEF OpenSucceeds
<1>3. \/ /\ hDLMutex' = t /\ pc' = [pc EXCEPT ![t] = "trim"]
         /\ UNCHANGED <<call, use>>
      \/ Returns(t, x, e, h) /\ UNCHANGED hDLMutex
  BY <1>e, <1>x, <1>h, <1>r DEF OpenSucceeds
<1>4. /\ e \in Entries /\ e \in ToSet(list) /\ entry[e].ds = None
      /\ entry[e].refCount = -1
      /\ entry[e].file \in Files /\ entry[e].pid \in Threads
  BY <1>2, <1>e, OpenFacts
<1>5. h \in Handles /\ h \notin open /\ h # None
  BY <1>1, <1>h, FreeHandleIsFree, NamesAssumption
<1>6. r \in Nat
  BY <1>4, <1>r, ProxiesAssumption
<1>7. /\ StateOK(PoolState)'
      /\ entry'[e].ds = h /\ entry'[e].refCount = 1
      /\ entry'[e].file = entry[e].file /\ entry'[e].owner = entry[e].owner
      /\ entry'[e].pid = entry[e].pid
      /\ \A d \in Entries \ {e} : entry'[d] = entry[d]
      /\ \A k \in Handles \ {h} : inner'[k] = inner[k]
  <2>1. PICK s : s = OpenedState(e, h, r)
    OBVIOUS
  <2>2. /\ StateOK(s)
        /\ s.entry[e].ds = h /\ s.entry[e].refCount = 1
        /\ s.entry[e].file = entry[e].file /\ s.entry[e].owner = entry[e].owner
        /\ s.entry[e].pid = entry[e].pid
        /\ \A d \in Entries \ {e} : s.entry[d] = entry[d]
        /\ \A k \in Handles \ {h} : s.inner[k] = inner[k]
    BY <1>1, <1>4, <1>5, <1>6, <2>1, OpenedIsOK
  <2>3. entry' = s.entry /\ inner' = s.inner /\ nRAMUsage' = s.ram /\ open' = s.open
    BY <1>2, <2>1 DEF OpenedState, WithDataset
  <2>4. StateOK(PoolState)'
    BY <2>2, <2>3, StateNext DEF SetPoolState
  <2> QED BY <2>2, <2>3, <2>4
<1>8. ListOK'
  <2>1. ASSUME NEW d \in Entries, d > Len(list) PROVE entry'[d] = FreeEntry
    <3>1. d \notin 1..Len(list)
      BY <1>1, <2>1, ListDomain, Sizes
    <3>2. d # e
      BY <1>1, <1>4, <3>1 DEF ListOf
    <3> QED BY <1>1, <1>7, <2>1, <3>2
  <2> QED BY <1>1, <1>2, <2>1 DEF ListOK, ListOf, ToSet, IsInjective
<1>9. PoolKeeps({}, {e})
  <2>1. ASSUME NEW d \in Entries, entry[d].refCount > 0 PROVE SameData(d)
    <3>1. d # e
      BY <1>4, <2>1
    <3> QED BY <1>7, <3>1 DEF SameData
  <2>2. \A d \in Entries \ {e} : entry'[d] = entry[d]
    BY <1>7
  <2>3. ASSUME NEW k \in Handles, inner[k] # None, InUse(k) PROVE inner'[k] = inner[k]
    <3>1. PICK d \in Entries : entry[d].ds = k
      BY <2>3 DEF InUse
    <3>2. k \in open
      BY <1>1, <3>1, StateParts, NamesAssumption
    <3> QED BY <1>5, <1>7, <3>2
  <2>4. \A p \in Alive : pid'[p] = pid[p]
    BY <1>2
  <2> QED BY <2>1, <2>2, <2>3, <2>4 DEF PoolKeeps
<1>10. CanUse(t, x) /\ x \in TopProxies \cup Handles /\ Len(use[t]) \in {0, 1}
  BY <1>2, <1>x, CallCanUse
<1>n. PICK n \in {0, 1} : Len(use[t]) = n
  BY <1>10
<1>11. Pushes(t, x, e, n) /\ hDLMutex' \in Threads \cup {None}
  <2>1. CASE Returns(t, x, e, h) /\ UNCHANGED hDLMutex
    <3>1. /\ use' = [use EXCEPT ![t] = Append(@, [proxy |-> x, entry |-> e,
                                                  ds |-> h])]
          /\ pc' = [pc EXCEPT ![t] = "idle"] /\ call' = [call EXCEPT ![t] = NoCall]
      BY <1>5, <2>1 DEF Returns
    <3>2. Pushes(t, x, e, n)
      BY <1>4, <1>5, <1>7, <1>9, <1>10, <1>n, <3>1, UsePushes
    <3> QED BY <1>1, <2>1, <3>2 DEF Types
  <2>2. CASE /\ hDLMutex' = t /\ pc' = [pc EXCEPT ![t] = "trim"]
             /\ UNCHANGED <<call, use>>
    <3>1. /\ pc'[t] = "trim" /\ Only(t) /\ pc' \in [Threads -> Places]
          /\ call' \in [Threads -> CallRecords]
      BY <1>1, <2>2 DEF Types, Places, Only
    <3>2. /\ call'[t].proxy = x /\ call'[t].entry = e
          /\ call'[t].create = call[t].create
      BY <1>e, <1>x, <2>2
    <3>3. pc'[t] \in {"trim", "release"} /\ (pc'[t] = "trim" => entry'[e].ds # None)
      BY <1>5, <1>7, <3>1
    <3>4. use' = use
      BY <2>2
    <3>5. Pushes(t, x, e, n)
      BY <1>4, <1>9, <1>10, <1>n, <3>1, <3>2, <3>3, <3>4, CallPushes
    <3> QED BY <2>2, <3>5
  <2> QED BY <1>3, <2>1, <2>2
<1>12. /\ Types' /\ Prevention' /\ ThreadsOK' /\ Exclusive' /\ Counted'
       /\ SlotsMatch' /\ OneUnshared' /\ ProxiesCounted' /\ PoolExists'
  <2>1. /\ pc[t] = "open" /\ prevented' = prevented
        /\ UNCHANGED <<singleton, poolRefCount, pid>>
    BY <1>2
  <2>2. /\ entry'[e].file = entry[e].file /\ entry'[e].owner = entry[e].owner
        /\ entry'[e].pid = entry[e].pid /\ entry'[e].refCount = 1
        /\ \A d \in Entries \ {e} : entry'[d] = entry[d]
    BY <1>7
  <2> QED BY <1>9, <1>11, <1>e, <1>x, <1>n, <2>1, <2>2, OpenedStep
<1> QED BY <1>7, <1>8, <1>12 DEF PoolInv

-----------------------------------------------------------------------------
(* The theorems *)

(* Every step preserves the invariant. *)
LEMMA PoolStep == PoolInv /\ [Next]_vars => PoolInv'
<1> SUFFICES ASSUME PoolInv, [Next]_vars PROVE PoolInv'
  OBVIOUS
<1>1. CASE UNCHANGED vars
  <2>1. /\ SamePool /\ UNCHANGED <<use, pc, call, pid>>
        /\ UNCHANGED <<singleton, poolRefCount, hDLMutex, prevented>>
    BY <1>1 DEF vars, SamePool
  <2>2. Types'
    BY <2>1 DEF PoolInv, Types
  <2>3. ListOK' /\ StateOK(PoolState)'
    BY <2>1, SamePoolIsOK
  <2>4. ProxiesCounted' /\ Prevention' /\ PoolExists'
    <3>1. Creating' \subseteq Creating
      BY <2>1 DEF Creating
    <3>2. ProxiesCounted'
      BY <2>1, <3>1, ProxiesCountedKept
    <3>3. Prevention'
      BY <2>1 DEF PoolInv, Prevention
    <3>4. PoolExists'
      BY <2>1 DEF PoolInv, PoolExists, NothingLeft, Alive, SamePool
    <3> QED BY <3>2, <3>3, <3>4
  <2>5. PoolKeeps({}, {}) /\ \A e \in Entries : entry'[e].refCount = entry[e].refCount
    BY <2>1, SamePoolKeeps DEF SamePool
  <2>6. ThreadsOK' /\ Exclusive' /\ Counted' /\ SlotsMatch' /\ OneUnshared'
    <3>1. CASE Threads = {}
      <4>1. ThreadsOK' /\ Exclusive'
        BY <3>1 DEF ThreadsOK, Exclusive
      <4>2. \A t \in Threads : SameSlotsOf(t)
        BY <3>1
      <4>3. /\ SlotsMatch' /\ OneUnshared'
            /\ \A e \in Entries : EntrySlots(e)' = EntrySlots(e)
        BY <2>5, <4>2, SlotsKept
      <4>4. Counted'
        BY <2>1, <2>5, <4>3, CountsKept
      <4> QED BY <4>1, <4>3, <4>4
    <3>2. CASE Threads # {}
      BY <2>1, <2>5, <3>2, NoThreadMoves
    <3> QED BY <3>1, <3>2
  <2> QED BY <2>2, <2>3, <2>4, <2>6 DEF PoolInv
<1>2. CASE Next
  <2>1. PICK t \in Threads :
          \/ \E p \in TopProxies : NewProxy(t, p)
          \/ CreateSource(t)
          \/ \E x \in TopProxies \cup Handles :
                \/ DeleteProxy(t, x) \/ RefHit(t, x) \/ RefNew(t, x)
                \/ RefEvict(t, x) \/ RefTooMany(t, x)
          \/ AbandonSource(t) \/ Unref(t) \/ OpenSucceeds(t) \/ OpenFails(t)
          \/ Trim(t) \/ EndTrim(t) \/ Release(t) \/ UnrefDataset(t)
          \/ PreventDestroy(t) \/ ForceDestroy(t)
    BY <1>2 DEF Next
  <2>2. CASE \E p \in TopProxies : NewProxy(t, p)
    BY <2>2, NewProxyStep
  <2>3. CASE CreateSource(t)
    BY <2>3, CreateSourceStep
  <2>4. CASE \E x \in TopProxies \cup Handles :
                \/ DeleteProxy(t, x) \/ RefHit(t, x) \/ RefNew(t, x)
                \/ RefEvict(t, x) \/ RefTooMany(t, x)
    <3>1. PICK x \in TopProxies \cup Handles :
                \/ DeleteProxy(t, x) \/ RefHit(t, x) \/ RefNew(t, x)
                \/ RefEvict(t, x) \/ RefTooMany(t, x)
      BY <2>4
    <3> QED BY <3>1, DeleteProxyStep, RefHitStep, RefNewStep, RefEvictStep,
               RefTooManyStep
  <2>5. CASE AbandonSource(t)
    BY <2>5, AbandonSourceStep
  <2>6. CASE Unref(t)
    BY <2>6, UnrefDeletesPool, UnrefKeepsPool
  <2>7. CASE OpenSucceeds(t)
    BY <2>7, OpenSucceedsStep
  <2>8. CASE OpenFails(t)
    BY <2>8, OpenFailsStep
  <2>9. CASE Trim(t)
    BY <2>9, TrimStep
  <2>10. CASE EndTrim(t)
    BY <2>10, EndTrimStep
  <2>11. CASE Release(t)
    BY <2>11, ReleaseStep
  <2>12. CASE UnrefDataset(t)
    BY <2>12, UnrefDatasetStep
  <2>13. CASE PreventDestroy(t)
    BY <2>13, PreventDestroyStep
  <2>14. CASE ForceDestroy(t)
    BY <2>14, ForceDestroyStep
  <2> QED BY <2>1, <2>2, <2>3, <2>4, <2>5, <2>6, <2>7, <2>8, <2>9, <2>10, <2>11,
             <2>12, <2>13, <2>14
<1> QED BY <1>1, <1>2

(* PoolInv holds in every reachable state: it is the inductive invariant   *)
(* of _RefDataset(), _CloseDatasetIfZeroRefCount(), Ref() and Unref().     *)
THEOREM PoolInvariant == Spec => []PoolInv
<1>1. Init => PoolInv
  BY InitIsOK
<1>2. PoolInv /\ [Next]_vars => PoolInv'
  BY PoolStep
<1> QED BY <1>1, <1>2, PTL DEF Spec

(* The slots of an entry are its uses and its calls. *)
LEMMA SlotsAreHolders ==
    ASSUME PoolInv, NEW e \in Entries,
           NEW H, H = {u \in Uses : UseAt(u).entry = e},
           NEW C, C = {t \in Threads : pc[t] \in {"trim", "release"} /\ call[t].entry = e}
    PROVE  /\ IsFiniteSet(H) /\ IsFiniteSet(C)
           /\ Cardinality(EntrySlots(e)) = Cardinality(H) + Cardinality(C)
           /\ H \subseteq EntrySlots(e)
<1>1. Types /\ ThreadsOK
  BY DEF PoolInv
<1> DEFINE f == [t \in C |-> <<t, Len(use[t]) + 1>>]
           D == {<<t, Len(use[t]) + 1>> : t \in C}
<1>2. D \subseteq EntrySlots(e)
  <2>1. ASSUME NEW t \in C PROVE <<t, Len(use[t]) + 1>> \in EntrySlots(e)
    <3>1. t \in Threads /\ pc[t] \in {"trim", "release"} /\ call[t].entry = e
      OBVIOUS
    <3> QED BY <1>1, <3>1, SlotOfCall DEF EntrySlots
  <2> QED BY <2>1
<1>3. ASSUME NEW u \in H
      PROVE  /\ u \in EntrySlots(e) /\ u[1] \in Threads /\ u[2] <= Len(use[u[1]])
             /\ u = <<u[1], u[2]>>
  <2>1. /\ u[1] \in Threads /\ u[2] \in 1..2 /\ u[2] <= Len(use[u[1]])
        /\ u = <<u[1], u[2]>> /\ use[u[1]][u[2]].entry = e
    BY DEF Uses, UseAt
  <2>2. u[2] \in 1..Len(use[u[1]])
    <3>1. PICK m \in Nat : m = Len(use[u[1]])
      BY <1>1, <2>1, UseTypes
    <3> QED BY <2>1, <3>1
  <2>3. <<u[1], u[2]>> \in Slots /\ SlotEntry(<<u[1], u[2]>>) = e
    BY <1>1, <2>1, <2>2, SlotOfUse
  <2> QED BY <2>1, <2>3 DEF EntrySlots
<1>4. ASSUME NEW s \in EntrySlots(e) PROVE s \in H \cup D
  <2>1. s \in Slots /\ SlotEntry(s) = e
    BY DEF EntrySlots
  <2>2. /\ s[1] \in Threads /\ s[2] \in 1..2 /\ s = <<s[1], s[2]>>
        /\ s[2] <= Len(use[s[1]]) => SlotEntry(s) = use[s[1]][s[2]].entry
        /\ ~(s[2] <= Len(use[s[1]])) =>
              /\ pc[s[1]] \in {"trim", "release"}
              /\ s[2] = Len(use[s[1]]) + 1 /\ SlotEntry(s) = call[s[1]].entry
    BY <1>1, <2>1, SlotFacts
  <2>3. CASE s[2] <= Len(use[s[1]])
    <3>1. s \in Threads \X (1..2)
      BY <2>2
    <3> QED BY <2>1, <2>2, <2>3, <3>1 DEF Uses, UseAt
  <2>4. CASE ~(s[2] <= Len(use[s[1]]))
    <3>1. s[1] \in C /\ s = <<s[1], Len(use[s[1]]) + 1>>
      BY <2>1, <2>2, <2>4
    <3> QED BY <3>1
  <2> QED BY <2>3, <2>4
<1>5. EntrySlots(e) = H \cup D
  BY <1>2, <1>3, <1>4
<1>6. H \cap D = {}
  <2>1. ASSUME NEW u \in H, u \in D PROVE FALSE
    <3>1. PICK t \in C : u = <<t, Len(use[t]) + 1>>
      BY <2>1
    <3>2. PICK m \in Nat : m = Len(use[t])
      BY <1>1, UseTypes
    <3>3. u[1] = t /\ u[2] = m + 1
      BY <3>1, <3>2
    <3>4. m + 1 <= m
      BY <1>3, <3>2, <3>3
    <3> QED BY <3>4
  <2> QED BY <2>1
<1>7. IsFiniteSet(C)
  <2>1. C \in SUBSET Threads
    OBVIOUS
  <2> QED BY <2>1, NamesAssumption, FS_Subset
<1>8. IsFiniteSet(D) /\ Cardinality(D) = Cardinality(C)
  <2>1. f \in Bijection(C, D)
    BY DEF Bijection, Injection, Surjection, IsInjective
  <2> HIDE DEF f, D
  <2>2. ExistsBijection(C, D)
    BY <2>1 DEF ExistsBijection
  <2> QED BY <1>7, <2>2, FS_Bijection
<1> HIDE DEF D
<1>9. IsFiniteSet(H) /\ H \subseteq EntrySlots(e)
  <2>1. H \in SUBSET EntrySlots(e)
    BY <1>5
  <2> QED BY <2>1, FiniteSlots, FS_Subset
<1>10. Cardinality(H \cup D) = Cardinality(H) + Cardinality(D)
  <2>1. Cardinality(H \cup D) = Cardinality(H) + (Cardinality(D) - Cardinality(H \cap D))
    BY <1>8, <1>9, FS_Union
  <2>2. PICK h \in Nat : h = Cardinality(H)
    BY <1>9, FS_CardinalityType
  <2>3. PICK d \in Nat : d = Cardinality(D)
    BY <1>8, FS_CardinalityType
  <2>4. Cardinality(H \cap D) = 0
    BY <1>6, FS_EmptySet
  <2>5. h + (d - 0) = h + d
    OBVIOUS
  <2> QED BY <2>1, <2>2, <2>3, <2>4, <2>5
<1> QED BY <1>5, <1>7, <1>8, <1>9, <1>10

(* The invariant implies the types. *)
LEMMA InvTypeOK == PoolInv => TypeOK
<1> SUFFICES ASSUME PoolInv PROVE TypeOK
  OBVIOUS
<1>1. Types /\ ListOf(list) /\ StateOK(PoolState) /\ Counted
  BY DEF PoolInv, ListOK
<1>2. ASSUME NEW e \in Entries
      PROVE  /\ entry[e].file \in Files \cup {None}
             /\ entry[e].ds \in Handles \cup {None}
             /\ entry[e].refCount \in -1..Cardinality(Threads) * 2
  <2>1. PICK c \in Nat : c = Cardinality(EntrySlots(e))
    BY FiniteSlots
  <2>2. PICK m : m = Cardinality(Threads) * 2 /\ m \in Nat
    BY NamesAssumption, FS_CardinalityType
  <2>3. c <= m
    BY <2>1, <2>2, FiniteSlots
  <2>4. entry[e].refCount = -1 \/ entry[e].refCount = c
    BY <1>1, <2>1 DEF Counted
  <2>5. entry[e].refCount \in -1..m
    BY <2>2, <2>3, <2>4
  <2> QED BY <1>1, <2>2, <2>5, EntryTypes
<1>3. open \subseteq Handles
  BY <1>1, EntryTypes
<1> QED BY <1>1, <1>2, <1>3 DEF TypeOK, Types, ListOf, Places

(* Under the invariant the reference counts are exact. *)
LEMMA InvRefCountExact == PoolInv => RefCountExact
<1> SUFFICES ASSUME PoolInv, NEW e \in Entries
             PROVE  LET holders == {u \in Uses : UseAt(u).entry = e}
                        calls(where) ==
                            {t \in Threads : pc[t] \in where /\ call[t].entry = e}
                    IN  IF calls({"open"}) # {}
                        THEN /\ entry[e].refCount = -1
                             /\ Cardinality(calls({"open"})) = 1 /\ holders = {}
                        ELSE entry[e].refCount = Cardinality(holders)
                                                 + Cardinality(calls({"trim", "release"}))
  BY DEF RefCountExact
<1>1. PICK H : H = {u \in Uses : UseAt(u).entry = e}
  OBVIOUS
<1>2. PICK C : C = {t \in Threads : pc[t] \in {"trim", "release"} /\ call[t].entry = e}
  OBVIOUS
<1>3. PICK O : O = {t \in Threads : pc[t] \in {"open"} /\ call[t].entry = e}
  OBVIOUS
<1>4. O = Openers(e)
  BY <1>3 DEF Openers
<1>5. /\ Cardinality(EntrySlots(e)) = Cardinality(H) + Cardinality(C)
      /\ H \subseteq EntrySlots(e)
  BY <1>1, <1>2, SlotsAreHolders
<1>6. CASE O # {}
  <2>1. entry[e].refCount = -1 /\ EntrySlots(e) = {}
    BY <1>4, <1>6 DEF PoolInv, Counted
  <2>2. PICK t : O = {t}
    <3>1. PICK t : t \in O
      BY <1>6
    <3>2. \A u \in O : u = t
      BY <1>4, <3>1 DEF PoolInv, Counted
    <3>3. O = {t}
      BY <3>1, <3>2
    <3> QED BY <3>3
  <2>3. Cardinality(O) = 1
    BY <2>2, FS_Singleton
  <2>4. H = {}
    BY <1>5, <2>1
  <2> QED BY <1>1, <1>2, <1>3, <1>6, <2>1, <2>3, <2>4
<1>7. CASE O = {}
  <2>1. entry[e].refCount = Cardinality(H) + Cardinality(C)
    BY <1>4, <1>5, <1>7 DEF PoolInv, Counted
  <2> QED BY <1>1, <1>2, <1>3, <1>7, <2>1
<1> QED BY <1>6, <1>7

(* The entries of the pool agree with what the threads hold and with what  *)
(* is open, for every number of threads, proxies and entries: refCount is  *)
(* the number of references that RefDataset() gave and UnrefDataset() has  *)
(* not taken back, -1 while _RefDataset() opens the dataset, and nRAMUsage *)
(* is the memory of the open datasets.                                     *)
THEOREM EntriesAreConsistent == Spec => []EntriesConsistent
<1>1. PoolInv => EntriesConsistent
  <2> SUFFICES ASSUME PoolInv PROVE RamUsageExact
    BY InvTypeOK, InvRefCountExact DEF EntriesConsistent
  <2>1. nRAMUsage = Cardinality(RamUnits(entry))
    BY StateParts DEF PoolInv
  <2> QED BY <2>1 DEF RamUsageExact, RamUnits
<1> QED BY <1>1, PoolInvariant, PTL

(* What a use is. *)
LEMMA UseFacts ==
    ASSUME PoolInv, NEW u \in Uses
    PROVE  /\ u \in Slots /\ SlotEntry(u) = UseAt(u).entry
           /\ SlotProxy(u) = UseAt(u).proxy /\ UseAt(u).entry \in Entries
           /\ UseAt(u).ds \in Handles /\ entry[UseAt(u).entry].ds = UseAt(u).ds
<1>1. Types /\ ThreadsOK
  BY DEF PoolInv
<1>2. /\ u[1] \in Threads /\ u[2] \in 1..2 /\ u[2] <= Len(use[u[1]])
      /\ u = <<u[1], u[2]>> /\ UseAt(u) = use[u[1]][u[2]]
  BY DEF Uses, UseAt
<1>3. u[2] \in 1..Len(use[u[1]])
  <2>1. PICK m \in Nat : m = Len(use[u[1]])
    BY <1>1, <1>2, UseTypes
  <2> QED BY <1>2, <2>1
<1>t. PICK t \in Threads : t = u[1]
  BY <1>2
<1>i. PICK i \in 1..Len(use[t]) : i = u[2]
  BY <1>3, <1>t
<1>4. /\ <<t, i>> \in Slots /\ SlotEntry(<<t, i>>) = use[t][i].entry
      /\ SlotProxy(<<t, i>>) = use[t][i].proxy
  BY <1>1, SlotOfUse
<1>5. use[t][i].entry \in Entries /\ use[t][i].ds \in Handles
  BY <1>1, UseTypes
<1>6. entry[use[t][i].entry].ds = use[t][i].ds
  BY <1>1 DEF ThreadsOK, UseOK
<1> QED BY <1>2, <1>4, <1>5, <1>6, <1>t, <1>i

(* The dataset that RefUnderlyingDataset() returned stays open, in its     *)
(* entry, until UnrefUnderlyingDataset(): no eviction, trimming or         *)
(* destructor of another proxy closes it, in a pool of any size.           *)
THEOREM DatasetsInUseStayOpen == Spec => []InUseStaysOpen
<1>1. PoolInv => InUseStaysOpen
  <2> SUFFICES ASSUME PoolInv, NEW u \in Uses
               PROVE  UseAt(u).ds \in open /\ entry[UseAt(u).entry].ds = UseAt(u).ds
    BY DEF InUseStaysOpen
  <2>1. /\ UseAt(u).entry \in Entries /\ UseAt(u).ds \in Handles
        /\ entry[UseAt(u).entry].ds = UseAt(u).ds
    BY UseFacts
  <2>2. UseAt(u).ds # None
    BY <2>1, NamesAssumption
  <2>3. UseAt(u).ds \in open
    BY <2>1, <2>2, StateParts DEF PoolInv
  <2> QED BY <2>1, <2>3
<1> QED BY <1>1, PoolInvariant, PTL

(* Two proxies use one dataset at the same time only if one of them is     *)
(* shared, and two shared ones have the same owner and responsible PID,    *)
(* whatever the proxies are.                                               *)
THEOREM DatasetsSharedByOneOwner == Spec => []SharedByOneOwner
<1>1. PoolInv => SharedByOneOwner
  <2> SUFFICES ASSUME PoolInv, NEW u \in Uses, NEW v \in Uses, u # v,
                      UseAt(u).ds = UseAt(v).ds
               PROVE  LET x == ParamsOf(UseAt(u).proxy)
                          y == ParamsOf(UseAt(v).proxy)
                      IN  /\ x.shared \/ y.shared
                          /\ x.shared /\ y.shared => x.owner = y.owner /\ x.pid = y.pid
    BY DEF SharedByOneOwner
  <2>1. /\ u \in Slots /\ SlotEntry(u) = UseAt(u).entry
        /\ SlotProxy(u) = UseAt(u).proxy /\ UseAt(u).entry \in Entries
        /\ UseAt(u).ds \in Handles /\ entry[UseAt(u).entry].ds = UseAt(u).ds
    BY UseFacts
  <2>2. /\ v \in Slots /\ SlotEntry(v) = UseAt(v).entry
        /\ SlotProxy(v) = UseAt(v).proxy /\ UseAt(v).entry \in Entries
        /\ UseAt(v).ds \in Handles /\ entry[UseAt(v).entry].ds = UseAt(v).ds
    BY UseFacts
  <2>3. UseAt(v).ds # None
    BY <2>2, NamesAssumption
  <2>4. UseAt(u).entry = UseAt(v).entry
    BY <2>1, <2>2, <2>3, StateParts DEF PoolInv
  <2>5. SlotEntry(u) = SlotEntry(v)
    BY <2>1, <2>2, <2>4
  <2>6. ParamsOf(SlotProxy(u)).shared \/ ParamsOf(SlotProxy(v)).shared
    BY <2>1, <2>2, <2>5 DEF PoolInv, OneUnshared
  <2>7. ParamsOf(SlotProxy(u)).shared =>
            /\ entry[SlotEntry(u)].pid = ParamsOf(SlotProxy(u)).pid
            /\ entry[SlotEntry(u)].owner = ParamsOf(SlotProxy(u)).owner
    BY <2>1 DEF PoolInv, SlotsMatch
  <2>8. ParamsOf(SlotProxy(v)).shared =>
            /\ entry[SlotEntry(v)].pid = ParamsOf(SlotProxy(v)).pid
            /\ entry[SlotEntry(v)].owner = ParamsOf(SlotProxy(v)).owner
    BY <2>2 DEF PoolInv, SlotsMatch
  <2> QED BY <2>1, <2>2, <2>5, <2>6, <2>7, <2>8
<1> QED BY <1>1, PoolInvariant, PTL

(* Unref() and ForceDestroy() delete the pool only when no proxy is left,  *)
(* top-level or inner, and no thread is in a call on it.                   *)
THEOREM PoolOutlivesItsProxies == Spec => []PoolOutlivesProxies
<1>1. PoolInv => PoolOutlivesProxies
  BY DEF PoolInv, PoolExists, NothingLeft, PoolOutlivesProxies, AllIdle, Idle
<1> QED BY <1>1, PoolInvariant, PTL
==============================================================================
