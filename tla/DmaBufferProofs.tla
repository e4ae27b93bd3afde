-------------------------- MODULE DmaBufferProofs ---------------------------
(***************************************************************************)
(* Proofs about a prepared DMA buffer, for every page size, chunk limit    *)
(* and bus, any mapping of its pages, any segments DriverKit reports and   *)
(* any number of device writes: the collected pages are the buffer's, the  *)
(* device sees what was copied in, and a read returns what the device has. *)
(***************************************************************************)
EXTENDS DmaBuffer, WellFoundedInduction, TLAPS

-----------------------------------------------------------------------------
(***************************************************************************)
(* The inductive invariant.                                                *)
(***************************************************************************)

SegmentRecords == [address : BusPage, length : Nat]
ChunkRecords ==
  [offset : Nat, length : Nat, segments : Seq(SegmentRecords), frames : Seq(BusPage)]

Count == Len(buffer.chunks)

TypeInv ==
  /\ buffer \in [length : Nat, chunks : Seq(ChunkRecords)]
  /\ buffer.length % PageBytes = 0
  /\ mem = [i \in 0..(buffer.length - 1) |-> mem[i]]
  /\ bus = [a \in 0..kMaxAddress |-> bus[a]]
  /\ next \in Nat

\* Chunk c of the buffer: it lies behind full chunks, has whole pages, and its segments
\* describe its pages.
ChunkSound(c) ==
  LET k == buffer.chunks[c]
  IN  /\ k.offset = (c - 1) * kMaxDmaChunkBytes
      /\ k.length > 0 /\ k.length <= kMaxDmaChunkBytes
      /\ k.length = PageBytes * Len(k.frames)
      /\ k.offset + k.length <= buffer.length
      /\ k.offset + k.length < buffer.length => k.length = kMaxDmaChunkBytes
      /\ k.segments \in Segments(k.frames)

\* No bus page is mapped twice.
FramesApart ==
  \A c, d \in 1..Count :
    \A i \in 1..Len(buffer.chunks[c].frames), j \in 1..Len(buffer.chunks[d].frames) :
      buffer.chunks[c].frames[i] = buffer.chunks[d].frames[j] => c = d /\ i = j

ChunksInv == (\A c \in 1..Count : ChunkSound(c)) /\ FramesApart

\* Where the calls stand: a buffer is complete outside of its preparation, and what was
\* collected, seen or read belongs to a complete one.
CallInv ==
  /\ pc \in {"idle", "prepare", "sync"}
  /\ pc = "prepare" =>
       /\ next = Count + 1 /\ Count * kMaxDmaChunkBytes < buffer.length
       /\ pages = << >> /\ seen = {} /\ read = {}
  /\ pc # "prepare" /\ buffer # NoBuffer =>
       /\ Count > 0
       /\ buffer.chunks[Count].offset + buffer.chunks[Count].length = buffer.length
  /\ buffer = NoBuffer => pc = "idle" /\ pages = << >> /\ seen = {} /\ read = {}
  /\ pc = "sync" => next \in 1..Count /\ seen = {} /\ read = {}

\* The chunks synchronised so far hold what the copy will have made visible.
SyncInv ==
  pc = "sync" =>
    \A content \in filling :
      /\ content = mem
      /\ \A c \in 1..(next - 1) : \A k \in 0..(buffer.chunks[c].length - 1) :
           bus[ChunkAddress(buffer.chunks[c], k)] = mem[buffer.chunks[c].offset + k]

IInv == /\ TypeInv /\ ChunksInv /\ CallInv /\ SyncInv
        /\ PagesAreTheBuffer /\ DeviceSeesSource /\ ReadSeesDevice

-----------------------------------------------------------------------------
(***************************************************************************)
(* Bytes, pages and chunks.                                                *)
(***************************************************************************)

LEMMA Sizes ==
  /\ PageBytes \in Nat \ {0} /\ MaxDmaSegments \in Nat \ {0} /\ PageBytes > 1
  /\ BusPages \in Nat \ {0} /\ WordBytes \in Nat \ {0}
  /\ kMaxDmaChunkBytes \in Nat \ {0}
  /\ kMaxDmaChunkBytes = PageBytes * MaxDmaSegments
  /\ kMaxAddress \in Nat /\ kMaxAddress = BusPages * PageBytes - 1
<1>1. /\ PageBytes \in Nat \ {0} /\ MaxDmaSegments \in Nat \ {0} /\ PageBytes > 1
      /\ BusPages \in Nat \ {0} /\ WordBytes \in Nat \ {0}
  BY DmaAssumption
<1>2. PageBytes * MaxDmaSegments \in Nat \ {0} /\ BusPages * PageBytes \in Nat \ {0}
  BY <1>1
<1> QED
  BY <1>1, <1>2 DEF kMaxDmaChunkBytes, kMaxAddress

\* Division with remainder.
LEMMA Division ==
  ASSUME NEW a \in Nat, NEW n \in Nat \ {0}
  PROVE  /\ a \div n \in Nat /\ a % n \in 0..(n - 1)
         /\ a = n * (a \div n) + (a % n)
OBVIOUS

LEMMA DivisionUnique ==
  ASSUME NEW n \in Nat \ {0}, NEW q \in Nat, NEW r \in 0..(n - 1)
  PROVE  (n * q + r) \div n = q /\ (n * q + r) % n = r
OBVIOUS

LEMMA Gap ==
  ASSUME NEW a \in Nat, NEW b \in Nat, a < b
  PROVE  \E d \in Nat : b = a + 1 + d /\ b - a = d + 1
<1>1. b - a - 1 \in Nat /\ b = a + 1 + (b - a - 1) /\ b - a = (b - a - 1) + 1
  OBVIOUS
<1> QED
  BY <1>1

\* A byte before the end of m units lies in one of them.
LEMMA UnitBelow ==
  ASSUME NEW n \in Nat \ {0}, NEW m \in Nat, NEW a \in Nat, a < n * m
  PROVE  a \div n < m
<1> DEFINE q == a \div n
<1>1. q \in Nat /\ n * q <= a
  BY Division
<1> HIDE DEF q
<1>2. ASSUME q >= m PROVE FALSE
  <2>1. PICK d \in Nat : q = m + d
    BY <1>1, <1>2
  <2>2. n * q = n * m + n * d /\ n * d >= 0
    BY <2>1
  <2> QED
    BY <1>1, <2>2
<1> QED
  BY <1>1, <1>2 DEF q

\* A page of the bus is whole and lies below the top.
LEMMA PageOfBus ==
  ASSUME NEW p \in BusPage
  PROVE  \E x \in 0..(BusPages - 1) : /\ p = PageBytes * x
                                      /\ p \in Nat /\ p + (PageBytes - 1) <= kMaxAddress
<1>1. PICK x \in 0..(BusPages - 1) : p = x * PageBytes
  BY DEF BusPage
<1>2. PICK d \in Nat : BusPages = x + 1 + d
  BY Sizes
<1>3. BusPages * PageBytes = x * PageBytes + PageBytes + d * PageBytes
  BY <1>2, Sizes
<1>4. d * PageBytes >= 0 /\ x * PageBytes \in Nat /\ d * PageBytes \in Nat
      /\ x * PageBytes = PageBytes * x
  BY <1>2, Sizes
<1> QED
  BY <1>1, <1>3, <1>4, Sizes

LEMMA PageMultiple == \A z \in BusPage : \E x \in Nat : z = PageBytes * x
BY PageOfBus, Sizes

\* What the invariant says of chunk c, for use without its definitions.
LEMMA ChunkFacts ==
  ASSUME TypeInv, ChunksInv, NEW c \in 1..Count
  PROVE  LET k == buffer.chunks[c]
         IN  /\ k \in ChunkRecords
             /\ k.offset = (c - 1) * kMaxDmaChunkBytes /\ k.offset \in Nat
             /\ k.length \in Nat /\ k.length > 0 /\ k.length <= kMaxDmaChunkBytes
             /\ k.frames \in Seq(BusPage) /\ k.length = PageBytes * Len(k.frames)
             /\ k.offset + k.length <= buffer.length /\ buffer.length \in Nat
             /\ k.offset + k.length < buffer.length => k.length = kMaxDmaChunkBytes
             /\ k.segments \in Segments(k.frames)
<1>1. buffer.chunks[c] \in ChunkRecords /\ buffer.length \in Nat
  BY DEF TypeInv, Count
<1>2. ChunkSound(c)
  BY DEF ChunksInv
<1> QED
  BY <1>1, <1>2 DEF ChunkSound, ChunkRecords

\* A byte of a chunk lies on one of its pages.
LEMMA ByteOfChunk ==
  ASSUME TypeInv, ChunksInv, NEW c \in 1..Count,
         NEW k \in 0..(buffer.chunks[c].length - 1)
  PROVE  /\ (k \div PageBytes) + 1 \in 1..Len(buffer.chunks[c].frames)
         /\ buffer.chunks[c].frames[(k \div PageBytes) + 1] \in BusPage
         /\ k % PageBytes \in 0..(PageBytes - 1)
         /\ k = PageBytes * (k \div PageBytes) + (k % PageBytes)
         /\ k \div PageBytes \in Nat
         /\ ChunkAddress(buffer.chunks[c], k) \in 0..kMaxAddress
<1> DEFINE frames == buffer.chunks[c].frames
           q == k \div PageBytes
           r == k % PageBytes
<1>1. /\ frames \in Seq(BusPage) /\ Len(frames) \in Nat
      /\ buffer.chunks[c].length = PageBytes * Len(frames)
      /\ k \in Nat /\ k < PageBytes * Len(frames)
  BY ChunkFacts
<1>2. q < Len(frames)
  BY <1>1, Sizes, UnitBelow
<1>3. q \in Nat /\ r \in 0..(PageBytes - 1) /\ k = PageBytes * q + r
  BY <1>1, Sizes, Division
<1> HIDE DEF q, r, frames
<1>4. q + 1 \in 1..Len(frames)
  BY <1>1, <1>2, <1>3
<1>5. frames[q + 1] \in BusPage
  BY <1>1, <1>4
<1>6. frames[q + 1] + r \in 0..kMaxAddress
  BY <1>3, <1>5, PageOfBus, Sizes
<1> QED
  BY <1>3, <1>4, <1>5, <1>6 DEF ChunkAddress, q, r, frames

\* Two bytes of the buffer never share a place on the bus.
LEMMA AddressUnique ==
  ASSUME TypeInv, ChunksInv, NEW c \in 1..Count, NEW d \in 1..Count,
         NEW k \in 0..(buffer.chunks[c].length - 1), NEW l \in 0..(buffer.chunks[d].length - 1),
         ChunkAddress(buffer.chunks[c], k) = ChunkAddress(buffer.chunks[d], l)
  PROVE  c = d /\ k = l
<1> DEFINE i == (k \div PageBytes) + 1
           j == (l \div PageBytes) + 1
           s == k % PageBytes
           t == l % PageBytes
           p == buffer.chunks[c].frames[i]
           q == buffer.chunks[d].frames[j]
<1>1. /\ i \in 1..Len(buffer.chunks[c].frames) /\ p \in BusPage /\ s \in 0..(PageBytes - 1)
      /\ k = PageBytes * (k \div PageBytes) + s /\ k \div PageBytes \in Nat
  BY ByteOfChunk
<1>2. /\ j \in 1..Len(buffer.chunks[d].frames) /\ q \in BusPage /\ t \in 0..(PageBytes - 1)
      /\ l = PageBytes * (l \div PageBytes) + t /\ l \div PageBytes \in Nat
  BY ByteOfChunk
<1>3. p + s = q + t
  BY DEF ChunkAddress
<1>4. PICK x \in Nat : p = PageBytes * x
  BY <1>1, PageMultiple, Zenon
<1>5. PICK y \in Nat : q = PageBytes * y
  BY <1>2, PageMultiple, Zenon
<1>6. p = q /\ s = t
  <2> HIDE DEF p, q, s, t
  <2>1. PageBytes * x + s = PageBytes * y + t
    BY <1>3, <1>4, <1>5
  <2>2. (PageBytes * x + s) \div PageBytes = x /\ (PageBytes * x + s) % PageBytes = s
    BY <1>1, Sizes, DivisionUnique
  <2>3. (PageBytes * y + t) \div PageBytes = y /\ (PageBytes * y + t) % PageBytes = t
    BY <1>2, Sizes, DivisionUnique
  <2> QED
    BY <1>4, <1>5, <2>1, <2>2, <2>3
<1>7. c = d /\ i = j
  <2> HIDE DEF i, j
  <2>1. buffer.chunks[c].frames[i] = buffer.chunks[d].frames[j]
    BY <1>6
  <2> QED
    BY <1>1, <1>2, <2>1 DEF ChunksInv, FramesApart
<1>8. k \div PageBytes = l \div PageBytes
  BY <1>1, <1>2, <1>7
<1> QED
  BY <1>1, <1>2, <1>6, <1>7, <1>8

\* A byte of a chunk is where the buffer has it.
LEMMA BusAddressOfChunk ==
  ASSUME TypeInv, ChunksInv, NEW c \in 1..Count, NEW k \in 0..(buffer.chunks[c].length - 1)
  PROVE  BusAddress(buffer.chunks[c].offset + k) = ChunkAddress(buffer.chunks[c], k)
<1>1. /\ buffer.chunks[c].offset = (c - 1) * kMaxDmaChunkBytes
      /\ k \in 0..(kMaxDmaChunkBytes - 1)
  BY ChunkFacts, Sizes
<1>2. c - 1 \in Nat /\ buffer.chunks[c].offset + k = kMaxDmaChunkBytes * (c - 1) + k
  BY <1>1, Sizes
<1>3. /\ (kMaxDmaChunkBytes * (c - 1) + k) \div kMaxDmaChunkBytes = c - 1
      /\ (kMaxDmaChunkBytes * (c - 1) + k) % kMaxDmaChunkBytes = k
  BY <1>1, <1>2, Sizes, DivisionUnique
<1>4. (c - 1) + 1 = c
  OBVIOUS
<1> QED
  BY <1>2, <1>3, <1>4 DEF BusAddress

\* Every byte of a complete buffer lies in one of its chunks.
LEMMA OffsetInChunk ==
  ASSUME TypeInv, ChunksInv, Count > 0,
         buffer.chunks[Count].offset + buffer.chunks[Count].length = buffer.length,
         NEW off \in 0..(buffer.length - 1)
  PROVE  \E c \in 1..Count : \E k \in 0..(buffer.chunks[c].length - 1) :
           off = buffer.chunks[c].offset + k
<1> DEFINE M == kMaxDmaChunkBytes
           q == off \div M
           r == off % M
           n == Count
           last == buffer.chunks[n].length
<1>1. n \in Nat /\ n > 0 /\ n \in 1..n
  BY DEF TypeInv, Count
<1>2. /\ buffer.length = (n - 1) * M + last /\ last \in Nat /\ last <= M /\ last > 0
      /\ M \in Nat \ {0}
  BY <1>1, ChunkFacts, Sizes
<1>3. off \in Nat /\ off < (n - 1) * M + last
  <2>1. (n - 1) * M \in Nat
    BY <1>1, <1>2
  <2> QED
    BY <1>2, <2>1
<1>4. q \in Nat /\ r \in 0..(M - 1) /\ off = M * q + r
  BY <1>2, <1>3, Division
<1>5. off < M * n
  <2>1. (n - 1) * M + M = M * n /\ (n - 1) * M \in Nat
    BY <1>1, <1>2
  <2> QED
    BY <1>2, <1>3, <2>1
<1>6. q < n
  BY <1>1, <1>2, <1>3, <1>5, UnitBelow
<1> HIDE DEF q, r
<1>7. q + 1 \in 1..n
  BY <1>1, <1>4, <1>6
<1>8. buffer.chunks[q + 1].offset = q * M /\ off = buffer.chunks[q + 1].offset + r
  <2>1. buffer.chunks[q + 1].offset = ((q + 1) - 1) * M
    BY <1>7, ChunkFacts
  <2>2. ((q + 1) - 1) * M = q * M /\ q * M = M * q
    BY <1>2, <1>4
  <2> QED
    BY <1>4, <2>1, <2>2
<1>9. r \in 0..(buffer.chunks[q + 1].length - 1)
  <2>1. CASE q = n - 1
    <3>1. q + 1 = n /\ (n - 1) * M = M * q
      BY <1>1, <1>2, <2>1
    <3> QED
      BY <1>2, <1>3, <1>4, <3>1
  <2>2. CASE q < n - 1
    <3>1. PICK d \in Nat : n - 1 = q + 1 + d
      BY <1>1, <1>4, <2>2
    <3>2. (n - 1) * M = q * M + M + d * M /\ d * M >= 0 /\ d * M \in Nat /\ q * M \in Nat
      BY <1>2, <1>4, <3>1
    <3>3. /\ buffer.chunks[q + 1].length \in Nat /\ buffer.chunks[q + 1].length <= M
          /\ buffer.chunks[q + 1].offset + buffer.chunks[q + 1].length < buffer.length
               => buffer.chunks[q + 1].length = M
      BY <1>7, ChunkFacts
    <3>4. buffer.chunks[q + 1].length = M
      BY <1>2, <1>8, <3>2, <3>3
    <3> QED
      BY <1>4, <3>4
  <2> QED
    BY <1>1, <1>4, <1>6, <2>1, <2>2
<1> QED
  BY <1>7, <1>8, <1>9

-----------------------------------------------------------------------------
(***************************************************************************)
(* Lists.  The recursive functions of the model meet their equations, and  *)
(* what they compute is found by looking at the least place at which it    *)
(* would be something else.                                                *)
(***************************************************************************)

LEMMA LeastNumber ==
  ASSUME NEW T, T \subseteq Nat, T # {}
  PROVE  \E x \in T : \A y \in T : x <= y
<1> DEFINE R == OpToRel(<, Nat)
<1>1. IsWellFoundedOn(R, Nat)
  BY NatLessThanWellFounded
<1>2. \A i, j \in Nat : << i, j >> \in R <=> i < j
  BY DEF OpToRel
<1> HIDE DEF R
<1>3. PICK x \in T : \A y \in T : ~(<< y, x >> \in R)
  BY <1>1, WFMin
<1>4. ASSUME NEW y \in T PROVE x <= y
  <2>1. x \in Nat /\ y \in Nat /\ ~(y < x)
    BY <1>2, <1>3
  <2> QED
    BY <2>1
<1> QED
  BY <1>3, <1>4

\* There is a function as FlattenSeq describes it.
LEMMA FlattenExists ==
  ASSUME NEW ss, NEW n \in Nat \ {0}
  PROVE  \E f : f = [i \in 1..n |-> IF i = 1 THEN ss[i] ELSE f[i - 1] \o ss[i]]
<1> DEFINE Eq(f, m) == f = [i \in 1..m |-> IF i = 1 THEN ss[i] ELSE f[i - 1] \o ss[i]]
           bad == {m \in Nat : m > 0 /\ ~\E f : Eq(f, m)}
<1>1. SUFFICES ASSUME ~\E f : Eq(f, n) PROVE FALSE
  OBVIOUS
<1> HIDE DEF Eq
<1>b. n \in bad /\ bad \subseteq Nat
  BY <1>1
<1>a. \A y \in Nat : y \in bad <=> y > 0 /\ ~\E f : Eq(f, y)
  OBVIOUS
<1> HIDE DEF bad
<1>2. PICK m \in bad : \A y \in bad : m <= y
  BY <1>b, LeastNumber
<1>3. m \in Nat /\ m > 0 /\ ~\E f : Eq(f, m)
  BY <1>2, <1>a, <1>b
<1>4. CASE m = 1
  <2> DEFINE g == [i \in 1..m |-> ss[i]]
  <2>1. Eq(g, m)
    BY <1>4 DEF Eq
  <2> QED
    BY <1>3, <2>1
<1>5. CASE m > 1
  <2>1. m - 1 \in Nat /\ m - 1 > 0 /\ m - 1 \notin bad
    BY <1>2, <1>3, <1>5
  <2>2. PICK f : Eq(f, m - 1)
    BY <2>1, <1>a
  <2> DEFINE g == [i \in 1..m |-> IF i = m THEN f[m - 1] \o ss[m] ELSE f[i]]
  <2>3. \A i \in 1..(m - 1) : f[i] = IF i = 1 THEN ss[i] ELSE f[i - 1] \o ss[i]
    BY <2>2 DEF Eq
  <2>4. ASSUME NEW i \in 1..m
        PROVE  g[i] = IF i = 1 THEN ss[i] ELSE g[i - 1] \o ss[i]
    <3>1. CASE i = m
      <4>1. i # 1 /\ i - 1 \in 1..m /\ i - 1 # m
        BY <1>3, <1>5, <3>1
      <4> QED
        BY <3>1, <4>1
    <3>2. CASE i < m
      <4>1. i \in 1..(m - 1) /\ g[i] = f[i]
        BY <1>3, <3>2
      <4>2. i # 1 => i - 1 \in 1..m /\ i - 1 # m /\ g[i - 1] = f[i - 1]
        BY <1>3, <3>2
      <4> QED
        BY <2>3, <4>1, <4>2
    <3> QED
      BY <1>3, <3>1, <3>2
  <2>5. Eq(g, m)
    <3>1. g = [i \in 1..m |-> g[i]]
      OBVIOUS
    <3> HIDE DEF g
    <3> QED
      BY <2>4, <3>1 DEF Eq
  <2> QED
    BY <1>3, <2>5
<1> QED
  BY <1>3, <1>4, <1>5

LEMMA Concatenation ==
  ASSUME NEW S, NEW a \in Seq(S), NEW b \in Seq(S)
  PROVE  /\ a \o b \in Seq(S) /\ Len(a \o b) = Len(a) + Len(b)
         /\ \A q \in 1..Len(a) : (a \o b)[q] = a[q]
         /\ \A q \in 1..Len(b) : (a \o b)[Len(a) + q] = b[q]
OBVIOUS

LEMMA ListOf ==
  ASSUME NEW S, NEW m \in Nat, NEW f, f = [k \in 1..m |-> f[k]], \A k \in 1..m : f[k] \in S
  PROVE  f \in Seq(S) /\ Len(f) = m /\ DOMAIN f = 1..m
OBVIOUS

\* Ends that each lie behind the one before grow.
LEMMA EndsGrow ==
  ASSUME NEW n \in Nat, NEW ends,
         \A i \in 1..n : ends[i] \in Nat /\ LastBefore(ends, i) <= ends[i],
         NEW i \in 1..n, NEW j \in i..n
  PROVE  ends[i] <= ends[j]
<1> DEFINE bad == {k \in i..n : ~(ends[i] <= ends[k])}
<1>1. SUFFICES ASSUME bad # {} PROVE FALSE
  OBVIOUS
<1>2. bad \subseteq Nat
  OBVIOUS
<1>a. \A k \in i..n : k \in bad <=> ~(ends[i] <= ends[k])
  OBVIOUS
<1>b. bad \subseteq i..n
  OBVIOUS
<1> HIDE DEF bad
<1>3. PICK k \in bad : \A y \in bad : k <= y
  BY <1>1, <1>2, LeastNumber
<1>4. k \in i..n /\ ~(ends[i] <= ends[k]) /\ k \in 1..n
  BY <1>a, <1>b, <1>3
<1>5. k # i
  BY <1>4
<1>6. k - 1 \in i..n /\ k - 1 \in 1..n /\ k - 1 \notin bad
  BY <1>3, <1>4, <1>5
<1>7. ends[i] <= ends[k - 1]
  BY <1>a, <1>6
<1>8. ends[k - 1] <= ends[k]
  BY <1>4, <1>5, <1>6 DEF LastBefore
<1> QED
  BY <1>4, <1>6, <1>7, <1>8

\* The parts end at `ends`.
EndsOf(ss, ends) ==
  \A i \in 1..Len(ss) : ends[i] \in Nat /\ ends[i] = LastBefore(ends, i) + Len(ss[i])

\* A list of members of S has the parts at these ends.
Joins(list, ss, ends, S) ==
  /\ list \in Seq(S) /\ Len(list) = ends[Len(ss)]
  /\ \A i \in 1..Len(ss) : \A p \in 1..Len(ss[i]) : list[LastBefore(ends, i) + p] = ss[i][p]

\* FlattenSeq puts the parts one behind the other: the part before i ends at ends[i - 1].
LEMMA FlattenFacts ==
  ASSUME NEW S, NEW ss \in Seq(Seq(S)), Len(ss) > 0, NEW ends, EndsOf(ss, ends)
  PROVE  Joins(FlattenSeq(ss), ss, ends, S)
<1> DEFINE n == Len(ss)
           Eq(f) == f = [i \in 1..n |-> IF i = 1 THEN ss[i] ELSE f[i - 1] \o ss[i]]
           f == CHOOSE f : Eq(f)
           Good(j) == /\ f[j] \in Seq(S) /\ Len(f[j]) = ends[j]
                      /\ \A i \in 1..j : \A p \in 1..Len(ss[i]) :
                           f[j][LastBefore(ends, i) + p] = ss[i][p]
           bad == {j \in 1..n : ~Good(j)}
<1>0. \A i \in 1..n : ends[i] \in Nat /\ ends[i] = LastBefore(ends, i) + Len(ss[i])
  BY DEF EndsOf
<1>1. n \in Nat \ {0}
  OBVIOUS
<1>2. Eq(f)
  <2>1. \E g : Eq(g)
    BY <1>1, FlattenExists
  <2> QED
    BY <2>1, Zenon
<1>3. FlattenSeq(ss) = f[n]
  BY <1>1, Zenon DEF FlattenSeq
<1> HIDE DEF f
<1>4. \A i \in 1..n : f[i] = IF i = 1 THEN ss[i] ELSE f[i - 1] \o ss[i]
  BY <1>2
<1>g. ASSUME NEW i \in 1..n PROVE ends[i] \in Nat /\ LastBefore(ends, i) <= ends[i]
  <2>1. ss[i] \in Seq(S) /\ Len(ss[i]) \in Nat
    OBVIOUS
  <2>2. i # 1 => i - 1 \in 1..n
    BY <1>1
  <2>3. LastBefore(ends, i) \in Nat
    BY <1>0, <2>2 DEF LastBefore
  <2> QED
    BY <1>0, <2>1, <2>3
<1>5. ASSUME NEW j \in 1..n, j # 1 => Good(j - 1)
      PROVE  Good(j)
  <2>1. ss[j] \in Seq(S)
    OBVIOUS
  <2>2. CASE j = 1
    BY <1>0, <1>4, <2>1, <2>2 DEF LastBefore
  <2>3. CASE j # 1
    <3>1. f[j] = f[j - 1] \o ss[j] /\ Good(j - 1) /\ j - 1 \in 1..n
      <4> HIDE DEF Good
      <4>1. j - 1 \in 1..n
        BY <1>1, <2>3
      <4> QED
        BY <1>4, <1>5, <2>3, <4>1
    <3>2. /\ f[j - 1] \in Seq(S) /\ Len(f[j - 1]) = ends[j - 1]
          /\ \A i \in 1..(j - 1) : \A p \in 1..Len(ss[i]) :
               f[j - 1][LastBefore(ends, i) + p] = ss[i][p]
      BY <3>1
    <3>3. LastBefore(ends, j) = ends[j - 1] /\ ends[j - 1] \in Nat
      BY <1>0, <2>3, <3>1 DEF LastBefore
    <3> HIDE DEF Good
    <3>4. /\ f[j] \in Seq(S) /\ Len(f[j]) = Len(f[j - 1]) + Len(ss[j])
          /\ \A q \in 1..Len(f[j - 1]) : f[j][q] = f[j - 1][q]
          /\ \A q \in 1..Len(ss[j]) : f[j][Len(f[j - 1]) + q] = ss[j][q]
      <4> DEFINE a == f[j - 1]
                 b == ss[j]
      <4>1. a \in Seq(S) /\ b \in Seq(S) /\ f[j] = a \o b
        BY <2>1, <3>1, <3>2
      <4> HIDE DEF a, b
      <4>2. /\ f[j] \in Seq(S) /\ Len(f[j]) = Len(a) + Len(b)
            /\ \A q \in 1..Len(a) : f[j][q] = a[q]
            /\ \A q \in 1..Len(b) : f[j][Len(a) + q] = b[q]
        BY <4>1, Concatenation
      <4> QED
        BY <4>2 DEF a, b
    <3>5. Len(f[j]) = ends[j]
      BY <1>0, <3>2, <3>3, <3>4
    <3>6. ASSUME NEW i \in 1..j, NEW p \in 1..Len(ss[i])
          PROVE  f[j][LastBefore(ends, i) + p] = ss[i][p]
      <4>1. CASE i = j
        BY <3>2, <3>3, <3>4, <4>1
      <4>2. CASE i # j
        <5>1. i \in 1..(j - 1) /\ i \in 1..n /\ ss[i] \in Seq(S)
          BY <4>2
        <5>2. f[j - 1][LastBefore(ends, i) + p] = ss[i][p]
          BY <3>2, <5>1
        <5>3. /\ LastBefore(ends, i) \in Nat /\ ends[i] = LastBefore(ends, i) + Len(ss[i])
              /\ Len(ss[i]) \in Nat
          BY <1>0, <5>1 DEF LastBefore
        <5>4. ends[i] <= ends[j - 1]
          <6>1. j - 1 \in i..n
            BY <3>1, <5>1
          <6> QED
            BY <1>1, <1>g, <5>1, <6>1, EndsGrow
        <5>5. LastBefore(ends, i) + p \in 1..Len(f[j - 1])
          BY <3>2, <3>3, <5>3, <5>4
        <5> QED
          BY <3>4, <5>2, <5>5
      <4> QED
        BY <4>1, <4>2
    <3> QED
      BY <3>4, <3>5, <3>6 DEF Good
  <2> QED
    BY <2>2, <2>3
<1>6. bad = {}
  <2>1. SUFFICES ASSUME bad # {} PROVE FALSE
    OBVIOUS
  <2>2. bad \subseteq Nat
    OBVIOUS
  <2> HIDE DEF bad
  <2>3. PICK j \in bad : \A y \in bad : j <= y
    BY <2>1, <2>2, LeastNumber
  <2>4. j \in 1..n /\ ~Good(j)
    BY <2>3 DEF bad
  <2>5. j # 1 => Good(j - 1)
    <3>1. ASSUME j # 1 PROVE j - 1 \in 1..n /\ j - 1 \notin bad
      BY <1>1, <2>3, <2>4, <3>1
    <3> QED
      BY <3>1 DEF bad
  <2> QED
    BY <1>5, <2>4, <2>5
<1>7. Good(n)
  <2>1. n \in 1..n /\ n \notin bad
    BY <1>1, <1>6
  <2> HIDE DEF Good, n
  <2> QED
    BY <2>1, Zenon DEF bad
<1> QED
  BY <1>3, <1>7 DEF Joins

\* Every place up to the last end belongs to a part.
LEMMA PartOf ==
  ASSUME NEW n \in Nat \ {0}, NEW ends, \A i \in 1..n : ends[i] \in Nat,
         NEW q \in 1..ends[n]
  PROVE  \E k \in 1..n : LastBefore(ends, k) < q /\ q <= ends[k]
<1> DEFINE T == {k \in 1..n : q <= ends[k]}
<1>1. T \subseteq Nat /\ n \in T
  OBVIOUS
<1>a. \A k \in 1..n : k \in T <=> q <= ends[k]
  OBVIOUS
<1>b. T \subseteq 1..n
  OBVIOUS
<1> HIDE DEF T
<1>2. PICK k \in T : \A y \in T : k <= y
  BY <1>1, LeastNumber
<1>3. k \in 1..n /\ q <= ends[k]
  BY <1>a, <1>b, <1>2
<1>4. LastBefore(ends, k) < q
  <2>1. CASE k = 1
    BY <2>1 DEF LastBefore
  <2>2. CASE k # 1
    <3>1. k - 1 \in 1..n /\ ~(k <= k - 1)
      BY <1>3, <2>2
    <3>2. k - 1 \notin T
      BY <1>2, <3>1
    <3>3. ends[k - 1] \in Nat /\ ~(q <= ends[k - 1])
      BY <1>a, <3>1, <3>2
    <3> QED
      BY <2>2, <3>3 DEF LastBefore
  <2> QED
    BY <2>1, <2>2
<1> QED
  BY <1>3, <1>4

\* There is a function as Covered describes it.
LEMMA CoveredExists ==
  ASSUME NEW segments, NEW n \in Nat
  PROVE  \E f : f = [i \in 0..n |-> IF i = 0 THEN 0 ELSE f[i - 1] + segments[i].length]
<1> DEFINE Eq(f, m) == f = [i \in 0..m |-> IF i = 0 THEN 0 ELSE f[i - 1] + segments[i].length]
           bad == {m \in Nat : ~\E f : Eq(f, m)}
<1>1. SUFFICES ASSUME ~\E f : Eq(f, n) PROVE FALSE
  OBVIOUS
<1> HIDE DEF Eq
<1>b. n \in bad /\ bad \subseteq Nat
  BY <1>1
<1>a. \A y \in Nat : y \in bad <=> ~\E f : Eq(f, y)
  OBVIOUS
<1> HIDE DEF bad
<1>2. PICK m \in bad : \A y \in bad : m <= y
  BY <1>b, LeastNumber
<1>3. m \in Nat /\ ~\E f : Eq(f, m)
  BY <1>2, <1>a, <1>b
<1>4. CASE m = 0
  <2> DEFINE g == [i \in 0..m |-> 0]
  <2>1. Eq(g, m)
    BY <1>4 DEF Eq
  <2> QED
    BY <1>3, <2>1
<1>5. CASE m > 0
  <2>1. m - 1 \in Nat /\ m - 1 \notin bad
    BY <1>2, <1>3, <1>5
  <2>2. PICK f : Eq(f, m - 1)
    BY <2>1, <1>a
  <2> DEFINE g == [i \in 0..m |-> IF i = m THEN f[m - 1] + segments[m].length ELSE f[i]]
  <2>3. \A i \in 0..(m - 1) : f[i] = IF i = 0 THEN 0 ELSE f[i - 1] + segments[i].length
    BY <2>2 DEF Eq
  <2>4. ASSUME NEW i \in 0..m
        PROVE  g[i] = IF i = 0 THEN 0 ELSE g[i - 1] + segments[i].length
    <3>1. CASE i = m
      <4>1. i # 0 /\ i - 1 \in 0..m /\ i - 1 # m
        BY <1>3, <1>5, <3>1
      <4> QED
        BY <3>1, <4>1
    <3>2. CASE i < m
      <4>1. i \in 0..(m - 1) /\ g[i] = f[i]
        BY <1>3, <3>2
      <4>2. i # 0 => i - 1 \in 0..m /\ i - 1 # m /\ g[i - 1] = f[i - 1]
        BY <1>3, <3>2
      <4> QED
        BY <2>3, <4>1, <4>2
    <3> QED
      BY <1>3, <3>1, <3>2
  <2>5. Eq(g, m)
    <3>1. g = [i \in 0..m |-> g[i]]
      OBVIOUS
    <3> HIDE DEF g
    <3> QED
      BY <2>4, <3>1 DEF Eq
  <2> QED
    BY <1>3, <2>5
<1> QED
  BY <1>3, <1>4, <1>5

LEMMA CoveredEquation ==
  ASSUME NEW segments, Len(segments) \in Nat
  PROVE  /\ Covered(segments)[0] = 0
         /\ \A i \in 1..Len(segments) :
              Covered(segments)[i] = Covered(segments)[i - 1] + segments[i].length
<1> DEFINE n == Len(segments)
           Eq(f) == f = [i \in 0..n |-> IF i = 0 THEN 0 ELSE f[i - 1] + segments[i].length]
           f == CHOOSE f : Eq(f)
<1>1. Eq(f)
  <2>1. \E g : Eq(g)
    BY CoveredExists
  <2> QED
    BY <2>1, Zenon
<1>2. Covered(segments) = f
  BY Zenon DEF Covered
<1> HIDE DEF f
<1>3. \A i \in 0..n : f[i] = IF i = 0 THEN 0 ELSE f[i - 1] + segments[i].length
  BY <1>1
<1> QED
  BY <1>2, <1>3

\* The first j segments end with the pages `ends`.
EndWith(segments, j, ends) ==
  \A k \in 1..j : /\ ends[k] \in Nat
                  /\ segments[k].length = (ends[k] - LastBefore(ends, k)) * PageBytes

\* Segments that end with the pages `ends` cover them.
LEMMA CoveredByEnds ==
  ASSUME NEW segments, Len(segments) \in Nat, NEW j \in 0..Len(segments), NEW ends,
         EndWith(segments, j, ends)
  PROVE  \A k \in 0..j : Covered(segments)[k] = LastBefore(ends, k + 1) * PageBytes
<1> DEFINE c == Covered(segments)
           bad == {k \in 0..j : ~(c[k] = LastBefore(ends, k + 1) * PageBytes)}
<1>1. SUFFICES ASSUME bad # {} PROVE FALSE
  OBVIOUS
<1>a. \A k \in 0..j : k \in bad <=> ~(c[k] = LastBefore(ends, k + 1) * PageBytes)
  OBVIOUS
<1>b. bad \subseteq 0..j /\ bad \subseteq Nat
  OBVIOUS
<1>c. c[0] = 0 /\ \A i \in 1..j : c[i] = c[i - 1] + segments[i].length
  BY CoveredEquation
<1>d. \A k \in 1..j : /\ ends[k] \in Nat
                      /\ segments[k].length = (ends[k] - LastBefore(ends, k)) * PageBytes
  BY DEF EndWith
<1> HIDE DEF bad, c
<1>2. PICK k \in bad : \A y \in bad : k <= y
  BY <1>1, <1>b, LeastNumber
<1>3. k \in 0..j /\ ~(c[k] = LastBefore(ends, k + 1) * PageBytes)
  BY <1>a, <1>b, <1>2
<1>4. CASE k = 0
  BY <1>3, <1>4, <1>c, Sizes DEF LastBefore
<1>5. CASE k # 0
  <2>1. k - 1 \in 0..j /\ k \in 1..j /\ ~(k <= k - 1) /\ (k - 1) + 1 = k
    BY <1>3, <1>5
  <2>2. k - 1 \notin bad
    BY <1>2, <2>1
  <2>3. c[k - 1] = LastBefore(ends, k) * PageBytes
    BY <1>a, <2>1, <2>2
  <2>4. c[k] = LastBefore(ends, k) * PageBytes + (ends[k] - LastBefore(ends, k)) * PageBytes
    BY <1>c, <1>d, <2>1, <2>3
  <2>5. ends[k] \in Nat /\ LastBefore(ends, k) \in Nat
    BY <1>d, <2>1 DEF LastBefore
  <2>6. c[k] = ends[k] * PageBytes
    BY <2>4, <2>5, Sizes
  <2>7. LastBefore(ends, k + 1) = ends[k]
    BY <2>1 DEF LastBefore
  <2> QED
    BY <1>3, <2>6, <2>7
<1> QED
  BY <1>4, <1>5

-----------------------------------------------------------------------------
(***************************************************************************)
(* What DriverKit reports.                                                 *)
(***************************************************************************)

\* The ends of honest segments are pages of the chunk, in order up to the last one.
LEMMA EndFacts ==
  ASSUME NEW frames \in Seq(BusPage), NEW ends \in SegmentEnds(frames)
  PROVE  /\ Len(ends) \in 1..Len(frames) /\ ends \in Seq(Nat)
         /\ ends[Len(ends)] = Len(frames)
         /\ \A k \in 1..Len(ends) :
              /\ ends[k] \in 1..Len(frames)
              /\ LastBefore(ends, k) \in 0..(Len(frames) - 1)
              /\ LastBefore(ends, k) < ends[k]
         /\ \A i \in 1..(Len(frames) - 1) :
              (\A k \in 1..Len(ends) : ends[k] # i) => frames[i + 1] = frames[i] + PageBytes
<1> DEFINE n == Len(frames)
<1>0. n \in Nat
  OBVIOUS
<1>1. PICK m \in 1..n : ends \in [1..m -> 1..n]
  BY DEF SegmentEnds
<1>2. Len(ends) = m /\ ends \in Seq(1..n) /\ ends \in Seq(Nat)
  BY <1>1
<1>3. /\ ends[m] = n /\ \A k \in 2..m : ends[k - 1] < ends[k]
      /\ \A i \in (1..(n - 1)) \ Range(ends) : frames[i + 1] = frames[i] + PageBytes
  BY <1>2 DEF SegmentEnds
<1>4. ASSUME NEW k \in 1..m
      PROVE  /\ ends[k] \in 1..n /\ LastBefore(ends, k) \in 0..(n - 1)
             /\ LastBefore(ends, k) < ends[k]
  <2>1. CASE k = 1
    BY <1>1, <2>1 DEF LastBefore
  <2>2. CASE k # 1
    <3>1. k \in 2..m /\ k - 1 \in 1..m
      BY <2>2
    <3>2. ends[k] \in 1..n /\ ends[k - 1] \in 1..n /\ ends[k - 1] < ends[k]
      BY <1>1, <1>3, <3>1
    <3> QED
      BY <1>0, <2>2, <3>2 DEF LastBefore
  <2> QED
    BY <2>1, <2>2
<1>5. ASSUME NEW i \in 1..(n - 1), \A k \in 1..m : ends[k] # i
      PROVE  frames[i + 1] = frames[i] + PageBytes
  <2>1. i \notin Range(ends)
    BY <1>1, <1>5 DEF Range
  <2> QED
    BY <1>3, <2>1
<1> QED
  BY <1>1, <1>2, <1>3, <1>4, <1>5

LEMMA DescribedFacts ==
  ASSUME NEW frames \in Seq(BusPage), NEW ends \in SegmentEnds(frames)
  PROVE  LET s == Described(frames, ends)
         IN  /\ s \in Seq(SegmentRecords) /\ Len(s) = Len(ends)
             /\ \A k \in 1..Len(ends) :
                  /\ s[k].address = frames[LastBefore(ends, k) + 1]
                  /\ s[k].address \in BusPage
                  /\ s[k].length = (ends[k] - LastBefore(ends, k)) * PageBytes
                  /\ s[k].length \in Nat
<1> DEFINE m == Len(ends)
           r(k) == [address |-> frames[LastBefore(ends, k) + 1],
                    length |-> (ends[k] - LastBefore(ends, k)) * PageBytes]
<1>1. m \in Nat
  BY EndFacts
<1>2. ASSUME NEW k \in 1..m PROVE r(k) \in SegmentRecords
  <2>1. LastBefore(ends, k) + 1 \in 1..Len(frames) /\ ends[k] - LastBefore(ends, k) \in Nat
    BY EndFacts
  <2>2. frames[LastBefore(ends, k) + 1] \in BusPage
    BY <2>1
  <2>3. (ends[k] - LastBefore(ends, k)) * PageBytes \in Nat
    BY <2>1, Sizes
  <2> QED
    BY <2>2, <2>3 DEF SegmentRecords
<1>3. Described(frames, ends) = [k \in 1..m |-> r(k)]
  BY DEF Described
<1>4. \A k \in 1..m : r(k).address \in BusPage /\ r(k).length \in Nat
  BY <1>2 DEF SegmentRecords
<1>5. Described(frames, ends) \in Seq(SegmentRecords) /\ Len(Described(frames, ends)) = m
  <2> HIDE DEF r, m
  <2> QED
    BY <1>1, <1>2, <1>3
<1> QED
  BY <1>3, <1>4, <1>5

\* What SegmentsAllowed requires of each segment, and of all of them.
LEMMA AllowedFacts ==
  ASSUME NEW segments, NEW length, SegmentsAllowed(segments, length)
  PROVE  /\ Len(segments) \in 1..MaxDmaSegments
         /\ \A i \in DOMAIN segments : /\ segments[i].length # 0
                                       /\ segments[i].address % PageBytes = 0
                                       /\ segments[i].length % PageBytes = 0
         /\ Covered(segments)[Len(segments)] = length
BY DEF SegmentsAllowed

\* Whatever is odd about a report, the checks of PrepareChunk find it.
LEMMA OddRefused ==
  ASSUME NEW frames \in Seq(BusPage), NEW honest \in Segments(frames),
         NEW segments \in OddSegments(honest)
  PROVE  ~SegmentsAllowed(segments, PageBytes * Len(frames))
<1>1. PICK ends \in SegmentEnds(frames) : honest = Described(frames, ends)
  BY DEF Segments
<1> DEFINE n == Len(frames)
           m == Len(ends)
<1>2. /\ n \in Nat /\ m \in 1..n /\ m \in Nat /\ ends[m] = n
      /\ \A k \in 1..m : /\ ends[k] \in Nat /\ LastBefore(ends, k) \in Nat
                         /\ LastBefore(ends, k) < ends[k]
  BY EndFacts
<1>3. /\ honest \in Seq(SegmentRecords) /\ Len(honest) = m
      /\ \A k \in 1..m : /\ honest[k].address \in BusPage
                         /\ honest[k].length = (ends[k] - LastBefore(ends, k)) * PageBytes
                         /\ honest[k].length \in Nat
  BY <1>1, DescribedFacts
<1> HIDE DEF n, m
<1> SUFFICES ASSUME SegmentsAllowed(segments, PageBytes * n) PROVE FALSE
  BY DEF n
<1>4. CASE segments = SubSeq(honest, 1, m - 1)
  <2>1. Len(segments) = m - 1 /\ m - 1 \in Nat
    BY <1>2, <1>3, <1>4
  <2>2. m - 1 > 0 /\ Covered(segments)[m - 1] = PageBytes * n
    BY <2>1, AllowedFacts, Sizes
  <2>3. ASSUME NEW k \in 1..(m - 1)
        PROVE  /\ ends[k] \in Nat
               /\ segments[k].length = (ends[k] - LastBefore(ends, k)) * PageBytes
    <3>1. k \in 1..m /\ segments[k] = honest[k]
      BY <1>2, <1>3, <1>4
    <3> QED
      BY <1>2, <1>3, <3>1
  <2>4. Covered(segments)[m - 1] = LastBefore(ends, m) * PageBytes
    <3>1. m - 1 \in 0..Len(segments) /\ m - 1 \in 0..(m - 1) /\ (m - 1) + 1 = m
          /\ Len(segments) \in Nat
      BY <1>2, <2>1
    <3>2. EndWith(segments, m - 1, ends)
      BY <2>3 DEF EndWith
    <3>3. \A k \in 0..(m - 1) : Covered(segments)[k] = LastBefore(ends, k + 1) * PageBytes
      BY <3>1, <3>2, CoveredByEnds
    <3> QED
      BY <3>1, <3>3, Zenon
  <2>5. LastBefore(ends, m) * PageBytes = PageBytes * n /\ LastBefore(ends, m) < n
        /\ LastBefore(ends, m) \in Nat
    <3>1. m \in 1..m
      BY <1>2
    <3>2. LastBefore(ends, m) < ends[m] /\ LastBefore(ends, m) \in Nat /\ ends[m] = n
      BY <1>2, <3>1, Zenon
    <3> QED
      BY <2>2, <2>4, <3>2
  <2>6. PICK d \in Nat : n = LastBefore(ends, m) + 1 + d
    BY <1>2, <2>5, Gap, Zenon
  <2>7. PageBytes * n = LastBefore(ends, m) * PageBytes + PageBytes + d * PageBytes
        /\ d * PageBytes >= 0 /\ LastBefore(ends, m) * PageBytes \in Nat
    BY <2>5, <2>6, Sizes
  <2> QED
    BY <2>5, <2>7, Sizes
<1>5. CASE segments = [honest EXCEPT ![1].address = @ + 1]
  <2>1. 1 \in DOMAIN segments /\ segments[1].address = honest[1].address + 1
        /\ honest[1].address \in BusPage
    <3>1. 1 \in 1..m /\ 1 \in DOMAIN honest
      BY <1>2, <1>3
    <3>2. honest[1] \in SegmentRecords
      BY <1>3, <3>1
    <3> QED
      BY <1>3, <1>5, <3>1, <3>2 DEF SegmentRecords
  <2>2. PICK x \in Nat : honest[1].address = PageBytes * x
    BY <2>1, PageMultiple, Zenon
  <2>3. (PageBytes * x + 1) % PageBytes = 1
    <3>1. 1 \in 0..(PageBytes - 1)
      BY Sizes
    <3> QED
      BY <3>1, Sizes, DivisionUnique
  <2>4. segments[1].address % PageBytes = 0
    BY <2>1, AllowedFacts
  <2> QED
    BY <2>1, <2>2, <2>3, <2>4
<1>6. CASE segments = [honest EXCEPT ![m].length = @ - 1]
  <2>1. m \in DOMAIN segments /\ segments[m].length = honest[m].length - 1
    <3>1. m \in 1..m /\ m \in DOMAIN honest
      BY <1>2, <1>3
    <3>2. honest[m] \in SegmentRecords
      BY <1>3, <3>1
    <3> QED
      BY <1>3, <1>6, <3>1, <3>2 DEF SegmentRecords
  <2>a. m \in 1..m
    BY <1>2
  <2>b. LastBefore(ends, m) < ends[m] /\ LastBefore(ends, m) \in Nat /\ ends[m] \in Nat
        /\ honest[m].length = (ends[m] - LastBefore(ends, m)) * PageBytes
    BY <1>2, <1>3, <2>a, Zenon
  <2>2. PICK d \in Nat : ends[m] - LastBefore(ends, m) = d + 1
    BY <2>b, Gap, Zenon
  <2>3. segments[m].length = (d + 1) * PageBytes - 1
    BY <2>1, <2>2, <2>b
  <2>4. (d + 1) * PageBytes - 1 = PageBytes * d + (PageBytes - 1)
        /\ PageBytes - 1 \in 0..(PageBytes - 1)
    BY <2>2, Sizes
  <2>5. (PageBytes * d + (PageBytes - 1)) % PageBytes = PageBytes - 1
    BY <2>2, <2>4, Sizes, DivisionUnique
  <2>6. segments[m].length % PageBytes = 0
    BY <2>1, AllowedFacts
  <2> QED
    BY <2>3, <2>4, <2>5, <2>6, Sizes
<1>7. CASE segments = [honest EXCEPT ![m].length = @ + PageBytes]
  <2>1. /\ Len(segments) = m /\ segments[m].length = honest[m].length + PageBytes
        /\ \A k \in 1..(m - 1) : segments[k] = honest[k]
    <3>1. m \in 1..m /\ m \in DOMAIN honest /\ DOMAIN honest = 1..m
      BY <1>2, <1>3
    <3>2. honest[m] \in SegmentRecords
      BY <1>3, <3>1
    <3>3. segments[m].length = honest[m].length + PageBytes
      BY <1>3, <1>7, <3>1, <3>2 DEF SegmentRecords
    <3>4. Len(segments) = m
      BY <1>3, <1>7, <3>1
    <3>5. \A k \in 1..(m - 1) : segments[k] = honest[k]
      BY <1>2, <1>3, <1>7, <3>1
    <3> QED
      BY <3>3, <3>4, <3>5
  <2>2. m - 1 \in 0..Len(segments) /\ Len(segments) \in Nat /\ (m - 1) + 1 = m
    BY <1>2, <2>1
  <2>3. Covered(segments)[m - 1] = LastBefore(ends, m) * PageBytes
    <3>1. ASSUME NEW k \in 1..(m - 1)
          PROVE  /\ ends[k] \in Nat
                 /\ segments[k].length = (ends[k] - LastBefore(ends, k)) * PageBytes
      <4>1. k \in 1..m /\ segments[k] = honest[k]
        BY <1>2, <2>1
      <4> QED
        BY <1>2, <1>3, <4>1
    <3>2. m - 1 \in 0..(m - 1)
      BY <1>2
    <3>3. EndWith(segments, m - 1, ends)
      BY <3>1 DEF EndWith
    <3>4. \A k \in 0..(m - 1) : Covered(segments)[k] = LastBefore(ends, k + 1) * PageBytes
      BY <2>2, <3>3, CoveredByEnds
    <3> QED
      BY <2>2, <3>2, <3>4, Zenon
  <2>4. Covered(segments)[m] = Covered(segments)[m - 1] + segments[m].length
    <3>1. m \in 1..Len(segments)
      BY <1>2, <2>1
    <3> QED
      BY <2>2, <3>1, CoveredEquation, Zenon
  <2>5. Covered(segments)[m] = PageBytes * n
    BY <2>1, AllowedFacts
  <2>6. PageBytes * n = LastBefore(ends, m) * PageBytes
                        + (n - LastBefore(ends, m)) * PageBytes + PageBytes
    <3>1. m \in 1..m
      BY <1>2
    <3>2. segments[m].length = (n - LastBefore(ends, m)) * PageBytes + PageBytes
      BY <1>2, <1>3, <2>1, <3>1
    <3>3. LastBefore(ends, m) \in Nat /\ n \in Nat
      BY <1>2, <3>1
    <3> QED
      BY <2>3, <2>4, <2>5, <3>2, <3>3, Sizes
  <2>a. m \in 1..m
    BY <1>2
  <2>7. LastBefore(ends, m) \in Nat /\ n \in Nat
    BY <1>2, <2>a, Zenon
  <2> QED
    BY <2>6, <2>7, Sizes
<1>8. CASE segments = Append(honest, [address |-> 0, length |-> 0])
  <2>1. segments[m + 1] = [address |-> 0, length |-> 0] /\ m + 1 \in DOMAIN segments
    BY <1>2, <1>3, <1>8
  <2> QED
    BY <2>1, AllowedFacts
<1> QED
  BY <1>3, <1>4, <1>5, <1>6, <1>7, <1>8 DEF OddSegments

\* The pages of a segment are the frames it stands for: between two ends the frames
\* follow each other on the bus.
LEMMA PagesOfDescribed ==
  ASSUME NEW frames \in Seq(BusPage), NEW ends \in SegmentEnds(frames),
         NEW k \in 1..Len(ends)
  PROVE  LET l == PagesOfSegment(Described(frames, ends)[k])
         IN  /\ l \in Seq(Nat) /\ Len(l) = ends[k] - LastBefore(ends, k)
             /\ \A p \in 1..Len(l) : l[p] = frames[LastBefore(ends, k) + p]
<1> DEFINE n == Len(frames)
           b == LastBefore(ends, k)
           c == ends[k] - b
           s == Described(frames, ends)[k]
           l == PagesOfSegment(s)
           bad == {p \in 1..c : ~(frames[b + p] = s.address + (p - 1) * PageBytes)}
<1>1. /\ n \in Nat /\ ends[k] \in 1..n /\ b \in 0..(n - 1) /\ c \in Nat /\ c >= 1
      /\ b + c = ends[k]
  BY EndFacts
<1>2. s.address = frames[b + 1] /\ s.address \in BusPage /\ s.length = c * PageBytes
  BY DescribedFacts
<1> HIDE DEF s
<1>3. s.length \div PageBytes = c
  <2>1. c * PageBytes = PageBytes * c + 0 /\ 0 \in 0..(PageBytes - 1)
    BY <1>1, Sizes
  <2>2. (PageBytes * c + 0) \div PageBytes = c
    BY <1>1, <2>1, Sizes, DivisionUnique
  <2> QED
    BY <1>2, <2>1, <2>2
<1>4. l = [p \in 1..c |-> s.address + (p - 1) * PageBytes]
  BY <1>3 DEF PagesOfSegment
<1>5. s.address \in Nat
  BY <1>2, PageOfBus
<1>6. ASSUME NEW p \in 1..c, p # 1 PROVE frames[b + p] = frames[b + (p - 1)] + PageBytes
  <2>1. b + (p - 1) \in 1..(n - 1) /\ (b + (p - 1)) + 1 = b + p
    BY <1>1, <1>6
  <2>2. ASSUME NEW i \in 1..Len(ends) PROVE ends[i] # b + (p - 1)
    <3>1. ASSUME NEW x \in 1..Len(ends) PROVE ends[x] \in Nat /\ LastBefore(ends, x) <= ends[x]
      <4>1. /\ ends[x] \in 1..n /\ LastBefore(ends, x) \in 0..(n - 1)
            /\ LastBefore(ends, x) < ends[x]
        BY EndFacts, Zenon
      <4> QED
        BY <1>1, <4>1
    <3>2. Len(ends) \in Nat
      BY EndFacts
    <3>3. CASE i >= k
      <4>1. i \in k..Len(ends)
        BY <3>2, <3>3
      <4>2. ends[k] <= ends[i]
        BY <3>1, <3>2, <4>1, EndsGrow
      <4>3. ends[i] \in Nat
        BY <3>1
      <4> QED
        BY <1>1, <4>2, <4>3
    <3>4. CASE i < k
      <4>1. k # 1 /\ k - 1 \in 1..Len(ends) /\ k - 1 \in i..Len(ends)
        BY <3>2, <3>4
      <4>2. b = ends[k - 1]
        BY <4>1 DEF LastBefore
      <4>3. ends[i] <= ends[k - 1]
        BY <3>1, <3>2, <4>1, EndsGrow
      <4>4. ends[i] \in Nat
        BY <3>1
      <4> HIDE DEF b
      <4> QED
        BY <1>1, <1>6, <4>2, <4>3, <4>4
    <3> QED
      BY <3>2, <3>3, <3>4
  <2> HIDE DEF b
  <2>3. frames[(b + (p - 1)) + 1] = frames[b + (p - 1)] + PageBytes
    BY <2>1, <2>2, EndFacts
  <2> QED
    BY <2>1, <2>3
<1>a. \A p \in 1..c : p \in bad <=> ~(frames[b + p] = s.address + (p - 1) * PageBytes)
  OBVIOUS
<1>b. bad \subseteq 1..c /\ bad \subseteq Nat
  OBVIOUS
<1> HIDE DEF bad, b
<1>7. bad = {}
  <2>1. SUFFICES ASSUME bad # {} PROVE FALSE
    OBVIOUS
  <2>2. PICK p \in bad : \A y \in bad : p <= y
    BY <1>b, <2>1, LeastNumber
  <2>3. p \in 1..c /\ ~(frames[b + p] = s.address + (p - 1) * PageBytes)
    BY <1>a, <1>b, <2>2
  <2>4. p # 1
    BY <1>1, <1>2, <1>5, <2>3, Sizes
  <2>5. p - 1 \in 1..c /\ ~(p <= p - 1)
    BY <1>1, <2>3, <2>4
  <2>6. p - 1 \notin bad
    BY <2>2, <2>5
  <2>7. frames[b + (p - 1)] = s.address + ((p - 1) - 1) * PageBytes
    BY <1>a, <2>5, <2>6
  <2>8. frames[b + p] = s.address + ((p - 1) - 1) * PageBytes + PageBytes
    BY <1>6, <2>3, <2>4, <2>7
  <2>9. ((p - 1) - 1) * PageBytes + PageBytes = (p - 1) * PageBytes
        /\ ((p - 1) - 1) * PageBytes \in Int
    BY <1>1, <2>3, Sizes
  <2> QED
    BY <1>5, <2>3, <2>8, <2>9, Sizes
<1>8. \A p \in 1..c : l[p] = frames[b + p]
  BY <1>4, <1>7, <1>a
<1>9. l \in Seq(Nat) /\ Len(l) = c
  <2>1. \A p \in 1..c : s.address + (p - 1) * PageBytes \in Nat
    BY <1>5, Sizes
  <2> QED
    BY <1>1, <1>4, <2>1
<1> QED
  BY <1>8, <1>9 DEF b, s

\* The pages of honest segments are the frames.
LEMMA PagesOfHonest ==
  ASSUME NEW frames \in Seq(BusPage), NEW honest \in Segments(frames)
  PROVE  PagesOf(honest) \in Seq(Nat) /\ PagesOf(honest) = frames
<1>1. PICK ends \in SegmentEnds(frames) : honest = Described(frames, ends)
  BY DEF Segments
<1> DEFINE n == Len(frames)
           m == Len(ends)
           ss == [i \in DOMAIN honest |-> PagesOfSegment(honest[i])]
<1>2. /\ n \in Nat /\ m \in Nat \ {0} /\ m \in 1..m /\ ends[m] = n
      /\ \A k \in 1..m : /\ ends[k] \in Nat /\ LastBefore(ends, k) \in Nat
                         /\ LastBefore(ends, k) < ends[k]
  BY EndFacts
<1>3. honest \in Seq(SegmentRecords) /\ Len(honest) = m /\ DOMAIN honest = 1..m
  BY <1>1, DescribedFacts
<1>4. \A k \in 1..m : /\ ss[k] \in Seq(Nat) /\ Len(ss[k]) = ends[k] - LastBefore(ends, k)
                      /\ \A p \in 1..Len(ss[k]) : ss[k][p] = frames[LastBefore(ends, k) + p]
  BY <1>1, <1>3, PagesOfDescribed
<1>5. ss \in Seq(Seq(Nat)) /\ Len(ss) = m
  <2>1. ss = [k \in 1..m |-> ss[k]]
    BY <1>3
  <2> HIDE DEF ss, m
  <2>2. \A k \in 1..m : ss[k] \in Seq(Nat)
    BY <1>4, Zenon
  <2>3. m \in Nat
    BY <1>2
  <2> QED
    BY <2>1, <2>2, <2>3, ListOf, Zenon
<1>6. PagesOf(honest) = FlattenSeq(ss)
  BY DEF PagesOf
<1> HIDE DEF ss, m, n
<1>7. EndsOf(ss, ends)
  <2>1. ASSUME NEW k \in 1..m PROVE ends[k] \in Nat /\ ends[k] = LastBefore(ends, k) + Len(ss[k])
    <3>1. /\ ends[k] \in Nat /\ LastBefore(ends, k) \in Nat
          /\ Len(ss[k]) = ends[k] - LastBefore(ends, k)
      BY <1>2, <1>4, Zenon
    <3> QED
      BY <3>1
  <2> QED
    BY <1>5, <2>1, Zenon DEF EndsOf
<1>8. /\ FlattenSeq(ss) \in Seq(Nat) /\ Len(FlattenSeq(ss)) = n
      /\ \A i \in 1..m : \A p \in 1..Len(ss[i]) :
           FlattenSeq(ss)[LastBefore(ends, i) + p] = ss[i][p]
  <2>1. Len(ss) > 0
    BY <1>2, <1>5
  <2>a. ss \in Seq(Seq(Nat))
    BY <1>5
  <2>2. /\ FlattenSeq(ss) \in Seq(Nat) /\ Len(FlattenSeq(ss)) = ends[Len(ss)]
        /\ \A i \in 1..Len(ss) : \A p \in 1..Len(ss[i]) :
             FlattenSeq(ss)[LastBefore(ends, i) + p] = ss[i][p]
    <3>1. Joins(FlattenSeq(ss), ss, ends, Nat)
      BY <1>7, <2>1, <2>a, FlattenFacts
    <3> QED
      BY <3>1 DEF Joins
  <2> QED
    BY <1>2, <1>5, <2>2, Zenon
<1>9. ASSUME NEW q \in 1..n PROVE FlattenSeq(ss)[q] = frames[q]
  <2>1. PICK k \in 1..m : LastBefore(ends, k) < q /\ q <= ends[k]
    <3>1. \A i \in 1..m : ends[i] \in Nat
      BY <1>2
    <3>2. q \in 1..ends[m]
      BY <1>2
    <3> QED
      BY <1>2, <3>1, <3>2, PartOf, Zenon
  <2> DEFINE p == q - LastBefore(ends, k)
  <2>2. p \in 1..Len(ss[k]) /\ LastBefore(ends, k) + p = q
    <3>1. /\ ends[k] \in Nat /\ LastBefore(ends, k) \in Nat
          /\ Len(ss[k]) = ends[k] - LastBefore(ends, k)
      BY <1>2, <1>4, Zenon
    <3> QED
      BY <1>2, <2>1, <3>1
  <2> HIDE DEF p
  <2> QED
    BY <1>4, <1>8, <2>2
<1>10. PagesOf(honest) = frames
  <2>1. FlattenSeq(ss) = [q \in 1..n |-> FlattenSeq(ss)[q]] /\ frames = [q \in 1..n |-> frames[q]]
    BY <1>8 DEF n
  <2> QED
    BY <1>6, <1>9, <2>1
<1> QED
  BY <1>6, <1>8, <1>10

-----------------------------------------------------------------------------
(***************************************************************************)
(* The steps.                                                              *)
(***************************************************************************)

LEMMA InitIInv == Init => IInv
<1> SUFFICES ASSUME Init PROVE IInv
  OBVIOUS
<1>1. buffer = [length |-> 0, chunks |-> << >>] /\ Count = 0
  BY DEF Init, NoBuffer, Count
<1>2. TypeInv
  <2>1. buffer \in [length : Nat, chunks : Seq(ChunkRecords)] /\ buffer.length % PageBytes = 0
    BY <1>1, Sizes
  <2>2. mem = [i \in 0..(buffer.length - 1) |-> mem[i]]
    BY <1>1 DEF Init
  <2> QED
    BY <2>1, <2>2 DEF Init, TypeInv
<1>3. ChunksInv
  BY <1>1 DEF ChunksInv, FramesApart
<1>4. CallInv /\ SyncInv
  BY <1>1 DEF Init, CallInv, SyncInv
<1>5. PagesAreTheBuffer /\ DeviceSeesSource /\ ReadSeesDevice
  BY DEF Init, PagesAreTheBuffer, DeviceSeesSource, ReadSeesDevice
<1> QED
  BY <1>2, <1>3, <1>4, <1>5 DEF IInv

LEMMA ReleaseIInv == IInv /\ ReleaseAll => IInv'
<1> SUFFICES ASSUME IInv, ReleaseAll PROVE IInv'
  OBVIOUS
<1>1. buffer' = [length |-> 0, chunks |-> << >>] /\ Count' = 0
  BY DEF ReleaseAll, NoBuffer, Count
<1>2. TypeInv'
  <2>1. buffer' \in [length : Nat, chunks : Seq(ChunkRecords)] /\ buffer'.length % PageBytes = 0
    BY <1>1, Sizes
  <2>2. mem' = [i \in 0..(buffer'.length - 1) |-> mem'[i]]
    BY <1>1 DEF ReleaseAll
  <2>3. bus' = [a \in 0..kMaxAddress |-> bus'[a]]
    <3>1. DOMAIN bus = 0..kMaxAddress
      BY DEF IInv, TypeInv
    <3> QED
      BY <3>1 DEF ReleaseAll
  <2> QED
    BY <2>1, <2>2, <2>3 DEF ReleaseAll, TypeInv
<1>3. ChunksInv'
  BY <1>1 DEF ChunksInv, FramesApart
<1>4. CallInv' /\ SyncInv'
  BY <1>1 DEF ReleaseAll, CallInv, SyncInv
<1>5. PagesAreTheBuffer' /\ DeviceSeesSource' /\ ReadSeesDevice'
  BY DEF ReleaseAll, PagesAreTheBuffer, DeviceSeesSource, ReadSeesDevice
<1> QED
  BY <1>2, <1>3, <1>4, <1>5 DEF IInv

LEMMA AllocateIInv == ASSUME IInv, NEW length \in Lengths, Allocate(length) PROVE IInv'
<1>1. buffer' = [length |-> length, chunks |-> << >>] /\ Count' = 0
  BY DEF Allocate, NoBuffer, Count
<1>2. length \in Nat /\ length > 0 /\ length % PageBytes = 0
  BY DmaAssumption DEF Allocate
<1>3. pages = << >> /\ seen = {} /\ read = {}
  BY DEF IInv, CallInv, Allocate
<1>4. TypeInv'
  <2>1. buffer' \in [length : Nat, chunks : Seq(ChunkRecords)] /\ buffer'.length % PageBytes = 0
    BY <1>1, <1>2
  <2>2. mem' = [i \in 0..(buffer'.length - 1) |-> mem'[i]]
    BY <1>1 DEF Allocate
  <2>3. bus' = [a \in 0..kMaxAddress |-> bus'[a]]
    BY DEF Allocate, IInv, TypeInv
  <2> QED
    BY <2>1, <2>2, <2>3 DEF Allocate, TypeInv
<1>5. ChunksInv'
  BY <1>1 DEF ChunksInv, FramesApart
<1>6. CallInv'
  <2>1. Count' * kMaxDmaChunkBytes < buffer'.length
    BY <1>1, <1>2, Sizes
  <2> QED
    BY <1>1, <1>2, <1>3, <2>1 DEF Allocate, CallInv, NoBuffer
<1>7. SyncInv'
  BY DEF Allocate, SyncInv
<1>8. PagesAreTheBuffer' /\ DeviceSeesSource' /\ ReadSeesDevice'
  BY <1>3 DEF Allocate, PagesAreTheBuffer, DeviceSeesSource, ReadSeesDevice
<1> QED
  BY <1>4, <1>5, <1>6, <1>7, <1>8 DEF IInv

\* The chunks change with the buffer alone.
LEMMA SameChunks == ChunksInv /\ buffer' = buffer => ChunksInv' /\ Count' = Count
BY DEF ChunksInv, ChunkSound, FramesApart, Count

LEMMA FillIInv == ASSUME IInv, NEW n, Fill(n) PROVE IInv'
<1>1. buffer' = buffer /\ ChunksInv' /\ Count' = Count
  BY SameChunks DEF Fill, IInv
<1>2. DOMAIN mem = 0..(buffer.length - 1)
  BY DEF IInv, TypeInv
<1>3. TypeInv'
  <2>1. mem' = [i \in 0..(buffer'.length - 1) |-> mem'[i]]
    BY <1>1, <1>2 DEF Fill, Padded
  <2> QED
    BY <2>1 DEF IInv, TypeInv, Fill
<1>4. Count \in Nat /\ Count > 0
      /\ buffer.chunks[Count].offset + buffer.chunks[Count].length = buffer.length
  BY DEF IInv, CallInv, TypeInv, Fill, Ready, Count
<1>5. CallInv'
  BY <1>1, <1>4 DEF Fill, Ready, CallInv
<1>6. SyncInv'
  BY DEF Fill, Padded, SyncInv
<1>7. PagesAreTheBuffer'
  BY DEF Fill, IInv, PagesAreTheBuffer, BusAddress
<1>8. DeviceSeesSource' /\ ReadSeesDevice'
  BY DEF Fill, DeviceSeesSource, ReadSeesDevice
<1> QED
  BY <1>1, <1>3, <1>5, <1>6, <1>7, <1>8 DEF IInv

LEMMA DeviceWriteIInv == IInv /\ DeviceWrite => IInv'
<1> SUFFICES ASSUME IInv, DeviceWrite PROVE IInv'
  OBVIOUS
<1>1. buffer' = buffer /\ ChunksInv' /\ Count' = Count
  BY SameChunks DEF DeviceWrite, IInv
<1>2. TypeInv'
  <2>1. bus' = [a \in 0..kMaxAddress |-> bus'[a]]
    BY DEF IInv, TypeInv, DeviceWrite
  <2> QED
    BY <2>1 DEF IInv, TypeInv, DeviceWrite
<1>3. CallInv'
  BY <1>1 DEF DeviceWrite, IInv, CallInv
<1>4. SyncInv'
  BY DEF DeviceWrite, SyncInv
<1>5. PagesAreTheBuffer'
  BY DEF DeviceWrite, IInv, PagesAreTheBuffer, BusAddress
<1>6. DeviceSeesSource' /\ ReadSeesDevice'
  BY DEF DeviceWrite, DeviceSeesSource, ReadSeesDevice
<1> QED
  BY <1>1, <1>2, <1>3, <1>4, <1>5, <1>6 DEF IInv

\* What a chunk's synchronisation leaves on the bus: its own bytes in its pages, and
\* every other chunk's as they were.
LEMMA SynchronizedFacts ==
  ASSUME TypeInv, ChunksInv, NEW d \in 1..Count, NEW c \in 1..Count,
         NEW k \in 0..(buffer.chunks[c].length - 1)
  PROVE  Synchronized(buffer.chunks[d])[ChunkAddress(buffer.chunks[c], k)]
           = IF c = d THEN mem[buffer.chunks[c].offset + k]
                      ELSE bus[ChunkAddress(buffer.chunks[c], k)]
<1> DEFINE chunk == buffer.chunks[d]
           a == ChunkAddress(buffer.chunks[c], k)
           here == {j \in 0..(chunk.length - 1) : ChunkAddress(chunk, j) = a}
<1>1. a \in DOMAIN bus
  <2>1. a \in 0..kMaxAddress
    BY ByteOfChunk
  <2>2. DOMAIN bus = 0..kMaxAddress
    BY DEF TypeInv
  <2> QED
    BY <2>1, <2>2
<1>2. Synchronized(chunk)[a] = IF here = {} THEN bus[a]
                                           ELSE mem[chunk.offset + CHOOSE j \in here : TRUE]
  BY <1>1, Zenon DEF Synchronized
<1>3. ASSUME NEW j \in here PROVE c = d /\ k = j
  <2>1. j \in 0..(chunk.length - 1) /\ ChunkAddress(chunk, j) = a
    BY <1>3
  <2> QED
    BY <2>1, AddressUnique
<1>4. CASE c = d
  <2>1. k \in here
    BY <1>4
  <2>2. here = {k}
    BY <1>3, <2>1
  <2> HIDE DEF here
  <2>3. here # {} /\ (CHOOSE j \in here : TRUE) = k
    BY <2>2
  <2> QED
    BY <1>2, <1>4, <2>3
<1>5. CASE c # d
  <2>1. here = {}
    BY <1>3, <1>5
  <2> QED
    BY <1>2, <1>5, <2>1
<1> QED
  BY <1>4, <1>5

LEMMA SynchronizeIInv == IInv /\ SynchronizePreparedWrites => IInv'
<1> SUFFICES ASSUME IInv, SynchronizePreparedWrites PROVE IInv'
  OBVIOUS
<1>1. buffer' = buffer /\ mem' = mem /\ pages' = pages /\ read' = read
      /\ ChunksInv' /\ Count' = Count
  BY SameChunks DEF SynchronizePreparedWrites, IInv
<1>2. /\ TypeInv /\ ChunksInv /\ next \in 1..Count /\ Count \in Nat
      /\ seen = {} /\ read = {} /\ buffer # NoBuffer
  BY DEF IInv, CallInv, TypeInv, Count, SynchronizePreparedWrites
<1>3. Count > 0 /\ buffer.chunks[Count].offset + buffer.chunks[Count].length = buffer.length
  BY DEF IInv, CallInv, SynchronizePreparedWrites
<1>4. PagesAreTheBuffer' /\ ReadSeesDevice'
  BY <1>1, <1>2 DEF IInv, PagesAreTheBuffer, BusAddress, ReadSeesDevice
<1>5. CASE pc' = "idle" /\ next' = 0 /\ filling' = {} /\ UNCHANGED << bus, seen >>
  <2>1. TypeInv'
    BY <1>1, <1>5 DEF IInv, TypeInv
  <2>2. CallInv' /\ SyncInv'
    BY <1>1, <1>2, <1>3, <1>5 DEF CallInv, SyncInv
  <2>3. DeviceSeesSource'
    BY <1>2, <1>5 DEF DeviceSeesSource
  <2> QED
    BY <1>1, <1>4, <2>1, <2>2, <2>3 DEF IInv
<1>6. CASE /\ bus' = Synchronized(buffer.chunks[next])
           /\ IF next < Len(buffer.chunks)
                THEN pc' = pc /\ next' = next + 1 /\ UNCHANGED << seen, filling >>
                ELSE pc' = "idle" /\ next' = 0 /\ seen' = filling /\ filling' = {}
  <2>1. TypeInv'
    <3>1. bus' = [a \in 0..kMaxAddress |-> bus'[a]]
      <4>1. DOMAIN bus = 0..kMaxAddress
        BY DEF IInv, TypeInv
      <4>2. bus' = [a \in DOMAIN bus |-> bus'[a]]
        BY <1>6 DEF Synchronized
      <4> QED
        BY <4>1, <4>2
    <3>2. next' \in Nat
      BY <1>2, <1>6
    <3> QED
      BY <1>1, <3>1, <3>2 DEF IInv, TypeInv
  <2>2. ASSUME NEW content \in filling
        PROVE  /\ content = mem
               /\ \A c \in 1..next : \A k \in 0..(buffer.chunks[c].length - 1) :
                    bus'[ChunkAddress(buffer.chunks[c], k)] = mem[buffer.chunks[c].offset + k]
    <3>1. /\ content = mem
          /\ \A c \in 1..(next - 1) : \A k \in 0..(buffer.chunks[c].length - 1) :
               bus[ChunkAddress(buffer.chunks[c], k)] = mem[buffer.chunks[c].offset + k]
      BY DEF IInv, SyncInv, SynchronizePreparedWrites
    <3>2. ASSUME NEW c \in 1..next, NEW k \in 0..(buffer.chunks[c].length - 1)
          PROVE  bus'[ChunkAddress(buffer.chunks[c], k)] = mem[buffer.chunks[c].offset + k]
      <4>1. c \in 1..Count
        BY <1>2
      <4>2. bus'[ChunkAddress(buffer.chunks[c], k)]
              = IF c = next THEN mem[buffer.chunks[c].offset + k]
                            ELSE bus[ChunkAddress(buffer.chunks[c], k)]
        BY <1>2, <1>6, <4>1, SynchronizedFacts
      <4>3. c # next => c \in 1..(next - 1)
        BY <1>2
      <4> QED
        BY <3>1, <4>2, <4>3
    <3> QED
      BY <3>1, <3>2
  <2>3. CASE next < Len(buffer.chunks)
    <3>1. pc' = pc /\ next' = next + 1 /\ seen' = seen /\ filling' = filling
      BY <1>6, <2>3
    <3>2. next' \in 1..Count /\ pc = "sync"
      BY <1>2, <2>3, <3>1 DEF Count, SynchronizePreparedWrites
    <3>3. CallInv'
      BY <1>1, <1>2, <1>3, <3>1, <3>2 DEF CallInv
    <3>4. SyncInv'
      <4>1. next' - 1 = next
        BY <1>2, <3>1
      <4>2. ASSUME NEW content \in filling'
            PROVE  /\ content = mem'
                   /\ \A c \in 1..(next' - 1) : \A k \in 0..(buffer'.chunks[c].length - 1) :
                        bus'[ChunkAddress(buffer'.chunks[c], k)] = mem'[buffer'.chunks[c].offset + k]
        BY <1>1, <2>2, <3>1, <4>1
      <4> QED
        BY <4>2 DEF SyncInv, ChunkAddress
    <3>5. DeviceSeesSource'
      BY <1>2, <3>1 DEF DeviceSeesSource
    <3> QED
      BY <1>1, <1>4, <2>1, <3>3, <3>4, <3>5 DEF IInv
  <2>4. CASE ~(next < Len(buffer.chunks))
    <3>1. pc' = "idle" /\ next' = 0 /\ seen' = filling /\ filling' = {} /\ next = Count
      BY <1>2, <1>6, <2>4 DEF Count
    <3>2. CallInv' /\ SyncInv'
      BY <1>1, <1>2, <1>3, <3>1 DEF CallInv, SyncInv
    <3>3. ASSUME NEW content \in seen', NEW off \in 0..(buffer'.length - 1)
          PROVE  bus'[BusAddress(off)'] = content[off]
      <4>1. PICK c \in 1..Count : \E k \in 0..(buffer.chunks[c].length - 1) :
                                    off = buffer.chunks[c].offset + k
        BY <1>1, <1>2, <1>3, OffsetInChunk
      <4>2. PICK k \in 0..(buffer.chunks[c].length - 1) : off = buffer.chunks[c].offset + k
        BY <4>1
      <4>3. BusAddress(off)' = ChunkAddress(buffer.chunks[c], k)
        <5>1. BusAddress(off) = ChunkAddress(buffer.chunks[c], k)
          BY <1>2, <4>2, BusAddressOfChunk
        <5> QED
          BY <1>1, <5>1 DEF BusAddress
      <4>4. content = mem /\ bus'[ChunkAddress(buffer.chunks[c], k)] = mem[buffer.chunks[c].offset + k]
        BY <2>2, <3>1
      <4> QED
        BY <4>2, <4>3, <4>4
    <3>4. DeviceSeesSource'
      BY <3>3 DEF DeviceSeesSource
    <3> QED
      BY <1>1, <1>4, <2>1, <3>2, <3>4 DEF IInv
  <2> QED
    BY <2>3, <2>4
<1> QED
  BY <1>5, <1>6 DEF SynchronizePreparedWrites

LEMMA ReadIInv == ASSUME IInv, NEW off \in ReadOffsets, ReadPreparedDmaU32(off) PROVE IInv'
<1>1. buffer' = buffer /\ bus' = bus /\ ChunksInv' /\ Count' = Count
  BY SameChunks DEF ReadPreparedDmaU32, IInv
<1>2. TypeInv /\ ChunksInv /\ DOMAIN mem = 0..(buffer.length - 1) /\ off \in Nat
  BY DmaAssumption DEF IInv, TypeInv
<1>3. PICK chunk \in FindChunk(off, WordBytes) :
        LET memory == [i \in DOMAIN mem |->
              IF i \in off..(off + WordBytes - 1)
                THEN bus[ChunkAddress(chunk, i - chunk.offset)] ELSE mem[i]]
        IN  /\ mem' = memory
            /\ read' = {[offset |-> off, value |-> Taken(chunk, off, memory)]}
  BY DEF ReadPreparedDmaU32
<1>4. PICK c \in 1..Count : chunk = buffer.chunks[c]
  <2>1. DOMAIN buffer.chunks = 1..Count
    BY <1>2 DEF TypeInv, Count
  <2> QED
    BY <2>1 DEF FindChunk, Range
<1>5. /\ off + WordBytes <= buffer.length /\ off >= chunk.offset
      /\ WordBytes <= chunk.length - (off - chunk.offset)
  BY <1>3 DEF FindChunk
<1>6. /\ chunk.offset \in Nat /\ chunk.length \in Nat /\ buffer.length \in Nat
      /\ WordBytes \in Nat \ {0}
  BY <1>2, <1>4, ChunkFacts, Sizes
<1>7. mem' = [i \in 0..(buffer'.length - 1) |-> mem'[i]]
  BY <1>1, <1>2, <1>3
<1>8. TypeInv'
  BY <1>7 DEF ReadPreparedDmaU32, IInv, TypeInv
<1>9. ASSUME NEW k \in 0..(WordBytes - 1)
      PROVE  mem'[off + k] = bus[BusAddress(off + k)]
  <2>1. off + k \in DOMAIN mem /\ off + k \in off..(off + WordBytes - 1)
    BY <1>2, <1>5, <1>6
  <2>2. mem'[off + k] = bus[ChunkAddress(chunk, (off + k) - chunk.offset)]
    BY <1>3, <2>1
  <2> DEFINE j == (off + k) - chunk.offset
  <2>3. j \in 0..(chunk.length - 1) /\ chunk.offset + j = off + k
    <3> DEFINE from == chunk.offset
               length == chunk.length
    <3>1. /\ WordBytes \in Nat /\ off \in Nat /\ from \in Nat /\ length \in Nat
          /\ off >= from /\ WordBytes <= length - (off - from)
      BY <1>2, <1>5, <1>6
    <3> HIDE DEF from, length
    <3>2. (off + k) - from \in 0..(length - 1) /\ from + ((off + k) - from) = off + k
      BY <3>1
    <3> QED
      BY <3>2 DEF from, length
  <2> HIDE DEF j
  <2>4. BusAddress(chunk.offset + j) = ChunkAddress(chunk, j)
    BY <1>2, <1>4, <2>3, BusAddressOfChunk
  <2> QED
    BY <2>2, <2>3, <2>4 DEF j
<1>10. ReadSeesDevice'
  <2>1. read' = {[offset |-> off, value |-> [k \in 0..(WordBytes - 1) |-> mem'[off + k]]]}
    BY <1>3 DEF Taken
  <2>2. ASSUME NEW r \in read', NEW k \in 0..(WordBytes - 1)
        PROVE  r.value[k] = bus'[BusAddress(r.offset + k)']
    <3>1. r = [offset |-> off, value |-> [i \in 0..(WordBytes - 1) |-> mem'[off + i]]]
      BY <2>1, Zenon
    <3>a. r.offset = off /\ r.value[k] = mem'[off + k]
      BY <3>1, Zenon
    <3>2. BusAddress(r.offset + k)' = BusAddress(off + k)
      BY <1>1, <3>a DEF BusAddress
    <3> QED
      BY <1>1, <1>9, <3>a, <3>2
  <2> QED
    BY <2>2 DEF ReadSeesDevice
<1>11. CallInv'
  BY <1>1 DEF ReadPreparedDmaU32, Ready, IInv, CallInv
<1>12. SyncInv'
  BY DEF ReadPreparedDmaU32, Ready, SyncInv
<1>13. PagesAreTheBuffer' /\ DeviceSeesSource'
  BY DEF ReadPreparedDmaU32, IInv, PagesAreTheBuffer, DeviceSeesSource, BusAddress
<1> QED
  BY <1>1, <1>8, <1>10, <1>11, <1>12, <1>13 DEF IInv

\* In a complete buffer only the last chunk can be short.
LEMMA FullChunks ==
  ASSUME TypeInv, ChunksInv, NEW c \in 1..Count, c # Count
  PROVE  buffer.chunks[c].length = kMaxDmaChunkBytes /\ Len(buffer.chunks[c].frames) = MaxDmaSegments
<1> DEFINE M == kMaxDmaChunkBytes
           n == Count
           k == buffer.chunks[c]
           l == buffer.chunks[n]
<1>1. n \in Nat /\ n \in 1..n
  BY DEF TypeInv, Count
<1>2. /\ k.offset = (c - 1) * M /\ k.length \in Nat /\ k.length <= M /\ k.length > 0
      /\ k.offset + k.length < buffer.length => k.length = M
      /\ k.length = PageBytes * Len(k.frames) /\ Len(k.frames) \in Nat /\ buffer.length \in Nat
  BY ChunkFacts
<1>3. l.offset = (n - 1) * M /\ l.length \in Nat /\ l.length > 0
      /\ l.offset + l.length <= buffer.length
  BY <1>1, ChunkFacts
<1> HIDE DEF n, k, l
<1>4. PICK d \in Nat : n = c + 1 + d
  <2>1. c \in Nat /\ n \in Nat /\ c < n
    BY <1>1 DEF n
  <2> QED
    BY <2>1, Gap
<1>5. (n - 1) * M = (c - 1) * M + M + d * M /\ d * M \in Nat /\ (c - 1) * M \in Nat /\ M \in Nat
  BY <1>4, Sizes
<1>6. k.length = M
  BY <1>2, <1>3, <1>5
<1>7. PageBytes * Len(k.frames) = PageBytes * MaxDmaSegments
  BY <1>2, <1>6, Sizes
<1>8. Len(k.frames) = MaxDmaSegments
  <2>1. \A x \in Nat : (PageBytes * x + 0) \div PageBytes = x
    <3>1. 0 \in 0..(PageBytes - 1)
      BY Sizes
    <3> QED
      BY <3>1, Sizes, DivisionUnique
  <2>2. \A x \in Nat : PageBytes * x + 0 = PageBytes * x
    BY Sizes
  <2> QED
    BY <1>2, <1>7, <2>1, <2>2, Sizes
<1> QED
  BY <1>6, <1>8 DEF k

\* The page of a byte of the buffer, counted from the buffer's start.
LEMMA PageOfOffset ==
  ASSUME TypeInv, ChunksInv, NEW c \in 1..Count, NEW k \in 0..(buffer.chunks[c].length - 1)
  PROVE  LET off == buffer.chunks[c].offset + k
         IN  /\ off \div PageBytes = (c - 1) * MaxDmaSegments + (k \div PageBytes)
             /\ off % PageBytes = k % PageBytes
<1> DEFINE q == k \div PageBytes
           r == k % PageBytes
           x == (c - 1) * MaxDmaSegments + q
<1>1. q \in Nat /\ r \in 0..(PageBytes - 1) /\ k = PageBytes * q + r
  BY ByteOfChunk
<1>2. buffer.chunks[c].offset = (c - 1) * kMaxDmaChunkBytes /\ c - 1 \in Nat
  BY ChunkFacts
<1> HIDE DEF q, r
<1>3. x \in Nat
  BY <1>1, <1>2, Sizes
<1>4. buffer.chunks[c].offset + k = PageBytes * x + r
  <2>1. PageBytes * x = (c - 1) * (PageBytes * MaxDmaSegments) + PageBytes * q
    BY <1>1, <1>2, Sizes
  <2> QED
    BY <1>1, <1>2, <2>1, Sizes
<1> HIDE DEF x
<1>5. (PageBytes * x + r) \div PageBytes = x /\ (PageBytes * x + r) % PageBytes = r
  BY <1>1, <1>3, Sizes, DivisionUnique
<1> QED
  BY <1>4, <1>5 DEF x, q, r

\* The last page of each chunk, counted from the buffer's start.
PageEnds == [c \in 1..Count |-> (c - 1) * MaxDmaSegments + Len(buffer.chunks[c].frames)]

LEMMA PageEndsFacts ==
  ASSUME TypeInv, ChunksInv, NEW c \in 1..Count
  PROVE  /\ LastBefore(PageEnds, c) = (c - 1) * MaxDmaSegments /\ LastBefore(PageEnds, c) \in Nat
         /\ PageEnds[c] = LastBefore(PageEnds, c) + Len(buffer.chunks[c].frames)
         /\ PageEnds[c] \in Nat
<1>1. Count \in Nat
  BY DEF TypeInv, Count
<1>2. PageEnds[c] = (c - 1) * MaxDmaSegments + Len(buffer.chunks[c].frames)
  BY DEF PageEnds
<1>3. Len(buffer.chunks[c].frames) \in Nat /\ (c - 1) * MaxDmaSegments \in Nat
  <2>1. buffer.chunks[c].frames \in Seq(BusPage)
    BY ChunkFacts
  <2>2. c - 1 \in Nat
    OBVIOUS
  <2> QED
    BY <2>1, <2>2, Sizes
<1>4. LastBefore(PageEnds, c) = (c - 1) * MaxDmaSegments
  <2>1. CASE c = 1
    BY <2>1, Sizes DEF LastBefore
  <2>2. CASE c # 1
    <3>1. c - 1 \in 1..Count /\ c - 1 # Count /\ (c - 1) - 1 \in Nat
      BY <1>1, <2>2
    <3>2. PageEnds[c - 1] = ((c - 1) - 1) * MaxDmaSegments + Len(buffer.chunks[c - 1].frames)
      BY <3>1 DEF PageEnds
    <3>3. Len(buffer.chunks[c - 1].frames) = MaxDmaSegments
      BY <3>1, FullChunks
    <3>4. ((c - 1) - 1) * MaxDmaSegments + MaxDmaSegments = (c - 1) * MaxDmaSegments
      BY <3>1, Sizes
    <3> QED
      BY <2>2, <3>2, <3>3, <3>4 DEF LastBefore
  <2> QED
    BY <2>1, <2>2
<1> QED
  BY <1>2, <1>3, <1>4

\* The collected pages, chunk by chunk.
LEMMA CollectedFacts ==
  ASSUME TypeInv, ChunksInv, Count > 0
  PROVE  LET collected == FlattenSeq([c \in DOMAIN buffer.chunks |-> PagesOf(buffer.chunks[c].segments)])
         IN  \A c \in 1..Count : \A p \in 1..Len(buffer.chunks[c].frames) :
               collected[(c - 1) * MaxDmaSegments + p] = buffer.chunks[c].frames[p]
<1> DEFINE ss == [c \in DOMAIN buffer.chunks |-> PagesOf(buffer.chunks[c].segments)]
           n == Count
<1>1. n \in Nat /\ n > 0 /\ DOMAIN buffer.chunks = 1..n
  BY DEF TypeInv, Count
<1>2. ASSUME NEW c \in 1..n
      PROVE  ss[c] = buffer.chunks[c].frames /\ ss[c] \in Seq(Nat)
  <2>1. buffer.chunks[c].frames \in Seq(BusPage)
        /\ buffer.chunks[c].segments \in Segments(buffer.chunks[c].frames)
    BY ChunkFacts
  <2>2. ss[c] = PagesOf(buffer.chunks[c].segments)
    BY <1>1
  <2> QED
    BY <2>1, <2>2, PagesOfHonest
<1>3. ss = [c \in 1..n |-> ss[c]]
  BY <1>1
<1> HIDE DEF ss
<1>4. \A c \in 1..n : ss[c] \in Seq(Nat)
  BY <1>2
<1>5. Len(ss) = n
  BY <1>1, <1>3, <1>4, ListOf
<1>6. ss \in Seq(Seq(Nat))
  BY <1>1, <1>3, <1>4, ListOf
<1>7. EndsOf(ss, PageEnds)
  <2>1. ASSUME NEW c \in 1..n
        PROVE  PageEnds[c] \in Nat /\ PageEnds[c] = LastBefore(PageEnds, c) + Len(ss[c])
    <3>1. ss[c] = buffer.chunks[c].frames
      BY <1>2
    <3> QED
      BY <3>1, PageEndsFacts
  <2> QED
    BY <1>5, <2>1 DEF EndsOf
<1>8. Len(ss) > 0
  BY <1>1, <1>5
<1>9. Joins(FlattenSeq(ss), ss, PageEnds, Nat)
  BY <1>6, <1>7, <1>8, FlattenFacts
<1>10. ASSUME NEW c \in 1..n, NEW p \in 1..Len(buffer.chunks[c].frames)
       PROVE  FlattenSeq(ss)[(c - 1) * MaxDmaSegments + p] = buffer.chunks[c].frames[p]
  <2>1. ss[c] = buffer.chunks[c].frames /\ c \in 1..Len(ss)
    BY <1>2, <1>5
  <2>2. LastBefore(PageEnds, c) = (c - 1) * MaxDmaSegments
    BY PageEndsFacts
  <2>3. p \in 1..Len(ss[c])
    BY <2>1
  <2>4. FlattenSeq(ss)[LastBefore(PageEnds, c) + p] = ss[c][p]
    BY <1>9, <2>1, <2>3, Zenon DEF Joins
  <2> QED
    BY <2>1, <2>2, <2>4
<1> QED
  BY <1>10 DEF ss

LEMMA CollectIInv == IInv /\ CollectDmaPageAddresses => IInv'
<1> SUFFICES ASSUME IInv, CollectDmaPageAddresses PROVE IInv'
  OBVIOUS
<1>1. /\ buffer' = buffer /\ mem' = mem /\ bus' = bus /\ pc' = pc /\ next' = next
      /\ seen' = seen /\ filling' = filling /\ read' = read
      /\ ChunksInv' /\ Count' = Count
  BY SameChunks DEF CollectDmaPageAddresses, IInv
<1>2. TypeInv /\ ChunksInv /\ pc = "idle" /\ buffer # NoBuffer
  BY DEF IInv, CollectDmaPageAddresses, Ready
<1>3. Count > 0 /\ buffer.chunks[Count].offset + buffer.chunks[Count].length = buffer.length
  BY <1>2 DEF IInv, CallInv
<1>4. pages' = FlattenSeq([c \in DOMAIN buffer.chunks |-> PagesOf(buffer.chunks[c].segments)])
  BY DEF CollectDmaPageAddresses
<1>5. ASSUME NEW off \in 0..(buffer.length - 1)
      PROVE  pages'[(off \div PageBytes) + 1] + (off % PageBytes) = BusAddress(off)
  <2>1. PICK c \in 1..Count : \E k \in 0..(buffer.chunks[c].length - 1) :
                                off = buffer.chunks[c].offset + k
    BY <1>2, <1>3, OffsetInChunk
  <2>2. PICK k \in 0..(buffer.chunks[c].length - 1) : off = buffer.chunks[c].offset + k
    BY <2>1
  <2> DEFINE q == k \div PageBytes
  <2>3. q + 1 \in 1..Len(buffer.chunks[c].frames) /\ q \in Nat
    BY <1>2, ByteOfChunk
  <2>4. off \div PageBytes = (c - 1) * MaxDmaSegments + q /\ off % PageBytes = k % PageBytes
    BY <1>2, <2>2, PageOfOffset
  <2>5. BusAddress(off) = buffer.chunks[c].frames[q + 1] + (k % PageBytes)
    BY <1>2, <2>2, BusAddressOfChunk DEF ChunkAddress
  <2> HIDE DEF q
  <2>6. pages'[(c - 1) * MaxDmaSegments + (q + 1)] = buffer.chunks[c].frames[q + 1]
    BY <1>2, <1>3, <1>4, <2>3, CollectedFacts
  <2>7. ((c - 1) * MaxDmaSegments + q) + 1 = (c - 1) * MaxDmaSegments + (q + 1)
    BY <2>3, Sizes
  <2> QED
    BY <2>4, <2>5, <2>6, <2>7
<1>6. PagesAreTheBuffer'
  <2>1. ASSUME NEW off \in 0..(buffer'.length - 1)
        PROVE  pages'[(off \div PageBytes) + 1] + (off % PageBytes) = BusAddress(off)'
    <3>1. BusAddress(off)' = BusAddress(off)
      BY <1>1 DEF BusAddress
    <3> QED
      BY <1>1, <1>5, <3>1
  <2> QED
    BY <2>1 DEF PagesAreTheBuffer
<1>7. TypeInv'
  BY <1>1, <1>2 DEF TypeInv
<1>8. CallInv'
  BY <1>1, <1>2 DEF IInv, CallInv
<1>9. SyncInv'
  BY <1>1, <1>2 DEF SyncInv
<1>10. DeviceSeesSource' /\ ReadSeesDevice'
  BY <1>1 DEF IInv, DeviceSeesSource, ReadSeesDevice, BusAddress
<1> QED
  BY <1>1, <1>6, <1>7, <1>8, <1>9, <1>10 DEF IInv

\* The chunk that is prepared next: whole pages behind the full chunks before it, and all
\* of the buffer's rest unless it is full itself.
LEMMA NextChunk ==
  ASSUME IInv, pc = "prepare"
  PROVE  /\ next = Count + 1 /\ Count \in Nat /\ buffer.length \in Nat
         /\ ChunkOffset = Count * kMaxDmaChunkBytes /\ ChunkOffset \in Nat
         /\ ChunkLength \in Nat /\ ChunkLength > 0 /\ ChunkLength <= kMaxDmaChunkBytes
         /\ ChunkOffset + ChunkLength <= buffer.length
         /\ ChunkOffset + ChunkLength < buffer.length => ChunkLength = kMaxDmaChunkBytes
         /\ ChunkLength \div PageBytes \in Nat
         /\ ChunkLength = PageBytes * (ChunkLength \div PageBytes)
<1> DEFINE M == kMaxDmaChunkBytes
           n == Count
           L == buffer.length
           rest == L - n * M
<1>1. next = n + 1 /\ n * M < L /\ n \in Nat /\ L \in Nat /\ L % PageBytes = 0
  BY DEF IInv, CallInv, TypeInv, Count
<1>2. M \in Nat \ {0} /\ n * M \in Nat /\ M = PageBytes * MaxDmaSegments
  BY <1>1, Sizes
<1>3. ChunkOffset = n * M
  BY <1>1, <1>2 DEF ChunkOffset
<1>4. ChunkLength = IF rest < M THEN rest ELSE M
  BY <1>3 DEF ChunkLength
<1> HIDE DEF n, M, L
<1>5. rest \in Nat /\ rest > 0
  BY <1>1, <1>2
<1>6. ChunkLength \in Nat /\ ChunkLength > 0 /\ ChunkLength <= M
  BY <1>2, <1>4, <1>5
<1>7. ChunkOffset + ChunkLength <= L /\ (ChunkOffset + ChunkLength < L => ChunkLength = M)
  BY <1>1, <1>2, <1>3, <1>4, <1>5
<1>8. \E x \in Nat : ChunkLength = PageBytes * x
  <2>1. L = PageBytes * (L \div PageBytes) /\ L \div PageBytes \in Nat
    <3>1. L \div PageBytes \in Nat /\ L = PageBytes * (L \div PageBytes) + (L % PageBytes)
      BY <1>1, Sizes, Division
    <3>2. PageBytes * (L \div PageBytes) \in Nat
      BY <3>1, Sizes
    <3> QED
      BY <1>1, <3>1, <3>2
  <2> DEFINE y == L \div PageBytes
  <2> HIDE DEF y
  <2>2. rest = PageBytes * (y - n * MaxDmaSegments) /\ y - n * MaxDmaSegments \in Int
    <3>1. n * M = PageBytes * (n * MaxDmaSegments) /\ n * MaxDmaSegments \in Nat
      BY <1>1, <1>2, Sizes
    <3>2. L = PageBytes * y /\ y \in Nat
      BY <2>1 DEF y
    <3> QED
      BY <3>1, <3>2, Sizes
  <2> DEFINE z == y - n * MaxDmaSegments
  <2> HIDE DEF z
  <2>3. rest = PageBytes * z /\ z \in Int
    BY <2>2 DEF z
  <2>4. z \in Nat
    <3>1. SUFFICES ASSUME z < 0 PROVE FALSE
      BY <2>3
    <3>2. PICK d \in Nat : z = -d
      BY <2>3, <3>1
    <3>3. PageBytes * z = -(PageBytes * d) /\ PageBytes * d \in Nat
      BY <3>2, Sizes
    <3> QED
      BY <1>5, <2>3, <3>3
  <2>5. CASE rest < M
    BY <1>4, <2>3, <2>4, <2>5
  <2>6. CASE ~(rest < M)
    BY <1>2, <1>4, <2>6, Sizes
  <2> QED
    BY <2>5, <2>6
<1>9. PICK x \in Nat : ChunkLength = PageBytes * x
  BY <1>8
<1>10. ChunkLength \div PageBytes = x
  <2>1. 0 \in 0..(PageBytes - 1) /\ PageBytes * x = PageBytes * x + 0
    BY Sizes
  <2>2. (PageBytes * x + 0) \div PageBytes = x
    BY <2>1, Sizes, DivisionUnique
  <2> QED
    BY <1>9, <2>1, <2>2
<1> QED
  BY <1>1, <1>2, <1>3, <1>6, <1>7, <1>9, <1>10 DEF n, M, L

\* Segments that pass the checks are the honest ones.
LEMMA PreparedSegments ==
  ASSUME NEW frames \in Seq(BusPage), NEW honest \in Segments(frames),
         NEW segments \in {honest} \cup OddSegments(honest), NEW length,
         length = PageBytes * Len(frames), SegmentsAllowed(segments, length)
  PROVE  segments \in Segments(frames) /\ segments \in Seq(SegmentRecords)
<1>1. segments = honest
  BY OddRefused
<1>2. PICK ends \in SegmentEnds(frames) : honest = Described(frames, ends)
  BY DEF Segments
<1> QED
  BY <1>1, <1>2, DescribedFacts

LEMMA PrepareIInv == IInv /\ PrepareChunk => IInv'
<1> SUFFICES ASSUME IInv, PrepareChunk PROVE IInv'
  OBVIOUS
<1>1. CASE ReleaseAll
  BY <1>1, ReleaseIInv
<1>2. ASSUME NEW frames \in Injection(1..(ChunkLength \div PageBytes), BusPage \ Mapped),
             NEW honest \in Segments(frames), NEW segments \in {honest} \cup OddSegments(honest),
             SegmentsAllowed(segments, ChunkLength),
             buffer' = [buffer EXCEPT !.chunks = Append(@,
                          [offset |-> ChunkOffset, length |-> ChunkLength,
                           segments |-> segments, frames |-> frames])],
             IF ChunkOffset + ChunkLength = buffer.length
               THEN pc' = "idle" /\ next' = 0
               ELSE pc' = pc /\ next' = next + 1,
             UNCHANGED << mem, bus, pages, seen, filling, read >>
      PROVE  IInv'
  <2> DEFINE n == Count
             m == ChunkLength \div PageBytes
             chunk == [offset |-> ChunkOffset, length |-> ChunkLength,
                       segments |-> segments, frames |-> frames]
             chunks == buffer.chunks
  <2>0. pc = "prepare" /\ TypeInv /\ ChunksInv
    BY DEF PrepareChunk, IInv
  <2>1. /\ next = n + 1 /\ n \in Nat /\ buffer.length \in Nat /\ m \in Nat
        /\ ChunkOffset = n * kMaxDmaChunkBytes /\ ChunkOffset \in Nat
        /\ ChunkLength \in Nat /\ ChunkLength > 0 /\ ChunkLength <= kMaxDmaChunkBytes
        /\ ChunkOffset + ChunkLength <= buffer.length
        /\ ChunkOffset + ChunkLength < buffer.length => ChunkLength = kMaxDmaChunkBytes
        /\ ChunkLength = PageBytes * m
    BY <2>0, NextChunk
  <2>2. /\ frames \in [1..m -> BusPage] /\ Len(frames) = m /\ frames \in Seq(BusPage)
        /\ \A i \in 1..m : frames[i] \notin Mapped
        /\ \A i, j \in 1..m : frames[i] = frames[j] => i = j
    <3>1. frames \in [1..m -> BusPage \ Mapped] /\ \A i, j \in 1..m : frames[i] = frames[j] => i = j
      BY DEF Injection, IsInjective
    <3> HIDE DEF m
    <3>2. frames \in [1..m -> BusPage] /\ \A i \in 1..m : frames[i] \notin Mapped
      BY <3>1
    <3>3. Len(frames) = m /\ frames \in Seq(BusPage)
      BY <2>1, <3>2
    <3> QED
      BY <3>1, <3>2, <3>3
  <2>3. segments \in Segments(frames) /\ segments \in Seq(SegmentRecords)
    <3>1. ChunkLength = PageBytes * Len(frames)
      BY <2>1, <2>2
    <3>2. frames \in Seq(BusPage)
      BY <2>2
    <3> HIDE DEF m
    <3> QED
      BY <1>2, <3>1, <3>2, PreparedSegments
  <2>4. chunk \in ChunkRecords
    BY <2>1, <2>2, <2>3 DEF ChunkRecords
  <2>5. buffer \in [length : Nat, chunks : Seq(ChunkRecords)] /\ chunks \in Seq(ChunkRecords)
        /\ Len(chunks) = n
    BY <2>0 DEF TypeInv, Count
  <2>6. buffer'.length = buffer.length /\ buffer'.chunks = Append(chunks, chunk)
        /\ buffer' \in [length : Nat, chunks : Seq(ChunkRecords)]
    <3> HIDE DEF chunk
    <3>1. buffer' = [buffer EXCEPT !.chunks = Append(@, chunk)]
      BY <1>2 DEF chunk
    <3>2. Append(chunks, chunk) \in Seq(ChunkRecords)
      BY <2>4, <2>5
    <3>3. buffer'.length = buffer.length /\ buffer'.chunks = Append(chunks, chunk)
      BY <2>5, <3>1
    <3>4. buffer' = [length |-> buffer.length, chunks |-> Append(chunks, chunk)]
      BY <2>5, <3>1
    <3> QED
      BY <2>1, <3>2, <3>3, <3>4
  <2>7. /\ Count' = n + 1 /\ buffer'.chunks[n + 1] = chunk
        /\ \A c \in 1..n : buffer'.chunks[c] = chunks[c]
    <3> HIDE DEF chunk
    <3> QED
      BY <2>1, <2>4, <2>5, <2>6 DEF Count
  <2>8. TypeInv'
    <3>1. mem' = [i \in 0..(buffer'.length - 1) |-> mem'[i]]
      BY <1>2, <2>0, <2>6 DEF TypeInv
    <3>2. next' \in Nat
      BY <1>2, <2>1
    <3> QED
      BY <1>2, <2>0, <2>6, <3>1, <3>2 DEF TypeInv
  <2>9. ASSUME NEW c \in 1..(n + 1) PROVE ChunkSound(c)'
    <3>1. CASE c = n + 1
      <4>1. /\ buffer'.chunks[c] = chunk /\ buffer'.length = buffer.length
            /\ c - 1 = n
        <5> HIDE DEF chunk, n
        <5>1. c - 1 = n
          BY <2>1, <3>1
        <5>2. buffer'.chunks[c] = chunk
          BY <2>7, <3>1, Zenon
        <5> QED
          BY <2>6, <5>1, <5>2
      <4>2. /\ chunk.offset = (c - 1) * kMaxDmaChunkBytes
            /\ chunk.length > 0 /\ chunk.length <= kMaxDmaChunkBytes
            /\ chunk.length = PageBytes * Len(chunk.frames)
            /\ chunk.offset + chunk.length <= buffer.length
            /\ chunk.offset + chunk.length < buffer.length => chunk.length = kMaxDmaChunkBytes
            /\ chunk.segments \in Segments(chunk.frames)
        BY <2>1, <2>2, <2>3, <4>1
      <4> HIDE DEF chunk
      <4> QED
        BY <4>1, <4>2 DEF ChunkSound
    <3>2. CASE c # n + 1
      <4>1. c \in 1..n
        BY <2>1, <3>2
      <4>2. buffer'.chunks[c] = chunks[c] /\ buffer'.length = buffer.length /\ ChunkSound(c)
        BY <2>0, <2>6, <2>7, <4>1 DEF ChunksInv
      <4> QED
        BY <4>2 DEF ChunkSound
    <3> QED
      BY <3>1, <3>2
  <2>10. ASSUME NEW c \in 1..n, NEW i \in 1..Len(chunks[c].frames) PROVE chunks[c].frames[i] \in Mapped
    <3>1. c \in DOMAIN buffer.chunks /\ chunks[c].frames \in Seq(BusPage)
      BY <2>0, <2>5, ChunkFacts
    <3>2. chunks[c].frames[i] \in Range(chunks[c].frames)
      BY <3>1 DEF Range
    <3> QED
      BY <3>1, <3>2 DEF Mapped
  <2>11. FramesApart'
    <3>1. ASSUME NEW c \in 1..(n + 1), NEW d \in 1..(n + 1),
                 NEW i \in 1..Len(buffer'.chunks[c].frames),
                 NEW j \in 1..Len(buffer'.chunks[d].frames),
                 buffer'.chunks[c].frames[i] = buffer'.chunks[d].frames[j]
          PROVE  c = d /\ i = j
      <4>1. CASE c = n + 1 /\ d = n + 1
        <5>1. buffer'.chunks[c].frames = frames /\ buffer'.chunks[d].frames = frames
          BY <2>7, <4>1
        <5> HIDE DEF m
        <5> QED
          BY <2>2, <3>1, <4>1, <5>1
      <4>2. CASE c = n + 1 /\ d # n + 1
        <5>1. d \in 1..n
          BY <2>1, <4>2
        <5>2. buffer'.chunks[c].frames = frames /\ buffer'.chunks[d] = chunks[d]
          BY <2>7, <4>2, <5>1
        <5>3. frames[i] \notin Mapped
          BY <2>2, <5>2
        <5>4. chunks[d].frames[j] \in Mapped
          BY <2>10, <5>1, <5>2
        <5> QED
          BY <3>1, <5>2, <5>3, <5>4
      <4>3. CASE c # n + 1 /\ d = n + 1
        <5>1. c \in 1..n
          BY <2>1, <4>3
        <5>2. buffer'.chunks[d].frames = frames /\ buffer'.chunks[c] = chunks[c]
          BY <2>7, <4>3, <5>1
        <5>3. frames[j] \notin Mapped
          BY <2>2, <5>2
        <5>4. chunks[c].frames[i] \in Mapped
          BY <2>10, <5>1, <5>2
        <5> QED
          BY <3>1, <5>2, <5>3, <5>4
      <4>4. CASE c # n + 1 /\ d # n + 1
        <5>1. c \in 1..n /\ d \in 1..n
          BY <2>1, <4>4
        <5>2. buffer'.chunks[c] = chunks[c] /\ buffer'.chunks[d] = chunks[d]
          BY <2>7, <5>1
        <5> QED
          BY <2>0, <3>1, <5>1, <5>2 DEF ChunksInv, FramesApart
      <4> QED
        BY <4>1, <4>2, <4>3, <4>4
    <3> QED
      BY <2>7, <3>1 DEF FramesApart
  <2>12. ChunksInv'
    BY <2>7, <2>9, <2>11 DEF ChunksInv
  <2>13. pages' = << >> /\ seen' = {} /\ read' = {}
    BY <1>2, <2>0 DEF IInv, CallInv
  <2>14. buffer' # NoBuffer
    BY <2>1, <2>6 DEF NoBuffer
  <2>15. CallInv'
    <3>1. CASE ChunkOffset + ChunkLength = buffer.length
      <4>1. pc' = "idle"
        BY <1>2, <3>1
      <4>2. Count' > 0 /\ buffer'.chunks[Count'].offset + buffer'.chunks[Count'].length = buffer'.length
        <5>1. chunk.offset = ChunkOffset /\ chunk.length = ChunkLength
          OBVIOUS
        <5> HIDE DEF chunk
        <5> QED
          BY <2>1, <2>6, <2>7, <3>1, <5>1
      <4> QED
        BY <2>14, <4>1, <4>2 DEF CallInv
    <3>2. CASE ChunkOffset + ChunkLength # buffer.length
      <4>1. pc' = "prepare" /\ next' = Count' + 1
        BY <1>2, <2>0, <2>1, <2>7, <3>2
      <4>2. ChunkLength = kMaxDmaChunkBytes /\ ChunkOffset + ChunkLength < buffer.length
        BY <2>1, <3>2
      <4>3. Count' * kMaxDmaChunkBytes = ChunkOffset + ChunkLength
        BY <2>1, <2>7, <4>2, Sizes
      <4> QED
        BY <2>6, <2>13, <2>14, <4>1, <4>2, <4>3 DEF CallInv
    <3> QED
      BY <3>1, <3>2
  <2>16. SyncInv'
    BY <1>2, <2>0 DEF SyncInv
  <2>17. PagesAreTheBuffer' /\ DeviceSeesSource' /\ ReadSeesDevice'
    BY <2>13 DEF PagesAreTheBuffer, DeviceSeesSource, ReadSeesDevice
  <2> QED
    BY <2>8, <2>12, <2>15, <2>16, <2>17 DEF IInv
<1> QED
  BY <1>1, <1>2 DEF PrepareChunk

LEMMA NextIInv == IInv /\ [Next]_vars => IInv'
<1> SUFFICES ASSUME IInv, [Next]_vars PROVE IInv'
  OBVIOUS
<1>1. ASSUME NEW length \in Lengths, Allocate(length) PROVE IInv'
  BY <1>1, AllocateIInv
<1>2. CASE PrepareChunk
  BY <1>2, PrepareIInv
<1>3. CASE Release
  BY <1>3, ReleaseIInv DEF Release
<1>4. CASE CollectDmaPageAddresses
  BY <1>4, CollectIInv
<1>5. ASSUME NEW n \in SourceBytes \cup {0}, Fill(n) PROVE IInv'
  BY <1>5, FillIInv
<1>6. CASE SynchronizePreparedWrites
  BY <1>6, SynchronizeIInv
<1>7. ASSUME NEW off \in ReadOffsets, ReadPreparedDmaU32(off) PROVE IInv'
  BY <1>7, ReadIInv
<1>8. CASE DeviceWrite
  BY <1>8, DeviceWriteIInv
<1>9. CASE UNCHANGED vars
  <2>1. buffer' = buffer /\ ChunksInv' /\ Count' = Count
    BY <1>9, SameChunks DEF vars, IInv
  <2>2. TypeInv' /\ CallInv'
    BY <1>9, <2>1 DEF vars, IInv, TypeInv, CallInv
  <2>a. SyncInv'
    BY <1>9, <2>1 DEF vars, IInv, SyncInv, ChunkAddress
  <2>3. PagesAreTheBuffer' /\ DeviceSeesSource' /\ ReadSeesDevice'
    BY <1>9 DEF vars, IInv, PagesAreTheBuffer, DeviceSeesSource, ReadSeesDevice, BusAddress
  <2> QED
    BY <2>1, <2>2, <2>3, <2>a DEF IInv
<1> QED
  BY <1>1, <1>2, <1>3, <1>4, <1>5, <1>6, <1>7, <1>8, <1>9 DEF Next

LEMMA SpecIInv == Spec => []IInv
BY InitIInv, NextIInv, PTL DEF Spec

\* Whatever pages a buffer of any length was given, and if DriverKit reported them as
\* they are or as one of the OddSegments, the page list RTXMacCollectDmaPageAddresses
\* returns leads, for every byte, to the bus address of that byte.
THEOREM CollectedPagesAreTheBuffer == Spec => []PagesAreTheBuffer
<1>1. IInv => PagesAreTheBuffer
  BY DEF IInv
<1> QED
  BY <1>1, SpecIInv, PTL

\* A copy or a zeroing that succeeded is what the device sees in all chunks.
THEOREM CopiesReachTheDevice == Spec => []DeviceSeesSource
<1>1. IInv => DeviceSeesSource
  BY DEF IInv
<1> QED
  BY <1>1, SpecIInv, PTL

\* RTXMacReadPreparedDmaU32 returns the device's word, in whatever chunk it lies.
THEOREM ReadsReturnTheDevice == Spec => []ReadSeesDevice
<1>1. IInv => ReadSeesDevice
  BY DEF IInv
<1> QED
  BY <1>1, SpecIInv, PTL

=============================================================================
