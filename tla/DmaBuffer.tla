----------------------------- MODULE DmaBuffer ------------------------------
(***************************************************************************)
(* A prepared DMA buffer (RTXMacDma.cpp) with its bytes and addresses: it  *)
(* is mapped chunk by chunk, its page addresses are collected, it is       *)
(* filled, made visible to the device chunk by chunk and read back.  The   *)
(* portable planners of dma.cpp, dma_plan.cpp and gsp_manifest.cpp, which  *)
(* work from the same segments, are stated beside it.                      *)
(*                                                                         *)
(* DriverKit is external: PrepareForDMA maps the pages of a chunk to any   *)
(* free pages of the bus, reports them as segments, and may report         *)
(* something odd; PerformOperation copies between the buffer and the       *)
(* mapped pages; both can fail.  The device only sees the mapped pages.    *)
(* Which objects are released when is the subject of ColdSession.          *)
(***************************************************************************)
EXTENDS Integers, Sequences, FiniteSets, SequencesExt

CONSTANTS PageBytes,       \* kRTXMacDmaPageBytes
          WordBytes,       \* sizeof(std::uint32_t)
          MaxDmaSegments,  \* kRTXMacMaxDmaSegments
          BusPages,        \* pages of the bus; BusPages * PageBytes is 2^64
          Lengths,         \* lengths asked for
          SourceBytes,     \* sizes of what is copied in
          ReadOffsets,     \* offsets read
          Alignments,      \* alignments a requirement may ask for
          MaxDeviceWrites  \* bound: bytes the device writes

ASSUME DmaAssumption ==
  /\ {PageBytes, WordBytes, MaxDmaSegments, BusPages} \subseteq Nat \ {0}
  /\ PageBytes > 1
  /\ PageBytes % WordBytes = 0
  /\ Lengths \subseteq Nat /\ SourceBytes \subseteq Nat /\ ReadOffsets \subseteq Nat
  /\ Alignments \subseteq Nat \ {0} /\ MaxDeviceWrites \in Nat

VARIABLES buffer,   \* RTXMacPreparedDmaBuffer: length and prepared chunks
          mem,      \* the bytes of the IOBufferMemoryDescriptor
          bus,      \* the bytes of the pages the device can be given
          pc, next, \* step of the running call, chunk it works on
          pages,    \* page addresses collected, << >> if none
          seen,     \* what the device must see, none or one; history
          filling,  \* what the running copy or zeroing will make visible
          read,     \* the last word read and its offset, none or one
          writes    \* bytes the device wrote

vars == << buffer, mem, bus, pc, next, pages, seen, filling, read, writes >>

kMaxDmaChunkBytes == PageBytes * MaxDmaSegments
kMaxAddress == BusPages * PageBytes - 1

\* Bytes that nobody wrote, bytes of a source, and a byte of the device.
Stale == 100
SourceByte(i) == i + 1
DeviceByte == 200

NoBuffer == [length |-> 0, chunks |-> << >>]

Init ==
  /\ buffer = NoBuffer /\ mem = << >>
  /\ bus = [a \in 0..kMaxAddress |-> Stale]
  /\ pc = "idle" /\ next = 0 /\ pages = << >>
  /\ seen = {} /\ filling = {} /\ read = {} /\ writes = 0

-----------------------------------------------------------------------------
(* Segments of the bus *)

\* The segments that describe these pages, each ending with one of them:
\* neighbours on the bus are merged or not.
SegmentEnds(frames) ==
  LET n == Len(frames)
  IN  {e \in UNION {[1..m -> 1..n] : m \in 1..n} :
         /\ e[Len(e)] = n /\ \A k \in 2..Len(e) : e[k - 1] < e[k]
         /\ \A i \in (1..(n - 1)) \ Range(e) : frames[i + 1] = frames[i] + PageBytes}

\* The pages of a segment begin where the segment before it ends.
LastBefore(ends, k) == IF k = 1 THEN 0 ELSE ends[k - 1]

Described(frames, ends) ==
  [k \in 1..Len(ends) |->
     [address |-> frames[LastBefore(ends, k) + 1],
      length |-> (ends[k] - LastBefore(ends, k)) * PageBytes]]

Segments(frames) == {Described(frames, e) : e \in SegmentEnds(frames)}

\* What PrepareForDMA may report instead: the list cut short, a length that is
\* zero, not whole pages or too large, an address that is not a page.  A wrong
\* address that is a page cannot be told from the right one and is left out.
OddSegments(segments) ==
  LET n == Len(segments)
  IN  { SubSeq(segments, 1, n - 1),
        [segments EXCEPT ![1].address = @ + 1],
        [segments EXCEPT ![n].length = @ - 1],
        [segments EXCEPT ![n].length = @ + PageBytes],
        Append(segments, [address |-> 0, length |-> 0]) }

BusPage == {p * PageBytes : p \in 0..(BusPages - 1)}
Mapped == UNION {Range(buffer.chunks[c].frames) : c \in DOMAIN buffer.chunks}

\* The bus address of a byte of a chunk, and of a byte of the buffer.
ChunkAddress(chunk, off) == chunk.frames[(off \div PageBytes) + 1] + (off % PageBytes)
BusAddress(off) ==
  ChunkAddress(buffer.chunks[(off \div kMaxDmaChunkBytes) + 1], off % kMaxDmaChunkBytes)

-----------------------------------------------------------------------------
(* RTXMacAllocateAndPrepareDmaBuffer *)

Allocate(length) ==
  /\ pc = "idle" /\ buffer = NoBuffer
  /\ length # 0 /\ length % PageBytes = 0
  /\ buffer' = [NoBuffer EXCEPT !.length = length]
  /\ mem' = [i \in 0..(length - 1) |-> Stale]
  /\ pc' = "prepare" /\ next' = 1
  /\ UNCHANGED << bus, pages, seen, filling, read, writes >>

\* The chunk prepared next.
ChunkOffset == (next - 1) * kMaxDmaChunkBytes
ChunkLength ==
  LET remaining == buffer.length - ChunkOffset
  IN  IF remaining < kMaxDmaChunkBytes THEN remaining ELSE kMaxDmaChunkBytes

\* The bytes the first i segments cover.
Covered(segments) ==
  LET covered[i \in 0..Len(segments)] ==
        IF i = 0 THEN 0 ELSE covered[i - 1] + segments[i].length
  IN  covered

\* The checks a chunk's segments pass, in PrepareChunk and again when the page
\* addresses are collected.
SegmentsAllowed(segments, length) ==
  LET covered == Covered(segments)
  IN  /\ Len(segments) \in 1..MaxDmaSegments
      /\ \A i \in DOMAIN segments :
           LET s == segments[i]
           IN  /\ s.length # 0
               /\ s.address % PageBytes = 0 /\ s.length % PageBytes = 0
               /\ s.address <= kMaxAddress - (s.length - 1)
               /\ s.length <= length - covered[i - 1]
      /\ covered[Len(segments)] = length

\* A chunk that cannot be prepared releases the buffer; nothing can be said of
\* pages that are no longer mapped.
ReleaseAll ==
  /\ bus' = [a \in DOMAIN bus |-> Stale]
  /\ buffer' = NoBuffer /\ mem' = << >> /\ pages' = << >>
  /\ seen' = {} /\ filling' = {} /\ read' = {}
  /\ pc' = "idle" /\ next' = 0

PrepareChunk ==
  /\ pc = "prepare"
  /\ \/ ReleaseAll
     \/ \E frames \in Injection(1..(ChunkLength \div PageBytes), BusPage \ Mapped) :
          \E honest \in Segments(frames) :
            \E segments \in {honest} \cup OddSegments(honest) :
              IF ~SegmentsAllowed(segments, ChunkLength) THEN ReleaseAll
              ELSE /\ buffer' = [buffer EXCEPT !.chunks = Append(@,
                        [offset |-> ChunkOffset, length |-> ChunkLength,
                         segments |-> segments, frames |-> frames])]
                   /\ IF ChunkOffset + ChunkLength = buffer.length
                        THEN pc' = "idle" /\ next' = 0
                        ELSE pc' = pc /\ next' = next + 1
                   /\ UNCHANGED << mem, bus, pages, seen, filling, read >>
  /\ UNCHANGED writes

Ready == pc = "idle" /\ buffer # NoBuffer

\* RTXMacReleasePreparedDmaBuffer.
Release == Ready /\ ReleaseAll /\ UNCHANGED writes

-----------------------------------------------------------------------------
(* RTXMacCollectDmaPageAddresses *)

\* Mutant: every page of a segment gets the segment's address.
PagesOfSegmentStart(s) == [p \in 1..(s.length \div PageBytes) |-> s.address]

\* The page addresses of a segment.
PagesOfSegment(s) == [p \in 1..(s.length \div PageBytes) |-> s.address + (p - 1) * PageBytes]

PagesOf(segments) == FlattenSeq([i \in DOMAIN segments |-> PagesOfSegment(segments[i])])

ChunkStarts(c) == IF c = 1 THEN 0 ELSE buffer.chunks[c - 1].offset + buffer.chunks[c - 1].length

CollectDmaPageAddresses ==
  /\ Ready
  /\ \A c \in DOMAIN buffer.chunks :
       LET chunk == buffer.chunks[c]
       IN  /\ chunk.offset = ChunkStarts(c)
           /\ SegmentsAllowed(chunk.segments, chunk.length)
  /\ LET collected == FlattenSeq([c \in DOMAIN buffer.chunks |-> PagesOf(buffer.chunks[c].segments)])
     IN  /\ ChunkStarts(Len(buffer.chunks) + 1) = buffer.length
         /\ Len(collected) = buffer.length \div PageBytes
         /\ pages' = collected
  /\ UNCHANGED << buffer, mem, bus, pc, next, seen, filling, read, writes >>

-----------------------------------------------------------------------------
(* Filling and reading *)

\* What memset and memcpy leave in the buffer: a source of n bytes, zero behind.
Padded(n) == [i \in DOMAIN mem |-> IF i < n THEN SourceByte(i) ELSE 0]

\* RTXMacCopyIntoPreparedDmaBufferPadded, with n = length for the unpadded
\* copy and with n = 0 for RTXMacZeroPreparedDmaBuffer.
Fill(n) ==
  /\ Ready /\ n <= buffer.length
  /\ mem' = Padded(n)
  /\ filling' = {[i \in DOMAIN mem |-> IF i < n THEN SourceByte(i) ELSE 0]}
  /\ seen' = {} /\ read' = {}
  /\ pc' = "sync" /\ next' = 1
  /\ UNCHANGED << buffer, bus, pages, writes >>

\* Mutant: the bytes of every chunk are taken from the start of the buffer.
SynchronizedFromStart(chunk) ==
  [a \in DOMAIN bus |->
     LET here == {k \in 0..(chunk.length - 1) : ChunkAddress(chunk, k) = a}
     IN  IF here = {} THEN bus[a] ELSE mem[CHOOSE k \in here : TRUE]]

\* PerformOperation, write: dmaOffset is relative to the chunk, dataOffset to
\* the buffer.
Synchronized(chunk) ==
  [a \in DOMAIN bus |->
     LET here == {k \in 0..(chunk.length - 1) : ChunkAddress(chunk, k) = a}
     IN  IF here = {} THEN bus[a] ELSE mem[chunk.offset + CHOOSE k \in here : TRUE]]

\* SynchronizePreparedWrites, one chunk at a time; a failure ends the call.
SynchronizePreparedWrites ==
  /\ pc = "sync"
  /\ \/ /\ bus' = Synchronized(buffer.chunks[next])
        /\ IF next < Len(buffer.chunks)
             THEN pc' = pc /\ next' = next + 1 /\ UNCHANGED << seen, filling >>
             ELSE pc' = "idle" /\ next' = 0 /\ seen' = filling /\ filling' = {}
     \/ pc' = "idle" /\ next' = 0 /\ filling' = {} /\ UNCHANGED << bus, seen >>
  /\ UNCHANGED << buffer, mem, pages, read, writes >>

\* FindChunk: the first chunk that holds all of the bytes.
FindChunk(off, bytes) ==
  LET holds(c) == /\ off >= c.offset /\ off - c.offset <= c.length
                  /\ bytes <= c.length - (off - c.offset)
  IN  {c \in Range(buffer.chunks) : off + bytes <= buffer.length /\ holds(c)}

\* Mutant: the word is taken from the buffer at its offset in the chunk.
TakenLocally(chunk, off, memory) == [k \in 0..(WordBytes - 1) |-> memory[off - chunk.offset + k]]

\* memcpy from the buffer after PerformOperation.
Taken(chunk, off, memory) == [k \in 0..(WordBytes - 1) |-> memory[off + k]]

\* RTXMacReadPreparedDmaU32: the word is copied from the device's pages.
ReadPreparedDmaU32(off) ==
  /\ Ready /\ off % WordBytes = 0
  /\ \E chunk \in FindChunk(off, WordBytes) :
       LET memory == [i \in DOMAIN mem |->
             IF i \in off..(off + WordBytes - 1)
               THEN bus[ChunkAddress(chunk, i - chunk.offset)] ELSE mem[i]]
       IN  /\ mem' = memory
           /\ read' = {[offset |-> off, value |-> Taken(chunk, off, memory)]}
  /\ UNCHANGED << buffer, bus, pc, next, pages, seen, filling, writes >>

\* The device writes one byte of a mapped page.
DeviceWrite ==
  /\ writes < MaxDeviceWrites
  /\ \E p \in Mapped, k \in 0..(PageBytes - 1) : bus' = [bus EXCEPT ![p + k] = DeviceByte]
  /\ writes' = writes + 1 /\ seen' = {} /\ read' = {}
  \* A chunk synchronised after this write may or may not cover it.
  /\ filling' = {}
  /\ UNCHANGED << buffer, mem, pc, next, pages >>

Next ==
  \/ \E length \in Lengths : Allocate(length)
  \/ PrepareChunk \/ Release \/ CollectDmaPageAddresses
  \/ \E n \in SourceBytes \cup {0} : Fill(n)
  \/ SynchronizePreparedWrites
  \/ \E off \in ReadOffsets : ReadPreparedDmaU32(off)
  \/ DeviceWrite

Spec == Init /\ [][Next]_vars

-----------------------------------------------------------------------------
(* The portable planners *)

\* PlanConservativeDmaChunks: its loop over the buffer.
PlanConservativeDmaChunks(totalBytes) ==
  LET maxChunk == PageBytes * MaxDmaSegments
      from[offset \in 0..totalBytes] ==
        IF offset >= totalBytes THEN << >>
        ELSE LET length == IF maxChunk < totalBytes - offset THEN maxChunk ELSE totalBytes - offset
             IN  << [offset |-> offset, length |-> length] >> \o from[offset + length]
  IN  from[0]

\* Mutant: a segment that ends with the address space is taken for a wrap.
ValidateDmaSegmentsBelowTop(segments, requestedBytes) ==
  LET covered == Covered(segments)
  IN  /\ segments # << >>
      /\ \A i \in DOMAIN segments :
           /\ segments[i].length # 0
           /\ segments[i].address <= kMaxAddress - segments[i].length
      /\ covered[Len(segments)] = requestedBytes

\* ValidateDmaSegments finds no fault: the segments cover exactly the request.
ValidateDmaSegments(segments, requestedBytes) ==
  LET covered == Covered(segments)
  IN  /\ segments # << >>
      /\ \A i \in DOMAIN segments :
           /\ segments[i].length # 0
           /\ segments[i].address <= kMaxAddress - (segments[i].length - 1)
           /\ covered[i - 1] <= kMaxAddress - segments[i].length
      /\ covered[Len(segments)] = requestedBytes

\* ResolveLinearDmaRange: the address of the range, or none.
ResolveLinearDmaRange(segments, requestedBytes) ==
  IF /\ ValidateDmaSegments(segments, requestedBytes)
     /\ \A i \in 2..Len(segments) :
          LET previous == segments[i - 1]
          IN  /\ previous.address <= kMaxAddress - previous.length
              /\ segments[i].address = previous.address + previous.length
    THEN {segments[1].address} ELSE {}

\* ExpandDmaSegmentsToPages: the page addresses, or none.
ExpandDmaSegmentsToPages(segments, requestedBytes) ==
  IF /\ requestedBytes # 0 /\ requestedBytes % PageBytes = 0
     /\ ValidateDmaSegments(segments, requestedBytes)
     /\ \A i \in DOMAIN segments :
          segments[i].address % PageBytes = 0 /\ segments[i].length % PageBytes = 0
    THEN {FlattenSeq([i \in DOMAIN segments |->
            [p \in 1..(segments[i].length \div PageBytes) |->
               segments[i].address + (p - 1) * PageBytes]])}
    ELSE {}

\* ResolveSystemDmaAllocation of a requirement with this layout and alignment:
\* base address and page addresses, or none.
ResolveSystemDmaAllocation(layout, alignment, segments, bytes) ==
  IF layout = "Linear"
    THEN {[base |-> a, pages |-> << >>] :
            a \in {b \in ResolveLinearDmaRange(segments, bytes) : b % alignment = 0}}
    ELSE {[base |-> l[1], pages |-> l] :
            l \in {p \in ExpandDmaSegmentsToPages(segments, bytes) : p[1] % alignment = 0}}

\* IsLinearDmaPageList, the driver's own test for a linear buffer.
IsLinearDmaPageList(list) ==
  /\ list # << >>
  /\ \A i \in DOMAIN list : list[i] % PageBytes = 0
  /\ \A i \in 2..Len(list) :
       list[i - 1] <= kMaxAddress - PageBytes /\ list[i] = list[i - 1] + PageBytes

-----------------------------------------------------------------------------
(* Properties *)

\* The page list RTXMacCollectDmaPageAddresses returns names, for every byte of
\* the buffer, the place where the device finds that byte, whatever segments
\* and chunks lie in between and whichever of the OddSegments DriverKit reported.
PagesAreTheBuffer ==
  pages # << >> =>
    \A off \in 0..(buffer.length - 1) :
      pages[(off \div PageBytes) + 1] + (off % PageBytes) = BusAddress(off)

\* Driver and portable planners agree on every prepared buffer: the chunks are
\* the planned ones, ResolveSystemDmaAllocation on all segments gives the
\* collected pages, and it finds a linear range exactly when the driver's test
\* of the page list does.
ResolversAgree ==
  LET segments == FlattenSeq([c \in DOMAIN buffer.chunks |-> buffer.chunks[c].segments])
  IN  pages # << >> =>
        /\ [c \in DOMAIN buffer.chunks |->
              [offset |-> buffer.chunks[c].offset, length |-> buffer.chunks[c].length]]
             = PlanConservativeDmaChunks(buffer.length)
        /\ \A alignment \in Alignments :
             LET aligned == pages[1] % alignment = 0
             IN  /\ ResolveSystemDmaAllocation("PageList", alignment, segments, buffer.length)
                      = IF aligned THEN {[base |-> pages[1], pages |-> pages]} ELSE {}
                 /\ ResolveSystemDmaAllocation("Linear", alignment, segments, buffer.length)
                      = IF aligned /\ IsLinearDmaPageList(pages)
                          THEN {[base |-> pages[1], pages |-> << >>]} ELSE {}

\* After a copy or a zeroing that succeeded, and until the device writes, the
\* device sees the source and zeros behind it in every chunk: nothing of an
\* earlier content, and no chunk's bytes in another's place.
DeviceSeesSource ==
  \A content \in seen : \A off \in 0..(buffer.length - 1) : bus[BusAddress(off)] = content[off]

\* RTXMacReadPreparedDmaU32 returns the word the device sees at that offset,
\* also in a chunk that does not start the buffer and after the device wrote.
ReadSeesDevice ==
  \A r \in read : \A k \in 0..(WordBytes - 1) : r.value[k] = bus[BusAddress(r.offset + k)]

=============================================================================
