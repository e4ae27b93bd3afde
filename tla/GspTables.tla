------------------------------ MODULE GspTables ------------------------------
(***************************************************************************)
(* The structures in host memory through which GSP-RM finds its firmware   *)
(* and its message queues: the Radix3 tree (gsp_radix3.cpp), the queue     *)
(* memory and its page table (gsp_boot.cpp), the RPC records (gsp_rpc.cpp) *)
(* and the prefilled command ring (gsp_bootstrap.cpp).                     *)
(*                                                                         *)
(* A page holds a typed content; a table page holds addresses.  A queue    *)
(* message is one page, as in the code (kBootstrapMessageSize =            *)
(* kBootstrapEntryOffset = kGspPageBytes).  The code has 512 entries in a  *)
(* page of either table; they are two constants here, so that a small      *)
(* instance reaches the edges of both.                                     *)
(***************************************************************************)
EXTENDS Integers, Sequences

CONSTANTS PageBytes,              \* kGspPageBytes, kRadixPageBytes
          PteBytes,               \* kGspPteBytes
          kRadixEntriesPerPage,
          kProtocolOverheadBytes,
          MaxElements,            \* default maxElements of a record
          SystemInfoBytes         \* kGspSystemInfo570Bytes

ASSUME PageAssumption ==
  /\ PageBytes \in Nat \ {0}
  /\ PteBytes \in 1..PageBytes /\ PageBytes % PteBytes = 0
  /\ kRadixEntriesPerPage \in Nat \ {0}
ASSUME RpcAssumption ==
  /\ kProtocolOverheadBytes \in Nat \ {0} /\ SystemInfoBytes \in Nat
  /\ MaxElements \in Nat \ {0}
  /\ PageBytes * MaxElements > kProtocolOverheadBytes

QueueEntriesPerPage == PageBytes \div PteBytes

CeilDiv(n, d) == (n + d - 1) \div d
RoundUp(n, d) == CeilDiv(n, d) * d
Pages(bytes) == CeilDiv(bytes, PageBytes)

None == [kind |-> "none"]
ZeroPage == [kind |-> "zero"]
TablePage(entries) == [kind |-> "table", entries |-> entries]

\* n addresses from a function on 0..n-1, spread over table pages of a given
\* number of entries; the rest of the last page is zero.
TablePages(n, address, pages, perPage) ==
  [p \in 0..(pages - 1) |->
    TablePage([e \in 0..(perPage - 1) |->
      LET i == p * perPage + e
      IN  IF i < n THEN address[i] ELSE 0])]

-----------------------------------------------------------------------------
(* Radix3 *)

\* PlanRadix3: pages of the root, of levels 1 and 2, and of the image.
PlanRadix3(imageBytes) ==
  LET image == Pages(imageBytes)
      two   == CeilDiv(image, kRadixEntriesPerPage)
      one   == CeilDiv(two, kRadixEntriesPerPage)
      root  == CeilDiv(one, kRadixEntriesPerPage)
      table == (root + one + two) * PageBytes
  IN  IF imageBytes = 0 \/ root # 1 THEN None
      ELSE [kind |-> "radix", imageBytes |-> imageBytes,
            pageCounts |-> [l \in 0..3 |-> <<root, one, two, image>>[l + 1]],
            firstPage |-> [l \in 0..3 |->
                            <<0, root, root + one, root + one + two>>[l + 1]],
            tableBytes |-> table,
            allocationBytes |-> table + imageBytes,
            allocationPages |-> Pages(table + imageBytes)]

\* Mutant: the children of a level are looked for one page too early.
BuildRadix3TablesOneEarly(r, pages) ==
  [p \in 0..(r.firstPage[3] - 1) |->
    LET l == CHOOSE l \in 0..2 : /\ r.firstPage[l] <= p
                                 /\ p < r.firstPage[l + 1]
    IN  TablePages(r.pageCounts[l + 1],
          [i \in 0..(r.pageCounts[l + 1] - 1) |-> pages[r.firstPage[l] + i + 1]],
          r.pageCounts[l], kRadixEntriesPerPage)[p - r.firstPage[l]]]

\* BuildRadix3Tables for one aligned address per page of the allocation: the
\* pages of a level hold, in order, the addresses of the pages of the next.
BuildRadix3Tables(r, pages) ==
  [p \in 0..(r.firstPage[3] - 1) |->
    LET l == CHOOSE l \in 0..2 : /\ r.firstPage[l] <= p
                                 /\ p < r.firstPage[l + 1]
    IN  TablePages(r.pageCounts[l + 1],
          [i \in 0..(r.pageCounts[l + 1] - 1) |->
            pages[r.firstPage[l + 1] + i + 1]],
          r.pageCounts[l], kRadixEntriesPerPage)[p - r.firstPage[l]]]

FirmwarePage(i) == [kind |-> "firmware", index |-> i]

\* BuildRadix3AllocationImage: the tables, then the firmware, padded to whole
\* pages.
BuildRadix3AllocationImage(r, pages) ==
  IF Len(pages) # r.allocationPages \/ \E i \in DOMAIN pages : pages[i] % PageBytes # 0
    THEN None
    ELSE LET tables == BuildRadix3Tables(r, pages)
         IN  [kind |-> "image", bytes |-> r.allocationPages * PageBytes,
              pages |-> [p \in 0..(r.allocationPages - 1) |->
                          IF p < r.firstPage[3] THEN tables[p]
                          ELSE FirmwarePage(p - r.firstPage[3])]]

-----------------------------------------------------------------------------
(* Queue memory *)

\* Entries for the two queues and for the pages those entries take.
QueueEntries(queueBytes) ==
  LET queuePages == 2 * (queueBytes \div PageBytes)
  IN  queuePages + Pages(queuePages * PteBytes)

\* PlanQueueMemory: the table is sized for that many entries.
PlanQueueMemory(queueBytes) ==
  LET entries    == QueueEntries(queueBytes)
      tableBytes == RoundUp(entries * PteBytes, PageBytes)
  IN  IF queueBytes = 0 \/ queueBytes % PageBytes # 0 THEN None
      ELSE [kind |-> "queues", queueBytes |-> queueBytes,
            pageTableEntryCount |-> entries, pageTableBytes |-> tableBytes,
            commandQueueOffset |-> tableBytes,
            statusQueueOffset |-> tableBytes + queueBytes,
            totalBytes |-> tableBytes + 2 * queueBytes]

\* Mutant: the table's own first page is left out of its entries.
BuildQueuePageTableWithoutItself(q, pages) ==
  IF q.pageTableEntryCount # Len(pages) THEN None
  ELSE [kind |-> "table",
        pages |-> TablePages(Len(pages) - 1,
                             [i \in 0..(Len(pages) - 2) |-> pages[i + 2]],
                             q.pageTableBytes \div PageBytes, QueueEntriesPerPage)]

\* BuildQueuePageTable: one entry per page of the allocation, in order.
BuildQueuePageTable(q, pages) ==
  IF \/ q.pageTableEntryCount # Len(pages)
     \/ q.pageTableEntryCount * PteBytes > q.pageTableBytes
     \/ \E i \in DOMAIN pages : pages[i] % PageBytes # 0
    THEN None
    ELSE [kind |-> "table",
          pages |-> TablePages(Len(pages), [i \in 0..(Len(pages) - 1) |-> pages[i + 1]],
                               q.pageTableBytes \div PageBytes, QueueEntriesPerPage)]

\* BuildCachedArguments.
BuildCachedArguments(q, sharedMemPhysAddr) ==
  [kind |-> "arguments", sharedMemPhysAddr |-> sharedMemPhysAddr,
   pageTableEntryCount |-> q.pageTableEntryCount,
   cmdQueueOffset |-> q.commandQueueOffset,
   statQueueOffset |-> q.statusQueueOffset]

-----------------------------------------------------------------------------
(* RPC records *)

\* BuildRpcRecord.  Element k of a record carries its part k; the header and
\* the checksum are in part 1.
BuildRpcRecord(function, payloadBytes, sequence) ==
  LET elements == CeilDiv(kProtocolOverheadBytes + payloadBytes, PageBytes)
  IN  IF elements = 0 \/ elements > MaxElements THEN None
      ELSE [kind |-> "record", function |-> function, sequence |-> sequence,
            elementCount |-> elements, payloadBytes |-> payloadBytes]

Element(record, k) == [kind |-> "message", of |-> record, part |-> k]

\* ValidateRpcRecord on the elements from a header on: as many as the header
\* says, and bytes the checksum in it covers.  In the repository only tests call
\* it; here it stands for the check GSP-RM makes of what it receives.  Header
\* version and signature, constants BuildRpcRecord writes, are not kept.
ValidateRpcRecord(elements) ==
  LET head == elements[1].of
  IN  /\ elements[1].part = 1
      /\ head.elementCount \in 1..MaxElements
      /\ head.elementCount = Len(elements)
      /\ CeilDiv(kProtocolOverheadBytes + head.payloadBytes, PageBytes)
           = head.elementCount
      /\ \A k \in DOMAIN elements : elements[k] = Element(head, k)

\* Mutant: the overhead of a record is forgotten when its payload is bounded.
PlanRpcFragmentsWithoutOverhead(payloadBytes) ==
  LET maxPayload == PageBytes * MaxElements
      last       == IF payloadBytes = 0 THEN 1 ELSE CeilDiv(payloadBytes, maxPayload)
  IN  [i \in 1..last |->
        [offset |-> (i - 1) * maxPayload, continuation |-> i # 1,
         bytes |-> IF i < last THEN maxPayload
                   ELSE payloadBytes - (last - 1) * maxPayload]]

\* PlanRpcFragments: full fragments, then what is left.
PlanRpcFragments(payloadBytes) ==
  LET maxPayload == PageBytes * MaxElements - kProtocolOverheadBytes
      last       == IF payloadBytes = 0 THEN 1 ELSE CeilDiv(payloadBytes, maxPayload)
  IN  [i \in 1..last |->
        [offset |-> (i - 1) * maxPayload, continuation |-> i # 1,
         bytes |-> IF i < last THEN maxPayload
                   ELSE payloadBytes - (last - 1) * maxPayload]]

-----------------------------------------------------------------------------
(* The prefilled command queue *)

MsgCount(q) == (q.queueBytes - PageBytes) \div PageBytes

\* Mutant: the write pointer advances by one element per record.
PutRecordAdvancingByOne(ring, record) ==
  LET n == Len(ring.slots)
  IN  [slots |-> [s \in 1..n |->
                   LET k == (s - 1 + n - ring.writePtr) % n
                   IN  IF k < record.elementCount
                         THEN Element(record, k + 1) ELSE ring.slots[s]],
       writePtr |-> (ring.writePtr + 1) % n]

\* PutRecord: the elements from the write pointer on, around the ring.
PutRecord(ring, record) ==
  LET n == Len(ring.slots)
  IN  [slots |-> [s \in 1..n |->
                   LET k == (s - 1 + n - ring.writePtr) % n
                   IN  IF k < record.elementCount
                         THEN Element(record, k + 1) ELSE ring.slots[s]],
       writePtr |-> (ring.writePtr + record.elementCount) % n]

\* BuildBootstrapCommandQueue: the transmit header page, then the ring with
\* the two records.
BuildBootstrapCommandQueue(q, registryBytes) ==
  LET n   == MsgCount(q)
      sys == BuildRpcRecord("GspSetSystemInfo", SystemInfoBytes, 0)
      reg == BuildRpcRecord("SetRegistry", registryBytes, 1)
      empty == [slots |-> [s \in 1..n |-> ZeroPage], writePtr |-> 0]
      full  == PutRecord(PutRecord(empty, sys), reg)
  IN  IF \/ q.queueBytes < 3 * PageBytes \/ n < 2
         \/ None \in {sys, reg}
         \/ sys.elementCount > n \/ reg.elementCount > n
        THEN None
        ELSE [kind |-> "image", bytes |-> q.queueBytes,
              pages |-> [p \in 0..n |->
                IF p = 0 THEN [kind |-> "tx", msgCount |-> n, entryOff |-> PageBytes,
                               writePtr |-> full.writePtr]
                ELSE full.slots[p]]]

\* BuildSharedQueueAllocationImage: the page table, the command queue and a
\* zero status queue.
BuildSharedQueueAllocationImage(q, pages, registryBytes) ==
  LET table   == BuildQueuePageTable(q, pages)
      command == BuildBootstrapCommandQueue(q, registryBytes)
      first   == q.commandQueueOffset \div PageBytes
      second  == q.statusQueueOffset \div PageBytes
  IN  IF pages = <<>> \/ None \in {table, command} THEN None
      ELSE [kind |-> "image", bytes |-> q.totalBytes,
            pages |-> [p \in 0..(Pages(q.totalBytes) - 1) |->
              IF p < first THEN table.pages[p]
              ELSE IF p < second THEN command.pages[p - first]
              ELSE ZeroPage]]

=============================================================================
