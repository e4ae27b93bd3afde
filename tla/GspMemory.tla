------------------------------ MODULE GspMemory ------------------------------
(***************************************************************************)
(* The memory a cold boot session hands to GSP-RM: the generated buffers   *)
(* of PlanGa10xBootPreparation are mapped for DMA, their addresses         *)
(* resolved (ga10x_boot_resolve.cpp, package_dma_resolve.cpp), the         *)
(* artifacts built from them (gsp_manifest.cpp) and copied in              *)
(* (RTXMacBootSession.cpp).  GSP-RM, which is given two addresses, then    *)
(* finds everything else by following memory.                              *)
(*                                                                         *)
(* The IOMMU hands out page addresses in ascending order, in descending    *)
(* order or with two pages swapped; every kernel call can fail.  What is   *)
(* released when is the subject of ColdSession, where things go in video   *)
(* memory that of WprPlan.                                                 *)
(***************************************************************************)
EXTENDS GspTables

CONSTANTS Inputs,      \* sizes of the sections, the queues and the registry, and
                       \* whether the two images to execute have a Falcon plan
          LogPages,    \* kLibosLogRegionBytes, in pages
          MaxFrame     \* bound: pages the IOMMU has

Sections == {"GspFirmwareImage", "GspFirmwareSignature", "GspBootloader",
             "FrtsFwsecImage", "Sec2BooterImage"}

ASSUME LogAssumption == LogPages \in Nat \ {0} /\ MaxFrame \in Nat

\* The pages of the queue table are all named by its first page: kDefaultQueueBytes,
\* the only size of a queue in the code, needs 129 of the 512 * 512 entries.
ASSUME InputAssumption ==
  /\ Inputs \subseteq [size : [Sections -> Nat], queueBytes : Nat, registryBytes : Nat,
                       plannable : BOOLEAN]
  /\ \A x \in Inputs :
       QueueEntries(x.queueBytes) <= QueueEntriesPerPage * QueueEntriesPerPage

VARIABLES in,        \* the member of Inputs the session is prepared for
          staged,    \* page addresses of the staged sections
          pc, index, \* step and buffer worked on
          frame,     \* next page the IOMMU hands out
          pages,     \* page addresses of the generated buffers
          addresses, \* ResolvedAddresses
          artifacts, \* ResolvedArtifacts
          mem,       \* what each page holds
          status,    \* RTXMacBootSessionStatus
          faulted,   \* a kernel call failed
          readPtr, received  \* GSP-RM: its read pointer, records taken

vars == <<in, staged, pc, index, frame, pages, addresses, artifacts, mem,
          status, faulted, readPtr, received>>

gspVars == <<readPtr, received>>

-----------------------------------------------------------------------------
(* The staged package *)

\* RequiredLayout.
LinearSection(kind) == kind \in {"GspFirmwareSignature", "GspBootloader"}

\* Mutant: allocations are not rounded to pages.
PlanPackageDmaStagingUnrounded(size) ==
  [k \in Sections |->
    [linear |-> LinearSection(k), logicalBytes |-> size[k],
     allocationBytes |-> size[k], pageCount |-> Pages(size[k])]]

\* PlanPackageDmaStaging.
PlanPackageDmaStaging(size) ==
  [k \in Sections |->
    [linear |-> LinearSection(k), logicalBytes |-> size[k],
     allocationBytes |-> RoundUp(size[k], PageBytes), pageCount |-> Pages(size[k])]]

\* IsLinearDmaPageList.
IsLinearDmaPageList(list) ==
  /\ list # <<>>
  /\ \A i \in DOMAIN list : list[i] % PageBytes = 0
  /\ \A i \in 2..Len(list) : list[i] = list[i - 1] + PageBytes

\* ResolvePackageDmaSummary: base address and size per section.
ResolvePackageDmaSummary(plan, lists) ==
  IF \E k \in Sections : \/ plan[k].allocationBytes = 0
                         \/ Len(lists[k]) # plan[k].pageCount
                         \/ \E i \in DOMAIN lists[k] : lists[k][i] % PageBytes # 0
                         \/ plan[k].linear /\ ~IsLinearDmaPageList(lists[k])
    THEN None
    ELSE [kind |-> "summary",
          entry |-> [k \in Sections |->
            [base |-> lists[k][1], allocationBytes |-> plan[k].allocationBytes]]]

-----------------------------------------------------------------------------
(* The manifest and the preparation plan *)

Generated ==
  << "QueueBacking", "CachedArguments", "LibosInitArguments", "WprMetadata",
     "Radix3Firmware", "LogInit", "LogIntr", "LogRm", "LogMnoc", "LogKrnl" >>
Logs == 6..10

Queues == PlanQueueMemory(in.queueBytes)
Radix == PlanRadix3(in.size["GspFirmwareImage"])

\* PlanBootManifest refuses empty sections and what the plans refuse.
ManifestValid ==
  /\ \A k \in Sections : in.size[k] # 0
  /\ None \notin {Queues, Radix}

\* AddAlloc, AddManifestRequirement and AddRequirement: the ten buffers.  The
\* arguments, the LibOS page and the metadata each fit one page.
LogicalBytes(i) ==
  CASE Generated[i] = "QueueBacking"   -> Queues.totalBytes
    [] Generated[i] = "Radix3Firmware" -> Radix.allocationBytes
    [] i \in Logs                      -> LogPages * PageBytes
    [] OTHER                           -> PageBytes
PageCount(i) == Pages(LogicalBytes(i))

\* Mutant: the log buffers are not required to be contiguous.
LinearGeneratedButLogs(i) ==
  Generated[i] \notin {"QueueBacking", "Radix3Firmware"} /\ i \notin Logs

LinearGenerated(i) == Generated[i] \notin {"QueueBacking", "Radix3Firmware"}

-----------------------------------------------------------------------------
(* Resolution and artifacts *)

\* The buffer a log region is taken from, in the order of the plan.
LibosRegion(name, base, size) == [id |-> name, base |-> base, size |-> size]
LogNames == <<"LOGINIT", "LOGINTR", "LOGRM", "LOGMNOC", "LOGKRNL">>
LibosRegions ==
  [r \in 1..5 |-> LibosRegion(LogNames[r], pages[r + 5][1], LogPages * PageBytes)]
    \o << LibosRegion("RMARGS", pages[2][1], PageBytes) >>

\* RTXMacDescribeStagedPackageDma.
PackageSummary == ResolvePackageDmaSummary(PlanPackageDmaStaging(in.size), staged)

\* ResolveGa10xBootMemory.
ResolveGa10xBootMemory ==
  LET summary == PackageSummary
      reused(k) == summary.entry[k]
  IN  IF \/ summary = None
         \/ \E i \in 1..10 : \/ Len(pages[i]) # PageCount(i)
                             \/ 0 \in {pages[i][p] : p \in 1..Len(pages[i])}
                             \/ LinearGenerated(i) /\ ~IsLinearDmaPageList(pages[i])
         \/ \E k \in {"GspFirmwareSignature", "GspBootloader"} :
              \/ reused(k).base = 0
              \/ reused(k).allocationBytes # RoundUp(in.size[k], PageBytes)
        THEN None
        ELSE [kind |-> "addresses",
              queueBacking |-> pages[1][1], cachedArguments |-> pages[2][1],
              libosInitArguments |-> pages[3][1], wprMetadata |-> pages[4][1],
              radix3FirmwareRoot |-> pages[5][1],
              firmwareSignature |-> reused("GspFirmwareSignature").base,
              gspBootloader |-> reused("GspBootloader").base]

\* AddressesOk; the two images in video memory are placed by WprPlan.
AddressesOk(a) ==
  \A address \in {a.queueBacking, a.cachedArguments, a.libosInitArguments, a.wprMetadata,
                  a.radix3FirmwareRoot, a.firmwareSignature, a.gspBootloader} :
    address % PageBytes = 0

OnePage(content) == [kind |-> "image", bytes |-> PageBytes, pages |-> [p \in {0} |-> content]]

\* BuildWprMeta, as far as it names host memory; the offsets in video memory it
\* also holds are those of module WprPlan.
BuildWprMeta(a) ==
  [kind |-> "meta", radix |-> a.radix3FirmwareRoot,
   radixBytes |-> in.size["GspFirmwareImage"],
   bootloader |-> a.gspBootloader, signature |-> a.firmwareSignature]

\* BuildResolvedArtifacts: the images of the five first buffers.  The
\* argument block and the metadata are shorter than their page and are padded
\* by the copy; their size is the logical size of their buffer.
BuildResolvedArtifacts(a) ==
  LET shared == BuildSharedQueueAllocationImage(Queues, pages[1], in.registryBytes)
      radix  == BuildRadix3AllocationImage(Radix, pages[5])
  IN  IF \/ ~AddressesOk(a)
         \/ Len(pages[1]) # Queues.pageTableEntryCount
         \/ Len(pages[5]) # Radix.allocationPages
         \/ None \in {shared, radix}
        THEN <<>>
        ELSE << shared, OnePage(BuildCachedArguments(Queues, a.queueBacking)),
                OnePage([kind |-> "libos", regions |-> LibosRegions]),
                OnePage(BuildWprMeta(a)), radix >>

-----------------------------------------------------------------------------
Unwritten == [kind |-> "unwritten"]
Frames == {PageBytes * f : f \in 0..MaxFrame}
NoPages == [i \in 1..10 |-> <<>>]
Blank == [a \in Frames |-> Unwritten]

Ascending(base, n) == [p \in 1..n |-> PageBytes * (base + p - 1)]
Descending(base, n) == [p \in 1..n |-> PageBytes * (base + n - p)]
\* The second page before the first.
Swapped(base, n) ==
  [p \in 1..n |-> IF n > 1 /\ p \in {1, 2} THEN PageBytes * (base + 2 - p)
                  ELSE PageBytes * (base + p - 1)]
PageLists(base, n) == {Ascending(base, n), Descending(base, n), Swapped(base, n)}

StagedBase(k) ==
  MaxFrame + (CASE k = "GspFirmwareSignature" -> 10 [] k = "GspBootloader" -> 20
                [] k = "FrtsFwsecImage" -> 30 [] k = "Sec2BooterImage" -> 40
                [] OTHER -> 50)

Init ==
  /\ in \in Inputs
  /\ staged = [k \in Sections |->
                IF LinearSection(k) THEN Ascending(StagedBase(k), Pages(in.size[k]))
                ELSE Descending(StagedBase(k), Pages(in.size[k]))]
  /\ pc = "plan"
  /\ index = 1
  /\ frame \in {0, 1}
  /\ pages = NoPages
  /\ addresses = None
  /\ artifacts = <<>>
  /\ mem = Blank
  /\ status = "Idle"
  /\ faulted = FALSE
  /\ readPtr = 0
  /\ received = <<>>

\* Fail: the buffers are released and the addresses cleared.
Fail(s) ==
  /\ pc' = "failed"
  /\ status' = s
  /\ pages' = NoPages
  /\ addresses' = None
  /\ artifacts' = <<>>
  /\ mem' = Blank
  /\ UNCHANGED <<in, staged, index, frame, gspVars>>

KernelFails(s) == faulted' = TRUE /\ Fail(s)
Refuse(s) == UNCHANGED faulted /\ Fail(s)

\* The profile, the preparation plan and the summary of the staged package.
PlanPreparation ==
  /\ pc = "plan"
  /\ IF ~ManifestValid THEN Refuse("ProfileRejected")
     ELSE IF PackageSummary = None THEN Refuse("PackageSummaryRejected")
     ELSE /\ pc' = "map"
          /\ UNCHANGED <<in, staged, index, frame, pages, addresses,
                         artifacts, mem, status, faulted, gspVars>>

\* Buffer i is allocated, prepared and its page addresses collected; MaxFrame bounds
\* the pages there are.
MapGenerated ==
  /\ pc = "map"
  /\ \/ KernelFails("GeneratedAllocationFailed")
     \/ \E list \in PageLists(frame, PageCount(index)) :
          /\ frame + PageCount(index) <= MaxFrame + 1
          /\ IF LinearGenerated(index) /\ ~IsLinearDmaPageList(list)
               THEN Refuse("GeneratedLayoutRejected")
               ELSE /\ pages' = [pages EXCEPT ![index] = list]
                    /\ frame' = frame + PageCount(index)
                    /\ index' = IF index = 10 THEN 1 ELSE index + 1
                    /\ pc' = IF index = 10 THEN "resolve" ELSE "map"
                    /\ UNCHANGED <<in, staged, addresses, artifacts, mem, status,
                                   faulted, gspVars>>

\* ResolveGa10xBootMemory of the mapped buffers and the staged package.
ResolveAddresses ==
  /\ pc = "resolve"
  /\ IF ResolveGa10xBootMemory = None THEN Refuse("AddressResolveFailed")
     ELSE /\ addresses' = ResolveGa10xBootMemory
          /\ pc' = "build"
          /\ UNCHANGED <<in, staged, index, frame, pages, artifacts, mem,
                         status, faulted, gspVars>>

\* The system information is collected and the artifacts are built.
BuildArtifacts ==
  /\ pc = "build"
  /\ \/ KernelFails("SystemInfoFailed")
     \/ IF BuildResolvedArtifacts(addresses) = <<>>
          THEN Refuse("ArtifactBuildFailed")
          ELSE /\ artifacts' = BuildResolvedArtifacts(addresses)
               /\ pc' = "populate"
               /\ UNCHANGED <<in, staged, index, frame, pages, addresses, mem,
                              status, faulted, gspVars>>

\* PopulateGenerated: an artifact must have the logical size of its buffer.
SizeAgrees(i) == i \in Logs \/ artifacts[i].bytes = LogicalBytes(i)

\* Artifact i is copied into its buffer, page by page; the logs are zeroed.
PopulateGenerated ==
  LET content(p) == IF index \in Logs THEN ZeroPage ELSE artifacts[index].pages[p - 1]
  IN  /\ pc = "populate"
      /\ \/ KernelFails("ArtifactPopulationFailed")
         \/ IF ~SizeAgrees(index) THEN Refuse("ArtifactPopulationFailed")
            ELSE /\ mem' = [a \in Frames |->
                      IF \E p \in DOMAIN pages[index] : pages[index][p] = a
                        THEN content(CHOOSE p \in DOMAIN pages[index] :
                                       pages[index][p] = a)
                        ELSE mem[a]]
                 /\ index' = IF index = 10 THEN 1 ELSE index + 1
                 /\ pc' = IF index = 10 THEN "sequence" ELSE "populate"
                 /\ UNCHANGED <<in, staged, frame, pages, addresses, artifacts,
                                status, faulted, gspVars>>

\* The boot sequence is planned for the resolved addresses.  Whether the two images
\* have an execution plan is decided by their descriptors (PlanBootSequence of
\* module FalconPolicy).
PlanSequence ==
  /\ pc = "sequence"
  /\ IF ~(AddressesOk(addresses) /\ in.plannable) THEN Refuse("SequenceRejected")
     ELSE /\ pc' = "ready"
          /\ status' = "Ok"
          /\ UNCHANGED <<in, staged, index, frame, pages, addresses, artifacts, mem,
                         faulted, gspVars>>

-----------------------------------------------------------------------------
(* GSP-RM, which knows the LibOS page and the metadata *)

At(a) == IF a \in Frames THEN mem[a] ELSE Unwritten
Entry(a, i) == IF At(a).kind = "table" THEN At(a).entries[i] ELSE 0

\* Page i of the firmware, through the three levels.
FirmwareAt(i) ==
  LET E    == kRadixEntriesPerPage
      root == At(addresses.wprMetadata).radix
      one  == Entry(root, (i \div (E * E)) % E)
      two  == Entry(one, (i \div E) % E)
  IN  At(Entry(two, i % E))

Region(name) ==
  CHOOSE r \in {At(addresses.libosInitArguments).regions[n] : n \in 1..6} : r.id = name
Arguments == At(Region("RMARGS").base)

\* Page p of the shared queue memory, through its page table: the table's own
\* pages are its first entries.
SharedAddress(p) ==
  LET tableAt == Entry(Arguments.sharedMemPhysAddr, p \div QueueEntriesPerPage)
  IN  Entry(tableAt, p % QueueEntriesPerPage)
SharedPage(p) == At(SharedAddress(p))

CommandPage(n) == SharedPage(Arguments.cmdQueueOffset \div PageBytes + n)
RingAt(j) == CommandPage(1 + (j % CommandPage(0).msgCount))

\* The record at the read pointer, if the ring is not empty and it is intact.
NextMessage == RingAt(readPtr)
Receivable ==
  LET elements == [k \in 1..NextMessage.of.elementCount |-> RingAt(readPtr + k - 1)]
  IN  /\ readPtr # CommandPage(0).writePtr
      /\ NextMessage.kind = "message"
      /\ \A k \in DOMAIN elements : elements[k].kind = "message"
      /\ ValidateRpcRecord(elements)

GspReceive ==
  /\ pc = "ready"
  /\ Receivable
  /\ received' = Append(received, NextMessage.of)
  /\ readPtr' = (readPtr + NextMessage.of.elementCount) % CommandPage(0).msgCount
  /\ UNCHANGED <<in, staged, pc, index, frame, pages, addresses, artifacts,
                 mem, status, faulted>>

Next ==
  \/ PlanPreparation \/ MapGenerated \/ ResolveAddresses \/ BuildArtifacts
  \/ PopulateGenerated \/ PlanSequence \/ GspReceive

Spec == Init /\ [][Next]_vars

-----------------------------------------------------------------------------
(* Properties *)

Ready == pc = "ready"

\* GSP-RM finds every page of the firmware in order behind the root address
\* of the metadata, however the IOMMU scattered the allocation, and nothing
\* behind the last one (BuildRadix3Tables fills three levels from one page
\* list).
FirmwareReachable ==
  Ready =>
    LET meta  == At(addresses.wprMetadata)
        count == Pages(meta.radixBytes)
    IN  /\ \A i \in 0..(count - 1) : FirmwareAt(i) = FirmwarePage(i)
        /\ \A i \in count..(kRadixEntriesPerPage * kRadixEntriesPerPage * kRadixEntriesPerPage - 1) :
             FirmwareAt(i).kind # "firmware"
        /\ meta.signature = staged["GspFirmwareSignature"][1]
        /\ meta.bootloader = staged["GspBootloader"][1]

\* Every page of the shared queue memory is mapped by the table GSP-RM starts
\* from, and both queues lie where the arguments say (PlanQueueMemory counts
\* the entries before it knows how many pages the table takes).
QueueMemoryMapped ==
  Ready =>
    /\ Arguments.kind = "arguments"
    /\ \A p \in 0..(PageCount(1) - 1) : SharedAddress(p) = pages[1][p + 1]
    /\ CommandPage(0).kind = "tx"
    /\ \A p \in 0..(in.queueBytes \div PageBytes - 1) :
         SharedPage(Arguments.statQueueOffset \div PageBytes + p) = ZeroPage

\* Each LibOS region lies inside the buffer it is named after, in pages no
\* other region has (ResolveGa10xBootMemory passes a base and a size, so the
\* buffer must be contiguous).
RegionsInsideBuffers ==
  Ready =>
    LET touched(r) == {r.base + PageBytes * p : p \in 0..(r.size \div PageBytes - 1)}
        own(i) == {pages[i][p] : p \in DOMAIN pages[i]}
    IN  /\ \A n \in 1..5 : touched(Region(LogNames[n])) \subseteq own(n + 5)
        /\ touched(Region("RMARGS")) \subseteq own(2)

\* Every region GSP-RM is told of, the shared queue memory and the LibOS
\* regions, lies in the pages of the buffer it is meant for (PlanQueueMemory,
\* ResolveGa10xBootMemory).
RegionsAreMapped == QueueMemoryMapped /\ RegionsInsideBuffers

\* A record needs a free slot between the write pointer and the read pointer.
Room ==
  BuildRpcRecord("SetRegistry", in.registryBytes, 1).elementCount
    + BuildRpcRecord("GspSetSystemInfo", SystemInfoBytes, 0).elementCount
    < MsgCount(Queues)

\* Once the ring has room for both records, GSP-RM receives the system
\* information and then the registry, complete and in order, and then finds
\* the ring empty (PutRecord wraps around the ring and advances the pointer).
BootstrapRecordsDelivered ==
  /\ Ready /\ Room
  /\ ~Receivable
  => /\ Len(received) = 2
     /\ \A n \in 1..2 : received[n].sequence = n - 1
     /\ received[1].function = "GspSetSystemInfo"
     /\ received[2].function = "SetRegistry"
     /\ received[2].payloadBytes = in.registryBytes
     /\ readPtr = CommandPage(0).writePtr

\* The fragments of a payload cover it exactly, in order, and each is one
\* BuildRpcRecord accepts (PlanRpcFragments bounds a fragment by the space a
\* record has after its header).
FragmentsCarryPayload ==
  LET f == PlanRpcFragments(in.registryBytes)
  IN  /\ f[1].offset = 0 /\ ~f[1].continuation
      /\ \A i \in 2..Len(f) : /\ f[i].offset = f[i - 1].offset + f[i - 1].bytes
                              /\ f[i].continuation /\ f[i].bytes > 0
      /\ f[Len(f)].offset + f[Len(f)].bytes = in.registryBytes
      /\ \A i \in DOMAIN f : BuildRpcRecord("any", f[i].bytes, i) # None

\* Payloads reach GSP-RM whole and in order, as the two bootstrap records or
\* cut into fragments (BuildBootstrapCommandQueue, PlanRpcFragments).
PayloadsAreCarried == BootstrapRecordsDelivered /\ FragmentsCarryPayload

\* The parts of the preparation agree about sizes and layouts: when no kernel
\* call failed and the firmware image is whole pages, a session is refused only
\* for the reasons below (the size a buffer is planned with, the pages it is
\* mapped with, the entries counted for it and the size of its artifact come from
\* four places).
TotalPages == PageCount(1) + PageCount(5) + 3 + 5 * LogPages
RefusalsAreKnown ==
  /\ pc = "failed" /\ ~faulted
  /\ in.size["GspFirmwareImage"] % PageBytes = 0
  => \/ status = "ProfileRejected" /\ ~ManifestValid
     \/ status = "GeneratedLayoutRejected" /\ index \in Logs
     \/ \* a buffer at address zero
        status = "AddressResolveFailed" /\ frame = TotalPages
     \/ /\ status = "ArtifactBuildFailed"
        /\ \/ \* the page table spills into a page its entries do not count
              Pages(Queues.totalBytes) # Queues.pageTableEntryCount
           \/ BuildBootstrapCommandQueue(Queues, in.registryBytes) = None
     \/ \* an image without an execution plan
        status = "SequenceRejected" /\ ~in.plannable

\* What gsp_radix3.hpp:34-35 says of the allocation image, "with the final partial
\* image page zero padded": an image that ends within a page is copied like any
\* other, so that populating a buffer fails only with a kernel call.
PaddedImageIsPopulated == status = "ArtifactPopulationFailed" => faulted

=============================================================================
