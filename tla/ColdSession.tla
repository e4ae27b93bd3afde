------------------------------ MODULE ColdSession ------------------------------
(***************************************************************************)
(* Everything one user client keeps pinned for DMA: the sections of the    *)
(* staged package and the generated buffers of the cold boot session.      *)
(*                                                                         *)
(* A call runs one kernel call per step; each can fail.  The methods and   *)
(* Stop of one client run on its dispatch queue, one after the other; the  *)
(* driver may stop at any point in between.  The caller's buffer holds the *)
(* same package for the whole call.  Byte counts are left out: every       *)
(* buffer needs ChunkCount DMA commands.                                   *)
(***************************************************************************)
EXTENDS Integers

CONSTANTS Packages,        \* accepted packages, told apart by their digest
          Memories,        \* memory objects the kernel can hand out
          None,            \* the null pointer, the zero digest
          Zero,            \* what a zeroed buffer holds
          SectionCount,    \* kSectionCount
          GeneratedCount,  \* kGeneratedDmaRequirementCount
          ArtifactCount,   \* generated buffers that carry an artifact
          ChunkCount,      \* DMA commands per buffer
          LinearSections,  \* sections that must be contiguous
          LinearGenerated, \* generated buffers that must be contiguous
          Reused           \* sections whose address the session takes over

ASSUME NoneAssumption ==
  /\ None \notin Packages
  /\ None \notin Memories
  /\ Zero # None
ASSUME CountAssumption ==
  /\ SectionCount \in Nat \ {0}
  /\ GeneratedCount \in Nat \ {0}
  /\ ChunkCount \in Nat \ {0}
  /\ ArtifactCount \in 1..GeneratedCount
  /\ LinearSections \subseteq 1..SectionCount
  /\ LinearGenerated \subseteq 1..GeneratedCount
  /\ Reused \subseteq LinearSections

VARIABLES driver,   \* RTXMacDriver_IVars::pci is set
          client,   \* life of the user client object
          staged,   \* RTXMacStagedPackage without its buffers
          session,  \* RTXMacColdBootSession without its buffers
          buf,      \* the buffers of both
          live,     \* kernel objects and arrays not yet released
          call      \* the running method and its locals

vars == <<driver, client, staged, session, buf, live, call>>

-----------------------------------------------------------------------------
(* Buffers *)

Chunks == 1..ChunkCount
SectionSlots == {"section"} \X (1..SectionCount)
GeneratedSlots == {"generated"} \X (1..GeneratedCount)
Slots == SectionSlots \cup GeneratedSlots

\* What a piece of memory holds: the package it is derived from and the
\* addresses written into it.
Content(p, addresses) == [from |-> p, at |-> addresses]
NoAddresses == [s \in Slots |-> None]
Zeroes == Content(Zero, NoAddresses)
Unwritten == Content(None, NoAddresses)

EmptyBuffer ==
  [memory |-> None, array |-> FALSE, commands |-> {}, pages |-> FALSE,
   contiguous |-> FALSE, host |-> Unwritten,
   device |-> [c \in Chunks |-> Unwritten]]

Object(kind, m, c) == [kind |-> kind, memory |-> m, chunk |-> c]

\* The objects reachable from a buffer.
Holds(b) ==
  (IF b.memory = None THEN {} ELSE {Object("memory", b.memory, 0)})
    \cup (IF b.array THEN {Object("array", b.memory, 0)} ELSE {})
    \cup (IF b.pages THEN {Object("pages", b.memory, 0)} ELSE {})
    \cup {Object("command", b.memory, c) : c \in b.commands}

\* RTXMacReleasePreparedDmaBuffer with the page list: every chunk completed,
\* both arrays deleted, the memory released and the pointers cleared.
ReleaseBuffers(S) ==
  [s \in Slots |-> IF s \in S THEN EmptyBuffer ELSE buf[s]]
Released(S) == UNION {Holds(buf[s]) : s \in S}

-----------------------------------------------------------------------------
(* Package and session status *)

StageFailures ==
  {"BadArgument", "PlanRejected", "SectionLookupFailed",
   "DmaAllocationFailed", "DmaPopulationFailed",
   "PageAddressAllocationFailed", "PageAddressValidationFailed",
   "DmaLayoutRejected", "DmaResolveFailed"}

SessionFailures ==
  {"BadArgument", "PackageNotReady", "PackageMismatch", "BoundaryRejected",
   "ProfileRejected", "PlanRejected", "PackageSummaryRejected",
   "GeneratedAllocationFailed", "PageAddressAllocationFailed",
   "PageAddressValidationFailed", "GeneratedLayoutRejected",
   "AddressResolveFailed", "SystemInfoFailed", "ArtifactBuildFailed",
   "ArtifactPopulationFailed", "SequenceRejected"}

IdleStaged == [ready |-> FALSE, status |-> "Idle", packageDigest |-> None]
IdleSession == [ready |-> FALSE, status |-> "Idle", addresses |-> NoAddresses]

\* Locals of a call: the method and its step, the package passed, the buffer
\* worked on, the next chunk, the buffer being built and the addresses of the
\* staged package.
NoCall ==
  [method |-> "none", step |-> "none", package |-> None, index |-> 1,
   chunk |-> 1, out |-> EmptyBuffer, summary |-> NoAddresses]

Slot == <<IF call.method = "stage" THEN "section" ELSE "generated", call.index>>
Count == IF call.method = "stage" THEN SectionCount ELSE GeneratedCount

\* The status a failed kernel call is reported with.
AllocationFailed ==
  IF call.method = "stage" THEN "DmaAllocationFailed"
                           ELSE "GeneratedAllocationFailed"
PopulationFailed ==
  IF call.method = "stage" THEN "DmaPopulationFailed"
                           ELSE "ArtifactPopulationFailed"
LayoutRejected ==
  IF call.method = "stage" THEN "DmaLayoutRejected"
                           ELSE "GeneratedLayoutRejected"

-----------------------------------------------------------------------------
(* Failure and release *)

\* RTXMacReleaseColdBootSession and RTXMacReleaseStagedPackage, as the state
\* of the buffers they release; the callers set the status.
ReleaseSession ==
  /\ buf' = ReleaseBuffers(GeneratedSlots)
  /\ live' = live \ Released(GeneratedSlots)
ReleaseBoth ==
  /\ buf' = ReleaseBuffers(Slots)
  /\ live' = live \ Released(Slots)

\* Mutant: a chunk that fails to prepare leaves the earlier ones behind.
FailCallKeepingPartial(status) ==
  LET own == IF call.method = "stage" THEN SectionSlots ELSE GeneratedSlots
  IN  /\ buf' = ReleaseBuffers(own)
      /\ live' = live \ Released(own)
      /\ staged' = IF call.method = "stage"
                     THEN [IdleStaged EXCEPT !.status = status] ELSE staged
      /\ session' = IF call.method = "stage"
                      THEN session ELSE [IdleSession EXCEPT !.status = status]
      /\ call' = NoCall
      /\ UNCHANGED <<driver, client>>

\* ReleaseAndRestoreFailure or Fail, after RTXMacAllocateAndPrepareDmaBuffer
\* has given up what it had built so far; the method returns.
FailCall(status) ==
  LET own == IF call.method = "stage" THEN SectionSlots ELSE GeneratedSlots
  IN  /\ buf' = ReleaseBuffers(own)
      /\ live' = live \ (Holds(call.out) \cup Released(own))
      /\ IF call.method = "stage"
           THEN /\ staged' = [IdleStaged EXCEPT !.status = status]
                /\ UNCHANGED session
           ELSE /\ session' = [IdleSession EXCEPT !.status = status]
                /\ UNCHANGED staged
      /\ call' = NoCall
      /\ UNCHANGED <<driver, client>>

\* The call goes on and touches nothing but its locals.
GoOn(c) ==
  /\ call' = c
  /\ UNCHANGED <<driver, client, staged, session, buf, live>>

At(step) == call.method # "none" /\ call.step = step
-----------------------------------------------------------------------------
(* The methods *)

\* ValidateBytesAgainstLiveGPU accepted the package, which takes an open
\* device.
Accepted(method, p) ==
  /\ client = "running"
  /\ call = NoCall
  /\ driver = "open"
  /\ GoOn([NoCall EXCEPT !.method = method, !.step = "getPci", !.package = p])

\* Mutant: a rejected package is recorded over the one held.
SetRejectedStagingUnreleased ==
  /\ ReleaseSession
  /\ session' = IdleSession
  /\ staged' = [IdleStaged EXCEPT !.status = "BadArgument"]
  /\ call' = NoCall
  /\ UNCHANGED <<driver, client>>

\* The package was rejected, or the device is gone when it is asked for.
SetRejectedStaging ==
  /\ ReleaseBoth
  /\ session' = IdleSession
  /\ staged' = [IdleStaged EXCEPT !.status = "BadArgument"]
  /\ call' = NoCall
  /\ UNCHANGED <<driver, client>>

SetRejectedBootSession ==
  /\ ReleaseSession
  /\ session' = [IdleSession EXCEPT !.status = "BadArgument"]
  /\ call' = NoCall
  /\ UNCHANGED <<driver, client, staged>>

StageRejected ==
  /\ \/ client = "running" /\ call = NoCall
     \/ call.method = "stage" /\ At("getPci") /\ driver = "closed"
  /\ SetRejectedStaging

PrepareRejected ==
  /\ \/ client = "running" /\ call = NoCall
     \/ call.method = "prepare" /\ At("getPci") /\ driver = "closed"
  /\ SetRejectedBootSession

\* Mutant: the session on the old package is kept.
StageVerifiedPackageKeepingSession ==
  /\ call.method = "stage" /\ At("getPci") /\ driver = "open"
  /\ buf' = ReleaseBuffers(SectionSlots)
  /\ live' = live \ Released(SectionSlots)
  /\ staged' = IdleStaged
  /\ call' = [call EXCEPT !.step = "plan"]
  /\ UNCHANGED <<driver, client, session>>

\* StagePackage releases the session, RTXMacStageVerifiedPackage the package.
StageVerifiedPackage ==
  /\ call.method = "stage" /\ At("getPci") /\ driver = "open"
  /\ ReleaseBoth
  /\ session' = IdleSession
  /\ staged' = IdleStaged
  /\ call' = [call EXCEPT !.step = "plan"]
  /\ UNCHANGED <<driver, client>>

StagePlan ==
  /\ call.method = "stage" /\ At("plan")
  /\ \/ GoOn([call EXCEPT !.step = "lookup"])
     \/ FailCall("PlanRejected")

FindSection ==
  /\ At("lookup")
  /\ \/ GoOn([call EXCEPT !.step = "memory"])
     \/ FailCall("SectionLookupFailed")

\* PrepareColdBootSession: the session is released before anything is checked.
PrepareColdBootSession ==
  /\ call.method = "prepare" /\ At("getPci") /\ driver = "open"
  /\ ReleaseSession
  /\ session' = IdleSession
  /\ call' = [call EXCEPT !.step = "staged"]
  /\ UNCHANGED <<driver, client, staged>>

\* Mutant: the caller is trusted to have staged the package.
CheckStagedTrustingCaller == At("staged") /\ GoOn([call EXCEPT !.step = "profile"])

CheckStaged ==
  /\ At("staged")
  /\ IF ~staged.ready \/ staged.status # "Ok"
       THEN FailCall("PackageNotReady")
       ELSE IF staged.packageDigest # call.package
              THEN FailCall("PackageMismatch")
              ELSE GoOn([call EXCEPT !.step = "profile"])

\* The live boundary, the profile and the preparation plan: checks of the
\* package's numbers, without effect on what is held.
CheckProfile ==
  /\ At("profile")
  /\ \/ GoOn([call EXCEPT !.step = "summary"])
     \/ \E status \in {"BoundaryRejected", "ProfileRejected", "PlanRejected"} :
          FailCall(status)

\* RTXMacDescribeStagedPackageDma reads the addresses of the staged package.
DescribeStagedPackageDma ==
  /\ At("summary")
  /\ \/ GoOn([call EXCEPT
                !.step = "memory",
                !.summary = [s \in Slots |-> IF s \in SectionSlots
                                               THEN buf[s].memory ELSE None]])
     \/ FailCall("PackageSummaryRejected")

-----------------------------------------------------------------------------
(* RTXMacAllocateAndPrepareDmaBuffer, with its locals in call.out *)

CreateMemory(m) ==
  /\ At("memory")
  /\ \A o \in live : o.memory # m
  /\ live' = live \cup {Object("memory", m, 0)}
  /\ call' = [call EXCEPT !.step = "array",
                          !.out = [EmptyBuffer EXCEPT !.memory = m]]
  /\ UNCHANGED <<driver, client, staged, session, buf>>

CreateArray ==
  /\ At("array")
  /\ live' = live \cup {Object("array", call.out.memory, 0)}
  /\ call' = [call EXCEPT !.step = "chunk", !.chunk = 1, !.out.array = TRUE]
  /\ UNCHANGED <<driver, client, staged, session, buf>>

\* PrepareChunk; a command that fails to prepare or has bad segments is
\* released before the function returns.  The last chunk completes *out.
PrepareChunk ==
  LET out == [call.out EXCEPT !.commands = @ \cup {call.chunk}]
  IN  /\ At("chunk")
      /\ live' = live \cup {Object("command", call.out.memory, call.chunk)}
      /\ IF call.chunk < ChunkCount
           THEN /\ call' = [call EXCEPT !.chunk = @ + 1, !.out = out]
                /\ UNCHANGED buf
           ELSE /\ call' = [call EXCEPT
                              !.step = IF call.method = "stage"
                                         THEN "copy" ELSE "pages",
                              !.chunk = 1,
                              !.out = EmptyBuffer]
                /\ buf' = [buf EXCEPT ![Slot] = out]
      /\ UNCHANGED <<driver, client, staged, session>>

AllocationFails ==
  /\ \/ At("memory") \/ At("array") \/ At("chunk")
  /\ FailCall(AllocationFailed)

-----------------------------------------------------------------------------
(* Filling a buffer and recording its pages *)

\* What is copied: the section's payload, the artifact built from the
\* package and the resolved addresses, or zeroes.
SourceOf(slot) ==
  IF slot \in SectionSlots THEN Content(call.package, NoAddresses)
  ELSE IF slot[2] <= ArtifactCount THEN Content(call.package, session.addresses)
  ELSE Zeroes

\* The memory is written through its mapping ...
CopyIntoPrepared ==
  /\ At("copy")
  /\ \/ /\ buf' = [buf EXCEPT ![Slot].host = SourceOf(Slot)]
        /\ call' = [call EXCEPT !.step = "sync", !.chunk = 1]
        /\ UNCHANGED <<driver, client, staged, session, live>>
     \/ FailCall(PopulationFailed)

\* Mutant: only the first chunk is synchronised.
AfterSyncFirstChunkOnly ==
  IF call.method = "stage" THEN [call EXCEPT !.step = "pages"]
  ELSE IF call.index < GeneratedCount
    THEN [call EXCEPT !.step = "copy", !.index = @ + 1]
  ELSE [call EXCEPT !.step = "sequence"]

\* Where a call continues after the last chunk of a buffer is synchronised.
AfterSync ==
  IF call.chunk < ChunkCount THEN [call EXCEPT !.chunk = @ + 1]
  ELSE IF call.method = "stage" THEN [call EXCEPT !.step = "pages", !.chunk = 1]
  ELSE IF call.index < GeneratedCount
    THEN [call EXCEPT !.step = "copy", !.chunk = 1, !.index = @ + 1]
  ELSE [call EXCEPT !.step = "sequence", !.chunk = 1]

\* ... and made visible to the device chunk by chunk.
SynchronizeChunk ==
  /\ At("sync")
  /\ \/ /\ buf' = [buf EXCEPT ![Slot].device[call.chunk] = buf[Slot].host]
        /\ call' = AfterSync
        /\ UNCHANGED <<driver, client, staged, session, live>>
     \/ FailCall(PopulationFailed)

CreatePageList ==
  /\ At("pages")
  /\ \/ /\ live' = live \cup {Object("pages", buf[Slot].memory, 0)}
        /\ buf' = [buf EXCEPT ![Slot].pages = TRUE]
        /\ call' = [call EXCEPT !.step = "collect"]
        /\ UNCHANGED <<driver, client, staged, session>>
     \/ FailCall("PageAddressAllocationFailed")

\* RequiredLayout of a section, the layout of a generated buffer.
Linear(slot) ==
  slot[2] \in (IF slot \in SectionSlots THEN LinearSections ELSE LinearGenerated)

\* The addresses are collected; the memory may or may not be contiguous.
CollectDmaPageAddresses(contiguous) ==
  /\ At("collect")
  /\ \/ FailCall("PageAddressValidationFailed")
     \/ /\ Linear(Slot) /\ ~contiguous
        /\ FailCall(LayoutRejected)
     \/ /\ Linear(Slot) => contiguous
        /\ buf' = [buf EXCEPT ![Slot].contiguous = contiguous]
        /\ call' = IF call.index < Count
                     THEN [call EXCEPT !.index = @ + 1,
                             !.step = IF call.method = "stage"
                                        THEN "lookup" ELSE "memory"]
                     ELSE [call EXCEPT !.step = "resolve", !.index = 1]
        /\ UNCHANGED <<driver, client, staged, session, live>>

-----------------------------------------------------------------------------
(* Completion *)

ResolvePackage ==
  /\ call.method = "stage" /\ At("resolve")
  /\ \/ /\ staged' = [ready |-> TRUE, status |-> "Ok",
                      packageDigest |-> call.package]
        /\ call' = NoCall
        /\ UNCHANGED <<driver, client, session, buf, live>>
     \/ FailCall("DmaResolveFailed")

\* ResolveGa10xBootMemory: the session's addresses are those of its own
\* buffers and of the sections it reuses.
ResolveBootMemory ==
  /\ call.method = "prepare" /\ At("resolve")
  /\ \/ /\ session' = [session EXCEPT !.addresses =
             [s \in Slots |->
                IF s \in GeneratedSlots THEN buf[s].memory
                ELSE IF s[2] \in Reused THEN call.summary[s]
                ELSE None]]
        /\ call' = [call EXCEPT !.step = "artifacts"]
        /\ UNCHANGED <<driver, client, staged, buf, live>>
     \/ FailCall("AddressResolveFailed")

\* RTXMacCollectSystemInfo and BuildResolvedArtifacts.
BuildArtifacts ==
  /\ At("artifacts")
  /\ \/ GoOn([call EXCEPT !.step = "copy", !.index = 1])
     \/ \E status \in {"SystemInfoFailed", "ArtifactBuildFailed"} :
          FailCall(status)

PlanSequence ==
  /\ At("sequence")
  /\ \/ /\ session' = [session EXCEPT !.ready = TRUE, !.status = "Ok"]
        /\ call' = NoCall
        /\ UNCHANGED <<driver, client, staged, buf, live>>
     \/ FailCall("SequenceRejected")

-----------------------------------------------------------------------------
(* Life of the client and of the driver *)

\* init and Start_Impl; a failed Start leaves an object that is only freed.
ClientStart ==
  /\ client = "none"
  /\ driver = "open"
  /\ client' \in {"running", "stopped"}
  /\ UNCHANGED <<driver, staged, session, buf, live, call>>

\* Stop_Impl and free release both; free deletes the object.
ReleaseAll(next) ==
  /\ call = NoCall
  /\ ReleaseBoth
  /\ staged' = IdleStaged
  /\ session' = IdleSession
  /\ client' = next
  /\ UNCHANGED <<driver, call>>

ClientStop == client = "running" /\ ReleaseAll("stopped")
ClientFree == client = "stopped" /\ ReleaseAll("none")

\* Start_Impl opens the device; Stop_Impl closes it whatever clients hold.
\* A client belongs to one driver object and never sees the next one.
DriverStart ==
  /\ driver = "closed"
  /\ client = "none"
  /\ driver' = "open"
  /\ UNCHANGED <<client, staged, session, buf, live, call>>
DriverStop ==
  /\ driver = "open"
  /\ driver' = "closed"
  /\ UNCHANGED <<client, staged, session, buf, live, call>>

-----------------------------------------------------------------------------
Init ==
  /\ driver = "closed"
  /\ client = "none"
  /\ staged = IdleStaged
  /\ session = IdleSession
  /\ buf = [s \in Slots |-> EmptyBuffer]
  /\ live = {}
  /\ call = NoCall

Allocate ==
  \/ \E m \in Memories : CreateMemory(m)
  \/ CreateArray
  \/ PrepareChunk
  \/ AllocationFails

Fill ==
  \/ CopyIntoPrepared
  \/ SynchronizeChunk
  \/ CreatePageList
  \/ \E contiguous \in BOOLEAN : CollectDmaPageAddresses(contiguous)

StageStep == StageVerifiedPackage \/ StagePlan \/ FindSection \/ ResolvePackage

PrepareStep ==
  \/ PrepareColdBootSession
  \/ CheckStaged
  \/ CheckProfile
  \/ DescribeStagedPackageDma
  \/ ResolveBootMemory
  \/ BuildArtifacts
  \/ PlanSequence

Life == ClientStart \/ ClientStop \/ ClientFree \/ DriverStart \/ DriverStop

Next ==
  \/ \E p \in Packages : Accepted("stage", p) \/ Accepted("prepare", p)
  \/ StageRejected \/ PrepareRejected
  \/ StageStep \/ PrepareStep \/ Allocate \/ Fill
  \/ Life

Spec == Init /\ [][Next]_vars

-----------------------------------------------------------------------------
(* Properties *)

Addresses == [Slots -> Memories \cup {None}]
Contents == [from : Packages \cup {None, Zero}, at : Addresses]
Buffers ==
  [memory : Memories \cup {None}, array : BOOLEAN, commands : SUBSET Chunks,
   pages : BOOLEAN, contiguous : BOOLEAN, host : Contents,
   device : [Chunks -> Contents]]
Steps ==
  {"none", "getPci", "plan", "lookup", "staged", "profile", "summary",
   "memory", "array", "chunk", "copy", "sync", "pages", "collect", "resolve",
   "artifacts", "sequence"}

\* The variables stay within the types of the structs they stand for: an
\* index never leaves the arrays, a status never leaves its enumeration.
TypeOK ==
  /\ driver \in {"open", "closed"}
  /\ client \in {"none", "running", "stopped"}
  /\ staged \in [ready : BOOLEAN, status : StageFailures \cup {"Idle", "Ok"},
                 packageDigest : Packages \cup {None}]
  /\ session \in [ready : BOOLEAN, status : SessionFailures \cup {"Idle", "Ok"},
                  addresses : Addresses]
  /\ buf \in [Slots -> Buffers]
  /\ live \subseteq [kind : {"memory", "array", "pages", "command"},
                    memory : Memories, chunk : 0..ChunkCount]
  /\ call \in [method : {"none", "stage", "prepare"}, step : Steps,
               package : Packages \cup {None},
               index : 1..(SectionCount + GeneratedCount), chunk : Chunks,
               out : Buffers, summary : Addresses]
  /\ call.method # "none" => call.index <= Count

\* Every memory object, array and DMA command that was created and not yet
\* released is reachable from exactly one place of the client or of the
\* running call, and nothing released is: no error path, re-staging, Stop
\* or free leaks an object or releases one twice.
EveryObjectOwnedOnce ==
  /\ live = Released(Slots) \cup Holds(call.out)
  /\ \A s, t \in Slots :
       s # t /\ buf[s].memory # None => buf[s].memory # buf[t].memory
  /\ \A s \in Slots :
       call.out.memory # None => buf[s].memory # call.out.memory

Complete(s) ==
  /\ buf[s].memory # None
  /\ buf[s].array
  /\ buf[s].pages
  /\ buf[s].commands = Chunks
  /\ Linear(s) => buf[s].contiguous

Visible(s, content) == \A c \in Chunks : buf[s].device[c] = content

\* A package that RTXMacStageVerifiedPackage reports ready is complete, and
\* the device sees the payload of the recorded digest in every chunk of every
\* section, also while later calls run.
ReadyPackageIsVisible ==
  staged.ready =>
    \A s \in SectionSlots :
      /\ Complete(s)
      /\ Visible(s, Content(staged.packageDigest, NoAddresses))

\* The comment on RTXMacColdBootSession: ready means the buffers and
\* artifacts are consistent.  The addresses are those of the buffers now
\* held, of the session and of the package staged, and every artifact the
\* device sees was built from that package with these addresses.
ReadySessionIsConsistent ==
  session.ready =>
    /\ staged.ready
    /\ \A i \in Reused :
         session.addresses[<<"section", i>>] = buf[<<"section", i>>].memory
    /\ \A s \in GeneratedSlots :
         /\ Complete(s)
         /\ session.addresses[s] = buf[s].memory
         /\ Visible(s, IF s[2] <= ArtifactCount
                         THEN Content(staged.packageDigest, session.addresses)
                         ELSE Zeroes)

\* Between two calls a package or session that is not ready pins no memory,
\* and one is ready exactly if its status is Ok: what a failing call took is
\* given back on whichever of its steps it fails.
NotReadyHoldsNothing ==
  call = NoCall =>
    /\ staged.ready <=> staged.status = "Ok"
    /\ session.ready <=> session.status = "Ok"
    /\ ~staged.ready => \A s \in SectionSlots : Holds(buf[s]) = {}
    /\ ~session.ready => \A s \in GeneratedSlots : Holds(buf[s]) = {}

Cold == INSTANCE ColdClient WITH
          package <- IF staged.ready THEN staged.packageDigest ELSE None,
          prepared <- session.ready

\* The user client implements ColdClient: packages are only replaced through
\* nothing, sessions exist only on the package held.
ImplementsColdClient == Cold!Spec
=============================================================================
