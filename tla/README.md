# A verification project for NvidiaDriverMac

NvidiaDriverMac is a DriverKit extension, a portable C++ core and a host application that
prepare, and one day will perform, the boot of the GSP of an NVIDIA GA10x GPU on macOS.
This directory holds TLA+ models of its state machines, TLC configurations that check them
on small instances, and TLAPS proofs of the most important results for all instances.

## The system

Paths are relative to the repository. "Core" is `src/core` with `include/rtxmac`; "driver"
is `macos/Driver`.

| Part | State it keeps | Operations | What makes it correct |
| --- | --- | --- | --- |
| Boot orchestrator (core, `boot_orchestrator`) | `BootAttempt`: state, next phase, commit boundary, recovery, postcheck | `BeginBootAttempt`, `RecordBootPhaseResult`, `RecordBootResetPostcheck` | a crossed commit boundary is never forgotten and forbids cold recovery |
| Boot policies (core, `boot_recovery`, `boot_preflight`, `boot_sequence_policy`, `reset_recovery`, `reset_postcheck`) | none | pure decisions | the permissions they hand out are safe given what the GPU may be doing |
| Phase executor (driver, `RTXMacBootPhase`, `RTXMacFalcon`, `RTXMacReset`) | the locals of one call; the GPU's registers | execute a phase, interpret a Falcon plan, reset | every landed write is reported, every call ends |
| Falcon plans (core, `falcon_plan`, `gsp_manifest`, `falcon_policy`) | none | build and audit action lists | only audited registers, balanced conditionals |
| PRAMIN staging (core `pramin`, driver `RTXMacPramin*`) | the window selector, VRAM, a backup | plan, read, stage, verify, transaction | writes stay in the planned range; success means staged; clean failure means restored |
| Sysmem flush page (core `sysmem_flush`, driver `RTXMacSysmemFlush`) | two address registers | plan, program, roll back | success means switched; no half-switched state goes unreported |
| PCI command (`pci_command.hpp`, driver `RTXMacPciCommand`) | the Command register | plan, apply, roll back | only the requested bits change; failure restores |
| DMA buffers (driver `RTXMacDma`, core `dma`, `dma_plan`) | prepared chunks and their IOMMU mappings | allocate, prepare, collect pages, copy, zero, read, release | no leak on any error path; page list, copies and reads find each byte where the device does |
| Package staging (driver `RTXMacPackageStaging`, core `package_dma_*`) | staged artifacts of a verified package | stage, release, describe | a failed stage leaves nothing pinned and keeps its first error |
| Cold boot session (driver `RTXMacBootSession`, core `ga10x_boot_*`) | generated buffers and the resolved manifest | prepare, release | never outlives the package it points into |
| User client and driver (driver `RTXMacUserClient`, `RTXMacDriver`) | one client's staging and session, the PCI service | eight external methods, start, stop | status reported matches what is held; stop releases everything |
| Boot arming (core `boot_arm`) | none | build a challenge, check a request | a request is accepted only for the exact context it was made for |
| Live boundary (core `ga10x_live_preflight`, `ga10x_prototype`, `gsp_metadata`, driver `RTXMacLivePreflight`) | the decision kept in the session | read the lock, decide, lay out video memory | no region overlaps another or the lock; what is laid out can be staged |
| GSP RPC, queues, memory tables (core `gsp_*`) | images built in host memory | fragment, lay out, build page tables and the first command ring | GSP-RM finds firmware, queues and records from two addresses |
| Boot package (core `boot_package`, `boot_package_policy`, `frts`, `nvfw`; tool `rtxmac_offline`) | the package file | build, parse and verify, judge | what is built is accepted; what is damaged stages nothing else |
| Parsers, probes, host app | none that the driver depends on | decode bytes, display | not modelled |

How they interact. The host application sends a package to the user client, which validates
it against the live GPU, stages it into DMA buffers and prepares a cold boot session. A boot
would then program the flush page and the Command register, stage two images through PRAMIN,
begin a `BootAttempt` with the facts collected on the way, and call the phase executor
twelve times. The executor interprets the Falcon action list of the phase against BAR0, runs
its check and records the result. A failure is classified as cold-reversible (everything may
be undone and released) or as needing a full GPU reset (everything stays pinned); after a
reset a postcheck decides whether the buffers may go.

No code in the repository calls the executor yet (docs/ROADMAP.md, Gate C). The phase,
reset, PRAMIN, flush and command primitives exist with default-off gates, and the models
put in the caller's place the most general one that honours the permission flags.

What is hard here: the GPU runs between any two register accesses, so polls are answered
late or never; every register mapping can fail, also in the middle of a list of writes and
in the middle of a rollback; posted writes can be lost; resets can fail after they took
effect; and plans are plain structs that can be stale when used. `PROJECT.json` lists each
such hazard at its line, with the properties that would catch it.

## The modules

`BootPolicy` holds the decision functions as constant-level operators: the phase order, the
commit preflight, the recovery class of a failed phase, the reset plan and the postcheck.
Reports are records with the C++ field names. Which failure is named first in a report is
diagnostic and left out. The preflight's facts are a set of names; `FactSets` bounds the
sets that are tried to those lacking at most two facts.

`BootAttempt` is the orchestrator: one variable per field of `BootAttempt` plus the status
of the last call, one action per function. Callers may pass anything at any time. `BootPhase`
instantiates it and changes an attempt through its actions only. Its properties, for every
caller, are proved at the end of `BootPhaseProofs`.

`FalconPlan` has the action lists of the audited boot sequence. An action is its kind and
its register; `TransferBlocks` is the number of 256-byte transfers of one IMEM or DMEM load.

`BootPhase` is the executor. `exec` holds the locals of one call and there is one action per
register access, sleep or loop exit: a write lands, a mapping fails, a poll is satisfied,
waits or times out, a delay, the two conditionals, the check, and the recording of the
result. `gpu` keeps what matters of the hardware: whether it was written to since its last
effective reset, whether FWSEC was started, and whether WPR2 is up. `RaiseWpr2` may happen
any time after FWSEC was started, also after the driver gave up on it. The recovery reset may
fail with or without effect, and WPR2 may survive it. Two things are assumed of the caller: a
reset is issued only for an attempt that awaits one (`AwaitsReset`), and its result is
recorded once. `RTXMacExecuteRecoveryReset` does not know the attempt and checks neither.

`PraminPlan` has the planner and the per-plan and per-chunk checks; `PraminTransaction` runs
passes over a plan's chunks, split at every BAR0 access, over a VRAM kept by 32-bit word,
each word remembering where its content came from. Plans come from the planner or have had a
field altered. `MCPramin` supplies the plans.

`SysmemFlush` programs and rolls back the two flush registers one access at a time, beside
another owner of the registers. `PciCommand` does the same for the Command register, as a
set of bits, with writes that may land in part.

`ColdSession` is the user client: staging a package, preparing a cold session, stopping, and
the driver under it. `buf` has one record per section and generated buffer, with its memory,
chunk array, commands, page list, and what the CPU wrote and the device sees of it; `live`
has what was created and not yet released, so a leak is an object nobody reaches. `call`
holds the locals of the running method, one action per kernel call, each of which may fail.
Methods and `Stop_Impl` of a client share a dispatch queue and never overlap; the driver's
`Stop_Impl` may come at any point. The read-only methods are left out, and so is the
bad-argument return of `RTXMacStageVerifiedPackage`, which its only caller cannot reach. The
caller is assumed to leave the mapped package alone during a call. The numeric checks
(plan, boundary, profile, resolve) are outcomes here and modelled in `WprPlan`, `LiveBoundary`
and `GspMemory`. `ColdClient` is the abstract specification:
nothing, a package, or a package with a session on it.

`WprPlan` has the planners of video memory: the WPR layout, the boundary profile, the plan of
a preparation, and the staging of the two images below it. `LiveBoundary` reads the three
registers of the MMU lock one after the other, while firmware may move the lock, decides and
plans; captures can fail at each kernel call. The unit is half a page, so that sizes are and
are not multiples of each alignment.

`GspTables` has the structures of host memory: the Radix3 tree, the queue memory with its page
table, RPC fragments and the prefilled ring. `GspMemory` builds them for a session on pages
the IOMMU hands out in ascending order, in descending order or with two swapped, from
`MaxFrame + 1` pages in all; it summarises the staged package, resolves the addresses, builds and copies the artifacts,
plans the boot sequence, and then lets GSP-RM follow memory from the two addresses it is given.
Whether the two images to execute have a Falcon plan is an input (`plannable`); how that is
decided is in `FalconPolicy`. A page holds a typed content instead of bytes; checksums and the
serialised layout of structures are left out. `ValidateRpcRecord`, which in the repository
only tests call, is the check with which GSP-RM takes a record, without its version, signature
and checksum comparisons.

`FalconPolicy` has the planned actions with their values, masks and engines, the allow-list
of registers and the audit; a register value is the set of its one bits. Addresses that are
not page aligned are refused by the planner, and a LibOS address that is zero or not aligned
by the audit. `FalconLoad` runs
the plans against two engines that queue and make DMA transfers, scrub their memories after
reset, and run a program, each in its own time. Waits have no time limit here; `BootPhase`
has those, and `FalconPlan` remains the value-free list it and its proofs use.

`PackageFile` has the package format: the builder with the FRTS and booter patches, the parser
and the semantic checks. A payload is a sequence of bytes, header and table are records, and a
digest is the bytes it is taken over. The booter's code and data ranges are checked when its
container is parsed (`BooterInRange`); that a range is empty is found only when the package
is judged. `PackageIntake` takes a package from the offline tool,
which checks its own work before it writes, through damage on the way, to validation, staging
and preparation in the user client. Damage is a change of one header field, metadata field,
table field or byte, or a cut.

`DmaBuffer` is one prepared buffer with bytes and addresses: any mapping of its pages, any
segments that describe it, or a report that is odd in one of five ways (a list cut short or
with an empty segment, a length too large or not whole pages, an address that is not a page;
a wrong page cannot be told from the right one), page collection, copying, zeroing, synchronising
chunk by chunk, reading back, and a device that writes. Mapped pages are distinct from the
buffer, as with bounce buffers, which is the case in which synchronisation matters. The
portable planners of the core are operators beside it.

`BootArm` is the arming contract. Its two functions keep no state; the model adds the caller,
the operator, and a session that changes between the answer and the request. `BootGate`
composes it with `PciCommand`: a caller, external like the others, that has its request
accepted goes on to the Command register in the same method, so that the session stays as it
is meanwhile. The register does not depend on the session, so `HeldChanges` lets a boot begin
only in sessions that have not changed.

## The runs

| Run | Configuration | Shows |
| --- | --- | --- |
| `boot_phase` | one transfer block, budget 3, time-out 2, delay 1, fair executor | landed writes are on record, a driven GPU keeps its DMA buffers, only a quiet GPU becomes runnable, executed phases are recorded, a call without the write gate leaves the GPU alone, and every phase execution returns |
| `pramin` | three windows of two words, two calls | writes stay in a sound plan's range, success means staged, clean failure means restored |
| `sysmem_flush` | two plans, one foreign write | success means switched, torn registers are reported |
| `cold_session` | two packages, two sections and two generated buffers of two chunks | every object is owned once, ready means complete and visible to the device, failure holds nothing, refinement of `ColdClient` |
| `live_boundary` | seven packages, seven lock addresses, one move | regions apart and below the lock, plans stageable, captures released |
| `live_boundary_rebuild` | the same | violation: a lowered boundary never gives a layout that is used |
| `gsp_memory` | 140 combinations of firmware, queue and registry sizes, and one input that has no execution plan | GSP-RM reaches firmware, queues and records; images of whole pages are refused for known reasons only |
| `gsp_memory_padding` | the same | violation: an image that ends within a page is padded and then refused |
| `falcon_load` | six jobs, words of 17 bits, queue of two | complete images started, no lost command, audited plans never denied, plans end |
| `package_intake` | fifteen sources at the edge of each condition; two files, or one with two damages | builder and parser agree; accepted sections are apart; one damage stages nothing else; the session matches the staged file |
| `dma_buffer` | three pages in two chunks on a bus of four, one device write | page list, copies and reads name the device's bytes; planners agree |
| `boot_gate` | any two changes of thirteen fields and the nonce; then two Command calls, one altered field per plan, one platform write | an answer arms exactly its session; unrelated bits preserved, success and failure mean what they say |

Why the bounds are enough. The budget of 3 with a time-out of 2 and a delay of 1 lets every
comparison of the wait arithmetic go both ways: a poll ends by its own time-out and by the
budget, and a check is entered with and without time left. One transfer block already gives
each load its three kinds of polls. PRAMIN plans start and end inside and on window
boundaries and span up to two; two calls let a transaction meet what an earlier call left.
The flush encoding has four low and two high values with one reserved bit, so an address can
need either half or both. In `cold_session` each kind has a linear buffer and a page list, a
buffer with an artifact and one of zeroes, a first and a later buffer and chunk; there are as
many memory objects as buffers, so a client can hold everything at once. The proofs remove the
bounds for the safety properties of `BootAttempt`, `BootPhase`, `SysmemFlush`, `PciCommand`,
`PraminTransaction`, `ColdSession`, `LiveBoundary`, `GspMemory`, `BootArm` and `PackageIntake`,
and for most of those of `DmaBuffer` and `FalconLoad`.

In `live_boundary` the lock lies above, across, at and below each region, and one move is
enough to tear a capture between any two reads. The firmware sizes of `gsp_memory` fill a
level of the tree exactly, spill over it and end within a page, and the queue table is put at
the size where its own pages no longer fit; registries fill an element exactly. Words of 17
bits in `falcon_load` are the narrowest that hold every audited bit the plans use; images lie
where both halves of the DMA base are needed, and loads take up to three transfers with a queue
of two; a page there has 32 bytes, and two jobs have a LibOS address that is zero or off its
page. A package needs three sections for its neighbours and its overlaps, and has its five;
two damages are the fewest that give consistent but wrong tables. A `dma_buffer` of three
pages has a full and a partial chunk, its segments may or may not be merged, and one page
ends with the address space. In `boot_gate` two changes let a field and its counterpart move
together.

Fairness. `boot_phase` assumes weak fairness of the steps of the running call only: the
DriverKit thread is scheduled and `IOSleep` returns. Nothing is assumed of the GPU, of mappings
or of callers. `falcon_load` assumes that the plan is executed and that each engine goes on
with what it has begun (a queued transfer, scrubbing, a started program): its `PlansEnd` says
that no plan waits for something a working engine never does. What happens when an engine does
not answer is the time limit of `BootPhase`.

Deadlock is not checked for `pramin` and `boot_gate`, whose call bound is a stop of the
model, not of the code, nor for `falcon_load` and the two `gsp_memory` runs, whose sequence ends.

## What is proved

`BootPhaseProofs`: for every `TransferBlocks`, `MaxPhaseWait`, `PollTimeout` and `ResetDelay`,
all safety properties of the `boot_phase` run, and four more: `PastResetIsCommitted` and
`CommitForbidsColdRecovery` in the composition, `ColdFailureLeftGpuUntouched` and
`SucceededMeansWpr2Up`. These follow from the same invariant and need no run of their own. The inductive invariant `IInv` has five parts:
types; the orchestrator's own invariant; `ExecInv`, which ties the executor's locals to the
phase (an action list is only walked in a runnable attempt, a landed write sets `started`, past
the last write of a list `started` holds, and a phase with actions has the write gate);
`GpuInv`, which ties the GPU to the attempt (a driven GPU is either under the executing phase
or behind a recorded boundary, FWSEC runs only between its start and the reset of the GSP, WPR2
stays up to Succeeded); and `DmaInv`. It is needed because the properties speak of states
between calls while the steps that threaten them are inside a call. TLC checked the invariant
before it was proved. The proofs use the named assumptions on the constants and nothing else.
The last part of the module puts any caller in the executor's place: for every sequence of
calls of the orchestrator, types, `PastResetIsCommitted` and `CommitForbidsColdRecovery` hold
(the `AnyCaller` theorems). The invariant there adds what a state implies about the recorded
recovery and the index.

`ColdSessionProofs`: for any packages, memory objects and numbers of sections, generated
buffers and chunks, all five properties of the `cold_session` run and types. `IInv` says, for
every step of a call: what hangs on which pointer (`OwnedInv`; a null memory pointer holds
nothing, so two owners of an object would have to share a memory object); that ready, status
and empty buffers agree (`ReadyInv`); which locals a step has and how many commands the buffer
under construction holds (`CallInv`); that staging works with nothing ready, and preparing on
the package it was called with, whose addresses the summary still names (`StageInv`,
`PrepareInv`); and which of its buffers are empty, allocated, complete and visible by now
(`WorkInv`). The properties alone are not inductive: whether a package is visible when
`ResolvePackage` marks it ready was decided by every earlier iteration of the loop. Failing is
one lemma (`FailInv`), cited at every kernel call. The refinement maps completion to `Stage`
and `Prepare`, a release to `ReleaseAll`, `ReleaseSession` or a stutter, and the rest to a
stutter.

`VramProofs`, what is written to video memory. PRAMIN: for every window size, selector unit and
set of plans, whatever was altered in them, `WritesAreConfined`, `SuccessMeansStaged` and
`FailureMeansRestored`. The chunks a pass has walked were audited and end where the next is
expected (`WalkInv`), and `PassInv` says what the backup, verify and reverify passes know of
the words covered so far. That chunks only reach words of their range is window arithmetic, in
lemmas of its own. `PlanAssumption` says that a plan is a `PraminStagePlan` with unsigned
fields, sound or not. The placement around a live lock (`LiveBoundary`): for every package size
and lock value, `RegionsApart`, `NothingInsideLock`, `PlacementIsStageable` and
`CaptureReleased`. `PlanInv` says that an accepted plan is what the planner returns for the
decision taken; the layout is then a stack of aligned regions whose ends are compared one with
the next. `PackageAssumption` says that sizes are unsigned. Sums are taken not to wrap: offsets
in video memory stay far below 2^64, so the overflow branches of `AlignUp` cannot be taken (see
the header of `WprPlan`).

`SysmemFlushProofs`: for every granule, register size and page size, `SuccessMeansSwitched`,
`TornStateIsReported`, types, and that planner and validator agree (`PlannedIsValidated`). The
invariant adds that a value read is still the register's and that between writes the
registers are the old or the new pair. Decoding an encoded address is proved from division.

`BootGateProofs`, the two gates in front of a boot. For the Command register:
`UnrelatedBitsPreserved` for any altered plan, and `ResultIsTrue` if the status of a plan is
not altered, which is needed: see the disagreement below. For the arming contract:
`ArmedExactlyWhenAnswered` for any values of the fields and any number of changes. A chain of
checks passes exactly if no fault is there, so a challenge exists exactly for a sound context,
and on those the hashed fields determine the whole context. Both are proved for any caller of
the one gate; the composed caller is one of each (`GateUsesBoth`).

`DmaBufferProofs`: for every page size, chunk limit, bus, buffer length, mapping, splitting into
segments, odd report of the five kinds and number of writes by the device, `PagesAreTheBuffer`, `DeviceSeesSource` and
`ReadSeesDevice`. `ChunksInv` says that the prepared chunks follow each other, that only the
last may be short, and that their segments lead to the pages of the mapping; that an odd report
is found by `PrepareChunk` is a lemma of its own (`OddRefused`). `CallInv` says how far a call
has copied, and `SyncInv` which pages of buffer and mapping agree by now. What its
recursive functions compute is found at the least place at which it could fail, in place of
an induction.

`FirmwareProofs`, the firmware on its way into the GPU. The package (`PackageIntake`): for all
firmware files, alignments, sizes, identities and any number of files and damages,
`BuiltIsAccepted`, `AcceptedIsSound` and `SessionMatchesStaged`. The layout is a stack of
aligned sections (`LayoutIsStacked`) in whose bytes each payload is found again
(`ContentsFacts`); so what the builder lets through parses (`WrittenParses`), and its semantic
checks come down to the faults the builder does not look at (`WrittenSemantics`). A damage
leaves each record its digest or what it points to, and makes a kind missing if it changes one
(`OneOff`); with the digests compared, this leads to the payloads (`OkGivesThePayloads`). The
invariant keeps, for the file, how many damages away from the builder's it is, for the last
validation and the staged package which file they are of, and for the tool what it built.
`IntakeAssumption` says that a source is made of unsigned fields and byte sequences, sound or
not. Offsets are taken not to wrap at 2^64. The plans (`FalconLoad`): for every boot input,
width, queue depth and reset value, `AuditedSequenceIsNeverDenied`, `DoneMeansBothRan` and
types, however the engines run in between. `PlaceInv` says that there are twelve lists, that a
driver past the audit works on a sequence that passed it, and that the control register read
before a start still tells which of the two audited writes starts the processor; `RanInv` that
an engine past the start of its image runs or has run. `LoadAssumption` says that the inputs
are unsigned.

`GspMemoryProofs`: for every page and table entry size, entries per Radix3 page, image, queue
and registry size, number of log pages and each of the three page orders, `FirmwareReachable`,
`RegionsAreMapped`, `PayloadsAreCarried` and `RefusalsAreKnown`. `MemoryInv` says, step by step,
what is known by now: the mapped buffers have the planned number of pages, linear where the plan
asks for it, and no page twice (`MappedInv`); the addresses and the artifacts are those of the
buffers, and building did not fail (`ResolvedInv`, `BuiltInv`); the buffers copied so far hold
their artifact page by page (`WrittenInv`); a failure without a faulty kernel call has one of
the listed reasons (`RefusalInv`), among which misalignment is not, because every resolved
address is one of a page (`AddressesAligned`). It is needed because GSP-RM sees memory only, so
each theorem follows addresses from page to page: down the levels of the Radix3 tree, whose
starts are sums of the sizes below them, through the queue table, and round the ring, where
`DeliveryInv` says which of the two records is next. TLC checked both invariants first.
`InputAssumption` says that sizes are unsigned and that one page of a queue table can name the
other pages of it: 129 entries of 512 * 512 in the code, which has one queue size. The pages
fit the page bound `MaxFrame`; a session for which they do not waits or fails there.

Only model-checked. Liveness: the prover has no rule for fairness here.
`StartedImageIsComplete` and `Sec2ResumesReadyGsp` of `FalconLoad`: they need that a number
written to a register bit by bit is read back as itself, an induction over the bits.
`ResolversAgree` of `DmaBuffer`: the core's planner of chunks is a recursion.

## Where the code and its documents disagree

Two runs show a violation.

- `live_boundary_rebuild`: docs/ARCHITECTURE.md:21 promises that a boundary lowered by a live
  lock has the profile and the placements rebuilt around it, but the FRTS command names one
  place only, so such a profile ends in `PlanRejected`.
- `gsp_memory_padding`: gsp_radix3.hpp:34-35 has a firmware image that ends within a page padded,
  and tests plan one of 0x200FEF bytes, but the logical size of its buffer is not padded, so
  populating it is refused (RTXMacBootSession.cpp:44). `RefusalsAreKnown` is about images of
  whole pages.

Other disagreements met while modelling, which the properties of the passing runs step around:

- A call without the write gate executes and records a check-only phase, although the comment
  at RTXMacBootPhase.cpp:127-128 says that a dry invocation cannot consume or fail the attempt.
  `DryCallLeavesGpu` states what does hold.
- The rollbacks of the flush page and of the Command register compare and then write without
  exclusion, so an owner that writes in between is overwritten, against RTXMacSysmemFlush.hpp:19
  and RTXMacPciCommand.cpp:46. Their properties are stated for registers nobody else writes.
- `ValidatePciCommandTransition` does not tie `status` to the changed mask: a plan altered to
  `NoChange` validates and is applied as a success without a write, against pci_command.hpp:23.
  `BootGate.cfg` alters every other field.
- docs/WRITE_SAFETY.md:20 speaks of the bits a write changes; a full-width write with a narrower
  mask is allowed and also clears the other bits (RTXMacFalcon.cpp:84).
- Header metadata and the padding of a package are under no digest, so a file damaged there, within the
  ranges the checks allow, is accepted; docs/ROADMAP.md:8 lists tamper rejection.
  `StagedContentIsBuilt`, a part of `AcceptedIsSound`, is about the payloads.

## Not modelled

Left out: the container, VBIOS and ELF parsers, which decode bytes and keep no state (what
they find is an input of `PackageFile`), and the rounds of the hash; probing and diagnostics; the methods of
the user client that only report a status; the serialised layout of GSP structures and RPC
checksums, where a model would repeat the stores one by one; the host application, and the
commands of the offline tool that print. A package that its sender changes while a call reads
it is not modelled either: the models assume the mapped file is left alone.
