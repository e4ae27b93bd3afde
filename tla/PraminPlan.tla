----------------------------- MODULE PraminPlan -----------------------------
(***************************************************************************)
(* PRAMIN staging plans: the planner (src/core/pramin.cpp) and the checks  *)
(* the DriverKit executors repeat on every plan and chunk before BAR0 is   *)
(* touched (RTXMacPramin.cpp, RTXMacPraminTransaction.cpp).                *)
(*                                                                         *)
(* VRAM is reached through a window of WindowBytes whose base is the       *)
(* selector register times SelectorUnit (1 MiB and 64 KiB in the code).    *)
(* A chunk's bar0ApertureOffset is kept relative to kPraminApertureOffset. *)
(* Selectors and apertures beyond 32 bits need a VRAM of 2^48 bytes and    *)
(* are left out.                                                           *)
(***************************************************************************)
EXTENDS Naturals, Sequences

CONSTANTS
  WindowBytes,   \* kPraminWindowBytes = kPraminApertureBytes
  SelectorUnit,  \* VRAM bytes one unit of the selector stands for
  VramSize       \* bytes of framebuffer

ASSUME WindowAssumption ==
  /\ WindowBytes \in Nat \ { 0 } /\ SelectorUnit \in Nat \ { 0 } /\ VramSize \in Nat \ { 0 }
  /\ WindowBytes % SelectorUnit = 0
  /\ SelectorUnit % 4 = 0 /\ VramSize % 4 = 0

InWindow(address) == address % WindowBytes

WindowBase(address) == address - InWindow(address)

Room(address) == WindowBytes - InWindow(address)

Smaller(a, b) == IF a < b THEN a ELSE b

\* The structs of pramin.hpp; their fields are unsigned.
PraminStageChunks ==
  [ vramOffset : Nat, sourceOffset : Nat, bytes : Nat, windowBase : Nat,
    windowSelector : Nat, bar0ApertureOffset : Nat ]

PraminStagePlans ==
  [ valid : BOOLEAN, vramOffset : Nat, totalBytes : Nat, chunks : Seq(PraminStageChunks) ]

\* The chunk of at most "bytes" bytes that starts at "address".
PraminStageChunk(address, sourceOffset, bytes) ==
  [ vramOffset         |-> address,
    sourceOffset       |-> sourceOffset,
    bytes              |-> bytes,
    windowBase         |-> WindowBase(address),
    windowSelector     |-> WindowBase(address) \div SelectorUnit,
    bar0ApertureOffset |-> InWindow(address) ]

ChunkBytes(remaining, address) == Smaller(remaining, Room(address))

\* The planner's loop, as a function of what remains to be planned.
PlannedChunks(vramOffset, byteCount) ==
  LET from[remaining \in 0..byteCount] ==
        IF remaining = 0
        THEN << >>
        ELSE LET sourceOffset == byteCount - remaining
                 address      == vramOffset + sourceOffset
                 bytes        == ChunkBytes(remaining, address)
             IN  << PraminStageChunk(address, sourceOffset, bytes) >>
                 \o from[remaining - bytes]
  IN  from[byteCount]

PlanPraminStage(vramOffset, byteCount) ==
  LET valid == byteCount # 0 /\ vramOffset < VramSize /\ byteCount <= VramSize - vramOffset
  IN  [ valid      |-> valid,
        vramOffset |-> vramOffset,
        totalBytes |-> byteCount,
        chunks     |-> IF valid THEN PlannedChunks(vramOffset, byteCount) ELSE << >> ]

-----------------------------------------------------------------------------

\* The checks on a whole plan (ValidateStage, RTXMacReadPramin).
ValidateStage(stage) ==
  /\ stage.valid
  /\ stage.totalBytes # 0
  /\ stage.chunks # << >>
  /\ stage.vramOffset < VramSize
  /\ stage.totalBytes <= VramSize - stage.vramOffset

\* Mutant: the chunk's window is taken as planned.
ValidateChunkTrustingWindow(chunk, expectedVram, expectedSource, totalBytes) ==
  /\ chunk.bytes # 0 /\ chunk.bytes % 4 = 0
  /\ chunk.vramOffset = expectedVram
  /\ chunk.sourceOffset = expectedSource
  /\ chunk.sourceOffset <= totalBytes
  /\ chunk.bytes <= totalBytes - chunk.sourceOffset
  /\ chunk.bytes <= Room(chunk.vramOffset)

\* The checks on one chunk against where the previous one ended.
ValidateChunk(chunk, expectedVram, expectedSource, totalBytes) ==
  /\ chunk.bytes # 0 /\ chunk.bytes % 4 = 0
  /\ chunk.vramOffset = expectedVram
  /\ chunk.sourceOffset = expectedSource
  /\ chunk.sourceOffset <= totalBytes
  /\ chunk.bytes <= totalBytes - chunk.sourceOffset
  /\ chunk.bytes <= Room(chunk.vramOffset)
  /\ chunk.windowBase = WindowBase(chunk.vramOffset)
  /\ chunk.windowSelector = chunk.windowBase \div SelectorUnit
  /\ chunk.bar0ApertureOffset = InWindow(chunk.vramOffset)

\* CheckMmioRegionWrite with the one rule for the PRAMIN aperture.
ApertureAllowed(offset, bytes) ==
  /\ bytes # 0
  /\ offset + bytes <= WindowBytes
  /\ offset % 4 = 0 /\ bytes % 4 = 0

-----------------------------------------------------------------------------
(***************************************************************************)
(* What a plan should be: chunks in order, without gap or overlap, each    *)
(* inside one window and a legal aperture access.  Stated over the chunk   *)
(* sequence as a whole; the executors find it out one chunk at a time.     *)
(***************************************************************************)

AuditedPlan(stage) ==
  LET n == Len(stage.chunks)
      end(k) == stage.chunks[k].sourceOffset + stage.chunks[k].bytes
  IN  /\ ValidateStage(stage)
      /\ \A k \in 1..n :
           /\ ValidateChunk(stage.chunks[k],
                            stage.vramOffset + stage.chunks[k].sourceOffset,
                            IF k = 1 THEN 0 ELSE end(k - 1),
                            stage.totalBytes)
           /\ ApertureAllowed(stage.chunks[k].bar0ApertureOffset, stage.chunks[k].bytes)
      /\ end(n) = stage.totalBytes

=============================================================================
