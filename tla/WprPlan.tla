------------------------------- MODULE WprPlan -------------------------------
(***************************************************************************)
(* Where the boot puts things in video memory: the write-protected region  *)
(* of the GSP firmware (gsp_metadata.cpp), the profile of one package      *)
(* (ga10x_prototype.cpp), the FRTS command (frts.cpp), the scratch images  *)
(* below the region (ga10x_boot_prepare.cpp) and the check of their        *)
(* placement (gsp_manifest.cpp).                                           *)
(*                                                                         *)
(* Addresses and sizes are natural numbers in a unit the constants choose; *)
(* only the divisibility of the alignments matters.  The offsets stay far  *)
(* below 2^64, so the overflow branches of AlignUp cannot be taken.        *)
(***************************************************************************)
EXTENDS Integers

CONSTANTS Page,                    \* 0x1000
          KiB64,                   \* kKiB64
          KiB128,                  \* kKiB128
          MiB,                     \* kMiB
          kVgaWorkspaceBytes,
          kFrtsBytes,
          kNonWprHeapBytes,
          kRequestedWprHeapBytes,
          kWprEndMarginBytes,
          kFrtsReserveFromVramEnd, \* FRTS command: distance from the end
          VramSlack                \* 0x400000 of the VRAM size check

ASSUME AlignmentAssumption ==
  /\ Page \in Nat \ {0}
  /\ \A a \in {KiB64, KiB128, MiB} : a \in Nat \ {0} /\ a % Page = 0
ASSUME SizeAssumption ==
  /\ kVgaWorkspaceBytes \in Nat \ {0}
  /\ kFrtsBytes \in Nat \ {0}
  /\ kNonWprHeapBytes \in Nat
  /\ kRequestedWprHeapBytes \in Nat \ {0}
  /\ kWprEndMarginBytes \in Nat
  /\ kFrtsReserveFromVramEnd \in Nat
  /\ VramSlack \in Nat

AlignDown(value, alignment) == value - (value % alignment)
AlignUp(value, alignment) == AlignDown(value + alignment - 1, alignment)

Range(start, size) == [start |-> start, end |-> start + size]
Disjoint(a, b) == a.end <= b.start \/ b.end <= a.start

-----------------------------------------------------------------------------
(* The write-protected region, from its end downwards *)

NoLayout == [valid |-> FALSE]

\* Mutant: the bootloader is placed below the end of the region, not below FRTS.
PlanWprLayoutIgnoringFrts(in) ==
  LET wprEnd    == AlignDown(in.boundary - kWprEndMarginBytes, KiB128)
      bootBin   == AlignDown(wprEnd - in.bootloader, Page)
      gspFw     == AlignDown(bootBin - in.firmware, KiB64)
      heap      == AlignDown(gspFw - kRequestedWprHeapBytes, MiB)
      wprStart  == heap - MiB
      rsvdStart == wprStart - AlignUp(kNonWprHeapBytes, MiB)
  IN  IF rsvdStart < 0 THEN NoLayout
      ELSE [valid |-> TRUE, rsvdStart |-> rsvdStart, wprStart |-> wprStart,
            heapOffset |-> heap, heapSize |-> AlignDown(gspFw - heap, MiB),
            gspFwOffset |-> gspFw, bootBinOffset |-> bootBin,
            frtsOffset |-> wprEnd - kFrtsBytes, wprEnd |-> wprEnd]

\* PlanWprLayout.  A subtraction that would wrap is a refusal; the offsets
\* fall from the top, so the lowest one is negative when any of them is.
PlanWprLayout(in) ==
  LET wprEnd    == AlignDown(in.boundary - kWprEndMarginBytes, KiB128)
      frts      == wprEnd - kFrtsBytes
      bootBin   == AlignDown(frts - in.bootloader, Page)
      gspFw     == AlignDown(bootBin - in.firmware, KiB64)
      heap      == AlignDown(gspFw - kRequestedWprHeapBytes, MiB)
      heapSize  == AlignDown(gspFw - heap, MiB)
      wprStart  == heap - MiB
      rsvdStart == wprStart - AlignUp(kNonWprHeapBytes, MiB)
  IN  IF \/ in.fbSize = 0 \/ in.vga > in.fbSize \/ in.boundary > in.fbSize
         \/ in.bootloader = 0 \/ in.firmware = 0
         \/ in.boundary < kWprEndMarginBytes
         \/ rsvdStart < 0 \/ heapSize = 0
         \/ ~(/\ rsvdStart <= wprStart /\ wprStart <= heap /\ heap < gspFw
              /\ gspFw < bootBin /\ bootBin <= frts /\ frts <= wprEnd
              /\ wprEnd <= in.boundary)
        THEN NoLayout
        ELSE [valid |-> TRUE, rsvdStart |-> rsvdStart, wprStart |-> wprStart,
              heapOffset |-> heap, heapSize |-> heapSize,
              gspFwOffset |-> gspFw, bootBinOffset |-> bootBin,
              frtsOffset |-> frts, wprEnd |-> wprEnd]

-----------------------------------------------------------------------------
(* The profile of a package around a reserved boundary *)

Rejected(status) == [status |-> status, wpr |-> NoLayout]

\* BuildGa10xPrototypeProfile of a verified package for a known card; its
\* queue and radix plans are those of module GspTables and never refuse the
\* sizes used here.
BuildProfile(pkg, boundary) ==
  LET vga == pkg.vram - kVgaWorkspaceBytes
      wpr == PlanWprLayout([fbSize |-> pkg.vram, vga |-> vga,
                            boundary |-> boundary,
                            bootloader |-> pkg.bootloader,
                            firmware |-> pkg.firmware])
  IN  IF pkg.vram <= kVgaWorkspaceBytes + kFrtsBytes + kRequestedWprHeapBytes
                       + kNonWprHeapBytes + VramSlack
        THEN Rejected("InvalidVram")
      ELSE IF boundary = 0 \/ boundary > vga \/ boundary % Page # 0
        THEN Rejected("InvalidReservedBoundary")
      ELSE IF 0 \in {pkg.firmware, pkg.bootloader, pkg.fwsec, pkg.sec2}
        THEN Rejected("MissingSection")
      ELSE IF ~wpr.valid THEN Rejected("ManifestRejected")
      ELSE [status |-> "Ok", wpr |-> wpr]

-----------------------------------------------------------------------------
(* FRTS command and scratch images *)

\* BuildFrtsCommand: FWSEC sets FRTS up at a fixed distance from the end of
\* video memory, whatever the reserved boundary is.
FrtsCommandOk(vram) ==
  vram >= kFrtsReserveFromVramEnd /\ (vram - kFrtsReserveFromVramEnd) % Page = 0
FrtsCommandOffset(vram) == vram - kFrtsReserveFromVramEnd

NoPlan(status) == [status |-> status, fwsecOffset |-> 0, sec2Offset |-> 0]

\* Mutant: sizes are rounded down to pages.
PlanPreparationRoundingDown(pkg, profile) ==
  LET sec2Offset  == profile.wpr.rsvdStart - AlignDown(pkg.sec2, Page)
      fwsecOffset == sec2Offset - AlignDown(pkg.fwsec, Page)
  IN  IF profile.status # "Ok" THEN NoPlan("InvalidProfile")
      ELSE IF fwsecOffset < 0 THEN NoPlan("FramebufferScratchUnderflow")
      ELSE IF FrtsCommandOffset(pkg.vram) # profile.wpr.frtsOffset
        THEN NoPlan("FrtsPlacementMismatch")
      ELSE [status |-> "Ok", sec2Offset |-> sec2Offset,
            fwsecOffset |-> fwsecOffset]

\* PlanGa10xBootPreparation, the framebuffer part: both Falcon images end
\* below the reserved region, and FRTS must be where the command puts it.
PlanPreparation(pkg, profile) ==
  LET fwsecBytes  == AlignUp(pkg.fwsec, Page)
      sec2Bytes   == AlignUp(pkg.sec2, Page)
      sec2Offset  == profile.wpr.rsvdStart - sec2Bytes
      fwsecOffset == sec2Offset - fwsecBytes
  IN  IF profile.status # "Ok" THEN NoPlan("InvalidProfile")
      ELSE IF fwsecOffset < 0 THEN NoPlan("FramebufferScratchUnderflow")
      ELSE IF sec2Offset % Page # 0 \/ fwsecOffset % Page # 0
        THEN NoPlan("InvalidManifest")
      ELSE IF \/ ~FrtsCommandOk(pkg.vram)
              \/ FrtsCommandOffset(pkg.vram) # profile.wpr.frtsOffset
        THEN NoPlan("FrtsPlacementMismatch")
      ELSE [status |-> "Ok", sec2Offset |-> sec2Offset,
            fwsecOffset |-> fwsecOffset]

\* MakeFramebufferStageImage of an image of the manifest at a given offset.
\* The PRAMIN plan it makes is that of module PraminPlan.
StageImageOk(pkg, wpr, bytes, offset) ==
  /\ bytes # 0
  /\ offset % Page = 0
  /\ pkg.vram # 0
  /\ wpr.rsvdStart <= pkg.vram
  /\ offset < pkg.vram
  /\ AlignUp(bytes, Page) <= pkg.vram - offset
  /\ offset + AlignUp(bytes, Page) <= wpr.rsvdStart

FwsecRange(pkg, plan) == Range(plan.fwsecOffset, AlignUp(pkg.fwsec, Page))
Sec2Range(pkg, plan) == Range(plan.sec2Offset, AlignUp(pkg.sec2, Page))

\* PlanFramebufferStaging: each image fits below the region, and they do not
\* overlap.
PlanFramebufferStaging(pkg, wpr, plan) ==
  /\ StageImageOk(pkg, wpr, pkg.fwsec, plan.fwsecOffset)
  /\ StageImageOk(pkg, wpr, pkg.sec2, plan.sec2Offset)
  /\ Disjoint(FwsecRange(pkg, plan), Sec2Range(pkg, plan))

=============================================================================
