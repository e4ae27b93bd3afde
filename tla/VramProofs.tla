----------------------------- MODULE VramProofs -----------------------------
(***************************************************************************)
(* Proofs about the boot in video memory.  Its layout below the live MMU   *)
(* lock, for every package, register value, alignment and region size: what*)
(* is planned lies apart, below the lock, and can be staged; a capture is  *)
(* released.  Staging through the PRAMIN window, for every window size,    *)
(* selector unit, VRAM size and set of plans, altered or not, and for any  *)
(* number of calls: writes are confined, success means staged and a clean  *)
(* failure means restored.                                                 *)
(***************************************************************************)
EXTENDS LiveBoundary, PraminTransaction, TLAPS

-----------------------------------------------------------------------------
(***************************************************************************)
(* Alignment.                                                              *)
(***************************************************************************)

LEMMA Remainder ==
  ASSUME NEW v \in Int, NEW a \in Nat \ {0}
  PROVE  v % a \in 0..(a - 1)
OBVIOUS

LEMMA AlignedDown ==
  ASSUME NEW v \in Int, NEW a \in Nat \ {0}
  PROVE  /\ AlignDown(v, a) \in Int
         /\ AlignDown(v, a) <= v
         /\ v < AlignDown(v, a) + a
BY Remainder DEF AlignDown

\* What is rounded up holds what was to be placed.
LEMMA AlignedUp ==
  ASSUME NEW v \in Nat, NEW a \in Nat \ {0}
  PROVE  AlignUp(v, a) \in Nat /\ v <= AlignUp(v, a)
<1>1. v + a - 1 \in Int
  OBVIOUS
<1>2. /\ AlignDown(v + a - 1, a) \in Int
      /\ v + a - 1 < AlignDown(v + a - 1, a) + a
  BY <1>1, AlignedDown
<1> QED
  BY <1>2 DEF AlignUp

LEMMA Constants ==
  /\ Page \in Nat \ {0} /\ KiB64 \in Nat \ {0} /\ KiB128 \in Nat \ {0} /\ MiB \in Nat \ {0}
  /\ kVgaWorkspaceBytes \in Nat \ {0} /\ kFrtsBytes \in Nat \ {0} /\ kNonWprHeapBytes \in Nat
  /\ kRequestedWprHeapBytes \in Nat \ {0} /\ kWprEndMarginBytes \in Nat
  /\ kFrtsReserveFromVramEnd \in Nat /\ VramSlack \in Nat
BY AlignmentAssumption, SizeAssumption

-----------------------------------------------------------------------------
(***************************************************************************)
(* The layout.                                                             *)
(***************************************************************************)

\* A region that PlanWprLayout accepts is stacked from its end downwards, every part
\* large enough for what goes there.
Stacked(w, bootloader, firmware, boundary) ==
  /\ w.rsvdStart \in Int /\ w.wprStart \in Int /\ w.heapOffset \in Int /\ w.heapSize \in Int
  /\ w.gspFwOffset \in Int /\ w.bootBinOffset \in Int /\ w.frtsOffset \in Int
  /\ 0 <= w.rsvdStart /\ w.rsvdStart <= w.wprStart
  /\ w.wprStart <= w.heapOffset
  /\ w.heapOffset + w.heapSize <= w.gspFwOffset /\ 0 <= w.heapSize
  /\ w.gspFwOffset + firmware <= w.bootBinOffset
  /\ w.bootBinOffset + bootloader <= w.frtsOffset
  /\ w.frtsOffset + kFrtsBytes <= boundary

LEMMA LayoutIsStacked ==
  ASSUME NEW fbSize \in Nat, NEW vga \in Int, NEW boundary \in Nat, NEW bootloader \in Nat,
         NEW firmware \in Nat, NEW w,
         w = PlanWprLayout([fbSize |-> fbSize, vga |-> vga, boundary |-> boundary,
                            bootloader |-> bootloader, firmware |-> firmware]),
         w.valid
  PROVE  Stacked(w, bootloader, firmware, boundary)
<1> DEFINE wprEnd    == AlignDown(boundary - kWprEndMarginBytes, KiB128)
           frts      == wprEnd - kFrtsBytes
           bootBin   == AlignDown(frts - bootloader, Page)
           gspFw     == AlignDown(bootBin - firmware, KiB64)
           heap      == AlignDown(gspFw - kRequestedWprHeapBytes, MiB)
           heapSize  == AlignDown(gspFw - heap, MiB)
           wprStart  == heap - MiB
           rsvdStart == wprStart - AlignUp(kNonWprHeapBytes, MiB)
<1>1. /\ w.rsvdStart = rsvdStart /\ w.wprStart = wprStart /\ w.heapOffset = heap
      /\ w.heapSize = heapSize /\ w.gspFwOffset = gspFw /\ w.bootBinOffset = bootBin
      /\ w.frtsOffset = frts
      /\ ~(rsvdStart < 0)
  BY DEF PlanWprLayout, NoLayout
<1>2. wprEnd \in Int /\ wprEnd <= boundary - kWprEndMarginBytes
  BY Constants, AlignedDown
<1> HIDE DEF wprEnd
<1>3. frts \in Int /\ frts + kFrtsBytes = wprEnd
  BY <1>2, Constants
<1> HIDE DEF frts
<1>4. bootBin \in Int /\ bootBin <= frts - bootloader
  BY <1>3, Constants, AlignedDown
<1> HIDE DEF bootBin
<1>5. gspFw \in Int /\ gspFw <= bootBin - firmware
  BY <1>4, Constants, AlignedDown
<1> HIDE DEF gspFw
<1>6. heap \in Int /\ heap <= gspFw - kRequestedWprHeapBytes
  BY <1>5, Constants, AlignedDown
<1> HIDE DEF heap
<1>7. heapSize \in Int /\ heapSize <= gspFw - heap /\ gspFw - heap < heapSize + MiB
  BY <1>5, <1>6, Constants, AlignedDown
<1>8. 0 <= heapSize
  <2>1. gspFw - heap \in Nat
    BY <1>5, <1>6, Constants
  <2> QED
    BY <2>1, Constants DEF AlignDown
<1> HIDE DEF heapSize
<1>9. wprStart \in Int /\ wprStart <= heap
  BY <1>6, Constants
<1> HIDE DEF wprStart
<1>10. rsvdStart \in Int /\ rsvdStart <= wprStart
  BY <1>9, Constants, AlignedUp
<1> HIDE DEF rsvdStart
<1> QED
  BY <1>1, <1>2, <1>3, <1>4, <1>5, <1>6, <1>7, <1>8, <1>9, <1>10, Constants DEF Stacked

\* Everything that is placed for package p, from the bottom up and below the boundary.
Placed(p, w, q, boundary) ==
  /\ Stacked(w, p.bootloader, p.firmware, boundary)
  /\ q.fwsecOffset \in Nat /\ q.sec2Offset \in Nat
  /\ q.fwsecOffset + AlignUp(p.fwsec, Page) = q.sec2Offset
  /\ q.sec2Offset + AlignUp(p.sec2, Page) = w.rsvdStart
  /\ q.fwsecOffset % Page = 0 /\ q.sec2Offset % Page = 0
  /\ p.fwsec # 0 /\ p.sec2 # 0
  /\ boundary <= p.vram - kVgaWorkspaceBytes

LEMMA AcceptedIsPlaced ==
  ASSUME NEW p \in PackageSizes, NEW boundary \in Nat, NEW f, NEW q,
         f = BuildProfile(p, boundary), f.status = "Ok",
         q = PlanPreparation(p, f), q.status = "Ok"
  PROVE  Placed(p, f.wpr, q, boundary)
<1>1. p.vram \in Nat /\ p.bootloader \in Nat /\ p.firmware \in Nat /\ p.fwsec \in Nat
      /\ p.sec2 \in Nat
  BY DEF PackageSizes
<1> DEFINE w == PlanWprLayout([fbSize |-> p.vram, vga |-> p.vram - kVgaWorkspaceBytes,
                               boundary |-> boundary, bootloader |-> p.bootloader,
                               firmware |-> p.firmware])
<1>2. f.wpr = w /\ w.valid /\ boundary <= p.vram - kVgaWorkspaceBytes
      /\ p.fwsec # 0 /\ p.sec2 # 0
  <2> HIDE DEF w
  <2>0. BuildProfile(p, boundary) =
          IF p.vram <= kVgaWorkspaceBytes + kFrtsBytes + kRequestedWprHeapBytes
                         + kNonWprHeapBytes + VramSlack
            THEN Rejected("InvalidVram")
          ELSE IF boundary = 0 \/ boundary > p.vram - kVgaWorkspaceBytes \/ boundary % Page # 0
            THEN Rejected("InvalidReservedBoundary")
          ELSE IF 0 \in {p.firmware, p.bootloader, p.fwsec, p.sec2}
            THEN Rejected("MissingSection")
          ELSE IF ~w.valid THEN Rejected("ManifestRejected")
          ELSE [status |-> "Ok", wpr |-> w]
    BY DEF BuildProfile, w
  <2>1. \A status : Rejected(status).status = status
    BY DEF Rejected
  <2>2. /\ ~(boundary > p.vram - kVgaWorkspaceBytes)
        /\ 0 \notin {p.firmware, p.bootloader, p.fwsec, p.sec2}
        /\ w.valid /\ f = [status |-> "Ok", wpr |-> w]
    BY <2>0, <2>1
  <2> QED
    BY <1>1, <2>2, Constants
<1>3. Stacked(f.wpr, p.bootloader, p.firmware, boundary)
  <2>1. p.vram - kVgaWorkspaceBytes \in Int
    BY <1>1, Constants
  <2> QED
    BY <1>1, <1>2, <2>1, LayoutIsStacked
<1> HIDE DEF w
<1> DEFINE sec2Offset  == f.wpr.rsvdStart - AlignUp(p.sec2, Page)
           fwsecOffset == sec2Offset - AlignUp(p.fwsec, Page)
<1>4. /\ q.sec2Offset = sec2Offset /\ q.fwsecOffset = fwsecOffset
      /\ ~(fwsecOffset < 0) /\ sec2Offset % Page = 0 /\ fwsecOffset % Page = 0
  BY DEF PlanPreparation, NoPlan
<1>5. AlignUp(p.sec2, Page) \in Nat /\ AlignUp(p.fwsec, Page) \in Nat /\ f.wpr.rsvdStart \in Int
  BY <1>1, <1>3, Constants, AlignedUp DEF Stacked
<1>6. /\ q.fwsecOffset \in Nat /\ q.sec2Offset \in Nat
      /\ q.fwsecOffset + AlignUp(p.fwsec, Page) = q.sec2Offset
      /\ q.sec2Offset + AlignUp(p.sec2, Page) = f.wpr.rsvdStart
  BY <1>4, <1>5
<1> QED
  BY <1>2, <1>3, <1>4, <1>6 DEF Placed

\* Ranges that follow one another are pairwise apart.
LEMMA PlacedRegions ==
  ASSUME pkg \in PackageSizes, NEW boundary \in Nat, Placed(pkg, profile.wpr, plan, boundary)
  PROVE  /\ \A i, j \in DOMAIN Regions : i # j => Disjoint(Regions[i], Regions[j])
         /\ \A i \in DOMAIN Regions :
              0 <= Regions[i].start /\ Regions[i].end \in Int /\ Regions[i].end <= boundary
<1> DEFINE w == profile.wpr
           at == << plan.fwsecOffset, plan.sec2Offset, w.rsvdStart, w.heapOffset,
                    w.gspFwOffset, w.bootBinOffset, w.frtsOffset >>
           to == << plan.sec2Offset, w.rsvdStart, w.wprStart, w.heapOffset + w.heapSize,
                    w.gspFwOffset + pkg.firmware, w.bootBinOffset + pkg.bootloader,
                    w.frtsOffset + kFrtsBytes >>
<1>1. /\ plan.fwsecOffset \in Nat /\ plan.sec2Offset \in Nat
      /\ w.rsvdStart \in Int /\ w.wprStart \in Int /\ w.heapOffset \in Int
      /\ w.heapSize \in Int /\ w.gspFwOffset \in Int /\ w.bootBinOffset \in Int
      /\ w.frtsOffset \in Int /\ kFrtsBytes \in Nat
      /\ pkg.firmware \in Nat /\ pkg.bootloader \in Nat
      /\ AlignUp(pkg.fwsec, Page) \in Nat /\ AlignUp(pkg.sec2, Page) \in Nat
  BY Constants, AlignedUp DEF Placed, Stacked, PackageSizes
<1>2. /\ plan.fwsecOffset + AlignUp(pkg.fwsec, Page) = plan.sec2Offset
      /\ plan.sec2Offset + AlignUp(pkg.sec2, Page) = w.rsvdStart
      /\ w.rsvdStart + (w.wprStart - w.rsvdStart) = w.wprStart
  BY <1>1 DEF Placed
<1>3. /\ w.rsvdStart <= w.wprStart /\ w.wprStart <= w.heapOffset /\ 0 <= w.heapSize
      /\ w.heapOffset + w.heapSize <= w.gspFwOffset
      /\ w.gspFwOffset + pkg.firmware <= w.bootBinOffset
      /\ w.bootBinOffset + pkg.bootloader <= w.frtsOffset
      /\ w.frtsOffset + kFrtsBytes <= boundary
  BY DEF Placed, Stacked
<1>4. DOMAIN Regions = 1..7
  BY DEF Regions
<1>5. \A i \in 1..7 : Regions[i].start = at[i] /\ Regions[i].end = to[i]
  <2>1. /\ Regions[1] = FwsecRange(pkg, plan) /\ Regions[2] = Sec2Range(pkg, plan)
        /\ Regions[3] = Range(w.rsvdStart, w.wprStart - w.rsvdStart)
        /\ Regions[4] = Range(w.heapOffset, w.heapSize)
        /\ Regions[5] = Range(w.gspFwOffset, pkg.firmware)
        /\ Regions[6] = Range(w.bootBinOffset, pkg.bootloader)
        /\ Regions[7] = Range(w.frtsOffset, kFrtsBytes)
    BY DEF Regions
  <2>2. \A a, b : Range(a, b).start = a /\ Range(a, b).end = a + b
    BY DEF Range
  <2> QED
    BY <1>2, <2>1, <2>2 DEF FwsecRange, Sec2Range
<1>6. \A i \in 1..7 : at[i] \in Int /\ to[i] \in Int /\ 0 <= at[i] /\ at[i] <= to[i]
                      /\ to[i] <= boundary
  <2>1. \A i \in 1..7 : at[i] \in Int /\ to[i] \in Int
    BY <1>1
  <2>2. 0 <= plan.fwsecOffset /\ 0 <= plan.sec2Offset /\ 0 <= w.rsvdStart
        /\ 0 <= w.heapOffset /\ 0 <= w.gspFwOffset /\ 0 <= w.bootBinOffset
        /\ 0 <= w.frtsOffset
    BY <1>1, <1>2, <1>3
  <2>3. \A i \in 1..7 : 0 <= at[i]
    BY <2>2
  <2>4. \A i \in 1..7 : at[i] <= to[i]
    BY <1>1, <1>2, <1>3
  <2>5. plan.sec2Offset <= boundary /\ w.rsvdStart <= boundary /\ w.wprStart <= boundary
        /\ w.heapOffset + w.heapSize <= boundary /\ w.gspFwOffset + pkg.firmware <= boundary
        /\ w.bootBinOffset + pkg.bootloader <= boundary
    BY <1>1, <1>2, <1>3
  <2>6. \A i \in 1..7 : to[i] <= boundary
    BY <1>3, <2>5
  <2> QED
    BY <2>1, <2>3, <2>4, <2>6
<1>7. \A i \in 1..6 : to[i] <= at[i + 1]
  BY <1>1, <1>2, <1>3
<1>8. \A i, j \in 1..7 : i < j => to[i] <= at[j]
  <2> HIDE DEF at, to
  <2>1. \A i \in 1..6 : at[i] \in Int /\ to[i] \in Int /\ at[i] <= to[i] /\ to[i] <= at[i + 1]
    BY <1>6, <1>7
  <2>2. at[7] \in Int
    BY <1>6
  <2> QED
    BY <2>1, <2>2
<1> HIDE DEF at, to
<1>9. ASSUME NEW i \in 1..7, NEW j \in 1..7, i # j
      PROVE  Disjoint(Regions[i], Regions[j])
  BY <1>5, <1>6, <1>8, <1>9 DEF Disjoint
<1> QED
  BY <1>4, <1>5, <1>6, <1>9

LEMMA PlacedIsStageable ==
  ASSUME NEW p \in PackageSizes, NEW boundary \in Nat, NEW w, NEW q, Placed(p, w, q, boundary)
  PROVE  PlanFramebufferStaging(p, w, q)
<1>1. p.fwsec \in Nat /\ p.sec2 \in Nat /\ p.vram \in Nat /\ p.firmware \in Nat
      /\ p.bootloader \in Nat
  BY DEF PackageSizes
<1>2. AlignUp(p.fwsec, Page) \in Nat /\ p.fwsec <= AlignUp(p.fwsec, Page)
      /\ AlignUp(p.sec2, Page) \in Nat /\ p.sec2 <= AlignUp(p.sec2, Page)
  BY <1>1, Constants, AlignedUp
<1>3. w.rsvdStart \in Int /\ w.rsvdStart <= p.vram
  BY <1>1, Constants DEF Placed, Stacked
<1>4. StageImageOk(p, w, p.fwsec, q.fwsecOffset)
  BY <1>1, <1>2, <1>3 DEF Placed, StageImageOk
<1>5. StageImageOk(p, w, p.sec2, q.sec2Offset)
  BY <1>1, <1>2, <1>3 DEF Placed, StageImageOk
<1>6. Disjoint(FwsecRange(p, q), Sec2Range(p, q))
  BY <1>1, <1>2 DEF Placed, Disjoint, FwsecRange, Sec2Range, Range
<1> QED
  BY <1>4, <1>5, <1>6 DEF PlanFramebufferStaging

-----------------------------------------------------------------------------
(***************************************************************************)
(* The inductive invariant.                                                *)
(***************************************************************************)

CaptureSteps == {"bar", "map", "mask", "low", "high", "decide"}

Registers == [mask : BOOLEAN, low : Nat, high : Nat]

BoundaryTypeInv ==
  /\ pkg \in PackageSizes
  /\ lock \in Registers
  /\ regs \in Registers
  /\ sinceRead \in BOOLEAN
  /\ pc \in CaptureSteps \cup {"idle", "plan", "done"}

\* What has been read is what the registers hold, unless the lock moved.
ReadInv ==
  ~sinceRead =>
    /\ pc \in {"low", "high", "decide"} => regs.mask = lock.mask
    /\ pc \in {"high", "decide"} => regs.low = lock.low
    /\ pc = "decide" => regs.high = lock.high
    /\ decision.captured => regs = lock

\* A decision is the one for the registers read, and there is none before.
DecisionInv ==
  /\ pc \in CaptureSteps => BoundaryProfileValid(pkg)
  /\ decision = NotCaptured
       \/ /\ BoundaryProfileValid(pkg)
          /\ decision = CheckReservedBoundary(Vga(pkg), DecodeMmuLock(regs))
          /\ pc \in {"plan", "done"}

\* A plan is the one for the package, the profile and a usable decision.
PlanInv ==
  Planned =>
    /\ pc = "done"
    /\ BoundaryDecisionUsable(decision, pkg)
    /\ profile = BuildProfile(pkg, decision.effective)
    /\ profile.status = "Ok"
    /\ plan = PlanPreparation(pkg, profile)

BoundaryIInv == BoundaryTypeInv /\ ReadInv /\ DecisionInv /\ PlanInv /\ CaptureReleased

LEMMA BoundaryInitInv == BoundaryInit => BoundaryIInv
<1> SUFFICES ASSUME BoundaryInit PROVE BoundaryIInv
  OBVIOUS
<1>1. BoundaryTypeInv
  BY LockAssumption, PackageAssumption DEF BoundaryInit, BoundaryTypeInv, Registers, Locks, NoRegs
<1>2. decision.captured = FALSE /\ ~Planned
  BY DEF BoundaryInit, NotCaptured, Planned, NotPlanned, NoPlan
<1> QED
  BY <1>1, <1>2 DEF BoundaryInit, BoundaryIInv, ReadInv, DecisionInv, PlanInv, CaptureReleased, CaptureSteps

\* Firmware moves the lock: what was read before counts no longer.
LEMMA MoveLockInv == BoundaryIInv /\ MoveLock => BoundaryIInv'
<1> SUFFICES ASSUME BoundaryIInv, MoveLock PROVE BoundaryIInv'
  OBVIOUS
<1>1. UNCHANGED <<pc, pkg, held, regs, decision, profile, plan>> /\ sinceRead' = (pc # "idle")
  BY DEF MoveLock
<1>2. lock' \in Registers
  <2>1. PICK r \in LockRegs \cup {0} :
          lock' \in {[lock EXCEPT !.low = r], [lock EXCEPT !.high = r],
                     [lock EXCEPT !.mask = ~lock.mask]}
    BY DEF MoveLock
  <2>2. r \in Nat /\ (~lock.mask) \in BOOLEAN
    BY LockAssumption
  <2> QED
    BY <2>1, <2>2 DEF BoundaryIInv, BoundaryTypeInv, Registers
<1>3. BoundaryTypeInv'
  BY <1>1, <1>2 DEF BoundaryIInv, BoundaryTypeInv
<1>4. ReadInv'
  <2>1. CASE pc # "idle"
    BY <1>1, <2>1 DEF ReadInv
  <2>2. CASE pc = "idle"
    BY <1>1, <2>2 DEF BoundaryIInv, ReadInv, DecisionInv, NotCaptured
  <2> QED
    BY <2>1, <2>2
<1>5. DecisionInv'
  BY <1>1 DEF BoundaryIInv, DecisionInv
<1>6. PlanInv'
  BY <1>1 DEF BoundaryIInv, PlanInv, Planned
<1>7. CaptureReleased'
  BY <1>1 DEF BoundaryIInv, CaptureReleased
<1> QED
  BY <1>3, <1>4, <1>5, <1>6, <1>7 DEF BoundaryIInv

\* Before the plan step nothing is decided or planned.
LEMMA NothingYet ==
  ASSUME BoundaryIInv, pc \notin {"plan", "done"}
  PROVE  decision = NotCaptured /\ decision.captured = FALSE /\ ~Planned
BY DEF BoundaryIInv, DecisionInv, PlanInv, NotCaptured

\* The steps of a capture that read no register.
LEMMA CaptureInv == BoundaryIInv /\ (Prepare \/ CopyDeviceMemory \/ CreateMapping) => BoundaryIInv'
<1> SUFFICES ASSUME BoundaryIInv, Prepare \/ CopyDeviceMemory \/ CreateMapping PROVE BoundaryIInv'
  OBVIOUS
<1>1. UNCHANGED <<lock, pkg, regs, decision, profile, plan>>
      /\ pc \in {"idle", "bar", "map"} /\ pc' \in {"bar", "map", "mask", "plan"}
      /\ sinceRead' \in BOOLEAN
      /\ (pc' # "plan" => BoundaryProfileValid(pkg))
      /\ (pc' = "plan" => held' = {})
  <2>0. CaptureReleased /\ DecisionInv /\ sinceRead \in BOOLEAN
    BY DEF BoundaryIInv, BoundaryTypeInv
  <2>1. CASE Prepare
    BY <2>0, <2>1 DEF Prepare, Unmoved, CaptureReleased
  <2>2. CASE CopyDeviceMemory
    BY <2>0, <2>2 DEF CopyDeviceMemory, Captures, Unmoved, DecisionInv, CaptureSteps
  <2>3. CASE CreateMapping
    BY <2>0, <2>3 DEF CreateMapping, Captures, Unmoved, DecisionInv, CaptureSteps
  <2> QED
    BY <2>1, <2>2, <2>3
<1>2. decision = NotCaptured /\ decision.captured = FALSE /\ ~Planned
  BY <1>1, NothingYet
<1>3. BoundaryTypeInv'
  BY <1>1 DEF BoundaryIInv, BoundaryTypeInv, CaptureSteps
<1>4. ReadInv'
  BY <1>1, <1>2 DEF ReadInv
<1>5. DecisionInv'
  <2>1. pc' \in CaptureSteps => BoundaryProfileValid(pkg)'
    BY <1>1 DEF CaptureSteps, BoundaryProfileValid
  <2>2. decision' = NotCaptured'
    BY <1>1, <1>2 DEF NotCaptured
  <2> QED
    BY <2>1, <2>2 DEF DecisionInv
<1>6. PlanInv'
  BY <1>1, <1>2 DEF PlanInv, Planned
<1>7. CaptureReleased'
  BY <1>1 DEF CaptureReleased
<1> QED
  BY <1>3, <1>4, <1>5, <1>6, <1>7 DEF BoundaryIInv

\* A register is read.
LEMMA ReadsInv == BoundaryIInv /\ (ReadPrivMask \/ ReadAddrLo \/ ReadAddrHi) => BoundaryIInv'
<1> SUFFICES ASSUME BoundaryIInv, ReadPrivMask \/ ReadAddrLo \/ ReadAddrHi PROVE BoundaryIInv'
  OBVIOUS
<1>1. UNCHANGED <<lock, pkg, sinceRead, held, decision, profile, plan>>
      /\ pc \in {"mask", "low", "high"} /\ pc' \in {"low", "high", "decide"}
  BY DEF ReadPrivMask, ReadAddrLo, ReadAddrHi, Reads, Unmoved
<1>2. decision = NotCaptured /\ decision.captured = FALSE /\ ~Planned
      /\ BoundaryProfileValid(pkg) /\ regs \in Registers /\ lock \in Registers
  BY <1>1, NothingYet DEF BoundaryIInv, DecisionInv, CaptureSteps, BoundaryTypeInv
<1>3. regs' \in Registers /\ ReadInv'
  <2>1. CASE ReadPrivMask
    BY <1>1, <1>2, <2>1 DEF ReadPrivMask, Reads, Registers, ReadInv
  <2>2. CASE ReadAddrLo
    BY <1>1, <1>2, <2>2 DEF ReadAddrLo, Reads, Registers, BoundaryIInv, ReadInv
  <2>3. CASE ReadAddrHi
    BY <1>1, <1>2, <2>3 DEF ReadAddrHi, Reads, Registers, BoundaryIInv, ReadInv
  <2> QED
    BY <2>1, <2>2, <2>3
<1>4. BoundaryTypeInv'
  BY <1>1, <1>3 DEF BoundaryIInv, BoundaryTypeInv, CaptureSteps
<1>5. DecisionInv'
  BY <1>1, <1>2 DEF DecisionInv, BoundaryProfileValid, NotCaptured
<1>6. PlanInv'
  BY <1>1, <1>2 DEF PlanInv, Planned
<1>7. CaptureReleased'
  BY <1>1 DEF CaptureReleased
<1> QED
  BY <1>3, <1>4, <1>5, <1>6, <1>7 DEF BoundaryIInv

\* The registers are decoded and everything is given back.
LEMMA DecideInv == BoundaryIInv /\ Decide => BoundaryIInv'
<1> SUFFICES ASSUME BoundaryIInv, Decide PROVE BoundaryIInv'
  OBVIOUS
<1>1. UNCHANGED <<lock, pkg, sinceRead, regs, profile, plan>> /\ pc = "decide"
      /\ pc' = "plan" /\ held' = {}
      /\ decision' = CheckReservedBoundary(Vga(pkg), DecodeMmuLock(regs))
  BY DEF Decide, Unmoved
<1>2. ~Planned /\ BoundaryProfileValid(pkg)
  BY <1>1, NothingYet DEF BoundaryIInv, DecisionInv, CaptureSteps
<1>3. BoundaryTypeInv'
  BY <1>1 DEF BoundaryIInv, BoundaryTypeInv
<1>4. ReadInv'
  <2>1. ~sinceRead => regs = lock
    BY <1>1 DEF BoundaryIInv, ReadInv, BoundaryTypeInv, Registers
  <2> QED
    BY <1>1, <2>1 DEF ReadInv
<1>5. DecisionInv'
  <2>1. BoundaryProfileValid(pkg)' /\ pc' \notin CaptureSteps
    BY <1>1, <1>2 DEF BoundaryProfileValid, CaptureSteps
  <2>2. decision' = CheckReservedBoundary(Vga(pkg), DecodeMmuLock(regs))'
    BY <1>1 DEF CheckReservedBoundary, Vga, DecodeMmuLock, Address
  <2> QED
    BY <1>1, <2>1, <2>2 DEF DecisionInv
<1>6. PlanInv'
  BY <1>1, <1>2 DEF PlanInv, Planned
<1>7. CaptureReleased'
  BY <1>1 DEF CaptureReleased
<1> QED
  BY <1>3, <1>4, <1>5, <1>6, <1>7 DEF BoundaryIInv

\* The boot is laid out below the boundary that was decided.
LEMMA PlanSessionInv == BoundaryIInv /\ PlanSession => BoundaryIInv'
<1> SUFFICES ASSUME BoundaryIInv, PlanSession PROVE BoundaryIInv'
  OBVIOUS
<1> DEFINE built == BuildProfile(pkg, decision.effective)
<1>1. UNCHANGED <<lock, pkg, sinceRead, held, regs, decision>> /\ pc = "plan" /\ pc' = "done"
  BY DEF PlanSession, Unmoved
<1>2. ~Planned
  BY <1>1 DEF BoundaryIInv, PlanInv
<1>3. BoundaryTypeInv'
  BY <1>1 DEF BoundaryIInv, BoundaryTypeInv
<1>4. ReadInv'
  BY <1>1 DEF BoundaryIInv, ReadInv
<1>5. DecisionInv'
  <2>1. pc' \notin CaptureSteps
    BY <1>1 DEF CaptureSteps
  <2>2. UNCHANGED <<BoundaryProfileValid(pkg), Vga(pkg), DecodeMmuLock(regs)>>
    BY <1>1 DEF BoundaryProfileValid, Vga, DecodeMmuLock, Address
  <2> QED
    BY <1>1, <2>1, <2>2 DEF BoundaryIInv, DecisionInv
<1>6. PlanInv'
  <2> SUFFICES ASSUME Planned' PROVE PlanInv'
    BY DEF PlanInv
  <2>1. BoundaryDecisionUsable(decision, pkg) /\ profile' = built
        /\ built.status = "Ok" /\ plan' = PlanPreparation(pkg, built)
    BY <1>2 DEF PlanSession, Planned, NotPlanned, NoPlan
  <2> QED
    BY <1>1, <2>1 DEF PlanInv
<1>7. CaptureReleased'
  BY <1>1 DEF BoundaryIInv, CaptureReleased
<1> QED
  BY <1>3, <1>4, <1>5, <1>6, <1>7 DEF BoundaryIInv

LEMMA AgainInv == BoundaryIInv /\ Again => BoundaryIInv'
<1> SUFFICES ASSUME BoundaryIInv, Again PROVE BoundaryIInv'
  OBVIOUS
<1>1. UNCHANGED lock /\ pc' = "idle" /\ pkg' \in Packages /\ sinceRead' = FALSE /\ held' = {}
      /\ regs' = NoRegs /\ decision' = NotCaptured /\ plan' = NotPlanned
  BY DEF Again, Unmoved
<1>2. decision'.captured = FALSE /\ ~Planned'
  BY <1>1 DEF NotCaptured, Planned, NotPlanned, NoPlan
<1>3. BoundaryTypeInv'
  BY <1>1, PackageAssumption DEF BoundaryIInv, BoundaryTypeInv, Registers, NoRegs
<1> QED
  BY <1>1, <1>2, <1>3 DEF BoundaryIInv, ReadInv, DecisionInv, PlanInv, CaptureReleased, CaptureSteps

LEMMA BoundaryInvariance == BoundarySpec => []BoundaryIInv
<1>1. BoundaryIInv /\ [BoundaryNext]_boundaryVars => BoundaryIInv'
  <2> SUFFICES ASSUME BoundaryIInv, [BoundaryNext]_boundaryVars PROVE BoundaryIInv'
    OBVIOUS
  <2>1. CASE UNCHANGED boundaryVars
    BY <2>1 DEF boundaryVars, BoundaryIInv, BoundaryTypeInv, ReadInv, DecisionInv, PlanInv, CaptureReleased, Planned
  <2> QED
    BY <2>1, MoveLockInv, CaptureInv, ReadsInv, DecideInv, PlanSessionInv, AgainInv DEF BoundaryNext
<1> QED
  BY <1>1, BoundaryInitInv, PTL DEF BoundarySpec

-----------------------------------------------------------------------------
(***************************************************************************)
(* The results.                                                            *)
(***************************************************************************)

\* Of an accepted plan everything is placed below the effective boundary, which is at
\* most the VGA workspace and, when the registers held a lock, the start of the lock.
LEMMA PlannedIsPlaced ==
  ASSUME BoundaryIInv, Planned
  PROVE  /\ pkg \in PackageSizes /\ decision.effective \in Nat
         /\ decision.effective <= Vga(pkg) /\ Vga(pkg) \in Nat
         /\ DecodeMmuLock(regs).low \in Nat
         /\ Placed(pkg, profile.wpr, plan, decision.effective)
         /\ decision.captured /\ DecodeMmuLock(regs).readable
         /\ DecodeMmuLock(regs).valid => decision.effective <= DecodeMmuLock(regs).low
<1> DEFINE l == DecodeMmuLock(regs)
<1>1. /\ BoundaryDecisionUsable(decision, pkg)
      /\ profile = BuildProfile(pkg, decision.effective) /\ profile.status = "Ok"
      /\ plan = PlanPreparation(pkg, profile) /\ plan.status = "Ok" /\ pkg \in PackageSizes
  BY DEF BoundaryIInv, BoundaryTypeInv, PlanInv, Planned
<1>2. decision.captured
  BY <1>1 DEF BoundaryDecisionUsable
<1>3. BoundaryProfileValid(pkg) /\ decision = CheckReservedBoundary(Vga(pkg), l)
  BY <1>2 DEF BoundaryIInv, DecisionInv, NotCaptured
<1>4. Vga(pkg) \in Nat /\ l.low \in Nat
  <2>1. Vga(pkg) \in Nat
    BY <1>1, <1>3, Constants DEF PackageSizes, BoundaryProfileValid, Vga
  <2>2. regs.low \in Nat /\ regs.low \div 16 \in Nat
    BY DEF BoundaryIInv, BoundaryTypeInv, Registers
  <2>3. l.low = (regs.low \div 16) * Page
    BY DEF DecodeMmuLock, Address
  <2> QED
    BY <2>1, <2>2, <2>3, Constants
<1> HIDE DEF l
<1>5. /\ decision.effective = IF l.valid THEN Least(l.low, Vga(pkg)) ELSE Vga(pkg)
      /\ decision.status = IF ~l.readable THEN "MmuLockUnreadable"
                           ELSE IF decision.effective # Vga(pkg) THEN "RebuildRequired" ELSE "Ok"
  BY <1>3 DEF CheckReservedBoundary
<1>6. decision.effective \in Nat /\ decision.effective <= Vga(pkg)
      /\ (l.valid => decision.effective <= l.low)
  BY <1>4, <1>5 DEF Least
<1>7. l.readable
  BY <1>1, <1>5 DEF BoundaryDecisionUsable
<1>8. Placed(pkg, profile.wpr, plan, decision.effective)
  BY <1>1, <1>6, AcceptedIsPlaced
<1> QED
  BY <1>1, <1>2, <1>4, <1>6, <1>7, <1>8 DEF l

\* The BAR descriptor and its mapping are given back on every path out of
\* RTXMacCheckLiveReservedBoundary.
THEOREM CaptureIsReleased == BoundarySpec => []CaptureReleased
<1>1. BoundaryIInv => CaptureReleased
  BY DEF BoundaryIInv
<1> QED
  BY <1>1, BoundaryInvariance, PTL

\* For every package and every value of the lock registers, an accepted plan keeps the
\* scratch images, the heaps, the firmware, the bootloader and FRTS pairwise apart and
\* below the VGA workspace (PlanWprLayout, PlanGa10xBootPreparation).
THEOREM PlannedRegionsApart == BoundarySpec => []RegionsApart
<1>1. BoundaryIInv => RegionsApart
  <2> SUFFICES ASSUME BoundaryIInv, Planned PROVE RegionsApart
    BY DEF RegionsApart
  <2>1. /\ pkg \in PackageSizes /\ decision.effective \in Nat
        /\ decision.effective <= Vga(pkg) /\ Vga(pkg) \in Nat
        /\ Placed(pkg, profile.wpr, plan, decision.effective)
    BY PlannedIsPlaced
  <2>2. /\ \A i, j \in DOMAIN Regions : i # j => Disjoint(Regions[i], Regions[j])
        /\ \A i \in DOMAIN Regions :
             0 <= Regions[i].start /\ Regions[i].end \in Int
             /\ Regions[i].end <= decision.effective
    BY <2>1, PlacedRegions
  <2> QED
    BY <2>1, <2>2 DEF RegionsApart
<1> QED
  BY <1>1, BoundaryInvariance, PTL

\* If the lock did not move since the capture began, nothing is planned inside what it
\* protects, although its registers are read one after the other
\* (RTXMacCheckLiveReservedBoundary, CheckReservedBoundary).
THEOREM PlannedBelowLock == BoundarySpec => []NothingInsideLock
<1>1. BoundaryIInv => NothingInsideLock
  <2> SUFFICES ASSUME BoundaryIInv, Planned, ~sinceRead PROVE NothingInsideLock
    BY DEF NothingInsideLock
  <2>1. /\ pkg \in PackageSizes /\ decision.effective \in Nat
        /\ DecodeMmuLock(regs).low \in Nat
        /\ Placed(pkg, profile.wpr, plan, decision.effective)
        /\ decision.captured /\ DecodeMmuLock(regs).readable
        /\ DecodeMmuLock(regs).valid => decision.effective <= DecodeMmuLock(regs).low
    BY PlannedIsPlaced
  <2>2. regs = lock
    BY <2>1 DEF BoundaryIInv, ReadInv
  <2>3. \A i \in DOMAIN Regions :
          Regions[i].end \in Int /\ Regions[i].end <= decision.effective
    BY <2>1, PlacedRegions
  <2> QED
    BY <2>1, <2>2, <2>3 DEF NothingInsideLock
<1> QED
  BY <1>1, BoundaryInvariance, PTL

\* The planner and the staging check agree: PlanFramebufferStaging accepts every plan
\* PlanGa10xBootPreparation makes.
THEOREM PlannedIsStageable == BoundarySpec => []PlacementIsStageable
<1>1. BoundaryIInv => PlacementIsStageable
  BY PlannedIsPlaced, PlacedIsStageable DEF PlacementIsStageable
<1> QED
  BY <1>1, BoundaryInvariance, PTL

-----------------------------------------------------------------------------
(***************************************************************************)
(* The inductive invariant.                                                *)
(***************************************************************************)

Passes == { "read", "stage", "verify", "restore", "reverify" }

Failures == { "none", "NotPermitted", "BadArgument", "NoResources", "Error", "IOError" }

Statuses == Failures \cup { "Success" }

ChunkNumbers == Nat \ { 0 }

Jobs == [ pc : { "idle", "select", "access" }, op : Operations, pass : Passes,
          plan : PraminStagePlans, k : ChunkNumbers, expectedVram : Nat,
          expectedSource : Nat, failure : Failures, result : Statuses ]

TypeInv ==
  /\ vram = [ w \in Words |-> vram[w] ]
  /\ before = [ w \in Words |-> before[w] ]
  /\ backup = [ j \in Words |-> backup[j] ]
  /\ selector \in Nat
  /\ job \in Jobs
  /\ calls \in Nat

\* Where chunk k of a plan should begin in the source.
SourceStart(stage, k) ==
  IF k = 1 THEN 0 ELSE stage.chunks[k - 1].sourceOffset + stage.chunks[k - 1].bytes

\* Chunk k passes every check of a pass.
AuditedChunk(stage, k) ==
  /\ ValidateChunk(stage.chunks[k], stage.vramOffset + stage.chunks[k].sourceOffset,
                   SourceStart(stage, k), stage.totalBytes)
  /\ ApertureAllowed(stage.chunks[k].bar0ApertureOffset, stage.chunks[k].bytes)

\* A pass stands at chunk k, the chunks before it have passed, and what is expected
\* next is where they ended.
WalkInv ==
  Running =>
    /\ ValidateStage(job.plan)
    /\ job.k <= Len(job.plan.chunks) + 1
    /\ \A k \in 1..(job.k - 1) : AuditedChunk(job.plan, k)
    /\ job.expectedSource = SourceStart(job.plan, job.k)
    /\ job.expectedVram = job.plan.vramOffset + job.expectedSource
    /\ job.expectedSource <= job.plan.totalBytes
    /\ job.expectedSource % 4 = 0
    /\ job.pc = "access" =>
         /\ job.k <= Len(job.plan.chunks)
         /\ ChunkValid
         /\ selector = Chunk.windowSelector
    /\ job.result = "none"
    /\ job.op # "transaction" => job.pass = job.op
    /\ job.op = "transaction" /\ job.pass # "read" => AuditedPlan(job.plan)

Base == job.plan.vramOffset \div 4

\* The words that the finished chunks of the running pass stand for.
Covered(w) ==
  job.plan.vramOffset <= 4 * w /\ 4 * w < job.plan.vramOffset + job.expectedSource

\* What a transaction has read, found equal or not yet written, pass by pass.
PassInv ==
  Running /\ job.op = "transaction" =>
    /\ job.pass = "read" =>
         vram = before /\ \A w \in Words : Covered(w) => backup[w - Base] = before[w]
    /\ job.pass # "read" => \A w \in Words : InRange(w) => backup[w - Base] = before[w]
    /\ job.pass = "verify" => \A w \in Words : Covered(w) => vram[w] = Source(w - Base)
    /\ job.pass = "reverify" => \A w \in Words : Covered(w) => vram[w] = backup[w - Base]

IInv == /\ TypeInv /\ WalkInv /\ PassInv
        /\ WritesAreConfined /\ SuccessMeansStaged /\ FailureMeansRestored

-----------------------------------------------------------------------------
(***************************************************************************)
(* Windows.                                                                *)
(***************************************************************************)

\* Division with remainder.
LEMMA Division ==
  ASSUME NEW a \in Nat, NEW n \in Nat \ { 0 }
  PROVE  /\ a \div n \in Nat /\ a % n \in 0..(n - 1)
         /\ a = n * (a \div n) + (a % n)
OBVIOUS

LEMMA DivisionUnique ==
  ASSUME NEW n \in Nat \ { 0 }, NEW q \in Nat, NEW r \in 0..(n - 1)
  PROVE  (n * q + r) \div n = q /\ (n * q + r) % n = r
OBVIOUS

\* The selector and the aperture offset of an address lead back to it, and an address
\* whose aperture offset is a whole word is one itself: windows consist of selector
\* units and units of words.
LEMMA WindowGeometry ==
  ASSUME NEW v \in Nat
  PROVE  /\ (WindowBase(v) \div SelectorUnit) * SelectorUnit + InWindow(v) = v
         /\ InWindow(v) % 4 = 0 => v % 4 = 0
<1>0. WindowBytes \in Nat \ { 0 } /\ SelectorUnit \in Nat \ { 0 }
      /\ WindowBytes % SelectorUnit = 0 /\ SelectorUnit % 4 = 0
  BY WindowAssumption
<1> DEFINE q == v \div WindowBytes
           r == v % WindowBytes
           m == WindowBytes \div SelectorUnit
           t == SelectorUnit \div 4
<1>1. q \in Nat /\ r \in Nat /\ v = WindowBytes * q + r
  BY <1>0, Division
<1>2. m \in Nat /\ WindowBytes = SelectorUnit * m
  BY <1>0, Division
<1>3. t \in Nat /\ SelectorUnit = 4 * t
  BY <1>0
<1>4. InWindow(v) = r
  BY DEF InWindow
<1> HIDE DEF q, r, m, t
<1>5. WindowBase(v) = SelectorUnit * (m * q) + 0 /\ m * q \in Nat
  <2>1. WindowBase(v) = WindowBytes * q
    BY <1>0, <1>1, <1>4 DEF WindowBase
  <2>2. WindowBytes * q = SelectorUnit * (m * q)
    BY <1>0, <1>1, <1>2
  <2> QED
    BY <1>0, <1>1, <1>2, <2>1, <2>2
<1>6. WindowBase(v) \div SelectorUnit = m * q
  <2>1. 0 \in 0..(SelectorUnit - 1)
    BY <1>0
  <2>2. (SelectorUnit * (m * q) + 0) \div SelectorUnit = m * q
    BY <1>0, <1>5, <2>1, DivisionUnique
  <2> QED
    BY <1>5, <2>2
<1>7. (m * q) * SelectorUnit = WindowBytes * q
  BY <1>0, <1>1, <1>2
<1>8. (WindowBase(v) \div SelectorUnit) * SelectorUnit + InWindow(v) = v
  BY <1>1, <1>4, <1>6, <1>7
<1>9. ASSUME r % 4 = 0 PROVE v % 4 = 0
  <2>1. WindowBytes * q = 4 * (t * (m * q)) /\ t * (m * q) \in Nat
    BY <1>0, <1>1, <1>2, <1>3
  <2> DEFINE x == t * (m * q)
  <2>2. x \in Nat /\ v = 4 * x + r
    BY <1>1, <2>1
  <2> HIDE DEF x
  <2> QED
    BY <1>1, <1>9, <2>2
<1> QED
  BY <1>4, <1>8, <1>9

-----------------------------------------------------------------------------
(***************************************************************************)
(* An aperture access.                                                     *)
(***************************************************************************)

LEMMA WholeWords ==
  ASSUME NEW a \in Nat, NEW b \in Nat, b % 4 = 0, (a + b) % 4 = 0
  PROVE  a = 4 * (a \div 4) /\ a \div 4 \in Nat
OBVIOUS

\* The chunk at which a pass stands.
LEMMA ChunkType ==
  ASSUME TypeInv, job.k <= Len(job.plan.chunks)
  PROVE  Chunk \in PraminStageChunks
BY DEF TypeInv, Jobs, ChunkNumbers, PraminStagePlans, Chunk

\* Every word of an access that passed the checks is where the buffer's word belongs:
\* inside VRAM, inside the planned range, at the same distance from its start.
LEMMA AccessGeometry ==
  ASSUME TypeInv, WalkInv, CanAccess(Passes)
  PROVE  /\ Chunk.bytes \in Nat /\ Chunk.bytes % 4 = 0 /\ Chunk.bytes # 0
         /\ job.expectedSource + Chunk.bytes <= job.plan.totalBytes
         /\ job.plan.vramOffset = 4 * Base /\ Base \in Nat
         /\ \A i \in ChunkWords :
              /\ Target(i) = Base + job.expectedSource \div 4 + i
              /\ Buffer(i) = job.expectedSource \div 4 + i
              /\ Target(i) \in Words /\ Buffer(i) \in Words
              /\ InRange(Target(i))
<1> DEFINE off == job.plan.vramOffset
           es  == job.expectedSource
           v   == Chunk.vramOffset
           b   == Chunk.bytes
           tot == job.plan.totalBytes
<1>1. Running /\ job.k <= Len(job.plan.chunks)
  BY DEF CanAccess, WalkInv, Running
<1>2. Chunk \in PraminStageChunks
  BY <1>1, ChunkType
<1>3. ChunkValid /\ selector = Chunk.windowSelector /\ ValidateStage(job.plan)
      /\ job.expectedVram = off + es /\ es % 4 = 0
  BY <1>1 DEF CanAccess, WalkInv
<1>4. off \in Nat /\ es \in Nat /\ tot \in Nat /\ v \in Nat /\ b \in Nat /\ VramSize \in Nat
  BY <1>2, WindowAssumption DEF TypeInv, Jobs, PraminStagePlans, PraminStageChunks
<1>5. /\ b # 0 /\ b % 4 = 0 /\ v = off + es /\ Chunk.sourceOffset = es /\ es <= tot
      /\ b <= tot - es
      /\ Chunk.windowBase = WindowBase(v)
      /\ Chunk.windowSelector = Chunk.windowBase \div SelectorUnit
      /\ Chunk.bar0ApertureOffset = InWindow(v)
  BY <1>3 DEF ChunkValid, ValidateChunk
<1>6. InWindow(v) % 4 = 0
  BY <1>5 DEF CanAccess, ApertureAllowed
<1>7. selector * SelectorUnit + Chunk.bar0ApertureOffset = v /\ v % 4 = 0
  BY <1>3, <1>4, <1>5, <1>6, WindowGeometry
<1>8. off < VramSize /\ tot <= VramSize - off /\ VramSize % 4 = 0
  BY <1>3, WindowAssumption DEF ValidateStage
<1>9. off = 4 * Base /\ Base \in Nat
  BY <1>3, <1>4, <1>5, <1>7, WholeWords DEF Base
<1>10. ASSUME NEW i \in ChunkWords
       PROVE  /\ Target(i) = Base + es \div 4 + i
              /\ Buffer(i) = es \div 4 + i
              /\ Target(i) \in Words /\ Buffer(i) \in Words
              /\ InRange(Target(i))
  <2>1. i \in Nat /\ 4 * i < b
    BY <1>4, <1>5 DEF ChunkWords
  <2>2. Target(i) = v \div 4 + i /\ Buffer(i) = es \div 4 + i
    BY <1>5, <1>7 DEF Target, Buffer
  <2>3. v \div 4 = Base + es \div 4
    BY <1>3, <1>4, <1>5, <1>9
  <2>4. es = 4 * (es \div 4) /\ es \div 4 \in Nat
    BY <1>3, <1>4
  <2>5. 4 * Target(i) >= off /\ 4 * Target(i) < off + tot
    BY <1>4, <1>5, <1>9, <2>1, <2>2, <2>3, <2>4
  <2>6. Target(i) \in Words /\ Buffer(i) \in Words
    BY <1>4, <1>5, <1>8, <1>9, <2>1, <2>2, <2>3, <2>4, <2>5 DEF Words
  <2> QED
    BY <2>2, <2>3, <2>5, <2>6 DEF InRange
<1> QED
  BY <1>4, <1>5, <1>9, <1>10

\* A word that the chunk adds to the covered part of the range is one of its words.
LEMMA NewlyCovered ==
  ASSUME TypeInv, WalkInv, CanAccess(Passes), NEW w \in Words, ~Covered(w),
         job.plan.vramOffset <= 4 * w,
         4 * w < job.plan.vramOffset + (job.expectedSource + Chunk.bytes)
  PROVE  \E i \in ChunkWords : Target(i) = w /\ Buffer(i) = w - Base
<1>1. /\ Chunk.bytes \in Nat /\ Chunk.bytes % 4 = 0
      /\ job.plan.vramOffset = 4 * Base /\ Base \in Nat
      /\ \A i \in ChunkWords :
           /\ Target(i) = Base + job.expectedSource \div 4 + i
           /\ Buffer(i) = job.expectedSource \div 4 + i
  BY AccessGeometry
<1>2. job.expectedSource \in Nat /\ job.expectedSource % 4 = 0 /\ w \in Nat
  BY WindowAssumption DEF TypeInv, Jobs, WalkInv, CanAccess, Running, Words
<1> DEFINE i == w - Base - (job.expectedSource \div 4)
<1>3. i \in ChunkWords
  BY <1>1, <1>2 DEF ChunkWords, Covered
<1>4. Target(i) = w /\ Buffer(i) = w - Base
  BY <1>1, <1>2, <1>3
<1> QED
  BY <1>3, <1>4

-----------------------------------------------------------------------------
(***************************************************************************)
(* How a pass goes on.                                                     *)
(***************************************************************************)

Frame == UNCHANGED << vram, selector, backup, before, calls >>

\* A transaction begins a later pass: its plan is audited and its backup complete.
LEMMA BeginInv ==
  ASSUME IInv, Running, Frame, job.op = "transaction",
         NEW pass \in Passes \ { "read" }, NEW failure \in Failures,
         job' = Begin(pass, failure), AuditedPlan(job.plan),
         \A w \in Words : InRange(w) => backup[w - Base] = before[w]
  PROVE  IInv'
<1>1. job \in Jobs /\ job.plan \in PraminStagePlans /\ job.plan.vramOffset \in Nat
  BY DEF IInv, TypeInv, Jobs, PraminStagePlans
<1>2. /\ job' \in Jobs /\ job'.pc = "select" /\ job'.op = job.op /\ job'.pass = pass
      /\ job'.plan = job.plan /\ job'.k = 1 /\ job'.expectedSource = 0
      /\ job'.expectedVram = job.plan.vramOffset /\ job'.result = job.result
  <2>1. 1 \in ChunkNumbers
    BY DEF ChunkNumbers
  <2> QED
    BY <1>1, <2>1 DEF Begin, Jobs
<1>3. TypeInv'
  BY <1>2 DEF Frame, IInv, TypeInv
<1>4. WalkInv'
  <2>1. job'.k <= Len(job'.plan.chunks) + 1
    BY <1>1, <1>2 DEF PraminStagePlans
  <2>2. job'.expectedVram = job'.plan.vramOffset + job'.expectedSource
    BY <1>1, <1>2 DEF PraminStagePlans
  <2>3. 0 <= job'.plan.totalBytes
    BY <1>1, <1>2 DEF PraminStagePlans
  <2>4. ValidateStage(job'.plan) /\ AuditedPlan(job'.plan) /\ job'.result = "none"
    BY <1>2 DEF IInv, WalkInv
  <2>5. job'.expectedSource = SourceStart(job'.plan, job'.k) /\ 1..(job'.k - 1) = {}
    BY <1>2 DEF SourceStart
  <2> QED
    BY <1>2, <2>1, <2>2, <2>3, <2>4, <2>5 DEF WalkInv, Running
<1>5. PassInv'
  <2>1. \A w \in Words : ~Covered(w)'
    BY <1>1, <1>2 DEF Covered, PraminStagePlans, Words
  <2>2. Base' = Base /\ \A w \in Words : InRange(w)' <=> InRange(w)
    BY <1>2 DEF Base, InRange
  <2> QED
    BY <1>2, <2>1, <2>2 DEF PassInv, Frame
<1>6. WritesAreConfined'
  BY <1>2 DEF IInv, WritesAreConfined, OutsideRangeUntouched, UnsoundPlanWritesNothing,
     InRange, Frame
<1>7. (SuccessMeansStaged /\ FailureMeansRestored)'
  BY <1>2 DEF SuccessMeansStaged, FailureMeansRestored
<1> QED
  BY <1>3, <1>4, <1>5, <1>6, <1>7 DEF IInv

\* The call returns, with a result that is true.
LEMMA ReturnInv ==
  ASSUME IInv, Running, Frame, NEW status \in Statuses, job' = Return(status),
         job.op = "transaction" /\ status = "Success" =>
           \A w \in Words : InRange(w) => vram[w] = Source(w - Base),
         job.op = "transaction" /\ status \notin { "Success", "Error" } => vram = before
  PROVE  IInv'
<1>1. /\ job' \in Jobs /\ job'.pc = "idle" /\ job'.op = job.op /\ job'.plan = job.plan
      /\ job'.result = status
  BY DEF IInv, TypeInv, Jobs, Return
<1>2. TypeInv' /\ WalkInv' /\ PassInv'
  BY <1>1 DEF Frame, IInv, TypeInv, WalkInv, PassInv, Running
<1>3. WritesAreConfined'
  BY <1>1 DEF IInv, WritesAreConfined, OutsideRangeUntouched, UnsoundPlanWritesNothing,
     InRange, Frame
<1>4. SuccessMeansStaged'
  BY <1>1 DEF SuccessMeansStaged, Base, InRange, Frame
<1>5. FailureMeansRestored'
  BY <1>1 DEF FailureMeansRestored, Frame
<1> QED
  BY <1>2, <1>3, <1>4, <1>5 DEF IInv

\* A pass fails: a transaction that may have written begins to restore.
LEMMA FailureInv ==
  ASSUME IInv, Running, Frame, NEW status \in Failures,
         job' = JobAfterFailure(status)
  PROVE  IInv'
<1>1. job.pass \in Passes /\ job.op \in Operations /\ status \in Statuses /\ status # "Success"
  BY DEF IInv, TypeInv, Jobs, Statuses, Failures
<1>2. CASE job.op = "transaction" /\ job.pass \in { "stage", "verify" }
  <2>1. job' = Begin("restore", status)
    BY <1>2 DEF JobAfterFailure
  <2>2. AuditedPlan(job.plan) /\ \A w \in Words : InRange(w) => backup[w - Base] = before[w]
    BY <1>2 DEF IInv, WalkInv, PassInv
  <2> QED
    BY <1>2, <2>1, <2>2, BeginInv DEF Passes
<1>3. CASE job.op = "transaction" /\ job.pass \in { "restore", "reverify" }
  <2>1. job' = Return("Error")
    BY <1>3 DEF JobAfterFailure
  <2> QED
    BY <2>1, ReturnInv DEF Statuses, Failures
<1>4. CASE job.op = "transaction" /\ job.pass = "read"
  <2>1. job' = Return(status) /\ vram = before
    BY <1>4 DEF JobAfterFailure, IInv, PassInv
  <2> QED
    BY <1>1, <2>1, ReturnInv
<1>5. CASE job.op # "transaction"
  <2>1. job' = Return(status)
    BY <1>5 DEF JobAfterFailure
  <2> QED
    BY <1>1, <1>5, <2>1, ReturnInv
<1> QED
  BY <1>1, <1>2, <1>3, <1>4, <1>5 DEF Passes

\* When the chunks add up to the plan, all of it is audited and covered.
LEMMA EndOfPass ==
  ASSUME TypeInv, WalkInv, Running, job.pc = "select", job.k > Len(job.plan.chunks),
         job.expectedSource = job.plan.totalBytes
  PROVE  /\ AuditedPlan(job.plan)
         /\ \A w \in Words : InRange(w) => Covered(w)
<1> DEFINE n == Len(job.plan.chunks)
<1>1. n \in Nat /\ job.k \in Nat /\ job.k = n + 1 /\ ValidateStage(job.plan)
  BY DEF TypeInv, Jobs, ChunkNumbers, PraminStagePlans, WalkInv
<1>2. n >= 1
  BY <1>1 DEF ValidateStage, TypeInv, Jobs, PraminStagePlans
<1>3. \A k \in 1..n : AuditedChunk(job.plan, k)
  BY <1>1 DEF WalkInv
<1>4. job.plan.chunks[n].sourceOffset + job.plan.chunks[n].bytes = job.plan.totalBytes
  BY <1>1, <1>2 DEF WalkInv, SourceStart
<1>5. AuditedPlan(job.plan)
  BY <1>1, <1>3, <1>4 DEF AuditedPlan, AuditedChunk, SourceStart
<1>6. \A w \in Words : InRange(w) => Covered(w)
  BY DEF InRange, Covered
<1> QED
  BY <1>5, <1>6

\* A chunk was accessed: it is audited, and the walk stands at the next one.
LEMMA ChunkDone ==
  ASSUME TypeInv, WalkInv, CanAccess(Passes), job' = JobAfterChunk
  PROVE  /\ job' \in Jobs /\ job'.pc = "select" /\ job'.op = job.op /\ job'.pass = job.pass
         /\ job'.plan = job.plan /\ job'.expectedSource = job.expectedSource + Chunk.bytes
         /\ WalkInv'
<1>1. Running /\ job.k <= Len(job.plan.chunks) /\ job.k \in Nat \ { 0 } /\ ChunkValid
  BY DEF CanAccess, WalkInv, Running, TypeInv, Jobs, ChunkNumbers
<1>2. /\ Chunk.bytes \in Nat /\ Chunk.bytes % 4 = 0
      /\ job.expectedSource + Chunk.bytes <= job.plan.totalBytes
  BY AccessGeometry
<1>3. job \in Jobs /\ job.expectedSource \in Nat /\ job.expectedVram \in Nat
      /\ job.plan.vramOffset \in Nat
  BY DEF TypeInv, Jobs, PraminStagePlans
<1>4. /\ job' \in Jobs /\ job'.pc = "select" /\ job'.op = job.op /\ job'.pass = job.pass
      /\ job'.plan = job.plan /\ job'.k = job.k + 1 /\ job'.result = job.result
      /\ job'.expectedSource = job.expectedSource + Chunk.bytes
      /\ job'.expectedVram = job.expectedVram + Chunk.bytes
  <2>1. job.k + 1 \in ChunkNumbers
    BY <1>1 DEF ChunkNumbers
  <2>2. job.expectedSource + Chunk.bytes \in Nat
    BY <1>2, <1>3
  <2>3. job.expectedVram + Chunk.bytes \in Nat
    BY <1>2, <1>3
  <2> QED
    BY <1>1, <1>3, <2>1, <2>2, <2>3 DEF JobAfterChunk, Jobs
<1>5. Chunk.sourceOffset = job.expectedSource
      /\ job.expectedSource = SourceStart(job.plan, job.k)
      /\ job.expectedVram = job.plan.vramOffset + job.expectedSource
      /\ job.expectedSource % 4 = 0
  BY <1>1 DEF ChunkValid, ValidateChunk, WalkInv
<1>6. AuditedChunk(job.plan, job.k)
  BY <1>1, <1>5 DEF AuditedChunk, ChunkValid, Chunk, CanAccess
<1>7. job'.expectedSource = SourceStart(job'.plan, job'.k)
  BY <1>1, <1>4, <1>5 DEF SourceStart, Chunk
<1>8. \A k \in 1..(job'.k - 1) : AuditedChunk(job'.plan, k)
  <2> SUFFICES ASSUME NEW k \in 1..job.k PROVE AuditedChunk(job.plan, k)
    BY <1>1, <1>4
  <2>1. CASE k = job.k
    BY <1>6, <2>1
  <2>2. CASE k # job.k
    <3>1. k \in 1..(job.k - 1)
      BY <1>1, <2>2
    <3> QED
      BY <1>1, <3>1 DEF WalkInv
  <2> QED
    BY <2>1, <2>2
<1>9. job'.expectedSource % 4 = 0
  BY <1>2, <1>3, <1>4, <1>5
<1>10. job'.k <= Len(job'.plan.chunks) + 1
       /\ job'.expectedVram = job'.plan.vramOffset + job'.expectedSource
       /\ job'.expectedSource <= job'.plan.totalBytes
  <2>1. Len(job.plan.chunks) \in Nat /\ job.plan.totalBytes \in Nat
    BY DEF TypeInv, Jobs, PraminStagePlans
  <2>2. job'.k <= Len(job'.plan.chunks) + 1
    BY <1>1, <1>4, <2>1
  <2>3. job'.expectedVram = job'.plan.vramOffset + job'.expectedSource
    BY <1>2, <1>3, <1>4, <1>5
  <2>4. job'.expectedSource <= job'.plan.totalBytes
    BY <1>2, <1>4
  <2> QED
    BY <2>2, <2>3, <2>4
<1>11. ValidateStage(job'.plan) /\ job'.result = "none"
       /\ (job'.op # "transaction" => job'.pass = job'.op)
       /\ (job'.op = "transaction" /\ job'.pass # "read" => AuditedPlan(job'.plan))
  BY <1>1, <1>4 DEF WalkInv
<1>12. WalkInv'
  BY <1>4, <1>7, <1>8, <1>9, <1>10, <1>11 DEF WalkInv, Running
<1> QED
  BY <1>4, <1>12

\* What the invariant says of a word before and after the chunk.
LEMMA CoveredAfterChunk ==
  ASSUME TypeInv, WalkInv, CanAccess(Passes), job' = JobAfterChunk, NEW w \in Words
  PROVE  /\ Base' = Base /\ (InRange(w)' <=> InRange(w))
         /\ Covered(w)' =>
              Covered(w) \/ \E i \in ChunkWords : Target(i) = w /\ Buffer(i) = w - Base
<1>1. job'.plan = job.plan /\ job'.expectedSource = job.expectedSource + Chunk.bytes
  BY ChunkDone
<1>2. Base' = Base /\ (InRange(w)' <=> InRange(w))
  BY <1>1 DEF Base, InRange
<1>3. Covered(w)' => /\ job.plan.vramOffset <= 4 * w
                     /\ 4 * w < job.plan.vramOffset + (job.expectedSource + Chunk.bytes)
  BY <1>1 DEF Covered
<1> QED
  BY <1>2, <1>3, NewlyCovered

\* Two words of a chunk are different words of the buffer and of VRAM.
LEMMA WordsApart ==
  ASSUME TypeInv, WalkInv, CanAccess(Passes), NEW i \in ChunkWords, NEW j \in ChunkWords
  PROVE  /\ Buffer(i) = Buffer(j) => i = j
         /\ Target(i) = Target(j) => i = j
<1>1. i \in Nat /\ j \in Nat /\ job.expectedSource \in Nat
  BY DEF ChunkWords, TypeInv, Jobs
<1> QED
  BY <1>1, AccessGeometry

LEMMA ReadApertureInv == IInv /\ ReadAperture => IInv'
<1> SUFFICES ASSUME IInv, ReadAperture PROVE IInv'
  OBVIOUS
<1>1. CanAccess(Passes) /\ TypeInv /\ WalkInv /\ job.pass = "read" /\ job' = JobAfterChunk
      /\ Running
  BY DEF ReadAperture, CanAccess, Passes, IInv, Running
<1>2. /\ job' \in Jobs /\ job'.pc = "select" /\ job'.op = job.op /\ job'.pass = job.pass
      /\ job'.plan = job.plan /\ WalkInv'
  BY <1>1, ChunkDone
<1>3. UNCHANGED << vram, selector, before, calls >>
  BY DEF ReadAperture
<1>4. backup' = [ j \in Words |->
        IF \E i \in ChunkWords : Buffer(i) = j
        THEN vram[Target(CHOOSE i \in ChunkWords : Buffer(i) = j)] ELSE backup[j] ]
  BY DEF ReadAperture
<1>5. TypeInv'
  <2>1. backup' = [ j \in Words |-> backup'[j] ]
    BY <1>4
  <2> QED
    BY <1>2, <1>3, <2>1 DEF IInv, TypeInv
<1>6. ASSUME NEW i \in ChunkWords PROVE backup'[Buffer(i)] = vram[Target(i)]
  <2>1. Buffer(i) \in Words
    BY <1>1, AccessGeometry
  <2>2. (CHOOSE j \in ChunkWords : Buffer(j) = Buffer(i)) = i
    BY <1>1, WordsApart
  <2> QED
    BY <1>4, <2>1, <2>2
<1>7. ASSUME NEW j \in Words, \A i \in ChunkWords : Buffer(i) # j
      PROVE  backup'[j] = backup[j]
  BY <1>4, <1>7
<1>8. PassInv'
  <2> SUFFICES ASSUME job.op = "transaction", NEW w \in Words, Covered(w)'
               PROVE  backup'[w - Base] = before[w]
    <3>1. vram = before \/ job.op # "transaction"
      BY <1>1 DEF IInv, PassInv
    <3> QED
      BY <1>1, <1>2, <1>3, <3>1, CoveredAfterChunk DEF PassInv, Passes
  <2>0. vram = before
    BY <1>1 DEF IInv, PassInv
  <2>1. CASE \E i \in ChunkWords : Target(i) = w /\ Buffer(i) = w - Base
    BY <1>6, <2>0, <2>1
  <2>2. CASE Covered(w) /\ ~\E i \in ChunkWords : Target(i) = w /\ Buffer(i) = w - Base
    <3>1. backup[w - Base] = before[w]
      BY <1>1, <2>2 DEF IInv, PassInv
    <3>2. w - Base \in Words
      <4>1. Base \in Nat /\ job.plan.vramOffset = 4 * Base
        BY <1>1, AccessGeometry
      <4> QED
        BY <2>2, <4>1, WindowAssumption DEF Covered, Words
    <3>3. CASE \E i \in ChunkWords : Buffer(i) = w - Base
      <4>1. PICK i \in ChunkWords : Buffer(i) = w - Base
        BY <3>3
      <4>2. Target(i) = Base + Buffer(i) /\ Base \in Nat
        BY <1>1, AccessGeometry DEF TypeInv, Jobs, ChunkWords
      <4> QED
        BY <2>2, <4>1, <4>2 DEF Words
    <3>4. CASE ~\E i \in ChunkWords : Buffer(i) = w - Base
      BY <1>7, <3>1, <3>2, <3>4
    <3> QED
      BY <3>3, <3>4
  <2> QED
    BY <1>1, <2>1, <2>2, CoveredAfterChunk
<1>9. WritesAreConfined'
  BY <1>2, <1>3 DEF IInv, WritesAreConfined, OutsideRangeUntouched, UnsoundPlanWritesNothing,
     InRange
<1>10. (SuccessMeansStaged /\ FailureMeansRestored)'
  BY <1>2 DEF SuccessMeansStaged, FailureMeansRestored
<1> QED
  BY <1>2, <1>5, <1>8, <1>9, <1>10 DEF IInv

\* A write, whatever part of it the device drops, stays inside the range.
LEMMA WriteApertureInv == IInv /\ WriteAperture => IInv'
<1> SUFFICES ASSUME IInv, WriteAperture PROVE IInv'
  OBVIOUS
<1>1. CanAccess(Passes) /\ TypeInv /\ WalkInv /\ job.pass \in { "stage", "restore" }
      /\ job' = JobAfterChunk /\ Running
  BY DEF WriteAperture, CanAccess, Passes, IInv, Running
<1>2. /\ job' \in Jobs /\ job'.pc = "select" /\ job'.op = job.op /\ job'.pass = job.pass
      /\ job'.plan = job.plan /\ WalkInv'
  BY <1>1, ChunkDone
<1>3. UNCHANGED << selector, backup, before, calls >>
  BY DEF WriteAperture
<1>4. vram' = [ w \in Words |-> vram'[w] ]
      /\ \A w \in Words : vram'[w] # vram[w] => InRange(w)
  <2>1. PICK dropped \in SUBSET ChunkWords :
          vram' = [ w \in Words |->
            IF \E i \in ChunkWords \ dropped : Target(i) = w
            THEN Image(Buffer(CHOOSE i \in ChunkWords \ dropped : Target(i) = w))
            ELSE vram[w] ]
    BY DEF WriteAperture
  <2>2. ASSUME NEW w \in Words, vram'[w] # vram[w] PROVE InRange(w)
    <3>1. \E i \in ChunkWords \ dropped : Target(i) = w
      BY <2>1, <2>2
    <3>2. PICK i \in ChunkWords : Target(i) = w
      BY <3>1
    <3>3. InRange(Target(i))
      BY <1>1, AccessGeometry
    <3> QED
      BY <3>2, <3>3
  <2> QED
    BY <2>1, <2>2
<1>5. TypeInv'
  BY <1>2, <1>3, <1>4 DEF IInv, TypeInv
<1>6. PassInv'
  <2>1. ASSUME job.op = "transaction", NEW w \in Words, InRange(w)'
        PROVE  (backup[w - Base] = before[w])'
    <3>1. Base' = Base /\ InRange(w)
      BY <1>1, <2>1, CoveredAfterChunk
    <3>2. backup[w - Base] = before[w]
      BY <1>1, <2>1, <3>1 DEF IInv, PassInv
    <3> QED
      BY <1>3, <3>1, <3>2
  <2> QED
    BY <1>1, <1>2, <2>1 DEF PassInv
<1>7. WritesAreConfined'
  <2>1. ASSUME NEW w \in Words, vram'[w] # before'[w] PROVE InRange(w)'
    <3>1. InRange(w)
      BY <1>3, <1>4, <2>1 DEF IInv, WritesAreConfined, OutsideRangeUntouched
    <3> QED
      BY <1>1, <3>1, CoveredAfterChunk
  <2>2. job'.op = "transaction" => AuditedPlan(job'.plan)
    BY <1>1, <1>2 DEF WalkInv
  <2>3. OutsideRangeUntouched'
    BY <2>1 DEF OutsideRangeUntouched
  <2>4. UnsoundPlanWritesNothing'
    BY <2>2 DEF UnsoundPlanWritesNothing
  <2> QED
    BY <2>3, <2>4 DEF WritesAreConfined
<1>8. (SuccessMeansStaged /\ FailureMeansRestored)'
  BY <1>2 DEF SuccessMeansStaged, FailureMeansRestored
<1> QED
  BY <1>2, <1>5, <1>6, <1>7, <1>8 DEF IInv

\* A comparison extends what is known to be equal by the chunk, or fails the pass.
LEMMA CompareApertureInv == IInv /\ CompareAperture => IInv'
<1> SUFFICES ASSUME IInv, CompareAperture PROVE IInv'
  OBVIOUS
<1>1. CanAccess(Passes) /\ TypeInv /\ WalkInv /\ job.pass \in { "verify", "reverify" }
      /\ Running /\ Frame
  BY DEF CompareAperture, CanAccess, Passes, IInv, Running, Frame
<1>2. CASE ~\A i \in ChunkWords : vram[Target(i)] = Image(Buffer(i))
  <2>1. job' = JobAfterFailure("IOError")
    BY <1>2 DEF CompareAperture
  <2> QED
    BY <1>1, <2>1, FailureInv DEF Failures
<1>3. CASE \A i \in ChunkWords : vram[Target(i)] = Image(Buffer(i))
  <2>0. job' = JobAfterChunk
    BY <1>3 DEF CompareAperture
  <2>1. /\ job' \in Jobs /\ job'.pc = "select" /\ job'.op = job.op /\ job'.pass = job.pass
        /\ job'.plan = job.plan /\ WalkInv'
    BY <1>1, <2>0, ChunkDone
  <2>2. TypeInv'
    BY <1>1, <2>1 DEF IInv, TypeInv, Frame
  <2>3. ASSUME NEW w \in Words
        PROVE  /\ Base' = Base /\ (InRange(w)' <=> InRange(w))
               /\ Covered(w)' => Covered(w) \/ vram[w] = Image(w - Base)
    BY <1>1, <1>3, <2>0, CoveredAfterChunk
  <2>4. PassInv'
    <3> SUFFICES ASSUME job.op = "transaction" PROVE PassInv'
      BY <2>1 DEF PassInv
    <3>1. \A w \in Words : InRange(w) => backup[w - Base] = before[w]
      BY <1>1 DEF IInv, PassInv
    <3>2. CASE job.pass = "verify"
      <4>1. \A w \in Words : Covered(w) => vram[w] = Source(w - Base)
        BY <1>1, <3>2 DEF IInv, PassInv
      <4>2. \A j : Image(j) = Source(j)
        BY <3>2 DEF Image
      <4>3. \A w \in Words : Covered(w)' => vram'[w] = Source(w - Base)'
        BY <1>1, <2>3, <4>1, <4>2 DEF Frame, Source
      <4>4. \A w \in Words : InRange(w)' => (backup[w - Base] = before[w])'
        BY <1>1, <2>3, <3>1 DEF Frame
      <4> QED
        BY <2>1, <3>2, <4>3, <4>4 DEF PassInv
    <3>3. CASE job.pass = "reverify"
      <4>1. \A w \in Words : Covered(w) => vram[w] = backup[w - Base]
        BY <1>1, <3>3 DEF IInv, PassInv
      <4>2. \A j : Image(j) = backup[j]
        BY <3>3 DEF Image
      <4>3. \A w \in Words : Covered(w)' => (vram[w] = backup[w - Base])'
        BY <1>1, <2>3, <4>1, <4>2 DEF Frame
      <4>4. \A w \in Words : InRange(w)' => (backup[w - Base] = before[w])'
        BY <1>1, <2>3, <3>1 DEF Frame
      <4> QED
        BY <2>1, <3>3, <4>3, <4>4 DEF PassInv
    <3> QED
      BY <1>1, <3>2, <3>3
  <2>5. WritesAreConfined'
    BY <1>1, <2>1 DEF IInv, WritesAreConfined, OutsideRangeUntouched,
       UnsoundPlanWritesNothing, InRange, Frame
  <2>6. (SuccessMeansStaged /\ FailureMeansRestored)'
    BY <2>1 DEF SuccessMeansStaged, FailureMeansRestored
  <2> QED
    BY <2>1, <2>2, <2>4, <2>5, <2>6 DEF IInv
<1> QED
  BY <1>2, <1>3

\* The window is set for a chunk that passed the checks.
LEMMA SelectWindowInv == IInv /\ SelectWindow => IInv'
<1> SUFFICES ASSUME IInv, SelectWindow PROVE IInv'
  OBVIOUS
<1>1. /\ Running /\ job.k <= Len(job.plan.chunks) /\ ChunkValid /\ TypeInv /\ WalkInv
      /\ selector' = Chunk.windowSelector /\ job' = [ job EXCEPT !.pc = "access" ]
      /\ UNCHANGED << vram, backup, before, calls >>
  BY DEF SelectWindow, Running, IInv
<1>2. job \in Jobs /\ selector' \in Nat
  BY <1>1, ChunkType DEF TypeInv, PraminStageChunks
<1>3. /\ job' \in Jobs /\ job'.pc = "access" /\ job'.op = job.op /\ job'.pass = job.pass
      /\ job'.plan = job.plan /\ job'.k = job.k /\ job'.result = job.result
      /\ job'.expectedSource = job.expectedSource /\ job'.expectedVram = job.expectedVram
  BY <1>1, <1>2 DEF Jobs
<1>4. Chunk' = Chunk /\ ChunkValid' /\ Base' = Base
      /\ \A w : (InRange(w)' <=> InRange(w)) /\ (Covered(w)' <=> Covered(w))
  BY <1>1, <1>3 DEF Chunk, ChunkValid, Base, InRange, Covered
<1>5. TypeInv'
  BY <1>1, <1>2, <1>3 DEF TypeInv
<1>6. WalkInv'
  BY <1>1, <1>3, <1>4 DEF WalkInv, Running
<1>7. PassInv'
  BY <1>1, <1>3, <1>4 DEF IInv, PassInv, Running
<1>8. WritesAreConfined'
  BY <1>1, <1>3, <1>4 DEF IInv, WritesAreConfined, OutsideRangeUntouched,
     UnsoundPlanWritesNothing
<1>9. (SuccessMeansStaged /\ FailureMeansRestored)'
  BY <1>3 DEF SuccessMeansStaged, FailureMeansRestored
<1> QED
  BY <1>5, <1>6, <1>7, <1>8, <1>9 DEF IInv

\* The steps that fail a pass without an access.
LEMMA RefusalInv == IInv /\ (RejectChunk \/ DenyAccess \/ MappingFails) => IInv'
<1> SUFFICES ASSUME IInv, RejectChunk \/ DenyAccess \/ MappingFails PROVE IInv'
  OBVIOUS
<1>1. Running /\ Frame
      /\ \E status \in { "BadArgument", "NotPermitted", "NoResources", "Error" } :
           job' = JobAfterFailure(status)
  BY DEF RejectChunk, DenyAccess, MappingFails, Running, Frame
<1> QED
  BY <1>1, FailureInv DEF Failures

\* A pass is over: on to the next one, or back to the caller.
LEMMA EndPassInv == IInv /\ EndPass => IInv'
<1> SUFFICES ASSUME IInv, EndPass PROVE IInv'
  OBVIOUS
<1>1. Running /\ Frame /\ TypeInv /\ WalkInv /\ job.pc = "select"
      /\ job.k > Len(job.plan.chunks) /\ job.pass \in Passes
  BY DEF EndPass, Running, Frame, IInv, TypeInv, Jobs
<1>2. CASE job' = JobAfterFailure("BadArgument")
  BY <1>1, <1>2, FailureInv DEF Failures
<1>3. CASE job' = JobAfterSuccess /\ job.expectedSource = job.plan.totalBytes
  <2>1. AuditedPlan(job.plan) /\ \A w \in Words : InRange(w) => Covered(w)
    BY <1>1, <1>3, EndOfPass
  <2>2. CASE job.op # "transaction"
    <3>1. job' = Return("Success") /\ "Success" \in Statuses
      BY <1>3, <2>2 DEF JobAfterSuccess, Statuses
    <3> QED
      BY <1>1, <2>2, <3>1, ReturnInv
  <2>3. CASE job.op = "transaction" /\ job.pass = "read"
    <3>1. job' = Begin("stage", "none")
      BY <1>3, <2>3 DEF JobAfterSuccess
    <3>2. \A w \in Words : InRange(w) => backup[w - Base] = before[w]
      BY <1>1, <2>1, <2>3 DEF IInv, PassInv
    <3> QED
      BY <1>1, <2>1, <2>3, <3>1, <3>2, BeginInv DEF Passes, Failures
  <2>4. CASE job.op = "transaction" /\ job.pass = "stage"
    <3>1. job' = Begin("verify", "none")
      BY <1>3, <2>4 DEF JobAfterSuccess
    <3>2. \A w \in Words : InRange(w) => backup[w - Base] = before[w]
      BY <1>1, <2>4 DEF IInv, PassInv
    <3> QED
      BY <1>1, <2>1, <2>4, <3>1, <3>2, BeginInv DEF Passes, Failures
  <2>5. CASE job.op = "transaction" /\ job.pass = "verify"
    <3>1. job' = Return("Success") /\ "Success" \in Statuses
      BY <1>3, <2>5 DEF JobAfterSuccess, Statuses
    <3>2. \A w \in Words : InRange(w) => vram[w] = Source(w - Base)
      BY <1>1, <2>1, <2>5 DEF IInv, PassInv
    <3> QED
      BY <1>1, <3>1, <3>2, ReturnInv
  <2>6. CASE job.op = "transaction" /\ job.pass = "restore"
    <3>1. job' = Begin("reverify", job.failure) /\ job.failure \in Failures
      BY <1>1, <1>3, <2>6 DEF JobAfterSuccess, TypeInv, Jobs
    <3>2. \A w \in Words : InRange(w) => backup[w - Base] = before[w]
      BY <1>1, <2>6 DEF IInv, PassInv
    <3> QED
      BY <1>1, <2>1, <2>6, <3>1, <3>2, BeginInv DEF Passes
  <2>7. CASE job.op = "transaction" /\ job.pass = "reverify"
    <3>1. job' = Return(job.failure) /\ job.failure \in Failures
      BY <1>1, <1>3, <2>7 DEF JobAfterSuccess, TypeInv, Jobs
    <3>2. \A w \in Words : vram[w] = before[w]
      BY <1>1, <2>1, <2>7 DEF IInv, PassInv, WritesAreConfined, OutsideRangeUntouched
    <3>3. vram = before
      BY <1>1, <3>2 DEF TypeInv
    <3>4. job.failure \in Statuses /\ job.failure # "Success"
      BY <3>1 DEF Statuses, Failures
    <3> QED
      BY <1>1, <3>1, <3>3, <3>4, ReturnInv
  <2> QED
    BY <1>1, <2>2, <2>3, <2>4, <2>5, <2>6, <2>7 DEF Passes
<1> QED
  BY <1>2, <1>3 DEF EndPass

-----------------------------------------------------------------------------
(***************************************************************************)
(* A new call, and the invariant.                                          *)
(***************************************************************************)

LEMMA CallInv ==
  ASSUME IInv, NEW op \in Operations, NEW given \in Plans, NEW writesEnabled \in BOOLEAN,
         NEW sizesMatch \in BOOLEAN, Call(op, given, writesEnabled, sizesMatch)
  PROVE  IInv'
<1> DEFINE fresh == [ job EXCEPT !.op = op, !.plan = given, !.pass = FirstPass(op), !.k = 1,
                                 !.expectedVram = given.vramOffset, !.expectedSource = 0,
                                 !.failure = "none" ]
<1>1. job \in Jobs /\ given \in PraminStagePlans /\ given.vramOffset \in Nat
      /\ FirstPass(op) \in Passes /\ 1 \in ChunkNumbers /\ "none" \in Failures
  BY PlanAssumption DEF IInv, TypeInv, PraminStagePlans, FirstPass, Operations, Passes,
     ChunkNumbers, Failures
<1>2. /\ fresh \in Jobs /\ fresh.op = op /\ fresh.plan = given /\ fresh.pass = FirstPass(op)
      /\ fresh.k = 1 /\ fresh.expectedVram = given.vramOffset /\ fresh.expectedSource = 0
      /\ fresh.pc = job.pc
  BY <1>1 DEF Jobs
<1>3. job' = CASE ~writesEnabled -> [ fresh EXCEPT !.result = "NotPermitted" ]
               [] writesEnabled /\ ~(sizesMatch /\ ValidateStage(given)) ->
                    [ fresh EXCEPT !.result = "BadArgument" ]
               [] OTHER -> [ fresh EXCEPT !.pc = "select", !.result = "none" ]
  BY DEF Call
<1>4. job.pc = "idle" /\ before' = vram /\ calls' = calls + 1
      /\ UNCHANGED << vram, selector, backup >>
  BY DEF Call, Running
<1> HIDE DEF fresh
<1>5. /\ job' \in Jobs /\ job'.op = op /\ job'.plan = given /\ job'.pass = FirstPass(op)
      /\ job'.k = 1 /\ job'.expectedVram = given.vramOffset /\ job'.expectedSource = 0
      /\ \/ job'.pc = "idle" /\ job'.result \in { "NotPermitted", "BadArgument" }
         \/ job'.pc = "select" /\ job'.result = "none" /\ ValidateStage(given)
  <2>1. "NotPermitted" \in Statuses /\ "BadArgument" \in Statuses /\ "none" \in Statuses
    BY DEF Statuses, Failures
  <2>2. CASE job' = [ fresh EXCEPT !.result = "NotPermitted" ]
    BY <1>2, <1>4, <2>1, <2>2 DEF Jobs
  <2>3. CASE job' = [ fresh EXCEPT !.result = "BadArgument" ]
    BY <1>2, <1>4, <2>1, <2>3 DEF Jobs
  <2>4. CASE job' = [ fresh EXCEPT !.pc = "select", !.result = "none" ] /\ ValidateStage(given)
    BY <1>2, <1>4, <2>1, <2>4 DEF Jobs
  <2> QED
    BY <1>3, <2>2, <2>3, <2>4
<1>6. TypeInv'
  BY <1>4, <1>5 DEF IInv, TypeInv
<1>7. WalkInv'
  <2>1. job'.k <= Len(job'.plan.chunks) + 1
    BY <1>1, <1>5 DEF PraminStagePlans
  <2>2. job'.expectedVram = job'.plan.vramOffset + job'.expectedSource
    BY <1>1, <1>5
  <2>3. 0 <= job'.plan.totalBytes
    BY <1>1, <1>5 DEF PraminStagePlans
  <2>4. job'.expectedSource = SourceStart(job'.plan, job'.k) /\ 1..(job'.k - 1) = {}
    BY <1>5 DEF SourceStart
  <2>5. (job'.op # "transaction" => job'.pass = job'.op)
        /\ (job'.op = "transaction" => job'.pass = "read")
    BY <1>5 DEF FirstPass
  <2> QED
    BY <1>5, <2>1, <2>2, <2>3, <2>4, <2>5 DEF WalkInv, Running
<1>8. PassInv'
  <2>1. \A w \in Words : ~Covered(w)'
    BY <1>1, <1>5 DEF Covered, Words
  <2>2. job'.op = "transaction" => job'.pass = "read"
    BY <1>5 DEF FirstPass
  <2> QED
    BY <1>4, <2>1, <2>2 DEF PassInv
<1>9. WritesAreConfined'
  BY <1>4 DEF WritesAreConfined, OutsideRangeUntouched, UnsoundPlanWritesNothing
<1>10. (SuccessMeansStaged /\ FailureMeansRestored)'
  BY <1>4, <1>5 DEF SuccessMeansStaged, FailureMeansRestored
<1> QED
  BY <1>6, <1>7, <1>8, <1>9, <1>10 DEF IInv

LEMMA InitInv == Init => IInv
<1> SUFFICES ASSUME Init PROVE IInv
  OBVIOUS
<1>1. EmptyPlan \in PraminStagePlans
  <2>1. << >> \in Seq(PraminStageChunks)
    OBVIOUS
  <2> QED
    BY <2>1 DEF EmptyPlan, PraminStagePlans
<1>2. job \in Jobs /\ job.pc = "idle" /\ job.op = "read" /\ job.result = "none"
  BY <1>1 DEF Init, Jobs, Operations, Passes, Statuses, Failures, ChunkNumbers
<1>3. TypeInv
  BY <1>2 DEF Init, TypeInv
<1>4. vram = before
  BY DEF Init
<1> QED
  BY <1>2, <1>3, <1>4 DEF IInv, WalkInv, PassInv, Running, WritesAreConfined,
     OutsideRangeUntouched, UnsoundPlanWritesNothing, SuccessMeansStaged,
     FailureMeansRestored

LEMMA NextInv == IInv /\ [Next]_vars => IInv'
<1> SUFFICES ASSUME IInv, [Next]_vars PROVE IInv'
  OBVIOUS
<1>1. CASE UNCHANGED vars
  BY <1>1 DEF vars, IInv, TypeInv, WalkInv, PassInv, Running, Chunk, ChunkValid, Base,
     Covered, InRange, WritesAreConfined, OutsideRangeUntouched, UnsoundPlanWritesNothing,
     SuccessMeansStaged, FailureMeansRestored
<1>2. CASE Step
  BY <1>2, RefusalInv, SelectWindowInv, ReadApertureInv, WriteApertureInv,
     CompareApertureInv, EndPassInv DEF Step
<1>3. CASE \E op \in Operations, given \in Plans, writesEnabled, sizesMatch \in BOOLEAN :
             Call(op, given, writesEnabled, sizesMatch)
  BY <1>3, CallInv
<1> QED
  BY <1>1, <1>2, <1>3 DEF Next

LEMMA Invariance == Spec => []IInv
BY InitInv, NextInv, PTL DEF Spec

-----------------------------------------------------------------------------
(***************************************************************************)
(* The results.                                                            *)
(***************************************************************************)

\* However a plan was altered after it was made, no pass ever changes a word outside
\* the range it names, and a transaction changes nothing at all under a plan whose
\* chunks are not sound as a whole (RTXMacStagePramin, RTXMacStagePraminTransactional).
THEOREM PraminWritesConfined == Spec => []WritesAreConfined
<1>1. IInv => WritesAreConfined
  BY DEF IInv
<1> QED
  BY <1>1, Invariance, PTL

\* A transaction that returned success has the whole image in VRAM, whichever of its
\* posted writes the device dropped (RTXMacVerifyPramin as its last pass).
THEOREM PraminSuccessStaged == Spec => []SuccessMeansStaged
<1>1. IInv => SuccessMeansStaged
  BY DEF IInv
<1> QED
  BY <1>1, Invariance, PTL

\* A transaction that returned anything but success or kIOReturnError has left VRAM as
\* it found it, wherever it failed (RTXMacStagePraminTransactional's rollback).
THEOREM PraminFailureRestored == Spec => []FailureMeansRestored
<1>1. IInv => FailureMeansRestored
  BY DEF IInv
<1> QED
  BY <1>1, Invariance, PTL

=============================================================================
