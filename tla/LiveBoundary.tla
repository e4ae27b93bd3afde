---------------------------- MODULE LiveBoundary ----------------------------
(***************************************************************************)
(* The driver reads the live MMU lock and lays the boot out below it:      *)
(* RTXMacCheckLiveReservedBoundary (RTXMacLivePreflight.cpp), the decision *)
(* of ga10x_live_preflight.cpp and the planning part of                    *)
(* RTXMacPrepareColdBootSession, over the layouts of WprPlan.              *)
(*                                                                         *)
(* The lock is three registers, read one after the other; firmware on the  *)
(* card may move it at any time.  Every kernel call can fail.              *)
(***************************************************************************)
EXTENDS WprPlan

CONSTANTS Packages,  \* sizes of verified packages for a known card
          LockRegs,  \* values the two address registers take
          MaxMoves   \* bound: how often firmware moves the lock

ASSUME LockAssumption == LockRegs \subseteq Nat /\ MaxMoves \in Nat

\* The sizes of a package that the layouts depend on, unsigned in the code.
PackageSizes == [vram : Nat, bootloader : Nat, firmware : Nat, fwsec : Nat, sec2 : Nat]

ASSUME PackageAssumption == Packages \subseteq PackageSizes

VARIABLES lock,      \* the registers: priv level mask bit, low, high
          moves,     \* times the lock was moved
          sinceRead, \* the lock moved since the running capture began
          pc, pkg,
          held,      \* kernel objects the capture holds
          regs,      \* register values read so far
          decision,  \* ReservedBoundaryDecision, with captured
          profile,   \* Profile
          plan       \* BootPreparationPlan

boundaryVars == <<lock, moves, sinceRead, pc, pkg, held, regs, decision, profile, plan>>

-----------------------------------------------------------------------------
(* Decision *)

\* DecodeMmuLock: the registers hold address bits 31:4 above a nibble of
\* flags, in units of a page.
Address(reg) == (reg \div 16) * Page
DecodeMmuLock(r) ==
  [readable |-> r.mask,
   valid |-> r.mask /\ Address(r.high) >= Address(r.low),
   low |-> Address(r.low), high |-> Address(r.high)]

NotCaptured ==
  [captured |-> FALSE, status |-> "InvalidProfile", active |-> FALSE,
   prototype |-> 0, effective |-> 0]

Least(a, b) == IF a < b THEN a ELSE b

\* Mutant: the upper end of the lock is taken for its start.
CheckReservedBoundaryByHigh(vga, l) ==
  LET effective == IF l.valid THEN Least(l.high, vga) ELSE vga
  IN  [captured |-> TRUE, prototype |-> vga, effective |-> effective,
       active |-> l.readable /\ l.valid,
       status |-> IF ~l.readable THEN "MmuLockUnreadable"
                  ELSE IF effective # vga THEN "RebuildRequired" ELSE "Ok"]

\* CheckReservedBoundary for a valid profile and captured registers.
CheckReservedBoundary(vga, l) ==
  LET effective == IF l.valid THEN Least(l.low, vga) ELSE vga
  IN  [captured |-> TRUE, prototype |-> vga, effective |-> effective,
       active |-> l.readable /\ l.valid,
       status |-> IF ~l.readable THEN "MmuLockUnreadable"
                  ELSE IF effective # vga THEN "RebuildRequired" ELSE "Ok"]

\* BuildReservedBoundaryProfile.
BoundaryProfileValid(p) == p.vram > kVgaWorkspaceBytes
Vga(p) == p.vram - kVgaWorkspaceBytes

\* boundaryDecisionUsable of RTXMacPrepareColdBootSession.
BoundaryDecisionUsable(d, p) ==
  /\ d.captured
  /\ d.status \in {"Ok", "RebuildRequired"}
  /\ d.prototype = (IF BoundaryProfileValid(p) THEN Vga(p) ELSE 0)
  /\ d.effective # 0
  /\ d.effective <= d.prototype

-----------------------------------------------------------------------------
NoRegs == [mask |-> FALSE, low |-> 0, high |-> 0]
Locks == [mask : BOOLEAN, low : LockRegs, high : LockRegs]
NotPlanned == NoPlan("NotPlanned")

BoundaryInit ==
  /\ lock \in Locks
  /\ moves = 0
  /\ sinceRead = FALSE
  /\ pc = "idle"
  /\ pkg \in Packages
  /\ held = {}
  /\ regs = NoRegs
  /\ decision = NotCaptured
  /\ profile = Rejected("NotBuilt")
  /\ plan = NotPlanned

Unmoved == UNCHANGED <<lock, moves>>

\* Firmware on the card moves, opens or closes the lock: one register write.
MoveLock ==
  /\ moves < MaxMoves
  /\ \/ \E r \in LockRegs : lock' \in {[lock EXCEPT !.low = r],
                                       [lock EXCEPT !.high = r]}
     \/ lock' = [lock EXCEPT !.mask = ~@]
  /\ lock' # lock
  /\ moves' = moves + 1
  /\ sinceRead' = (pc # "idle")
  /\ UNCHANGED <<pc, pkg, held, regs, decision, profile, plan>>

\* PrepareColdBootSession with a package: nothing is captured when its
\* boundary profile is not valid.
Prepare ==
  /\ pc = "idle"
  /\ pc' = IF BoundaryProfileValid(pkg) THEN "bar" ELSE "plan"
  /\ sinceRead' = FALSE
  /\ UNCHANGED <<pkg, held, regs, decision, profile, plan>> /\ Unmoved

Captures(next, h) ==
  /\ pc' = next
  /\ held' = h
  /\ UNCHANGED <<pkg, sinceRead, regs, decision, profile, plan>> /\ Unmoved

\* GetBARInfo and _CopyDeviceMemoryWithIndex.
CopyDeviceMemory ==
  /\ pc = "bar"
  /\ \/ Captures("map", {"bar0"})
     \/ Captures("plan", {})

\* Mutant: the descriptor is kept when the page cannot be mapped.
CreateMappingKeepingBar ==
  /\ pc = "map"
  /\ \/ Captures("mask", {"bar0", "map"})
     \/ Captures("plan", held)

\* CreateMapping and GetAddress; either failing releases what was taken.
CreateMapping ==
  /\ pc = "map"
  /\ \/ Captures("mask", {"bar0", "map"})
     \/ Captures("plan", {})

Reads(field, next) ==
  /\ regs' = [regs EXCEPT ![field] = lock[field]]
  /\ pc' = next
  /\ UNCHANGED <<pkg, sinceRead, held, decision, profile, plan>> /\ Unmoved

ReadPrivMask == pc = "mask" /\ Reads("mask", "low")
ReadAddrLo == pc = "low" /\ Reads("low", "high")
ReadAddrHi == pc = "high" /\ Reads("high", "decide")

\* The mapping and the descriptor are released, then the lock is decoded.
Decide ==
  /\ pc = "decide"
  /\ held' = {}
  /\ decision' = CheckReservedBoundary(Vga(pkg), DecodeMmuLock(regs))
  /\ pc' = "plan"
  /\ UNCHANGED <<pkg, sinceRead, regs, profile, plan>> /\ Unmoved

\* RTXMacPrepareColdBootSession: the decision, the profile around the
\* effective boundary, and the preparation plan.
PlanSession ==
  LET built == BuildProfile(pkg, decision.effective)
  IN  /\ pc = "plan"
      /\ pc' = "done"
      /\ IF BoundaryDecisionUsable(decision, pkg)
           THEN /\ profile' = built
                /\ plan' = IF built.status = "Ok"
                             THEN PlanPreparation(pkg, built) ELSE NotPlanned
           ELSE UNCHANGED <<profile, plan>>
      /\ UNCHANGED <<pkg, sinceRead, held, regs, decision>> /\ Unmoved

\* The client asks again; nothing of the previous call is used.
Again ==
  /\ pc = "done"
  /\ pc' = "idle"
  /\ pkg' \in Packages
  /\ sinceRead' = FALSE
  /\ held' = {}
  /\ regs' = NoRegs
  /\ decision' = NotCaptured
  /\ profile' = Rejected("NotBuilt")
  /\ plan' = NotPlanned
  /\ Unmoved

BoundaryNext ==
  \/ MoveLock
  \/ Prepare \/ CopyDeviceMemory \/ CreateMapping
  \/ ReadPrivMask \/ ReadAddrLo \/ ReadAddrHi \/ Decide
  \/ PlanSession \/ Again

BoundarySpec == BoundaryInit /\ [][BoundaryNext]_boundaryVars

-----------------------------------------------------------------------------
(* Properties *)

Planned == plan.status = "Ok"

Regions ==
  LET w == profile.wpr
  IN  << FwsecRange(pkg, plan), Sec2Range(pkg, plan),
         Range(w.rsvdStart, w.wprStart - w.rsvdStart),
         Range(w.heapOffset, w.heapSize),
         Range(w.gspFwOffset, pkg.firmware),
         Range(w.bootBinOffset, pkg.bootloader),
         Range(w.frtsOffset, kFrtsBytes) >>

\* Whatever the lock registers were read as, a plan that is accepted keeps
\* the scratch images, the heaps, the firmware, the bootloader and FRTS
\* pairwise apart and below the VGA workspace (PlanWprLayout and
\* PlanGa10xBootPreparation place them by successive subtraction).
RegionsApart ==
  Planned =>
    /\ \A i, j \in DOMAIN Regions : i # j => Disjoint(Regions[i], Regions[j])
    /\ \A i \in DOMAIN Regions : 0 <= Regions[i].start /\ Regions[i].end <= Vga(pkg)

\* Nothing is planned inside memory the live lock protects, provided the
\* lock did not move between the first register read of
\* RTXMacCheckLiveReservedBoundary and the end of the call.
NothingInsideLock ==
  LET l == DecodeMmuLock(lock)
  IN  Planned /\ ~sinceRead =>
        /\ l.readable
        /\ l.valid => \A i \in DOMAIN Regions : Regions[i].end <= l.low

\* The two checks of a placement agree: every plan
\* PlanGa10xBootPreparation makes is one PlanFramebufferStaging accepts, so a
\* session that was prepared can be staged through PRAMIN.
PlacementIsStageable ==
  Planned => PlanFramebufferStaging(pkg, profile.wpr, plan)

\* The capture gives the BAR descriptor and the mapping back on every path
\* (RTXMacLivePreflight.cpp releases them at each return).
CaptureReleased == pc \in {"plan", "done", "idle"} => held = {}

\* docs/ARCHITECTURE.md: a live lock that lowers the reserved boundary has
\* the profile and the placements rebuilt around it.  Stated: a profile that
\* was rebuilt around a lower boundary is not refused for its placement.
RebuiltLayoutIsUsed ==
  /\ pc = "done"
  /\ decision.status = "RebuildRequired"
  /\ profile.status = "Ok"
  => plan.status # "FrtsPlacementMismatch"

=============================================================================
