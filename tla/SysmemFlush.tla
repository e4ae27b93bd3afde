---------------------------- MODULE SysmemFlush ----------------------------
(***************************************************************************)
(* The sysmem flush page: the plan (src/core/sysmem_flush.cpp) and the     *)
(* DriverKit calls that program it and roll it back                        *)
(* (macos/Driver/RTXMacSysmemFlush.cpp).                                   *)
(*                                                                         *)
(* The address lives in two registers that are read low first and written  *)
(* high first, one mapping each.  Every mapping may fail, a posted write   *)
(* may not take effect, and another owner of the registers may reprogram   *)
(* them between any two accesses.  Which register error a call returns is  *)
(* kept only as AccessError (from MapRegister) or IOError (readback).      *)
(***************************************************************************)
EXTENDS Naturals

CONSTANTS
  Granule,         \* bytes per unit of the low register (256)
  LoSize,          \* values of the low register (2^32)
  HiSize,          \* values of the address field of the high register (2^24)
  PageBytes,       \* kSysmemFlushPageBytes
  Addresses,       \* DMA addresses a caller may plan for
  OwnerAddress,    \* where another owner points the registers
  MaxPlans,        \* bound: plans in one behaviour
  MaxOwnerWrites   \* bound: times the other owner reprograms the registers

ASSUME EncodingAssumption ==
  /\ Granule \in Nat \ { 0 } /\ LoSize \in Nat \ { 0 } /\ HiSize \in Nat \ { 0 }
  /\ PageBytes \in Nat \ { 0 } /\ PageBytes % Granule = 0
  /\ OwnerAddress \in Nat
  /\ \A a \in Addresses : a \in 0..(Granule * LoSize * HiSize - 1)
  /\ MaxPlans \in Nat /\ MaxOwnerWrites \in Nat

VARIABLES
  lo, hi,       \* the registers at BAR0 0x100c10 and 0x100c40
  plan,         \* the caller's SysmemFlushPagePlan
  call,         \* the call in progress, or the last one
  reported,     \* history: a call under this plan has returned an error
  plans, ownerWrites  \* history: counters for the bounds

vars == << lo, hi, plan, call, reported, plans, ownerWrites >>

-----------------------------------------------------------------------------

EncodedLo(address) == (address \div Granule) % LoSize

EncodedHi(address) == (address \div (Granule * LoSize)) % HiSize

\* The bits of the high register beside the address field.
Reserved(high) == high - (high % HiSize)

NewHi(address, high) == Reserved(high) + EncodedHi(address)

DecodeSysmemFlushPageAddress(low, high) ==
  low * Granule + (high % HiSize) * Granule * LoSize

PageAligned(address) == address # 0 /\ address % PageBytes = 0

PlanSysmemFlushPage(address, currentLo, currentHi) ==
  [ valid      |-> PageAligned(address),
    dmaAddress |-> address,
    oldLo      |-> currentLo,
    oldHi      |-> currentHi,
    newLo      |-> IF PageAligned(address) THEN EncodedLo(address) ELSE 0,
    newHi      |-> IF PageAligned(address) THEN NewHi(address, currentHi) ELSE 0 ]

ValidateSysmemFlushPagePlan(p) ==
  /\ p.valid /\ PageAligned(p.dmaAddress)
  /\ p.newLo = EncodedLo(p.dmaAddress)
  /\ p.newHi = NewHi(p.dmaAddress, p.oldHi)
  /\ DecodeSysmemFlushPageAddress(p.newLo, p.newHi) = p.dmaAddress

-----------------------------------------------------------------------------
(***************************************************************************)
(* A call is a walk through stages of two register accesses each:          *)
(*   program:  observe, program, confirm, and on failure restore,          *)
(*             reconfirm;                                                  *)
(*   rollback: observe, restore, reconfirm.                                *)
(* "second" tells that the stage's first register has been accessed.       *)
(***************************************************************************)

Begin(stage, failure, hidden) ==
  [ call EXCEPT !.stage = stage, !.second = FALSE, !.failure = failure, !.hidden = hidden ]

Return(status) == [ call EXCEPT !.stage = "idle", !.second = FALSE, !.result = status ]

\* A stage ends in an error.  The status of a restore that follows a failed write
\* is discarded: the call returns the write's own error.
AfterError(status) ==
  CASE call.stage = "observe" -> Return(status)
    [] call.stage = "program" -> Begin("restore", status, TRUE)
    [] call.stage = "confirm" -> Begin("restore", status, FALSE)
    [] call.stage \in { "restore", "reconfirm" } ->
         Return(IF call.hidden THEN call.failure ELSE status)

Old == << plan.oldLo, plan.oldHi >>
New == << plan.newLo, plan.newHi >>

\* Mutant: a restore is not read back.
AfterWritesWithoutReconfirm ==
  IF call.stage = "program"
  THEN Begin("confirm", "none", FALSE)
  ELSE Return(IF call.op = "rollback" THEN "Success" ELSE call.failure)

\* Both registers were written.
AfterWrites ==
  IF call.stage = "program"
  THEN Begin("confirm", "none", FALSE)
  ELSE Begin("reconfirm", call.failure, call.hidden)

\* Mutant: the readback after programming is not compared.
AfterReadsUncompared(live) ==
  CASE call.stage = "observe" ->
         IF call.op = "program" /\ live = Old THEN Begin("program", "none", FALSE)
         ELSE IF call.op = "rollback" /\ live = New THEN Begin("restore", "none", FALSE)
         ELSE Return("NotPermitted")
    [] call.stage = "confirm" -> Return("Success")
    [] call.stage = "reconfirm" ->
         IF live # Old THEN AfterError("IOError")
         ELSE Return(IF call.op = "rollback" THEN "Success" ELSE call.failure)

\* Both registers were read as "live".
AfterReads(live) ==
  CASE call.stage = "observe" ->
         IF call.op = "program" /\ live = Old THEN Begin("program", "none", FALSE)
         ELSE IF call.op = "rollback" /\ live = New THEN Begin("restore", "none", FALSE)
         ELSE Return("NotPermitted")
    [] call.stage = "confirm" ->
         IF live = New THEN Return("Success") ELSE AfterError("IOError")
    [] call.stage = "reconfirm" ->
         IF live # Old THEN AfterError("IOError")
         ELSE Return(IF call.op = "rollback" THEN "Success" ELSE call.failure)

Continue(next) ==
  /\ call' = next
  /\ reported' = (reported \/ (next.stage = "idle" /\ next.result \in { "AccessError", "IOError" }))
  /\ UNCHANGED << plan, plans, ownerWrites >>

-----------------------------------------------------------------------------

NoPlan == PlanSysmemFlushPage(0, 0, 0)

Init ==
  /\ lo = 0 /\ hi \in { 0, HiSize }
  /\ plan = NoPlan
  /\ call = [ stage |-> "idle", op |-> "program", second |-> FALSE, seenLo |-> 0,
              failure |-> "none", hidden |-> FALSE, result |-> "none" ]
  /\ reported = FALSE
  /\ plans = 0 /\ ownerWrites = 0

\* The caller plans from the registers as they are now.
Plan(address) ==
  /\ call.stage = "idle" /\ plans < MaxPlans
  /\ plan' = PlanSysmemFlushPage(address, lo, hi)
  /\ plans' = plans + 1
  /\ call' = [ call EXCEPT !.result = "none" ]
  /\ reported' = FALSE
  /\ UNCHANGED << lo, hi, ownerWrites >>

\* RTXMacProgramSysmemFlushPage or RTXMacRollbackSysmemFlushPage is called.
Call(op, writesEnabled) ==
  /\ call.stage = "idle" /\ plans > 0
  /\ call' = [ call EXCEPT
       !.op     = op,
       !.hidden = FALSE, !.failure = "none",
       !.stage  = IF writesEnabled /\ ValidateSysmemFlushPagePlan(plan) THEN "observe" ELSE "idle",
       !.result = IF ~writesEnabled THEN "NotPermitted"
                  ELSE IF ~ValidateSysmemFlushPagePlan(plan) THEN "BadArgument" ELSE "none" ]
  /\ UNCHANGED << lo, hi, plan, reported, plans, ownerWrites >>

\* MapRegister fails.
AccessFails ==
  /\ call.stage # "idle"
  /\ Continue(AfterError("AccessError"))
  /\ UNCHANGED << lo, hi >>

ReadState ==
  /\ call.stage \in { "observe", "confirm", "reconfirm" }
  /\ Continue(IF call.second THEN AfterReads(<< call.seenLo, hi >>)
              ELSE [ call EXCEPT !.second = TRUE, !.seenLo = lo ])
  /\ UNCHANGED << lo, hi >>

WriteState ==
  LET target == IF call.stage = "program" THEN New ELSE Old
  IN  /\ call.stage \in { "program", "restore" }
      /\ Continue(IF call.second THEN AfterWrites ELSE [ call EXCEPT !.second = TRUE ])
      /\ IF call.second
         THEN lo' \in { target[1], lo } /\ UNCHANGED hi
         ELSE hi' \in { target[2], hi } /\ UNCHANGED lo

OwnerReprograms ==
  /\ ownerWrites < MaxOwnerWrites
  /\ ownerWrites' = ownerWrites + 1
  /\ lo' = EncodedLo(OwnerAddress) /\ hi' = NewHi(OwnerAddress, hi)
  /\ UNCHANGED << plan, call, reported, plans >>

Step == AccessFails \/ ReadState \/ WriteState

Next ==
  \/ \E address \in Addresses : Plan(address)
  \/ \E op \in { "program", "rollback" }, writesEnabled \in BOOLEAN : Call(op, writesEnabled)
  \/ Step
  \/ OwnerReprograms

Spec == Init /\ [][Next]_vars

-----------------------------------------------------------------------------
(***************************************************************************)
(* Properties.                                                             *)
(***************************************************************************)

\* The registers, the plan and the call keep their types.
TypeOK ==
  /\ lo \in 0..(LoSize - 1) /\ hi \in 0..(2 * HiSize - 1)
  /\ plan \in [ valid : BOOLEAN, dmaAddress : Nat, oldLo : 0..(LoSize - 1),
                oldHi : 0..(2 * HiSize - 1), newLo : 0..(LoSize - 1), newHi : 0..(2 * HiSize - 1) ]
  /\ call.stage \in { "idle", "observe", "program", "confirm", "restore", "reconfirm" }
  /\ call.result \in { "none", "Success", "NotPermitted", "BadArgument", "AccessError", "IOError" }
  /\ reported \in BOOLEAN

\* Nobody else writes the registers: a call that returns success has moved both of
\* them, although each write may have been lost (RTXMacSysmemFlush.cpp:139-143, 166).
SuccessMeansSwitched ==
  ownerWrites = 0 /\ call.stage = "idle" /\ call.result = "Success" =>
    IF call.op = "program"
    THEN DecodeSysmemFlushPageAddress(lo, hi) = plan.dmaAddress
    ELSE << lo, hi >> = Old

\* Registers left half switched, or holding an address nobody planned, never go
\* unreported: some call under the plan has returned a register error
\* (RTXMacSysmemFlush.cpp:133-148).
TornStateIsReported ==
  ownerWrites = 0 /\ plans > 0 /\ call.stage = "idle" /\ << lo, hi >> \notin { Old, New } =>
    reported

=============================================================================
