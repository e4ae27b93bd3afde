----------------------------- MODULE PciCommand -----------------------------
(***************************************************************************)
(* The PCI Command transition: the plan and its validation                 *)
(* (include/rtxmac/pci_command.hpp) and the DriverKit calls that apply it  *)
(* and roll it back (macos/Driver/RTXMacPciCommand.cpp).                   *)
(*                                                                         *)
(* A command value is the set of its bits.  A configuration write has no   *)
(* error return and may set or clear only some of the bits; the platform   *)
(* may change a bit of its own between any two accesses.  Plans may have   *)
(* been altered since they were made.                                      *)
(***************************************************************************)
EXTENDS FiniteSets, Naturals

CONSTANTS
  AlteredFields,      \* the plan fields that may be altered after planning
  MaxCalls,           \* bound: calls in one behaviour
  MaxPlatformWrites   \* bound: changes the platform makes

ASSUME BoundAssumption ==
  /\ AlteredFields \subseteq { "status", "newValue", "requestedSetMask", "changedMask",
                              "rollbackValue" }
  /\ MaxCalls \in Nat /\ MaxPlatformWrites \in Nat

Bits == { "IoSpace", "MemorySpace", "BusMaster", "IntxDisable" }

kPciDmaWritableMask == { "MemorySpace", "BusMaster" }

\* The masks a caller may ask for.
Requests == { {}, { "BusMaster" }, kPciDmaWritableMask, { "IoSpace", "BusMaster" } }

\* Bits the platform may change behind the driver's back.
PlatformBits == { "IoSpace", "IntxDisable" }

VARIABLES
  command,      \* the device's Command register
  plan,         \* the caller's PciCommandTransition
  call,         \* the call in progress, or the last one
  unrelated,    \* history: the bits outside the mask, as the platform set them
  calls, platformWrites  \* history: counters for the bounds

vars == << command, plan, call, unrelated, calls, platformWrites >>

Difference(a, b) == (a \ b) \union (b \ a)

-----------------------------------------------------------------------------

PlanPciCommandEnable(current, requested) ==
  LET ok  == requested \subseteq kPciDmaWritableMask
      new == IF ok THEN current \union requested ELSE {}
      changed == IF ok THEN Difference(current, new) ELSE {}
  IN  [ status           |-> IF ~ok THEN "InvalidRequestedMask"
                             ELSE IF changed = {} THEN "NoChange" ELSE "Ok",
        oldValue         |-> current,
        newValue         |-> new,
        requestedSetMask |-> requested,
        changedMask      |-> changed,
        rollbackValue    |-> current ]

\* Mutant: only the observed value is compared.
ValidatePciCommandTransitionByValueOnly(p, observed) ==
  p.status \in { "Ok", "NoChange" } /\ observed = p.oldValue /\ p.rollbackValue = p.oldValue

ValidatePciCommandTransition(p, observed) ==
  /\ p.status \in { "Ok", "NoChange" }
  /\ observed = p.oldValue /\ p.rollbackValue = p.oldValue
  /\ p.requestedSetMask \subseteq kPciDmaWritableMask
  /\ p.newValue = p.oldValue \union p.requestedSetMask
  /\ p.changedMask \subseteq kPciDmaWritableMask
  /\ Difference(p.oldValue, p.newValue) = p.changedMask
  /\ p.newValue \ kPciDmaWritableMask = p.oldValue \ kPciDmaWritableMask
  /\ (p.oldValue \intersect kPciDmaWritableMask) \subseteq p.newValue

PlanShapeValid(p) == ValidatePciCommandTransition(p, p.oldValue)

\* A plan, and the plans that differ from it in one bit of one field or in status.
Variants(p) ==
  { p }
  \union { [ p EXCEPT ![field] = Difference(@, { bit }) ] :
             field \in AlteredFields \ { "status" }, bit \in Bits }
  \union { [ p EXCEPT ![field] = "NoChange" ] : field \in AlteredFields \intersect { "status" } }

-----------------------------------------------------------------------------

Return(status) == [ call EXCEPT !.pc = "idle", !.result = status ]

\* The values the register may hold after a write of "value".
Written(value) ==
  { Difference(command, landed) : landed \in SUBSET Difference(command, value) }

Init ==
  /\ command \in { {}, { "MemorySpace" }, { "IoSpace" } }
  /\ plan = PlanPciCommandEnable(command, kPciDmaWritableMask)
  /\ call = [ pc |-> "idle", op |-> "apply", result |-> "none" ]
  /\ unrelated = command \ kPciDmaWritableMask
  /\ calls = 0 /\ platformWrites = 0

\* The caller plans from the command value as it is now; the plan may be altered
\* before it is used.
Plan(requested) ==
  /\ call.pc = "idle" /\ calls < MaxCalls
  /\ plan' \in Variants(PlanPciCommandEnable(command, requested))
  /\ call' = [ call EXCEPT !.result = "none" ]
  /\ UNCHANGED << command, unrelated, calls, platformWrites >>

\* RTXMacApplyPciCommandTransition or RTXMacRollbackPciCommandTransition is called.
Call(op, writesEnabled) ==
  /\ call.pc = "idle" /\ calls < MaxCalls
  /\ calls' = calls + 1
  /\ call' = [ pc     |-> IF writesEnabled /\ PlanShapeValid(plan) THEN "observe" ELSE "idle",
               op     |-> op,
               result |-> IF ~writesEnabled THEN "NotPermitted"
                          ELSE IF ~PlanShapeValid(plan) THEN "BadArgument" ELSE "none" ]
  /\ UNCHANGED << command, plan, unrelated, platformWrites >>

Unwritten == UNCHANGED << command, plan, unrelated, calls, platformWrites >>

ObserveForApply ==
  /\ call.pc = "observe" /\ call.op = "apply"
  /\ call' = IF ~ValidatePciCommandTransition(plan, command) THEN Return("NotReady")
             ELSE IF plan.status = "NoChange" THEN Return("Success")
             ELSE [ call EXCEPT !.pc = "write" ]
  /\ Unwritten

ObserveForRollback ==
  /\ call.pc = "observe" /\ call.op = "rollback"
  /\ call' = IF command = plan.rollbackValue THEN Return("Success")
             ELSE IF command # plan.newValue THEN Return("NotReady")
             ELSE [ call EXCEPT !.pc = "undo" ]
  /\ Unwritten

WriteCommand ==
  /\ call.pc \in { "write", "undo" }
  /\ command' \in Written(IF call.pc = "write" THEN plan.newValue ELSE plan.rollbackValue)
  /\ call' = [ call EXCEPT !.pc = IF @ = "write" THEN "readback" ELSE "undoReadback" ]
  /\ UNCHANGED << plan, unrelated, calls, platformWrites >>

\* Mutant: the write is taken as done.
ReadbackUnchecked ==
  /\ call.pc = "readback"
  /\ call' = Return("Success")
  /\ Unwritten

Readback ==
  /\ call.pc = "readback"
  /\ call' = IF command = plan.newValue THEN Return("Success")
             ELSE [ call EXCEPT !.pc = "undo" ]
  /\ Unwritten

\* Mutant: the restored value is not read back.
UndoReadbackUnchecked ==
  /\ call.pc = "undoReadback"
  /\ call' = Return(IF call.op = "apply" THEN "IOError" ELSE "Success")
  /\ Unwritten

UndoReadback ==
  /\ call.pc = "undoReadback"
  /\ call' = IF command # plan.rollbackValue THEN Return("Error")
             ELSE Return(IF call.op = "apply" THEN "IOError" ELSE "Success")
  /\ Unwritten

PlatformWrites(bit) ==
  /\ platformWrites < MaxPlatformWrites
  /\ platformWrites' = platformWrites + 1
  /\ command' = Difference(command, { bit })
  /\ unrelated' = Difference(unrelated, { bit })
  /\ UNCHANGED << plan, call, calls >>

Step == ObserveForApply \/ ObserveForRollback \/ WriteCommand \/ Readback \/ UndoReadback

Next ==
  \/ \E requested \in Requests : Plan(requested)
  \/ \E op \in { "apply", "rollback" }, writesEnabled \in BOOLEAN : Call(op, writesEnabled)
  \/ Step
  \/ \E bit \in PlatformBits : PlatformWrites(bit)

Spec == Init /\ [][Next]_vars

-----------------------------------------------------------------------------
(***************************************************************************)
(* Properties.                                                             *)
(***************************************************************************)

\* Nobody else writes the register: no bit outside Memory Space and Bus Master ever
\* changes, whatever was altered in the plan and whichever bits of a write land
\* ("all unrelated command bits are preserved exactly", pci_command.hpp:32-33).
UnrelatedBitsPreserved ==
  platformWrites = 0 => command \ kPciDmaWritableMask = unrelated

\* Success of an apply means every requested bit is on (RTXMacPciCommand.cpp:28), and
\* success of a rollback that the exact original value is back (51).  For an altered
\* plan this is what requestedSetMask is kept for: "validation can prove that an
\* otherwise well-shaped transition was not weakened after it was planned"
\* (pci_command.hpp:23-24).  It does not hold if status is altered: validation does
\* not compare it with the bits that change.
SuccessMeansSwitched ==
  platformWrites = 0 /\ call.pc = "idle" /\ call.result = "Success" =>
    IF call.op = "apply" THEN plan.requestedSetMask \subseteq command
    ELSE command = plan.rollbackValue

\* "A failed/partial transition is immediately rolled back ... the rollback is
\* verified the same way" (RTXMacPciCommand.cpp:30-32): an apply that reports
\* kIOReturnIOError has put the original value back, whichever bits landed.
FailureMeansRestored ==
  ( /\ platformWrites = 0 /\ call.pc = "idle" /\ call.op = "apply"
    /\ call.result = "IOError" ) => command = plan.oldValue

\* The Command register is what RTXMacApplyPciCommandTransition or
\* RTXMacRollbackPciCommandTransition says it is when it returns: switched after a
\* success, restored after a failure that was rolled back.
ResultIsTrue == SuccessMeansSwitched /\ FailureMeansRestored

=============================================================================
