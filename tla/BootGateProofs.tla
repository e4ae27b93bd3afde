--------------------------- MODULE BootGateProofs ---------------------------
(***************************************************************************)
(* Proofs about the two gates in front of the boot. The PCI Command        *)
(* transition, for any number of calls and of changes by the platform:     *)
(* the bits outside the mask survive whatever is altered in a plan, and a  *)
(* result is true unless the status is altered. The arming contract, for   *)
(* any digests, identities, addresses and nonces and any number of changes *)
(* between the operator's answer and the request: a request is accepted    *)
(* exactly when it carries the answer to the challenge of the session as   *)
(* it is now.                                                              *)
(***************************************************************************)
EXTENDS BootGate, WellFoundedInduction, TLAPS

-----------------------------------------------------------------------------
(***************************************************************************)
(* The inductive invariant.                                                *)
(***************************************************************************)

Statuses == { "InvalidRequestedMask", "NoChange", "Ok" }

Transitions == [ status : Statuses, oldValue : SUBSET Bits, newValue : SUBSET Bits,
                 requestedSetMask : SUBSET Bits, changedMask : SUBSET Bits,
                 rollbackValue : SUBSET Bits ]

Calls == [ pc : { "idle", "observe", "write", "readback", "undo", "undoReadback" },
           op : { "apply", "rollback" },
           result : { "none", "Success", "NotPermitted", "BadArgument", "NotReady",
                      "Error", "IOError" } ]

TypeInv ==
  /\ command \in SUBSET Bits /\ unrelated \in SUBSET Bits
  /\ plan \in Transitions /\ call \in Calls
  /\ calls \in Nat /\ platformWrites \in Nat

\* A running call has no result yet and validated its plan.
CallInv ==
  /\ call.pc # "idle" => call.result = "none" /\ PlanShapeValid(plan)
  /\ call.pc \in { "write", "readback" } => call.op = "apply"

\* While the platform writes nothing, neither the register nor the value a plan was
\* made from has other bits outside the mask than at the beginning.
UnrelatedInv ==
  platformWrites = 0 =>
    /\ command \ kPciDmaWritableMask = unrelated
    /\ plan.oldValue \ kPciDmaWritableMask = unrelated

\* A plan that calls for no change, and passes, really asks for none.
NoChangeInv ==
  "status" \notin AlteredFields /\ PlanShapeValid(plan) /\ plan.status = "NoChange" =>
    plan.requestedSetMask \subseteq plan.oldValue

IInv == /\ TypeInv /\ CallInv /\ UnrelatedInv /\ NoChangeInv
        /\ "status" \notin AlteredFields => ResultIsTrue

-----------------------------------------------------------------------------
(***************************************************************************)
(* Sets of bits.                                                           *)
(***************************************************************************)

LEMMA DifferenceType ==
  ASSUME NEW a \in SUBSET Bits, NEW b \in SUBSET Bits
  PROVE  Difference(a, b) \in SUBSET Bits
BY DEF Difference

\* However much of a write lands, the register keeps the bits in which it agrees with
\* the value written.
LEMMA WrittenKeepsAgreement ==
  ASSUME NEW value \in SUBSET Bits, command \in SUBSET Bits, NEW mask,
         command \ mask = value \ mask, NEW new \in Written(value)
  PROVE  new \in SUBSET Bits /\ new \ mask = command \ mask
<1>1. PICK landed \in SUBSET Difference(command, value) : new = Difference(command, landed)
  BY DEF Written
<1>2. landed \in SUBSET Bits
  BY <1>1, DifferenceType
<1>3. \A b \in landed : b \in mask
  BY <1>1 DEF Difference
<1>4. new \in SUBSET Bits
  BY <1>1, <1>2, DifferenceType
<1>5. \A b : b \in new \ mask <=> b \in command \ mask
  BY <1>1, <1>3 DEF Difference
<1> QED
  BY <1>4, <1>5

-----------------------------------------------------------------------------
(***************************************************************************)
(* Plans.                                                                  *)
(***************************************************************************)

\* What the planner makes of a command value, and the plans altered from it, are
\* transitions from that value.
LEMMA PlanType ==
  ASSUME NEW current \in SUBSET Bits, NEW requested \in Requests
  PROVE  /\ PlanPciCommandEnable(current, requested) \in Transitions
         /\ PlanPciCommandEnable(current, requested).oldValue = current
<1>1. requested \in SUBSET Bits
  BY DEF Requests, Bits, kPciDmaWritableMask
<1> QED
  BY <1>1, DifferenceType DEF PlanPciCommandEnable, Transitions, Statuses, Difference

\* A variant is the plan itself, one with a bit of a field turned, or one with its
\* status altered.
LEMMA VariantCases ==
  ASSUME NEW p, NEW v \in Variants(p)
  PROVE  \/ v = p
         \/ \E field \in AlteredFields \ { "status" }, bit \in Bits :
              v = [ p EXCEPT ![field] = Difference(@, { bit }) ]
         \/ \E field \in AlteredFields \intersect { "status" } :
              v = [ p EXCEPT ![field] = "NoChange" ]
<1> DEFINE A == { [ p EXCEPT ![field] = Difference(@, { bit }) ] :
                    field \in AlteredFields \ { "status" }, bit \in Bits }
           B == { [ p EXCEPT ![field] = "NoChange" ] :
                    field \in AlteredFields \intersect { "status" } }
<1>1. Variants(p) = { p } \union A \union B
  BY DEF Variants
<1>2. v \in A => \E field \in AlteredFields \ { "status" }, bit \in Bits :
                   v = [ p EXCEPT ![field] = Difference(@, { bit }) ]
  OBVIOUS
<1>3. v \in B => \E field \in AlteredFields \intersect { "status" } :
                   v = [ p EXCEPT ![field] = "NoChange" ]
  OBVIOUS
<1> HIDE DEF A, B
<1>4. v = p \/ v \in A \/ v \in B
  BY <1>1
<1> QED
  BY <1>2, <1>3, <1>4, Zenon

LEMMA VariantType ==
  ASSUME NEW p \in Transitions, NEW v \in Variants(p)
  PROVE  v \in Transitions /\ v.oldValue = p.oldValue
<1>0. AlteredFields \subseteq { "status", "newValue", "requestedSetMask", "changedMask",
                              "rollbackValue" }
  BY BoundAssumption
<1>1. CASE v = p
  BY <1>1
<1>2. ASSUME NEW field \in AlteredFields \ { "status" }, NEW bit \in Bits,
             v = [ p EXCEPT ![field] = Difference(@, { bit }) ]
      PROVE  v \in Transitions /\ v.oldValue = p.oldValue
  <2>1. field \in { "newValue", "requestedSetMask", "changedMask", "rollbackValue" }
    BY <1>0
  <2>2. \A a \in SUBSET Bits : Difference(a, { bit }) \in SUBSET Bits
    BY DifferenceType
  <2> QED
    BY <1>2, <2>1, <2>2 DEF Transitions
<1>3. ASSUME NEW field \in AlteredFields \intersect { "status" },
             v = [ p EXCEPT ![field] = "NoChange" ]
      PROVE  v \in Transitions /\ v.oldValue = p.oldValue
  BY <1>3 DEF Transitions, Statuses
<1> QED
  BY <1>1, <1>2, <1>3, VariantCases, Zenon

\* Status NoChange is true of every plan that passes, unless the status itself was
\* altered: an altered new value or changed mask is found out by the comparison with
\* the old value, and an altered request can only ask for bits that are on.
LEMMA NoChangeIsTrue ==
  ASSUME "status" \notin AlteredFields, NEW current \in SUBSET Bits,
         NEW requested \in Requests,
         NEW v \in Variants(PlanPciCommandEnable(current, requested)),
         PlanShapeValid(v), v.status = "NoChange"
  PROVE  v.requestedSetMask \subseteq v.oldValue
<1> DEFINE p == PlanPciCommandEnable(current, requested)
<1>0. AlteredFields \subseteq { "newValue", "requestedSetMask", "changedMask", "rollbackValue" }
  BY BoundAssumption
<1>1. v = p \/ \E field \in { "newValue", "requestedSetMask", "changedMask", "rollbackValue" },
                   bit \in Bits : v = [ p EXCEPT ![field] = Difference(@, { bit }) ]
  <2>1. \/ v = p
        \/ \E field \in AlteredFields \ { "status" }, bit \in Bits :
             v = [ p EXCEPT ![field] = Difference(@, { bit }) ]
        \/ \E field \in AlteredFields \intersect { "status" } :
             v = [ p EXCEPT ![field] = "NoChange" ]
    BY VariantCases, Zenon
  <2> HIDE DEF p
  <2> QED
    BY <1>0, <2>1, Zenon
<1>2. p \in Transitions /\ p.oldValue = current
  BY PlanType
<1>3. v.status = p.status /\ v.oldValue = current
  BY <1>1, <1>2 DEF Transitions
<1>4. p.newValue = current
  <2>1. requested \subseteq kPciDmaWritableMask /\ Difference(current, current \union requested) = {}
    BY <1>3 DEF PlanPciCommandEnable
  <2>2. current \union requested = current
    BY <2>1 DEF Difference
  <2> QED
    BY <2>1, <2>2 DEF PlanPciCommandEnable
<1>5. v.newValue = v.oldValue \union v.requestedSetMask
  BY DEF PlanShapeValid, ValidatePciCommandTransition
<1>6. v.changedMask = Difference(v.oldValue, v.newValue)
  BY DEF PlanShapeValid, ValidatePciCommandTransition
<1>7. v.newValue = current
  <2>1. CASE v = p
    BY <1>4, <2>1
  <2>2. ASSUME NEW field \in { "requestedSetMask", "changedMask", "rollbackValue" },
               NEW bit \in Bits, v = [ p EXCEPT ![field] = Difference(@, { bit }) ]
        PROVE  v.newValue = current
    BY <1>2, <1>4, <2>2 DEF Transitions
  <2>3. ASSUME NEW bit \in Bits, v = [ p EXCEPT !.newValue = Difference(@, { bit }) ]
        PROVE  v.newValue = current
    <3>1. v.changedMask = p.changedMask /\ p.changedMask = {}
      <4>1. v.changedMask = p.changedMask
        BY <1>2, <2>3 DEF Transitions
      <4>2. p.status = "NoChange"
        BY <1>3
      <4> QED
        BY <4>1, <4>2 DEF PlanPciCommandEnable
    <3>2. Difference(v.oldValue, v.newValue) = {}
      BY <1>6, <3>1
    <3> QED
      BY <1>3, <3>2 DEF Difference
  <2> QED
    BY <1>1, <2>1, <2>2, <2>3
<1> QED
  BY <1>3, <1>5, <1>7

-----------------------------------------------------------------------------
(***************************************************************************)
(* The invariant, action by action.                                        *)
(***************************************************************************)

LEMMA InitInv == Init => IInv
<1> SUFFICES ASSUME Init PROVE IInv
  OBVIOUS
<1>0. kPciDmaWritableMask \in Requests /\ command \in SUBSET Bits
  BY DEF Init, Requests, Bits
<1> DEFINE p == PlanPciCommandEnable(command, kPciDmaWritableMask)
<1>1. plan = p /\ p \in Transitions /\ p.oldValue = command
  BY <1>0, PlanType DEF Init
<1>2. p \in Variants(p)
  BY DEF Variants
<1>3. TypeInv
  BY <1>0, <1>1 DEF Init, TypeInv, Calls, Bits
<1>4. CallInv /\ UnrelatedInv /\ ResultIsTrue
  BY <1>1 DEF Init, CallInv, UnrelatedInv, ResultIsTrue, SuccessMeansSwitched,
     FailureMeansRestored
<1>5. NoChangeInv
  BY <1>0, <1>1, <1>2, NoChangeIsTrue DEF NoChangeInv
<1> QED
  BY <1>3, <1>4, <1>5 DEF IInv

LEMMA PlanInv ==
  ASSUME IInv, NEW requested \in Requests, Plan(requested)
  PROVE  IInv'
<1> DEFINE p == PlanPciCommandEnable(command, requested)
<1>0. command \in SUBSET Bits /\ UNCHANGED << command, unrelated, calls, platformWrites >>
      /\ call.pc = "idle" /\ call' = [ call EXCEPT !.result = "none" ] /\ call \in Calls
  BY DEF Plan, IInv, TypeInv
<1>1. p \in Transitions /\ p.oldValue = command
  BY <1>0, PlanType
<1>2. plan' \in Variants(p)
  BY DEF Plan
<1>3. plan' \in Transitions /\ plan'.oldValue = command
  BY <1>1, <1>2, VariantType
<1>4. call' \in Calls /\ call'.pc = "idle" /\ call'.result = "none"
  BY <1>0 DEF Calls
<1>5. TypeInv'
  BY <1>0, <1>3, <1>4 DEF IInv, TypeInv
<1>6. (CallInv /\ UnrelatedInv /\ ResultIsTrue)'
  BY <1>0, <1>3, <1>4 DEF IInv, CallInv, UnrelatedInv, ResultIsTrue, SuccessMeansSwitched,
     FailureMeansRestored
<1>7. NoChangeInv'
  <2> SUFFICES ASSUME "status" \notin AlteredFields, PlanShapeValid(plan'),
                      plan'.status = "NoChange"
               PROVE  plan'.requestedSetMask \subseteq plan'.oldValue
    BY DEF NoChangeInv, PlanShapeValid, ValidatePciCommandTransition
  <2> QED
    BY <1>0, <1>2, NoChangeIsTrue
<1> QED
  BY <1>5, <1>6, <1>7 DEF IInv

LEMMA CallStepInv ==
  ASSUME IInv, NEW op \in { "apply", "rollback" }, NEW writesEnabled \in BOOLEAN,
         Call(op, writesEnabled)
  PROVE  IInv'
<1>1. UNCHANGED << command, plan, unrelated, platformWrites >> /\ calls' = calls + 1
  BY DEF Call
<1>2. call' \in Calls /\ call'.pc \in { "idle", "observe" }
      /\ call'.result \notin { "Success", "IOError" }
      /\ (call'.pc = "observe" => call'.result = "none" /\ PlanShapeValid(plan))
  BY DEF Call, Calls
<1>3. TypeInv'
  BY <1>1, <1>2 DEF IInv, TypeInv
<1>4. (CallInv /\ UnrelatedInv /\ NoChangeInv)'
  BY <1>1, <1>2 DEF IInv, CallInv, UnrelatedInv, NoChangeInv, PlanShapeValid
<1>5. ResultIsTrue'
  BY <1>2 DEF ResultIsTrue, SuccessMeansSwitched, FailureMeansRestored
<1> QED
  BY <1>3, <1>4, <1>5 DEF IInv

\* A step that only reads: what remains is that a result it returns is true.
LEMMA UnwrittenInv ==
  ASSUME IInv, Unwritten, call.pc # "idle", call' \in Calls, call'.op = call.op,
         call'.pc # "idle" => call'.result = "none",
         call'.pc \in { "write", "readback" } => call.op = "apply",
         "status" \notin AlteredFields => SuccessMeansSwitched',
         FailureMeansRestored'
  PROVE  IInv'
<1>1. TypeInv'
  BY DEF Unwritten, IInv, TypeInv
<1>2. (CallInv /\ UnrelatedInv /\ NoChangeInv)'
  BY DEF Unwritten, IInv, CallInv, UnrelatedInv, NoChangeInv, PlanShapeValid
<1> QED
  BY <1>1, <1>2 DEF IInv, ResultIsTrue

\* What a validated plan says.
LEMMA ShapeFacts ==
  ASSUME PlanShapeValid(plan)
  PROVE  /\ plan.rollbackValue = plan.oldValue
         /\ plan.newValue = plan.oldValue \union plan.requestedSetMask
         /\ plan.newValue \ kPciDmaWritableMask = plan.oldValue \ kPciDmaWritableMask
BY DEF PlanShapeValid, ValidatePciCommandTransition

LEMMA ObserveForApplyInv == IInv /\ ObserveForApply => IInv'
<1> SUFFICES ASSUME IInv, ObserveForApply PROVE IInv'
  OBVIOUS
<1>1. Unwritten /\ call \in Calls /\ call.pc = "observe" /\ call.op = "apply"
      /\ PlanShapeValid(plan) /\ call.result = "none"
  BY DEF ObserveForApply, IInv, CallInv, TypeInv
<1>2. UNCHANGED << command, plan, platformWrites >>
  BY <1>1 DEF Unwritten
<1>3. CASE ~ValidatePciCommandTransition(plan, command)
  <2>1. call' = Return("NotReady")
    BY <1>3 DEF ObserveForApply
  <2>2. call' \in Calls /\ call'.pc = "idle" /\ call'.op = call.op /\ call'.result = "NotReady"
    BY <1>1, <2>1 DEF Return, Calls
  <2> QED
    BY <1>1, <2>2, UnwrittenInv DEF SuccessMeansSwitched, FailureMeansRestored
<1>4. CASE ValidatePciCommandTransition(plan, command) /\ plan.status = "NoChange"
  <2>1. call' = Return("Success")
    BY <1>4 DEF ObserveForApply
  <2>2. call' \in Calls /\ call'.pc = "idle" /\ call'.op = "apply" /\ call'.result = "Success"
    BY <1>1, <2>1 DEF Return, Calls
  <2>3. command = plan.oldValue
    BY <1>4 DEF ValidatePciCommandTransition
  <2>4. "status" \notin AlteredFields => SuccessMeansSwitched'
    BY <1>1, <1>2, <1>4, <2>2, <2>3 DEF IInv, NoChangeInv, SuccessMeansSwitched
  <2> QED
    BY <1>1, <2>2, <2>4, UnwrittenInv DEF FailureMeansRestored
<1>5. CASE ValidatePciCommandTransition(plan, command) /\ plan.status # "NoChange"
  <2>1. call' = [ call EXCEPT !.pc = "write" ]
    BY <1>5 DEF ObserveForApply
  <2>2. call' \in Calls /\ call'.pc = "write" /\ call'.op = call.op /\ call'.result = "none"
    BY <1>1, <2>1 DEF Calls
  <2> QED
    BY <1>1, <2>2, UnwrittenInv DEF SuccessMeansSwitched, FailureMeansRestored
<1> QED
  BY <1>3, <1>4, <1>5

LEMMA ObserveForRollbackInv == IInv /\ ObserveForRollback => IInv'
<1> SUFFICES ASSUME IInv, ObserveForRollback PROVE IInv'
  OBVIOUS
<1>1. Unwritten /\ call \in Calls /\ call.pc = "observe" /\ call.op = "rollback"
      /\ call.result = "none"
  BY DEF ObserveForRollback, IInv, CallInv, TypeInv
<1>2. UNCHANGED << command, plan >>
  BY <1>1 DEF Unwritten
<1>3. CASE command = plan.rollbackValue
  <2>1. call' = Return("Success")
    BY <1>3 DEF ObserveForRollback
  <2>2. call' \in Calls /\ call'.pc = "idle" /\ call'.op = "rollback" /\ call'.result = "Success"
    BY <1>1, <2>1 DEF Return, Calls
  <2> QED
    BY <1>1, <1>2, <1>3, <2>2, UnwrittenInv DEF SuccessMeansSwitched, FailureMeansRestored
<1>4. CASE command # plan.rollbackValue /\ command # plan.newValue
  <2>1. call' = Return("NotReady")
    BY <1>4 DEF ObserveForRollback
  <2>2. call' \in Calls /\ call'.pc = "idle" /\ call'.op = call.op /\ call'.result = "NotReady"
    BY <1>1, <2>1 DEF Return, Calls
  <2> QED
    BY <1>1, <2>2, UnwrittenInv DEF SuccessMeansSwitched, FailureMeansRestored
<1>5. CASE command # plan.rollbackValue /\ command = plan.newValue
  <2>1. call' = [ call EXCEPT !.pc = "undo" ]
    BY <1>5 DEF ObserveForRollback
  <2>2. call' \in Calls /\ call'.pc = "undo" /\ call'.op = call.op /\ call'.result = "none"
    BY <1>1, <2>1 DEF Calls
  <2> QED
    BY <1>1, <2>2, UnwrittenInv DEF SuccessMeansSwitched, FailureMeansRestored
<1> QED
  BY <1>3, <1>4, <1>5

\* Both values a call writes agree with the register outside the mask.
LEMMA WriteCommandInv == IInv /\ WriteCommand => IInv'
<1> SUFFICES ASSUME IInv, WriteCommand PROVE IInv'
  OBVIOUS
<1> DEFINE value == IF call.pc = "write" THEN plan.newValue ELSE plan.rollbackValue
<1>1. call \in Calls /\ call.pc \in { "write", "undo" } /\ PlanShapeValid(plan)
      /\ call.result = "none" /\ UNCHANGED << plan, unrelated, calls, platformWrites >>
  BY DEF WriteCommand, IInv, CallInv, TypeInv
<1>2. value \in SUBSET Bits /\ command \in SUBSET Bits /\ command' \in Written(value)
  BY DEF WriteCommand, IInv, TypeInv, Transitions
<1>3. value \ kPciDmaWritableMask = plan.oldValue \ kPciDmaWritableMask
  BY <1>1, ShapeFacts
<1> HIDE DEF value
<1>4. command' \in SUBSET Bits
  <2>1. command \ Bits = value \ Bits
    BY <1>2
  <2> QED
    BY <1>2, <2>1, WrittenKeepsAgreement
<1>5. platformWrites = 0 => command' \ kPciDmaWritableMask = command \ kPciDmaWritableMask
  <2> SUFFICES ASSUME platformWrites = 0
               PROVE  command' \ kPciDmaWritableMask = command \ kPciDmaWritableMask
    OBVIOUS
  <2>1. command \ kPciDmaWritableMask = value \ kPciDmaWritableMask
    BY <1>3 DEF IInv, UnrelatedInv
  <2> QED
    BY <1>2, <2>1, WrittenKeepsAgreement
<1>6. call' \in Calls /\ call'.pc \in { "readback", "undoReadback" } /\ call'.result = "none"
      /\ call'.op = call.op /\ (call'.pc = "readback" => call.pc = "write")
  BY <1>1 DEF WriteCommand, Calls
<1>7. TypeInv'
  BY <1>1, <1>4, <1>6 DEF IInv, TypeInv
<1>8. (CallInv /\ UnrelatedInv /\ NoChangeInv)'
  BY <1>1, <1>5, <1>6 DEF IInv, CallInv, UnrelatedInv, NoChangeInv, PlanShapeValid
<1>9. ResultIsTrue'
  BY <1>6 DEF ResultIsTrue, SuccessMeansSwitched, FailureMeansRestored
<1> QED
  BY <1>7, <1>8, <1>9 DEF IInv

LEMMA ReadbackInv == IInv /\ Readback => IInv'
<1> SUFFICES ASSUME IInv, Readback PROVE IInv'
  OBVIOUS
<1>1. Unwritten /\ call \in Calls /\ call.pc = "readback" /\ call.op = "apply"
      /\ PlanShapeValid(plan) /\ call.result = "none"
  BY DEF Readback, IInv, CallInv, TypeInv
<1>2. UNCHANGED << command, plan >>
  BY <1>1 DEF Unwritten
<1>3. CASE command = plan.newValue
  <2>1. call' = Return("Success")
    BY <1>3 DEF Readback
  <2>2. call' \in Calls /\ call'.pc = "idle" /\ call'.op = "apply" /\ call'.result = "Success"
    BY <1>1, <2>1 DEF Return, Calls
  <2>3. plan.requestedSetMask \subseteq command
    BY <1>1, <1>3, ShapeFacts
  <2> QED
    BY <1>1, <1>2, <2>2, <2>3, UnwrittenInv DEF SuccessMeansSwitched, FailureMeansRestored
<1>4. CASE command # plan.newValue
  <2>1. call' = [ call EXCEPT !.pc = "undo" ]
    BY <1>4 DEF Readback
  <2>2. call' \in Calls /\ call'.pc = "undo" /\ call'.op = call.op /\ call'.result = "none"
    BY <1>1, <2>1 DEF Calls
  <2> QED
    BY <1>1, <2>2, UnwrittenInv DEF SuccessMeansSwitched, FailureMeansRestored
<1> QED
  BY <1>3, <1>4

LEMMA UndoReadbackInv == IInv /\ UndoReadback => IInv'
<1> SUFFICES ASSUME IInv, UndoReadback PROVE IInv'
  OBVIOUS
<1>1. Unwritten /\ call \in Calls /\ call.pc = "undoReadback" /\ call.result = "none"
      /\ PlanShapeValid(plan)
  BY DEF UndoReadback, IInv, CallInv, TypeInv
<1>2. UNCHANGED << command, plan >>
  BY <1>1 DEF Unwritten
<1>3. CASE command # plan.rollbackValue
  <2>1. call' = Return("Error")
    BY <1>3 DEF UndoReadback
  <2>2. call' \in Calls /\ call'.pc = "idle" /\ call'.op = call.op /\ call'.result = "Error"
    BY <1>1, <2>1 DEF Return, Calls
  <2> QED
    BY <1>1, <2>2, UnwrittenInv DEF SuccessMeansSwitched, FailureMeansRestored
<1>4. CASE command = plan.rollbackValue
  <2>1. call' = Return(IF call.op = "apply" THEN "IOError" ELSE "Success")
    BY <1>4 DEF UndoReadback
  <2>2. call' \in Calls /\ call'.pc = "idle" /\ call'.op = call.op
        /\ call'.result = (IF call.op = "apply" THEN "IOError" ELSE "Success")
    BY <1>1, <2>1 DEF Return, Calls
  <2>3. command = plan.oldValue
    BY <1>1, <1>4, ShapeFacts
  <2> QED
    BY <1>1, <1>2, <1>4, <2>2, <2>3, UnwrittenInv
       DEF SuccessMeansSwitched, FailureMeansRestored
<1> QED
  BY <1>3, <1>4

LEMMA PlatformInv ==
  ASSUME IInv, NEW bit \in PlatformBits, PlatformWrites(bit)
  PROVE  IInv'
<1>1. UNCHANGED << plan, call, calls >> /\ platformWrites' \in Nat /\ platformWrites' # 0
  BY DEF PlatformWrites, IInv, TypeInv
<1>2. { bit } \in SUBSET Bits
  BY DEF PlatformBits, Bits
<1>3. command' \in SUBSET Bits /\ unrelated' \in SUBSET Bits
  BY <1>2, DifferenceType DEF PlatformWrites, IInv, TypeInv
<1>4. TypeInv'
  BY <1>1, <1>3 DEF IInv, TypeInv
<1>5. (CallInv /\ UnrelatedInv /\ NoChangeInv /\ ResultIsTrue)'
  BY <1>1 DEF IInv, CallInv, UnrelatedInv, NoChangeInv, PlanShapeValid, ResultIsTrue,
     SuccessMeansSwitched, FailureMeansRestored
<1> QED
  BY <1>4, <1>5 DEF IInv

LEMMA NextInv == IInv /\ [Next]_vars => IInv'
<1> SUFFICES ASSUME IInv, [Next]_vars PROVE IInv'
  OBVIOUS
<1>1. ASSUME NEW requested \in Requests, Plan(requested) PROVE IInv'
  BY <1>1, PlanInv
<1>2. ASSUME NEW op \in { "apply", "rollback" }, NEW writesEnabled \in BOOLEAN,
             Call(op, writesEnabled)
      PROVE  IInv'
  BY <1>2, CallStepInv
<1>3. CASE Step
  BY <1>3, ObserveForApplyInv, ObserveForRollbackInv, WriteCommandInv, ReadbackInv,
     UndoReadbackInv DEF Step
<1>4. ASSUME NEW bit \in PlatformBits, PlatformWrites(bit) PROVE IInv'
  BY <1>4, PlatformInv
<1>5. CASE UNCHANGED vars
  BY <1>5 DEF vars, IInv, TypeInv, CallInv, UnrelatedInv, NoChangeInv, PlanShapeValid,
     ResultIsTrue, SuccessMeansSwitched, FailureMeansRestored
<1> QED
  BY <1>1, <1>2, <1>3, <1>4, <1>5 DEF Next

LEMMA Invariance == Spec => []IInv
BY InitInv, NextInv, PTL DEF Spec

-----------------------------------------------------------------------------
(***************************************************************************)
(* The results.                                                            *)
(***************************************************************************)

\* No bit outside Memory Space and Bus Master changes, whichever fields of a plan are
\* altered, status included, and whichever bits of a write land
\* (ValidatePciCommandTransition, pci_command.hpp:32-33).
THEOREM CommandKeepsUnrelatedBits == Spec => []UnrelatedBitsPreserved
<1>1. IInv => UnrelatedBitsPreserved
  BY DEF IInv, UnrelatedInv, UnrelatedBitsPreserved
<1> QED
  BY <1>1, Invariance, PTL

\* A call that reports success has switched the register, and an apply that reports
\* kIOReturnIOError has restored it (RTXMacPciCommand.cpp:28-51).  The status of a plan
\* is taken as made: a plan altered to NoChange is reported as applied without a write.
THEOREM CommandResultIsTrue ==
  ASSUME "status" \notin AlteredFields
  PROVE  Spec => []ResultIsTrue
<1>1. IInv => ResultIsTrue
  BY DEF IInv
<1> QED
  BY <1>1, Invariance, PTL

-----------------------------------------------------------------------------
(***************************************************************************)
(* The inductive invariant.                                                *)
(***************************************************************************)

\* BootArmContext, as the set of the records Values describes.
Versions    == {1, 2}
PhaseCounts == {PhaseCount - 1, PhaseCount}
Contexts ==
  [version : Versions, packageDigest : Digests, stagedPackageDigest : Digests,
   livePciIdentity : Identities, packagePciIdentity : Identities,
   effectiveBoundary : Addresses, queueBacking : Addresses, radix3FirmwareRoot : Addresses,
   bootPhaseCount : PhaseCounts, liveBoundaryBound : BOOLEAN, bootSessionReady : BOOLEAN,
   sequencePolicyValid : BOOLEAN, recoveryPolicyValid : BOOLEAN]

\* What CheckContext accepts, read as one condition.
Sound(c) ==
  /\ c.version = kBootArmContractVersion
  /\ c.packageDigest # 0 /\ c.stagedPackageDigest # 0
  /\ c.packageDigest = c.stagedPackageDigest
  /\ c.livePciIdentity # 0 /\ c.packagePciIdentity # 0
  /\ c.livePciIdentity = c.packagePciIdentity
  /\ c.liveBoundaryBound /\ PageAddress(c.effectiveBoundary)
  /\ c.bootSessionReady
  /\ PageAddress(c.queueBacking) /\ PageAddress(c.radix3FirmwareRoot)
  /\ c.bootPhaseCount = PhaseCount
  /\ c.sequencePolicyValid /\ c.recoveryPolicyValid

ArmTypeInv == context \in Contexts

\* The operator holds at most one answer, to the challenge of a context that passed.
AnswerInv ==
  /\ \A a, b \in answer : a = b
  /\ \A a \in answer :
       /\ a.context \in Contexts
       /\ Sound(a.context) /\ a.nonce # 0
       /\ a.digest = Serialized(a.context, a.nonce)

ArmIInv == ArmTypeInv /\ AnswerInv /\ ArmedExactlyWhenAnswered

-----------------------------------------------------------------------------
(***************************************************************************)
(* The functions of boot_arm.cpp.                                          *)
(***************************************************************************)

\* A chain of checks passes exactly if none of its faults is there.
LEMMA FirstFaultNone ==
  ASSUME NEW faults, DOMAIN faults \subseteq Nat,
         \A i \in DOMAIN faults : faults[i][2] => faults[i][1] # "None"
  PROVE  FirstFault(faults) = "None" <=> \A i \in DOMAIN faults : ~faults[i][2]
<1> DEFINE found == {i \in DOMAIN faults : faults[i][2]}
           least == CHOOSE i \in found : \A j \in found : i <= j
<1>1. CASE found = {}
  BY <1>1 DEF FirstFault
<1>2. CASE found # {}
  <2>1. \E i \in found : \A j \in found : i <= j
    <3> DEFINE R == OpToRel(<, Nat)
    <3>1. found \subseteq Nat
      OBVIOUS
    <3>2. IsWellFoundedOn(R, Nat)
      BY NatLessThanWellFounded
    <3>3. \A i, j \in Nat : << i, j >> \in R <=> i < j
      BY DEF OpToRel
    <3> HIDE DEF found, R
    <3>4. PICK i \in found : \A j \in found : ~(<< j, i >> \in R)
      BY <1>2, <3>1, <3>2, WFMin
    <3>5. ASSUME NEW j \in found PROVE i <= j
      <4>1. i \in Nat /\ j \in Nat /\ ~(<< j, i >> \in R)
        BY <3>1, <3>4
      <4>2. ~(j < i)
        BY <3>3, <4>1
      <4> QED
        BY <4>1, <4>2
    <3> QED
      BY <3>5
  <2>2. least \in found
    BY <2>1
  <2>3. FirstFault(faults) = faults[least][1]
    BY <1>2 DEF FirstFault
  <2> QED
    BY <1>2, <2>2, <2>3
<1> QED
  BY <1>1, <1>2

LEMMA CheckContextSound ==
  ASSUME NEW c \in Contexts
  PROVE  CheckContext(c) = "None" <=> Sound(c)
<1> DEFINE f == ContextFaults(c)
<1>1. DOMAIN f = 1..11
  BY DEF ContextFaults
<1>2. /\ f[1] = << "UnsupportedVersion", c.version # kBootArmContractVersion >>
      /\ f[2] = << "PackageDigestMissing", 0 \in {c.packageDigest, c.stagedPackageDigest} >>
      /\ f[3] = << "PackageDigestMismatch", c.packageDigest # c.stagedPackageDigest >>
      /\ f[4] = << "PciIdentityMissing", 0 \in {c.livePciIdentity, c.packagePciIdentity} >>
      /\ f[5] = << "PciIdentityMismatch", c.livePciIdentity # c.packagePciIdentity >>
      /\ f[6] = << "LiveBoundaryNotBound",
                   ~c.liveBoundaryBound \/ ~PageAddress(c.effectiveBoundary) >>
      /\ f[7] = << "BootSessionNotReady", ~c.bootSessionReady >>
      /\ f[8] = << "AddressGraphInvalid",
                   ~PageAddress(c.queueBacking) \/ ~PageAddress(c.radix3FirmwareRoot) >>
      /\ f[9] = << "WrongBootPhaseCount", c.bootPhaseCount # PhaseCount >>
      /\ f[10] = << "SequencePolicyRejected", ~c.sequencePolicyValid >>
      /\ f[11] = << "RecoveryPolicyRejected", ~c.recoveryPolicyValid >>
  BY DEF ContextFaults
<1> HIDE DEF f
<1>3. \A i \in 1..11 : i = 1 \/ i = 2 \/ i = 3 \/ i = 4 \/ i = 5 \/ i = 6 \/ i = 7 \/ i = 8
                       \/ i = 9 \/ i = 10 \/ i = 11
  OBVIOUS
<1>4. \A i \in 1..11 : f[i][1] # "None"
  BY <1>2, <1>3
<1>5. (\A i \in 1..11 : ~f[i][2]) <=>
        /\ ~f[1][2] /\ ~f[2][2] /\ ~f[3][2] /\ ~f[4][2] /\ ~f[5][2] /\ ~f[6][2]
        /\ ~f[7][2] /\ ~f[8][2] /\ ~f[9][2] /\ ~f[10][2] /\ ~f[11][2]
  BY <1>3
<1>6. /\ f[1][2] = (c.version # kBootArmContractVersion)
      /\ f[2][2] = (0 \in {c.packageDigest, c.stagedPackageDigest})
      /\ f[3][2] = (c.packageDigest # c.stagedPackageDigest)
      /\ f[4][2] = (0 \in {c.livePciIdentity, c.packagePciIdentity})
      /\ f[5][2] = (c.livePciIdentity # c.packagePciIdentity)
      /\ f[6][2] = (~c.liveBoundaryBound \/ ~PageAddress(c.effectiveBoundary))
      /\ f[7][2] = (~c.bootSessionReady)
      /\ f[8][2] = (~PageAddress(c.queueBacking) \/ ~PageAddress(c.radix3FirmwareRoot))
      /\ f[9][2] = (c.bootPhaseCount # PhaseCount)
      /\ f[10][2] = (~c.sequencePolicyValid)
      /\ f[11][2] = (~c.recoveryPolicyValid)
  BY <1>2
<1>7. FirstFault(f) = "None" <=> \A i \in 1..11 : ~f[i][2]
  BY <1>1, <1>4, FirstFaultNone
<1> QED
  BY <1>5, <1>6, <1>7 DEF CheckContext, Sound, f

\* BuildBootArmChallenge gives a digest exactly for a sound context and a nonce.
LEMMA ChallengeSound ==
  ASSUME NEW c \in Contexts, NEW n
  PROVE  LET challenge == BuildBootArmChallenge(c, n)
         IN  /\ challenge.valid = (Sound(c) /\ n # 0)
             /\ ~challenge.valid => challenge.failure # "None"
             /\ challenge.digest = IF Sound(c) /\ n # 0 THEN Serialized(c, n) ELSE << >>
<1> DEFINE checked == CheckContext(c)
           f == << << checked, checked # "None" >>, << "NonceMissing", n = 0 >> >>
<1>1. /\ DOMAIN f = 1..2 /\ f[1][1] = checked /\ f[2][1] = "NonceMissing"
      /\ f[1][2] = (checked # "None") /\ f[2][2] = (n = 0)
  OBVIOUS
<1>2. BuildBootArmChallenge(c, n) =
        [valid |-> FirstFault(f) = "None", failure |-> FirstFault(f),
         digest |-> IF FirstFault(f) = "None" THEN Serialized(c, n) ELSE << >>]
  BY DEF BuildBootArmChallenge
<1> HIDE DEF f
<1>3. \A i \in 1..2 : i = 1 \/ i = 2
  OBVIOUS
<1>4. FirstFault(f) = "None" <=> \A i \in 1..2 : ~f[i][2]
  <2>1. \A i \in 1..2 : f[i][2] => f[i][1] # "None"
    BY <1>1, <1>3
  <2> QED
    BY <1>1, <2>1, FirstFaultNone
<1>5. FirstFault(f) = "None" <=> Sound(c) /\ n # 0
  <2>1. (\A i \in 1..2 : ~f[i][2]) <=> ~f[1][2] /\ ~f[2][2]
    BY <1>3
  <2> QED
    BY <1>1, <1>4, <2>1, CheckContextSound
<1>6. /\ BuildBootArmChallenge(c, n).valid = (FirstFault(f) = "None")
      /\ BuildBootArmChallenge(c, n).failure = FirstFault(f)
      /\ BuildBootArmChallenge(c, n).digest =
           IF FirstFault(f) = "None" THEN Serialized(c, n) ELSE << >>
  BY <1>2
<1>7. (FirstFault(f) = "None") = (Sound(c) /\ n # 0)
  BY <1>5
<1> QED
  BY <1>5, <1>6, <1>7

\* CheckBootArmRequest accepts exactly a sound context with both consents and the digest.
LEMMA RequestSound ==
  ASSUME NEW c \in Contexts, NEW n, NEW response, NEW w \in BOOLEAN, NEW k \in BOOLEAN
  PROVE  CheckBootArmRequest(
           [context |-> c, nonce |-> n, challengeResponse |-> response,
            confirmation |-> k, enableExperimentalWrites |-> w]).accepted
         <=> Sound(c) /\ n # 0 /\ w /\ k /\ response = Serialized(c, n)
<1> DEFINE request  == [context |-> c, nonce |-> n, challengeResponse |-> response,
                        confirmation |-> k, enableExperimentalWrites |-> w]
           expected == BuildBootArmChallenge(c, n)
           f == << << expected.failure, ~expected.valid >>,
                   << "ExperimentalWritesNotRequested", ~w >>,
                   << "ConfirmationMismatch", ~k >>,
                   << "ChallengeMismatch", response # expected.digest >> >>
<1>1. CheckBootArmRequest(request).accepted <=> FirstFault(f) = "None"
  BY DEF CheckBootArmRequest
<1>2. /\ expected.valid = (Sound(c) /\ n # 0)
      /\ ~expected.valid => expected.failure # "None"
      /\ expected.digest = IF Sound(c) /\ n # 0 THEN Serialized(c, n) ELSE << >>
  BY ChallengeSound
<1> HIDE DEF expected
<1>3. /\ DOMAIN f = 1..4
      /\ f[1][1] = expected.failure /\ f[1][2] = (~expected.valid)
      /\ f[2][1] # "None" /\ f[2][2] = (~w)
      /\ f[3][1] # "None" /\ f[3][2] = (~k)
      /\ f[4][1] # "None" /\ f[4][2] = (response # expected.digest)
  OBVIOUS
<1> HIDE DEF f
<1>4. \A i \in 1..4 : i = 1 \/ i = 2 \/ i = 3 \/ i = 4
  OBVIOUS
<1>5. FirstFault(f) = "None" <=> \A i \in 1..4 : ~f[i][2]
  <2>1. \A i \in 1..4 : f[i][2] => f[i][1] # "None"
    BY <1>2, <1>3, <1>4
  <2> QED
    BY <1>3, <2>1, FirstFaultNone
<1>6. (\A i \in 1..4 : ~f[i][2]) <=> ~f[1][2] /\ ~f[2][2] /\ ~f[3][2] /\ ~f[4][2]
  BY <1>4
<1>7. FirstFault(f) = "None" <=> expected.valid /\ w /\ k /\ response = expected.digest
  BY <1>2, <1>3, <1>5, <1>6
<1> QED
  BY <1>1, <1>2, <1>7

\* What is hashed tells apart any two sound contexts and any two nonces: the fields left
\* out have one value in a context that passed.
LEMMA SerializedInjective ==
  ASSUME NEW c \in Contexts, NEW d \in Contexts, NEW n, NEW m, Sound(c), Sound(d),
         Serialized(c, n) = Serialized(d, m)
  PROVE  c = d /\ n = m
<1>1. /\ c.version = d.version /\ c.packageDigest = d.packageDigest
      /\ c.livePciIdentity = d.livePciIdentity
      /\ c.packagePciIdentity = d.packagePciIdentity
      /\ c.effectiveBoundary = d.effectiveBoundary /\ c.queueBacking = d.queueBacking
      /\ c.radix3FirmwareRoot = d.radix3FirmwareRoot
      /\ c.bootPhaseCount = d.bootPhaseCount /\ n = m
  BY DEF Serialized
<1>2. /\ c.stagedPackageDigest = d.stagedPackageDigest
      /\ c.liveBoundaryBound = d.liveBoundaryBound
      /\ c.bootSessionReady = d.bootSessionReady
      /\ c.sequencePolicyValid = d.sequencePolicyValid
      /\ c.recoveryPolicyValid = d.recoveryPolicyValid
  <2>1. /\ c.liveBoundaryBound \in BOOLEAN /\ d.liveBoundaryBound \in BOOLEAN
        /\ c.bootSessionReady \in BOOLEAN /\ d.bootSessionReady \in BOOLEAN
        /\ c.sequencePolicyValid \in BOOLEAN /\ d.sequencePolicyValid \in BOOLEAN
        /\ c.recoveryPolicyValid \in BOOLEAN /\ d.recoveryPolicyValid \in BOOLEAN
    BY DEF Contexts
  <2> QED
    BY <1>1, <2>1 DEF Sound
<1> QED
  BY <1>1, <1>2 DEF Contexts

-----------------------------------------------------------------------------
(***************************************************************************)
(* Every step.                                                             *)
(***************************************************************************)

LEMMA ArmInitInv == ArmInit => ArmIInv
<1> SUFFICES ASSUME ArmInit PROVE ArmIInv
  OBVIOUS
<1>1. PICK d \in Digests \ {0}, id \in Identities \ {0}, b \in Addresses :
        context =
          [version |-> kBootArmContractVersion, packageDigest |-> d, stagedPackageDigest |-> d,
           livePciIdentity |-> id, packagePciIdentity |-> id, effectiveBoundary |-> b,
           queueBacking |-> b, radix3FirmwareRoot |-> b, bootPhaseCount |-> PhaseCount,
           liveBoundaryBound |-> TRUE, bootSessionReady |-> TRUE,
           sequencePolicyValid |-> TRUE, recoveryPolicyValid |-> TRUE]
  BY DEF ArmInit
<1>2. kBootArmContractVersion \in Versions /\ PhaseCount \in PhaseCounts /\ d \in Digests
      /\ id \in Identities
  BY DEF kBootArmContractVersion, Versions, PhaseCounts
<1>3. ArmTypeInv
  BY <1>1, <1>2 DEF ArmTypeInv, Contexts
<1>4. AnswerInv /\ ArmedExactlyWhenAnswered
  BY DEF ArmInit, AnswerInv, ArmedExactlyWhenAnswered
<1> QED
  BY <1>3, <1>4 DEF ArmIInv

\* One field of the context takes another of its values.
LEMMA ChangeType ==
  ASSUME NEW c \in Contexts, NEW f \in DOMAIN Values, NEW v \in Values[f]
  PROVE  [c EXCEPT ![f] = v] \in Contexts
<1> DEFINE d == [c EXCEPT ![f] = v]
<1>1. f \in {"version", "packageDigest", "stagedPackageDigest", "livePciIdentity",
             "packagePciIdentity", "effectiveBoundary", "queueBacking",
             "radix3FirmwareRoot", "bootPhaseCount", "liveBoundaryBound",
             "bootSessionReady", "sequencePolicyValid", "recoveryPolicyValid"}
  BY DEF Values
<1>2. CASE f = "version"
  BY <1>2 DEF Values, Contexts, Versions
<1>3. CASE f = "packageDigest"
  BY <1>3 DEF Values, Contexts
<1>4. CASE f = "stagedPackageDigest"
  BY <1>4 DEF Values, Contexts
<1>5. CASE f = "livePciIdentity"
  BY <1>5 DEF Values, Contexts
<1>6. CASE f = "packagePciIdentity"
  BY <1>6 DEF Values, Contexts
<1>7. CASE f = "effectiveBoundary"
  BY <1>7 DEF Values, Contexts
<1>8. CASE f = "queueBacking"
  BY <1>8 DEF Values, Contexts
<1>9. CASE f = "radix3FirmwareRoot"
  BY <1>9 DEF Values, Contexts
<1>10. CASE f = "bootPhaseCount"
  BY <1>10 DEF Values, Contexts, PhaseCounts
<1>11. CASE f = "liveBoundaryBound"
  BY <1>11 DEF Values, Contexts
<1>12. CASE f = "bootSessionReady"
  BY <1>12 DEF Values, Contexts
<1>13. CASE f = "sequencePolicyValid"
  BY <1>13 DEF Values, Contexts
<1>14. CASE f = "recoveryPolicyValid"
  BY <1>14 DEF Values, Contexts
<1> QED
  BY <1>1, <1>2, <1>3, <1>4, <1>5, <1>6, <1>7, <1>8, <1>9, <1>10, <1>11, <1>12, <1>13, <1>14

LEMMA AnswerChallengeInv == ArmIInv /\ AnswerChallenge => ArmIInv'
<1> SUFFICES ASSUME ArmIInv, AnswerChallenge PROVE ArmIInv'
  OBVIOUS
<1>1. /\ BuildBootArmChallenge(context, nonce).valid
      /\ answer' = {[context |-> context, nonce |-> nonce,
                     digest |-> BuildBootArmChallenge(context, nonce).digest]}
      /\ report' = {} /\ context' = context
  BY DEF AnswerChallenge
<1>2. context \in Contexts
  BY DEF ArmIInv, ArmTypeInv
<1>3. /\ Sound(context) /\ nonce # 0
      /\ BuildBootArmChallenge(context, nonce).digest = Serialized(context, nonce)
  BY <1>1, <1>2, ChallengeSound
<1>4. answer' = {[context |-> context, nonce |-> nonce,
                  digest |-> Serialized(context, nonce)]}
  BY <1>1, <1>3
<1>5. AnswerInv'
  BY <1>2, <1>3, <1>4 DEF AnswerInv
<1> QED
  BY <1>1, <1>2, <1>5 DEF ArmIInv, ArmTypeInv, ArmedExactlyWhenAnswered

\* The heart of it: what CheckBootArmRequest says of the answer the operator holds.
LEMMA RequestBootInv == ArmIInv /\ RequestBoot => ArmIInv'
<1> SUFFICES ASSUME ArmIInv, RequestBoot PROVE ArmIInv'
  OBVIOUS
<1>1. PICK w \in BOOLEAN, k \in BOOLEAN, response \in {a.digest : a \in answer} \cup {<< >>} :
        /\ report' = {[writes |-> w, confirmed |-> k, answered |-> response # << >>,
                       result |-> CheckBootArmRequest(
                         [context |-> context, nonce |-> nonce,
                          challengeResponse |-> response, confirmation |-> k,
                          enableExperimentalWrites |-> w])]}
        /\ UNCHANGED << context, nonce, answer, changes >>
  BY DEF RequestBoot
<1> DEFINE result == CheckBootArmRequest(
                       [context |-> context, nonce |-> nonce, challengeResponse |-> response,
                        confirmation |-> k, enableExperimentalWrites |-> w])
<1>2. context \in Contexts
  BY DEF ArmIInv, ArmTypeInv
<1>3. result.accepted <=>
        Sound(context) /\ nonce # 0 /\ w /\ k /\ response = Serialized(context, nonce)
  BY <1>2, RequestSound
<1>4. report' = {[writes |-> w, confirmed |-> k, answered |-> response # << >>,
                  result |-> result]}
  BY <1>1
<1> HIDE DEF result
<1>5. ASSUME result.accepted
      PROVE  response # << >> /\ \E a \in answer : a.context = context /\ a.nonce = nonce
  <2>1. response # << >>
    <3>1. Len(Serialized(context, nonce)) = 9 /\ Len(<< >>) = 0
      BY DEF Serialized
    <3> QED
      BY <1>3, <1>5, <3>1
  <2>2. PICK a \in answer : response = a.digest
    BY <2>1
  <2>3. /\ a.context \in Contexts /\ Sound(a.context)
        /\ a.digest = Serialized(a.context, a.nonce)
    BY DEF ArmIInv, AnswerInv
  <2>4. a.context = context /\ a.nonce = nonce
    BY <1>2, <1>3, <1>5, <2>2, <2>3, SerializedInjective
  <2> QED
    BY <2>1, <2>4
<1>6. ASSUME w, k, response # << >>, NEW a \in answer, a.context = context, a.nonce = nonce
      PROVE  result.accepted
  <2>1. PICK b \in answer : response = b.digest
    BY <1>6
  <2>2. a = b
    BY DEF ArmIInv, AnswerInv
  <2>3. Sound(a.context) /\ a.nonce # 0 /\ a.digest = Serialized(a.context, a.nonce)
    BY DEF ArmIInv, AnswerInv
  <2> QED
    BY <1>3, <1>6, <2>1, <2>2, <2>3
<1>7. ArmedExactlyWhenAnswered'
  <2> SUFFICES ASSUME NEW r \in report'
               PROVE  r.result.accepted <=>
                        /\ r.writes /\ r.confirmed /\ r.answered
                        /\ \E a \in answer : a.context = context /\ a.nonce = nonce
    BY <1>1 DEF ArmedExactlyWhenAnswered
  <2>1. /\ r.result = result /\ r.writes = w /\ r.confirmed = k
        /\ r.answered = (response # << >>)
    BY <1>4
  <2> QED
    BY <1>3, <1>5, <1>6, <2>1
<1>8. ArmTypeInv' /\ AnswerInv'
  BY <1>1 DEF ArmIInv, ArmTypeInv, AnswerInv
<1> QED
  BY <1>7, <1>8 DEF ArmIInv

LEMMA ArmNextInv == ArmIInv /\ [ArmNext]_armVars => ArmIInv'
<1> SUFFICES ASSUME ArmIInv, [ArmNext]_armVars PROVE ArmIInv'
  OBVIOUS
<1>1. CASE ChangeSession
  <2>1. PICK f \in DOMAIN Values : \E v \in Values[f] : context' = [context EXCEPT ![f] = v]
    BY <1>1 DEF ChangeSession
  <2>2. context' \in Contexts
    BY <2>1, ChangeType DEF ArmIInv, ArmTypeInv
  <2> QED
    BY <1>1, <2>2 DEF ChangeSession, ArmIInv, ArmTypeInv, AnswerInv, ArmedExactlyWhenAnswered
<1>2. CASE NewNonce
  BY <1>2 DEF NewNonce, ArmIInv, ArmTypeInv, AnswerInv, ArmedExactlyWhenAnswered
<1>3. CASE AnswerChallenge
  BY <1>3, AnswerChallengeInv
<1>4. CASE RequestBoot
  BY <1>4, RequestBootInv
<1>5. CASE UNCHANGED armVars
  BY <1>5 DEF armVars, ArmIInv, ArmTypeInv, AnswerInv, ArmedExactlyWhenAnswered
<1> QED
  BY <1>1, <1>2, <1>3, <1>4, <1>5 DEF ArmNext

\* CheckBootArmRequest accepts exactly a request with both consents and the operator's
\* answer to the challenge of this nonce and of the session as it is now, whatever changed
\* between the answer and the request.
THEOREM ArmedWhenAnswered == ArmSpec => []ArmedExactlyWhenAnswered
<1>1. ArmSpec => []ArmIInv
  BY ArmInitInv, ArmNextInv, PTL DEF ArmSpec
<1>2. ArmIInv => ArmedExactlyWhenAnswered
  BY DEF ArmIInv
<1> QED
  BY <1>1, <1>2, PTL

-----------------------------------------------------------------------------
\* The composed caller is a caller of both gates, so that the theorems above hold
\* of it too.
LEMMA GateUsesBoth == GateSpec => Spec /\ ArmSpec
<1>1. GateInit => Init /\ ArmInit
  BY DEF GateInit
<1>2. [GateNext]_gateVars => [Next]_vars
  BY DEF GateNext, BeginBoot, gateVars
<1>3. [GateNext]_gateVars => [ArmNext]_armVars
  BY DEF GateNext, BeginBoot, gateVars
<1> QED
  BY <1>1, <1>2, <1>3, PTL DEF GateSpec, Spec, ArmSpec

=============================================================================
