-------------------------- MODULE BootPhaseProofs --------------------------
(***************************************************************************)
(* Proofs about a boot attempt driven by the phase executor, for every     *)
(* transfer size, poll time-out, reset delay and wait budget: the safety   *)
(* invariants and action properties of BootPhase.  The last part is about  *)
(* BootAttempt with any caller in the executor's place.                    *)
(***************************************************************************)
EXTENDS BootPhase, SequenceTheorems, TLAPS

-----------------------------------------------------------------------------
(***************************************************************************)
(* The inductive invariant.                                                *)
(***************************************************************************)

QuietStates == { "Cold", "Rejected", "FailedColdReversible", "Ready", "ResetRecovered" }

\* What the orchestrator's fields say of each other.
AttemptInv ==
  /\ state = "Ready" => nextPhaseIndex = 0
  /\ nextPhaseIndex >= 2 => firstResetCommitCrossed
  /\ Attempt!Runnable => nextPhaseIndex < PhaseCount
  /\ state = "Succeeded" => nextPhaseIndex = PhaseCount
  /\ Attempt!Runnable => recovery = Attempt!NoRecovery
  /\ firstResetCommitCrossed =>
       /\ state # "FailedColdReversible"
       /\ ~recovery.mayRetryBootstrap /\ ~recovery.mayReleaseDmaBuffers

\* What the executor's locals say of the phase: an action list begins with a
\* write, so a list that was finished has reported hardwareActionsStarted.
ExecInv ==
  /\ exec.pc = "idle" => exec = Idle
  /\ exec.pc # "idle" => Attempt!Runnable
  /\ exec.pc # "idle" /\ HasActions(Phase) => exec.writesEnabled
  /\ exec.started => HasActions(Phase)
  /\ exec.skipping => exec.index > 1
  /\ exec.pc = "actions" /\ HasActions(Phase) /\ exec.index > 1 => exec.started
  /\ exec.pc = "check" => ~HasActions(Phase)
  /\ exec.pc = "record" /\ exec.succeeded => (HasActions(Phase) <=> exec.started)
  /\ exec.pc = "record" /\ exec.succeeded /\ nextPhaseIndex = 3 => gpu.wpr2

\* What both say of the GPU and of the reset.
GpuInv ==
  /\ gpu.fwsec => gpu.driven
  /\ gpu.driven => firstResetCommitCrossed \/ exec.started
  /\ exec.started => gpu.driven
  /\ state \in QuietStates => ~gpu.driven
  /\ state \in { "Ready", "ResetRecovered" } => ~gpu.wpr2
  /\ resetResult = "issued" => ~gpu.driven /\ ~Attempt!Runnable
  /\ Attempt!Runnable \/ state = "Succeeded" =>
       /\ nextPhaseIndex >= 2 => gpu.driven
       /\ nextPhaseIndex >= 4 => gpu.wpr2

DmaInv ==
  /\ Attempt!Runnable => dmaPrepared
  /\ gpu.driven => dmaPrepared

IInv == TypeOK /\ AttemptInv /\ ExecInv /\ GpuInv /\ DmaInv

-----------------------------------------------------------------------------
(***************************************************************************)
(* Facts about the phase table and the action lists.                       *)
(***************************************************************************)

WriteKinds == { "Write32", "MaskedWrite", "StartCpuRespectAlias" }

\* The phases at the indices the invariant names (kExpectedPhases).
LEMMA PhaseTable ==
  /\ PhaseAt(0) = "PrefillBootstrapRpcRecords"
  /\ PhaseAt(1) = "ResetGspForFrts"
  /\ PhaseAt(3) = "VerifyWpr2"
  /\ \A i \in 0..11 : i # 3 => PhaseAt(i) # "VerifyWpr2"
  /\ \A i \in 2..11 : PhaseAt(i) \notin { "PrefillBootstrapRpcRecords", "ResetGspForFrts" }
  /\ ~HasActions(PhaseAt(0)) /\ HasActions(PhaseAt(1)) /\ ~HasActions(PhaseAt(3))
BY DEF PhaseAt, kExpectedPhases, HasActions, CheckOnlyPhases

\* The instance of the orchestrator uses the same phase table.
LEMMA AttemptTable ==
  /\ \A i : Attempt!PhaseAt(i) = PhaseAt(i)
  /\ \A p : Attempt!HasActions(p) <=> HasActions(p)
  /\ Attempt!PhaseCount = 12 /\ PhaseCount = 12
BY DEF Attempt!PhaseAt, PhaseAt, Attempt!kExpectedPhases, kExpectedPhases,
   Attempt!HasActions, HasActions, Attempt!CheckOnlyPhases, CheckOnlyPhases,
   Attempt!PhaseCount, PhaseCount

\* A sequence that starts with a given action still does when more is appended.
LEMMA FirstOfConcat ==
  ASSUME NEW S, NEW s \in Seq(S), NEW t \in Seq(S), s # << >>
  PROVE  /\ s \o t \in Seq(S)
         /\ (s \o t)[1] = s[1]
         /\ Len(s \o t) >= 1
OBVIOUS

Acts == { Act(kind, reg) : kind \in ActionKinds, reg \in Registers }

\* The constructors build actions.
LEMMA ActTypes ==
  ASSUME NEW reg \in Registers
  PROVE  /\ \A kind \in ActionKinds : Act(kind, reg) \in Acts
         /\ Write(reg) \in Acts /\ Masked(reg) \in Acts /\ Poll(reg) \in Acts
<1>1. \A kind \in ActionKinds : Act(kind, reg) \in Acts
  BY DEF Acts
<1>2. { "Write32", "MaskedWrite", "PollMaskEqual" } \subseteq ActionKinds
  BY DEF ActionKinds
<1> QED
  BY <1>1, <1>2 DEF Write, Masked, Poll

\* AddDma is an action list for every number of transfers.
LEMMA AddDmaType == AddDma \in Seq(Acts)
<1> DEFINE a == Poll("DmaCmd")
           b == Write("DmaMemOffset")
           c == Write("DmaFbOffset")
           d == Write("DmaCmd")
           e == Write("DmaBase")
           f == Write("DmaBase1")
           block == << a, b, c, d >>
           transfers == [ k \in 1..(4 * TransferBlocks) |-> block[((k - 1) % 4) + 1] ]
<1>0. a \in Acts /\ b \in Acts /\ c \in Acts /\ d \in Acts /\ e \in Acts /\ f \in Acts
  BY ActTypes DEF Registers
<1>a. AddDma = << a, e, f >> \o transfers \o << a >>
  BY DEF AddDma, TransferBlock
<1> HIDE DEF a, b, c, d, e, f
<1>1. transfers \in Seq(Acts)
  <2>1. ASSUME NEW k \in 1..(4 * TransferBlocks)
        PROVE  block[((k - 1) % 4) + 1] \in Acts
    <3>1. ((k - 1) % 4) + 1 \in { 1, 2, 3, 4 }
      BY TransferBlocksAssumption
    <3> QED
      BY <1>0, <3>1
  <2>2. 4 * TransferBlocks \in Nat
    BY TransferBlocksAssumption
  <2> QED
    BY <2>1, <2>2
<1>2. << a, e, f >> \in Seq(Acts) /\ << a >> \in Seq(Acts)
  BY <1>0
<1> HIDE DEF transfers
<1> QED
  BY <1>a, <1>1, <1>2

StartsWithWrite(list) ==
  list \in Seq(Acts) /\ Len(list) >= 1 /\ list[1].kind \in WriteKinds

\* Both shapes of an engine reset begin with a masked write.
LEMMA PlanResetStarts ==
  ASSUME NEW bootRiscv \in BOOLEAN
  PROVE  StartsWithWrite(PlanReset(bootRiscv))
<1> DEFINE m  == Masked("EngineReset")
           dl == Act("DelayMilliseconds", "None")
           p  == Poll("Hwcfg2")
           b  == Masked("RiscvBcrCtrl")
           q  == Poll("RiscvBcrCtrl")
           ib == Act("IfMaskEqualBegin", "Hwcfg2")
           w  == Write("FalconRm")
           ei == Act("EndIf", "None")
           head == << m, dl, m, p >>
           tail == IF bootRiscv THEN << b >> ELSE << ib, b, q, w, ei >>
<1>1. PlanReset(bootRiscv) = head \o tail
  BY DEF PlanReset
<1>2. m.kind \in WriteKinds
  BY DEF Masked, Act, WriteKinds
<1>3. /\ m \in Acts /\ p \in Acts /\ b \in Acts /\ q \in Acts /\ w \in Acts
      /\ dl \in Acts /\ ib \in Acts /\ ei \in Acts
  BY ActTypes DEF Registers, ActionKinds
<1> HIDE DEF m, dl, p, b, q, ib, w, ei
<1>4. head \in Seq(Acts) /\ head # << >> /\ head[1] = m
  BY <1>3
<1>5. tail \in Seq(Acts)
  BY <1>3
<1> HIDE DEF head, tail
<1> QED
  BY <1>1, <1>2, <1>4, <1>5, FirstOfConcat DEF StartsWithWrite

\* An authenticated execution begins with a masked write, however much it loads.
LEMMA PlanExecutionStarts ==
  ASSUME NEW hasMailbox \in BOOLEAN
  PROVE  StartsWithWrite(PlanAuthenticatedExecution(hasMailbox))
<1> DEFINE m1 == Masked("FbifCtl")
           w1 == Write("DmaCtl")
           m2 == Masked("FbifTransCfg0")
           w2 == Write("BromParaAddr0")
           w3 == Write("BromEngineIdMask")
           w4 == Write("BromUcodeId")
           m3 == Masked("BromModSel")
           w5 == Write("BootVec")
           x0 == Write("Mailbox0")
           x1 == Write("Mailbox1")
           sc == Act("StartCpuRespectAlias", "CpuCtl")
           p  == Poll("CpuCtl")
           head == << m1, w1, m2 >>
           brom == << w2, w3, w4, m3, w5 >>
           mail == IF hasMailbox THEN << x0, x1 >> ELSE << >>
           last == << sc, p >>
<1>1. PlanAuthenticatedExecution(hasMailbox) =
        head \o AddDma \o AddDma \o brom \o mail \o last
  BY DEF PlanAuthenticatedExecution
<1>2. m1.kind \in WriteKinds
  BY DEF Masked, Act, WriteKinds
<1>3. /\ m1 \in Acts /\ w1 \in Acts /\ m2 \in Acts /\ w2 \in Acts /\ w3 \in Acts
      /\ w4 \in Acts /\ m3 \in Acts /\ w5 \in Acts /\ x0 \in Acts /\ x1 \in Acts
      /\ sc \in Acts /\ p \in Acts
  BY ActTypes DEF Registers, ActionKinds
<1> HIDE DEF m1, w1, m2, w2, w3, w4, m3, w5, x0, x1, sc, p
<1>4. head \in Seq(Acts) /\ head # << >> /\ head[1] = m1
  BY <1>3
<1>5. brom \in Seq(Acts) /\ mail \in Seq(Acts) /\ last \in Seq(Acts)
  BY <1>3
<1> HIDE DEF head, brom, mail, last
<1>6. StartsWithWrite(head)
  BY <1>2, <1>4 DEF StartsWithWrite
<1>7. ASSUME NEW s, NEW t \in Seq(Acts), StartsWithWrite(s)
      PROVE  StartsWithWrite(s \o t)
  BY <1>7, FirstOfConcat DEF StartsWithWrite
<1>8. StartsWithWrite(head \o AddDma)
  BY <1>6, <1>7, AddDmaType
<1>9. StartsWithWrite(head \o AddDma \o AddDma)
  BY <1>7, <1>8, AddDmaType
<1>10. StartsWithWrite(head \o AddDma \o AddDma \o brom)
  BY <1>5, <1>7, <1>9
<1>11. StartsWithWrite(head \o AddDma \o AddDma \o brom \o mail)
  BY <1>5, <1>7, <1>10
<1> QED
  BY <1>1, <1>5, <1>7, <1>11

\* Every action list of the audited sequence begins with a write, and the phases
\* without actions have none.
LEMMA ActionLists ==
  ASSUME NEW i \in 0..11
  PROVE  /\ HasActions(PhaseAt(i)) => StartsWithWrite(PhaseActions(PhaseAt(i)))
         /\ ~HasActions(PhaseAt(i)) => PhaseActions(PhaseAt(i)) = << >>
<1> DEFINE phase == PhaseAt(i)
<1>1. phase \in { kExpectedPhases[k] : k \in 1..12 }
  BY DEF PhaseAt
<1>2. CASE ~HasActions(phase)
  BY <1>2 DEF HasActions, CheckOnlyPhases, PhaseActions
<1>3. CASE phase \in { "ResetGspForFrts", "ResetSec2" }
  BY <1>3, PlanResetStarts DEF PhaseActions, HasActions, CheckOnlyPhases
<1>4. CASE phase = "ResetGspForRiscv"
  BY <1>4, PlanResetStarts DEF PhaseActions, HasActions, CheckOnlyPhases
<1>5. CASE phase = "ExecuteFrtsFwsec"
  BY <1>5, PlanExecutionStarts DEF PhaseActions, HasActions, CheckOnlyPhases
<1>6. CASE phase = "ExecuteSec2Booter"
  BY <1>6, PlanExecutionStarts DEF PhaseActions, HasActions, CheckOnlyPhases
<1>7. CASE phase = "ProgramLibosMailbox"
  <2> DEFINE a == Write("Mailbox0")
             b == Write("Mailbox1")
  <2>1. a \in Acts /\ b \in Acts
    BY ActTypes DEF Registers
  <2>2. a.kind \in WriteKinds
    BY DEF Write, Act, WriteKinds
  <2>3. PhaseActions(phase) = << a, b >>
    BY <1>7 DEF PhaseActions
  <2> HIDE DEF a, b
  <2>4. << a, b >> \in Seq(Acts) /\ Len(<< a, b >>) >= 1 /\ << a, b >>[1] = a
    BY <2>1
  <2>5. HasActions(phase)
    BY <1>7 DEF HasActions, CheckOnlyPhases
  <2> QED
    BY <2>2, <2>3, <2>4, <2>5 DEF StartsWithWrite
<1>8. CASE phase = "ReleaseGspRiscv"
  <2> DEFINE a == Write("FalconOs")
  <2>1. a \in Acts
    BY ActTypes DEF Registers
  <2>2. a.kind \in WriteKinds
    BY DEF Write, Act, WriteKinds
  <2>3. PhaseActions(phase) = << a >>
    BY <1>8 DEF PhaseActions
  <2> HIDE DEF a
  <2>4. << a >> \in Seq(Acts) /\ Len(<< a >>) >= 1 /\ << a >>[1] = a
    BY <2>1
  <2>5. HasActions(phase)
    BY <1>8 DEF HasActions, CheckOnlyPhases
  <2> QED
    BY <2>2, <2>3, <2>4, <2>5 DEF StartsWithWrite
<1> QED
  BY <1>1, <1>2, <1>3, <1>4, <1>5, <1>6, <1>7, <1>8
     DEF kExpectedPhases, HasActions, CheckOnlyPhases

-----------------------------------------------------------------------------
(***************************************************************************)
(* What the orchestrator does with a result the executor reports.          *)
(***************************************************************************)

\* A failure is cold only before the first write of the first reset.
IsCold(i, started) == (i = 0 \/ (i = 1 /\ ~started)) /\ ~firstResetCommitCrossed

\* The recovery RecordBootPhaseResult stores for a failed phase.
LEMMA FailureClass ==
  ASSUME NEW i \in 0..11, NEW started \in BOOLEAN, NEW crossed \in BOOLEAN
  PROVE  /\ Attempt!FailureRecovery(PhaseAt(i), started, crossed) =
              IF (i = 0 \/ (i = 1 /\ ~started)) /\ ~crossed
              THEN Attempt!ColdReversible ELSE Attempt!FullResetRequired
         /\ Attempt!FullResetRequired.fullGpuResetRequired
         /\ ~Attempt!ColdReversible.fullGpuResetRequired
<1>1. ASSUME NEW phase, NEW s \in BOOLEAN
      PROVE  Attempt!RecoveryForBootFailure(phase, s) =
               IF \/ phase = "PrefillBootstrapRpcRecords"
                  \/ phase = "ResetGspForFrts" /\ ~s
               THEN Attempt!ColdReversible ELSE Attempt!FullResetRequired
  BY DEF Attempt!RecoveryForBootFailure
<1>2. Attempt!RecoveryForBootFailure(PhaseAt(i), started) =
        IF i = 0 \/ (i = 1 /\ ~started)
        THEN Attempt!ColdReversible ELSE Attempt!FullResetRequired
  <2>1. CASE i = 0
    BY <1>1, <2>1, PhaseTable
  <2>2. CASE i = 1
    BY <1>1, <2>2, PhaseTable
  <2>3. CASE i \in 2..11
    BY <1>1, <2>3, PhaseTable
  <2> QED
    BY <2>1, <2>2, <2>3
<1>3. Attempt!RecoveryForBootFailure("ResetGspForFrts", TRUE) = Attempt!FullResetRequired
  BY <1>1
<1>4. /\ Attempt!FullResetRequired.fullGpuResetRequired
      /\ ~Attempt!ColdReversible.fullGpuResetRequired
  BY DEF Attempt!FullResetRequired, Attempt!ColdReversible, Attempt!Recovery
<1> QED
  BY <1>2, <1>3, <1>4 DEF Attempt!FailureRecovery

\* Only a cold failure permits a retry or the release of the buffers.
LEMMA RecoveryFlags ==
  /\ ~Attempt!NoRecovery.mayRetryBootstrap /\ ~Attempt!NoRecovery.mayReleaseDmaBuffers
  /\ ~Attempt!FullResetRequired.mayRetryBootstrap
  /\ ~Attempt!FullResetRequired.mayReleaseDmaBuffers
BY DEF Attempt!NoRecovery, Attempt!FullResetRequired, Attempt!Recovery

\* A result whose flags agree with the phase is always accepted, and this is what
\* it does to the attempt (boot_orchestrator.cpp, RecordBootPhaseResult).
LEMMA RecordEffect ==
  ASSUME NEW succeeded \in BOOLEAN, NEW started \in BOOLEAN,
         Attempt!Runnable, nextPhaseIndex \in 0..11, firstResetCommitCrossed \in BOOLEAN,
         started => HasActions(Phase),
         succeeded => (HasActions(Phase) <=> started),
         Attempt!RecordBootPhaseResult(nextPhaseIndex, TRUE, succeeded, started)
  PROVE  /\ event' = "Ok" /\ resetPostcheck' = resetPostcheck
         /\ firstResetCommitCrossed' =
              (firstResetCommitCrossed \/ (nextPhaseIndex = 1 /\ started))
         /\ succeeded =>
              /\ nextPhaseIndex' = nextPhaseIndex + 1
              /\ recovery' = recovery
              /\ state' = IF nextPhaseIndex = 11 THEN "Succeeded" ELSE "Running"
         /\ ~succeeded =>
              /\ nextPhaseIndex' = nextPhaseIndex
              /\ recovery' = IF IsCold(nextPhaseIndex, started)
                             THEN Attempt!ColdReversible ELSE Attempt!FullResetRequired
              /\ state' = IF IsCold(nextPhaseIndex, started)
                          THEN "FailedColdReversible" ELSE "FailedNeedsGpuReset"
<1> DEFINE i       == nextPhaseIndex
           crossed == firstResetCommitCrossed \/ (i = 1 /\ started)
           status  == Attempt!PhaseResultStatus(i, TRUE, succeeded, started)
           failure == Attempt!FailureRecovery(PhaseAt(i), started, crossed)
<1>1. status = "Ok"
  <2>1. ~(i >= Attempt!PhaseCount)
    BY AttemptTable
  <2>2. Attempt!HasActions(Attempt!PhaseAt(i)) <=> HasActions(Phase)
    BY AttemptTable, Zenon DEF Phase
  <2>3. /\ ~(succeeded /\ Attempt!HasActions(Attempt!PhaseAt(i)) # started)
        /\ ~(~Attempt!HasActions(Attempt!PhaseAt(i)) /\ started)
    BY <2>2 DEF Attempt!HasActions
  <2> QED
    BY <2>1, <2>3, Zenon DEF Attempt!PhaseResultStatus
<1>2. (firstResetCommitCrossed \/ (PhaseAt(i) = "ResetGspForFrts" /\ started)) = crossed
  BY PhaseTable
<1>3. /\ event' = status /\ resetPostcheck' = resetPostcheck
      /\ firstResetCommitCrossed' = crossed
      /\ nextPhaseIndex' = Attempt!IndexAfter(succeeded)
      /\ succeeded => /\ recovery' = recovery
                      /\ state' = IF nextPhaseIndex' = 12 THEN "Succeeded" ELSE "Running"
      /\ ~succeeded => /\ recovery' = failure
                       /\ state' = IF failure.fullGpuResetRequired
                                   THEN "FailedNeedsGpuReset" ELSE "FailedColdReversible"
  <2>1. /\ Attempt!PhaseAt(i) = PhaseAt(i) /\ Attempt!PhaseCount = 12
    BY AttemptTable
  <2> HIDE DEF status
  <2> QED
    BY <1>1, <1>2, <2>1, Zenon
       DEF Attempt!RecordBootPhaseResult, Attempt!CommitCrossed, status
<1>4. nextPhaseIndex' = IF succeeded THEN i + 1 ELSE i
  BY <1>3 DEF Attempt!IndexAfter
<1>5. crossed \in BOOLEAN
  OBVIOUS
<1>6. failure = IF IsCold(i, started)
                THEN Attempt!ColdReversible ELSE Attempt!FullResetRequired
  BY <1>5, FailureClass DEF IsCold
<1>7. /\ Attempt!FullResetRequired.fullGpuResetRequired
      /\ ~Attempt!ColdReversible.fullGpuResetRequired
  BY FailureClass
<1> HIDE DEF failure, crossed, status
<1>8. ASSUME succeeded
      PROVE  /\ nextPhaseIndex' = i + 1 /\ recovery' = recovery
             /\ state' = IF i = 11 THEN "Succeeded" ELSE "Running"
  BY <1>3, <1>4, <1>8
<1>9. ASSUME ~succeeded
      PROVE  /\ nextPhaseIndex' = i
             /\ recovery' = IF IsCold(i, started)
                            THEN Attempt!ColdReversible ELSE Attempt!FullResetRequired
             /\ state' = IF IsCold(i, started)
                         THEN "FailedColdReversible" ELSE "FailedNeedsGpuReset"
  BY <1>3, <1>4, <1>6, <1>7, <1>9
<1> QED
  BY <1>1, <1>3, <1>8, <1>9 DEF crossed

-----------------------------------------------------------------------------
(***************************************************************************)
(* Every step keeps the invariant: first the steps of the executor that    *)
(* change nothing but its locals.                                          *)
(***************************************************************************)

\* While the executor runs the index names one of the twelve phases.
LEMMA RunningIndex ==
  ASSUME IInv, exec.pc # "idle"
  PROVE  nextPhaseIndex \in 0..11
BY AttemptTable DEF IInv, TypeOK, Attempt!TypeOK, AttemptInv, ExecInv

\* Only a phase with actions has a current one, and its first one is a write.
LEMMA CurrentAction ==
  ASSUME IInv, exec.pc = "actions", exec.index <= Len(Actions)
  PROVE  /\ HasActions(Phase)
         /\ exec.index = 1 => Action.kind \in WriteKinds
<1>1. nextPhaseIndex \in 0..11 /\ exec.index \in Nat \ { 0 }
  BY RunningIndex DEF IInv, TypeOK, Execs
<1>2. HasActions(Phase)
  BY <1>1, ActionLists DEF Phase, Actions
<1> QED
  BY <1>1, <1>2, ActionLists DEF Phase, Actions, Action, StartsWithWrite

\* A step that changes only executor locals other than "started".
LEMMA LocalStep ==
  ASSUME IInv, UNCHANGED << attemptVars, gpu, resetResult, dmaPrepared >>,
         exec' \in Execs, exec'.started = exec.started, ExecInv'
  PROVE  IInv'
<1>1. TypeOK'
  BY DEF IInv, TypeOK, Attempt!TypeOK, attemptVars
<1>2. AttemptInv'
  BY DEF IInv, AttemptInv, Attempt!Runnable, attemptVars
<1>3. GpuInv'
  BY DEF IInv, GpuInv, Attempt!Runnable, attemptVars
<1>4. DmaInv'
  BY DEF IInv, DmaInv, Attempt!Runnable, attemptVars
<1> QED
  BY <1>1, <1>2, <1>3, <1>4 DEF IInv

\* Leaving the phase body on a failure.
LEMMA FailBodyIInv ==
  ASSUME IInv, exec.pc # "idle", EndBody(FALSE),
         UNCHANGED << attemptVars, gpu, resetResult, dmaPrepared >>
  PROVE  IInv'
<1>1. exec' \in Execs /\ exec'.started = exec.started
  BY DEF IInv, TypeOK, Execs, EndBody
<1>2. ExecInv'
  BY DEF IInv, TypeOK, Execs, ExecInv, EndBody, Phase, attemptVars, Attempt!Runnable
<1> QED
  BY <1>1, <1>2, LocalStep

\* Moving on to the next action without a write.
LEMMA NextActionIInv ==
  ASSUME IInv, exec.pc = "actions", exec.index <= Len(Actions),
         exec.index > 1 \/ Action.kind \notin WriteKinds,
         NEW skipping \in BOOLEAN, NEW wait \in 0..MaxPhaseWait,
         NEW actionWait \in 0..PollTimeout,
         exec' = [ exec EXCEPT !.index = @ + 1, !.skipping = skipping, !.wait = wait,
                               !.actionWait = actionWait ],
         UNCHANGED << attemptVars, gpu, resetResult, dmaPrepared >>
  PROVE  IInv'
<1>0. exec \in Execs
  BY DEF IInv, TypeOK
<1>a. exec.index + 1 \in Nat \ { 0 }
  BY <1>0 DEF Execs
<1>1. exec' \in Execs /\ exec'.started = exec.started
  BY <1>0, <1>a DEF Execs
<1>2. exec.started /\ HasActions(Phase)
  BY <1>0, CurrentAction DEF IInv, ExecInv, Execs
<1>3. /\ exec'.pc = "actions" /\ exec'.index > 1 /\ exec'.started
  BY <1>0, <1>2 DEF Execs
<1>4. Phase' = Phase /\ (Attempt!Runnable)' = Attempt!Runnable
  BY DEF Phase, attemptVars, Attempt!Runnable
<1>5. ExecInv'
  BY <1>2, <1>3, <1>4 DEF IInv, ExecInv
<1> QED
  BY <1>1, <1>5, LocalStep

\* Stepping over the body of an If, a satisfied poll, a delay, an If and its end.
LEMMA SkipIInv == ASSUME IInv, SkipAction PROVE IInv'
<1>1. exec \in Execs /\ exec.skipping /\ exec.index > 1
  BY DEF IInv, TypeOK, ExecInv, SkipAction
<1>2. exec' = [ exec EXCEPT !.index = @ + 1, !.skipping = TRUE, !.wait = exec.wait,
                            !.actionWait = 0 ]
  BY <1>1 DEF SkipAction, NextAction, Execs
<1>3. exec.wait \in 0..MaxPhaseWait /\ 0 \in 0..PollTimeout
  BY <1>1, WaitAssumption DEF Execs
<1> QED
  BY <1>1, <1>2, <1>3, NextActionIInv DEF SkipAction

LEMMA PollSatisfiedIInv == ASSUME IInv, PollSatisfied PROVE IInv'
<1>1. exec \in Execs /\ exec.pc = "actions" /\ exec.index <= Len(Actions)
  BY DEF IInv, TypeOK, PollSatisfied, InAction
<1>2. exec' = [ exec EXCEPT !.index = @ + 1, !.skipping = exec.skipping, !.wait = exec.wait,
                            !.actionWait = 0 ]
  BY <1>1 DEF PollSatisfied, NextAction, Execs
<1>3. /\ exec.wait \in 0..MaxPhaseWait /\ 0 \in 0..PollTimeout
      /\ exec.skipping \in BOOLEAN
  BY <1>1, WaitAssumption DEF Execs
<1>4. Action.kind \notin WriteKinds
  BY DEF PollSatisfied, InAction, WriteKinds
<1> QED
  BY <1>1, <1>2, <1>3, <1>4, NextActionIInv DEF PollSatisfied, InAction

LEMMA DelayIInv == ASSUME IInv, Delay PROVE IInv'
<1>1. exec \in Execs /\ exec.pc = "actions" /\ exec.index <= Len(Actions)
  BY DEF IInv, TypeOK, Delay, InAction
<1>2. CASE CanConsumeWait(exec.wait, ResetDelay, MaxPhaseWait)
  <2>1. exec' = [ exec EXCEPT !.index = @ + 1, !.skipping = exec.skipping,
                              !.wait = exec.wait + ResetDelay,
                              !.actionWait = exec.actionWait ]
    BY <1>1, <1>2 DEF Delay, Execs
  <2>2. /\ exec.wait + ResetDelay \in 0..MaxPhaseWait
        /\ exec.actionWait \in 0..PollTimeout
        /\ exec.skipping \in BOOLEAN
    BY <1>1, <1>2, WaitAssumption DEF Execs, CanConsumeWait
  <2>3. Action.kind \notin WriteKinds
    BY DEF Delay, InAction, WriteKinds
  <2> QED
    BY <1>1, <2>1, <2>2, <2>3, NextActionIInv DEF Delay, InAction
<1>3. CASE ~CanConsumeWait(exec.wait, ResetDelay, MaxPhaseWait)
  BY <1>1, <1>3, FailBodyIInv DEF Delay, InAction
<1> QED
  BY <1>2, <1>3

LEMMA IfIInv == ASSUME IInv, BeginIf \/ EndIf PROVE IInv'
<1>1. exec \in Execs /\ exec.pc = "actions" /\ exec.index <= Len(Actions)
  BY DEF IInv, TypeOK, BeginIf, EndIf, InAction
<1>2. PICK skipping \in BOOLEAN :
        exec' = [ exec EXCEPT !.index = @ + 1, !.skipping = skipping ]
  BY DEF BeginIf, EndIf
<1>3. exec' = [ exec EXCEPT !.index = @ + 1, !.skipping = skipping, !.wait = exec.wait,
                            !.actionWait = exec.actionWait ]
  BY <1>1, <1>2 DEF Execs
<1>4. exec.wait \in 0..MaxPhaseWait /\ exec.actionWait \in 0..PollTimeout
  BY <1>1 DEF Execs
<1>5. Action.kind \notin WriteKinds
  BY DEF BeginIf, EndIf, InAction, WriteKinds
<1> QED
  BY <1>1, <1>3, <1>4, <1>5, NextActionIInv DEF BeginIf, EndIf, InAction

\* One more millisecond in a poll: the budget was tested before the sleep.
LEMMA PollAgainIInv == ASSUME IInv, PollAgain PROVE IInv'
<1>1. exec \in Execs /\ exec.pc = "actions"
  BY DEF IInv, TypeOK, PollAgain, InAction
<1>2. exec.wait + 1 \in 0..MaxPhaseWait /\ exec.actionWait + 1 \in 0..PollTimeout
  BY <1>1, WaitAssumption DEF PollAgain, CanConsumeWait, Execs
<1>3. exec' \in Execs /\ exec'.started = exec.started
  BY <1>1, <1>2 DEF PollAgain, Execs
<1>4. /\ exec'.pc = "actions" /\ exec'.index = exec.index
      /\ exec'.skipping = exec.skipping /\ exec'.writesEnabled = exec.writesEnabled
  BY <1>1 DEF PollAgain, Execs
<1>5. Phase' = Phase /\ (Attempt!Runnable)' = Attempt!Runnable
  BY DEF PollAgain, InAction, Phase, attemptVars, Attempt!Runnable
<1>6. ExecInv'
  BY <1>1, <1>3, <1>4, <1>5 DEF IInv, ExecInv
<1> QED
  BY <1>3, <1>6, LocalStep DEF PollAgain, InAction

\* A register that cannot be mapped and a poll that times out end the body.
LEMMA ActionFailsIInv == ASSUME IInv, RegisterUnavailable \/ PollTimesOut PROVE IInv'
BY FailBodyIInv DEF RegisterUnavailable, PollTimesOut, InAction

\* A finished action list has started hardware actions exactly if it has any.
LEMMA EnterChecksIInv == ASSUME IInv, EnterChecks PROVE IInv'
<1>1. exec \in Execs /\ exec.pc = "actions" /\ exec.index > Len(Actions)
  BY DEF IInv, TypeOK, EnterChecks
<1>2. nextPhaseIndex \in 0..11
  BY <1>1, RunningIndex
<1>3. HasActions(Phase) <=> exec.started
  <2>1. HasActions(Phase) => exec.index > 1
    <3>1. HasActions(Phase) => Actions \in Seq(Acts) /\ Len(Actions) >= 1
      BY <1>2, ActionLists DEF Phase, Actions, StartsWithWrite
    <3>2. HasActions(Phase) => Len(Actions) \in Nat
      BY <3>1
    <3> QED
      BY <1>1, <3>1, <3>2 DEF Execs
  <2> QED
    BY <1>1, <2>1 DEF IInv, ExecInv
<1>4. Phase' = Phase /\ (Attempt!Runnable)' = Attempt!Runnable
  BY DEF EnterChecks, Phase, attemptVars, Attempt!Runnable
<1>5. CASE EndBody(FALSE)
  BY <1>1, <1>5, FailBodyIInv DEF EnterChecks
<1>6. CASE Phase \notin PhasesWithCheck /\ EndBody(TRUE)
  <2>1. exec' \in Execs /\ exec'.started = exec.started
    BY <1>1, <1>6 DEF EndBody, Execs
  <2>2. /\ exec'.pc = "record" /\ exec'.index = exec.index
        /\ exec'.skipping = exec.skipping /\ exec'.writesEnabled = exec.writesEnabled
    BY <1>1, <1>6 DEF EndBody, Execs
  <2>3. nextPhaseIndex' # 3
    <3>1. PhaseAt(3) \in PhasesWithCheck
      BY PhaseTable DEF PhasesWithCheck, CheckOnlyPhases
    <3> QED
      BY <1>6, <3>1 DEF Phase, EnterChecks, attemptVars
  <2>4. ExecInv'
    BY <1>1, <1>3, <1>4, <2>1, <2>2, <2>3 DEF IInv, ExecInv
  <2> QED
    BY <2>1, <2>4, LocalStep DEF EnterChecks
<1>7. CASE Phase \in PhasesWithCheck /\ exec' = [ exec EXCEPT !.pc = "check" ]
  <2>1. exec' \in Execs /\ exec'.started = exec.started
    BY <1>1, <1>7 DEF Execs
  <2>2. exec'.pc = "check" /\ exec'.skipping = exec.skipping /\ exec'.index = exec.index
    BY <1>1, <1>7 DEF Execs
  <2>3. ~HasActions(Phase)
    BY <1>7 DEF HasActions, PhasesWithCheck
  <2>4. ExecInv'
    BY <1>1, <1>4, <2>1, <2>2, <2>3 DEF IInv, ExecInv
  <2> QED
    BY <2>1, <2>4, LocalStep DEF EnterChecks
<1> QED
  BY <1>5, <1>6, <1>7 DEF EnterChecks

\* Checks: the WPR2 check passes only on a read that found it up.
LEMMA ChecksIInv ==
  ASSUME IInv, CheckPasses \/ CheckAgain \/ CheckTimesOut \/ CheckUnreadable
  PROVE  IInv'
<1>1. /\ exec \in Execs /\ exec.pc = "check"
      /\ UNCHANGED << attemptVars, gpu, resetResult, dmaPrepared >>
  BY DEF IInv, TypeOK, CheckPasses, CheckAgain, CheckTimesOut, CheckUnreadable, InCheck
<1>2. nextPhaseIndex \in 0..11
  BY <1>1, RunningIndex
<1>3. ~HasActions(Phase) /\ ~exec.started
  BY <1>1 DEF IInv, ExecInv
<1>4. Phase' = Phase /\ (Attempt!Runnable)' = Attempt!Runnable
  BY <1>1 DEF Phase, attemptVars, Attempt!Runnable
<1>5. CASE CheckPasses
  <2>1. exec' \in Execs /\ exec'.started = exec.started
    BY <1>1, <1>5 DEF CheckPasses, EndBody, Execs
  <2>2. exec'.pc = "record" /\ exec'.skipping = exec.skipping /\ exec'.index = exec.index
    BY <1>1, <1>5 DEF CheckPasses, EndBody, Execs
  <2>3. nextPhaseIndex = 3 => gpu.wpr2
    BY <1>5, PhaseTable DEF CheckPasses, ReadCheck, CheckSatisfied, Phase
  <2>4. ExecInv'
    BY <1>1, <1>3, <1>4, <2>1, <2>2, <2>3 DEF IInv, ExecInv, attemptVars
  <2> QED
    BY <1>1, <2>1, <2>4, LocalStep
<1>6. CASE CheckAgain
  <2>1. exec.wait + 1 \in 0..MaxPhaseWait
    BY <1>1, <1>6, WaitAssumption DEF CheckAgain, Execs
  <2>2. exec' \in Execs /\ exec'.started = exec.started
    BY <1>1, <1>6, <2>1 DEF CheckAgain, Execs
  <2>3. exec'.pc = "check" /\ exec'.skipping = exec.skipping /\ exec'.index = exec.index
    BY <1>1, <1>6 DEF CheckAgain, Execs
  <2>4. ExecInv'
    BY <1>1, <1>3, <1>4, <2>2, <2>3 DEF IInv, ExecInv
  <2> QED
    BY <1>1, <2>2, <2>4, LocalStep
<1>7. CASE CheckTimesOut \/ CheckUnreadable
  BY <1>1, <1>7, FailBodyIInv DEF CheckTimesOut, CheckUnreadable
<1> QED
  BY <1>5, <1>6, <1>7

-----------------------------------------------------------------------------
(***************************************************************************)
(* The steps that change more than executor locals.                        *)
(***************************************************************************)

\* A write happens in a phase with actions, so never in a Ready attempt.
LEMMA WriteIInv == ASSUME IInv, WriteRegister PROVE IInv'
<1>1. /\ exec \in Execs /\ exec.pc = "actions" /\ exec.index <= Len(Actions)
      /\ UNCHANGED << attemptVars, resetResult, dmaPrepared >>
  BY DEF IInv, TypeOK, WriteRegister, InAction
<1>2. /\ HasActions(Phase) /\ nextPhaseIndex \in 0..11
      /\ gpu \in [ driven : BOOLEAN, fwsec : BOOLEAN, wpr2 : BOOLEAN ]
  BY <1>1, CurrentAction, RunningIndex DEF IInv, TypeOK
<1>3. state = "Running" /\ Attempt!Runnable
  <2>1. nextPhaseIndex # 0
    BY <1>2, PhaseTable DEF Phase
  <2> QED
    BY <1>1, <2>1 DEF IInv, AttemptInv, ExecInv, Attempt!Runnable
<1>4. exec.index + 1 \in Nat \ { 0 } /\ 0 \in 0..PollTimeout
  BY <1>1, WaitAssumption DEF Execs
<1>5. exec' \in Execs
  BY <1>1, <1>4 DEF WriteRegister, Execs
<1>6. /\ exec'.pc = "actions" /\ exec'.started /\ exec'.index > 1
      /\ exec'.writesEnabled = exec.writesEnabled
  BY <1>1 DEF WriteRegister, Execs
<1>7. /\ gpu'.driven /\ gpu'.wpr2 = gpu.wpr2
      /\ gpu' \in [ driven : BOOLEAN, fwsec : BOOLEAN, wpr2 : BOOLEAN ]
  BY <1>2 DEF WriteRegister, GpuAfterWrite
<1>8. Phase' = Phase /\ (Attempt!Runnable)' /\ state' = "Running"
  BY <1>1, <1>3 DEF Phase, attemptVars, Attempt!Runnable
<1>9. TypeOK'
  BY <1>1, <1>5, <1>7 DEF IInv, TypeOK, Attempt!TypeOK, attemptVars
<1>10. AttemptInv'
  BY <1>1 DEF IInv, AttemptInv, Attempt!Runnable, attemptVars
<1>11. ExecInv'
  BY <1>1, <1>2, <1>6, <1>8 DEF IInv, ExecInv
<1>12. GpuInv'
  BY <1>1, <1>3, <1>6, <1>7, <1>8 DEF IInv, GpuInv, QuietStates, attemptVars
<1>13. DmaInv'
  BY <1>1, <1>3 DEF IInv, DmaInv
<1> QED
  BY <1>9, <1>10, <1>11, <1>12, <1>13 DEF IInv

\* The executor at rest.
LEMMA IdleType ==
  /\ Idle \in Execs /\ Idle.pc = "idle" /\ Idle.index = 1
  /\ ~Idle.started /\ ~Idle.skipping /\ ~Idle.succeeded
<1>1. 0 \in 0..MaxPhaseWait /\ 0 \in 0..PollTimeout
  BY WaitAssumption
<1> QED
  BY <1>1 DEF Idle, Execs

\* With the executor at rest and its "started" flag down, ExecInv says nothing more.
LEMMA IdleExecInv == ASSUME exec' = Idle PROVE ExecInv'
BY IdleType DEF ExecInv

\* The recorded result carries every landed write into the attempt.
LEMMA RecordIInv == ASSUME IInv, RecordPhase PROVE IInv' /\ event' = "Ok"
<1> DEFINE i == nextPhaseIndex
           succeeded == exec.succeeded
           started == exec.started
<1>1. /\ exec.pc = "record" /\ exec' = Idle
      /\ UNCHANGED << gpu, resetResult, dmaPrepared >>
      /\ succeeded \in BOOLEAN /\ started \in BOOLEAN
      /\ firstResetCommitCrossed \in BOOLEAN
      /\ gpu \in [ driven : BOOLEAN, fwsec : BOOLEAN, wpr2 : BOOLEAN ]
  BY DEF IInv, TypeOK, Attempt!TypeOK, Execs, RecordPhase
<1>2. /\ i \in 0..11 /\ Attempt!Runnable
      /\ started => HasActions(Phase)
      /\ succeeded => (HasActions(Phase) <=> started)
      /\ succeeded /\ i = 3 => gpu.wpr2
  BY <1>1, RunningIndex DEF IInv, ExecInv
<1>3. /\ event' = "Ok" /\ resetPostcheck' = resetPostcheck
      /\ firstResetCommitCrossed' = (firstResetCommitCrossed \/ (i = 1 /\ started))
      /\ succeeded => /\ nextPhaseIndex' = i + 1
                      /\ recovery' = recovery
                      /\ state' = IF i = 11 THEN "Succeeded" ELSE "Running"
      /\ ~succeeded => /\ nextPhaseIndex' = i
                       /\ recovery' = IF IsCold(i, started)
                                      THEN Attempt!ColdReversible
                                      ELSE Attempt!FullResetRequired
                       /\ state' = IF IsCold(i, started)
                                   THEN "FailedColdReversible" ELSE "FailedNeedsGpuReset"
  BY <1>1, <1>2, RecordEffect DEF RecordPhase
<1>4. started /\ i # 1 => firstResetCommitCrossed
  <2>1. started => i # 0
    BY <1>2, PhaseTable DEF Phase
  <2> QED
    BY <1>2, <2>1 DEF IInv, AttemptInv
<1>5. gpu.driven => firstResetCommitCrossed'
  BY <1>3, <1>4 DEF IInv, GpuInv
<1>6. succeeded /\ i = 1 => started
  BY <1>2, PhaseTable DEF Phase
<1> HIDE DEF succeeded, started
<1>7. TypeOK'
  <2>1. nextPhaseIndex' \in 0..12
    BY <1>1, <1>2, <1>3
  <2>2. /\ state' \in Attempt!BootAttemptStates
        /\ event' \in Attempt!BootAttemptEventStatuses
    BY <1>1, <1>3 DEF Attempt!BootAttemptStates, Attempt!BootAttemptEventStatuses
  <2>3. firstResetCommitCrossed' \in BOOLEAN
    BY <1>1, <1>3
  <2>4. /\ recovery' \in { Attempt!NoRecovery, Attempt!ColdReversible, Attempt!FullResetRequired }
        /\ resetPostcheck' \in Attempt!PostcheckReports
    BY <1>1, <1>3 DEF IInv, TypeOK, Attempt!TypeOK
  <2> QED
    BY <1>1, <2>1, <2>2, <2>3, <2>4, IdleType, AttemptTable
       DEF IInv, TypeOK, Attempt!TypeOK
<1>8. AttemptInv'
  <2>1. nextPhaseIndex' >= 2 => firstResetCommitCrossed'
    <3>1. CASE succeeded /\ i = 1
      BY <1>3, <1>6, <3>1
    <3>2. CASE succeeded /\ i = 0
      BY <1>3, <3>2
    <3>3. CASE i >= 2 \/ ~succeeded
      BY <1>1, <1>2, <1>3, <3>3 DEF IInv, AttemptInv
    <3> QED
      BY <1>1, <1>2, <3>1, <3>2, <3>3
  <2>2. /\ state' # "Ready"
        /\ state' \in { "Ready", "Running" } => nextPhaseIndex' < 12
        /\ state' = "Succeeded" => nextPhaseIndex' = 12
    BY <1>1, <1>2, <1>3
  <2>3. (Attempt!Runnable)' => recovery' = Attempt!NoRecovery
    BY <1>1, <1>2, <1>3 DEF IInv, AttemptInv, Attempt!Runnable
  <2>4. firstResetCommitCrossed' =>
          /\ state' # "FailedColdReversible"
          /\ ~recovery'.mayRetryBootstrap /\ ~recovery'.mayReleaseDmaBuffers
    <3>1. CASE succeeded
      BY <1>2, <1>3, <3>1, RecoveryFlags DEF IInv, AttemptInv
    <3>2. CASE ~succeeded
      <4>1. firstResetCommitCrossed' => ~IsCold(i, started)
        BY <1>1, <1>2, <1>3 DEF IsCold
      <4> QED
        BY <1>3, <3>2, <4>1, RecoveryFlags
    <3> QED
      BY <1>1, <3>1, <3>2
  <2> QED
    BY <2>1, <2>2, <2>3, <2>4, AttemptTable DEF AttemptInv, Attempt!Runnable
<1>9. ExecInv'
  BY <1>1, IdleExecInv
<1>10. GpuInv'
  <2>1. state' \in QuietStates => ~gpu.driven
    <3>1. state' \in QuietStates => ~succeeded /\ IsCold(i, started)
      BY <1>1, <1>3 DEF QuietStates
    <3>2. IsCold(i, started) => ~firstResetCommitCrossed /\ ~exec.started
      <4>1. exec.started => i # 0
        BY <1>2, PhaseTable DEF Phase, started
      <4> QED
        BY <4>1 DEF IsCold, started
    <3> QED
      BY <3>1, <3>2 DEF IInv, GpuInv
  <2>2. state' \notin { "Ready", "ResetRecovered" }
    BY <1>1, <1>3
  <2>3. resetResult # "issued"
    BY <1>2 DEF IInv, GpuInv
  <2>4. ASSUME state' \in { "Ready", "Running", "Succeeded" }
        PROVE  /\ nextPhaseIndex' >= 2 => gpu.driven
               /\ nextPhaseIndex' >= 4 => gpu.wpr2
    <3>1. succeeded /\ nextPhaseIndex' = i + 1
      BY <1>1, <1>3, <2>4
    <3>2. i = 1 => gpu.driven
      BY <1>6, <3>1 DEF IInv, GpuInv, started
    <3>3. /\ i >= 2 => gpu.driven
          /\ i >= 4 => gpu.wpr2
      BY <1>2 DEF IInv, GpuInv
    <3> QED
      BY <1>2, <3>1, <3>2, <3>3
  <2>5. gpu' = gpu /\ resetResult' = resetResult /\ ~exec'.started
    BY <1>1, IdleType
  <2> QED
    BY <1>5, <2>1, <2>2, <2>3, <2>4, <2>5 DEF IInv, GpuInv, Attempt!Runnable
<1>11. DmaInv'
  BY <1>1, <1>2 DEF IInv, DmaInv
<1> QED
  BY <1>3, <1>7, <1>8, <1>9, <1>10, <1>11 DEF IInv

\* A call of the executor, refused or not.
LEMMA ExecuteIInv ==
  ASSUME IInv, NEW writesEnabled \in BOOLEAN, NEW hostReady \in BOOLEAN,
         ExecuteNextBootPhase(writesEnabled, hostReady)
  PROVE  IInv'
<1>1. /\ exec.pc = "idle" /\ exec = Idle /\ Attempt!Runnable
      /\ exec' = [ Idle EXCEPT !.pc = "actions", !.writesEnabled = writesEnabled ]
      /\ UNCHANGED << attemptVars, gpu, resetResult, dmaPrepared >>
      /\ HasActions(Phase) => writesEnabled
  BY DEF IInv, ExecInv, ExecuteNextBootPhase, MayExecute
<1>2. exec' \in Execs /\ exec'.started = exec.started
  BY <1>1, IdleType DEF Execs
<1>3. /\ exec'.pc = "actions" /\ exec'.index = 1
      /\ ~exec'.started /\ ~exec'.skipping /\ exec'.writesEnabled = writesEnabled
  BY <1>1, IdleType DEF Execs
<1>4. Phase' = Phase /\ (Attempt!Runnable)' = Attempt!Runnable
  BY <1>1 DEF Phase, attemptVars, Attempt!Runnable
<1>5. ExecInv'
  BY <1>1, <1>3, <1>4 DEF ExecInv
<1> QED
  BY <1>1, <1>2, <1>5, LocalStep

\* WPR2 rises only on a GPU that was driven, so under no quiet attempt.
LEMMA RaiseIInv == ASSUME IInv, RaiseWpr2 PROVE IInv'
<1>1. /\ gpu \in [ driven : BOOLEAN, fwsec : BOOLEAN, wpr2 : BOOLEAN ]
      /\ gpu.driven /\ state \notin QuietStates
      /\ UNCHANGED << attemptVars, exec, resetResult, dmaPrepared >>
  BY DEF IInv, TypeOK, GpuInv, RaiseWpr2
<1>2. /\ gpu' \in [ driven : BOOLEAN, fwsec : BOOLEAN, wpr2 : BOOLEAN ]
      /\ gpu'.driven /\ gpu'.wpr2
  BY <1>1 DEF RaiseWpr2
<1>3. Phase' = Phase /\ (Attempt!Runnable)' = Attempt!Runnable
  BY <1>1 DEF Phase, attemptVars, Attempt!Runnable
<1>4. TypeOK'
  BY <1>1, <1>2 DEF IInv, TypeOK, Attempt!TypeOK, attemptVars
<1>5. AttemptInv'
  BY <1>1, <1>3 DEF IInv, AttemptInv, attemptVars
<1>6. ExecInv'
  BY <1>1, <1>2, <1>3 DEF IInv, ExecInv
<1>7. GpuInv'
  BY <1>1, <1>2, <1>3 DEF IInv, GpuInv, QuietStates, attemptVars
<1>8. DmaInv'
  BY <1>1, <1>3 DEF IInv, DmaInv
<1> QED
  BY <1>4, <1>5, <1>6, <1>7, <1>8 DEF IInv

\* A reset, issued or failed, never makes a GPU driven.
LEMMA ResetIInv ==
  ASSUME IInv, AwaitsReset, NEW plan, NEW enabled, NEW hot, NEW liveFlr,
         ExecuteRecoveryReset(plan, enabled, hot, liveFlr)
  PROVE  IInv'
<1>1. /\ exec = Idle /\ state \in { "FailedNeedsGpuReset", "Unrecovered" }
      /\ gpu \in [ driven : BOOLEAN, fwsec : BOOLEAN, wpr2 : BOOLEAN ]
      /\ UNCHANGED << attemptVars, exec, dmaPrepared >>
  BY DEF IInv, TypeOK, ExecInv, ExecuteRecoveryReset, AwaitsReset
<1>2. ASSUME gpu' \in ResetGpu
      PROVE  /\ gpu' \in [ driven : BOOLEAN, fwsec : BOOLEAN, wpr2 : BOOLEAN ]
             /\ ~gpu'.driven /\ ~gpu'.fwsec
  BY <1>1, <1>2 DEF ResetGpu
<1>3. /\ gpu' = gpu \/ (/\ gpu' \in [ driven : BOOLEAN, fwsec : BOOLEAN, wpr2 : BOOLEAN ]
                        /\ ~gpu'.driven /\ ~gpu'.fwsec)
      /\ resetResult' \in { "issued", "failed" }
      /\ resetResult' = "issued" => ~gpu'.driven
  BY <1>2 DEF ExecuteRecoveryReset
<1>4. /\ ~Attempt!Runnable /\ ~(Attempt!Runnable)' /\ state' = state
      /\ exec' = exec /\ exec.pc = "idle" /\ ~exec.started
  BY <1>1, IdleType DEF attemptVars, Attempt!Runnable
<1>5. TypeOK'
  BY <1>1, <1>3 DEF IInv, TypeOK, Attempt!TypeOK, attemptVars
<1>6. AttemptInv'
  BY <1>1, <1>4 DEF IInv, AttemptInv, attemptVars
<1>7. ExecInv'
  BY <1>1, IdleExecInv
<1>8. GpuInv'
  BY <1>1, <1>3, <1>4 DEF IInv, GpuInv, QuietStates, attemptVars
<1>9. DmaInv'
  BY <1>1, <1>3, <1>4 DEF IInv, DmaInv
<1> QED
  BY <1>5, <1>6, <1>7, <1>8, <1>9 DEF IInv

\* A report is a report for the orchestrator too.
LEMMA ReportType ==
  ASSUME NEW in
  PROVE  /\ CheckResetPostconditions(in) \in Attempt!PostcheckReports
         /\ CheckResetPostconditions(in).recovered <=>
              in.resetSucceeded /\ in.pciIdentityMatches /\ in.bar0Accessible /\ ~in.wpr2Up
BY DEF CheckResetPostconditions, PostcheckReport, Attempt!PostcheckReports

\* A recorded report makes the attempt ResetRecovered only after an issued reset
\* that left WPR2 down.
LEMMA PostcheckIInv ==
  ASSUME IInv, NEW identity \in BOOLEAN, NEW accessible \in BOOLEAN,
         RecordPostcheck(identity, accessible)
  PROVE  IInv'
<1> DEFINE in == [ resetSucceeded     |-> resetResult = "issued",
                   pciIdentityMatches |-> identity,
                   bar0Accessible     |-> accessible,
                   wpr2Up             |-> gpu.wpr2 ]
           report == CheckResetPostconditions(in)
<1>1. /\ exec = Idle /\ UNCHANGED << exec, gpu, dmaPrepared >> /\ resetResult' = "none"
      /\ Attempt!RecordBootResetPostcheck(report)
  BY DEF IInv, ExecInv, RecordPostcheck
<1>2. report \in Attempt!PostcheckReports
  BY ReportType
<1>3. report.recovered => resetResult = "issued" /\ ~gpu.wpr2
  <2>1. /\ in.resetSucceeded => resetResult = "issued"
        /\ ~in.wpr2Up => ~gpu.wpr2
    OBVIOUS
  <2> HIDE DEF in
  <2>2. report.recovered => in.resetSucceeded /\ ~in.wpr2Up
    BY ReportType
  <2> QED
    BY <2>1, <2>2
<1> HIDE DEF report
<1>4. /\ UNCHANGED << nextPhaseIndex, firstResetCommitCrossed, recovery >>
      /\ event' \in { "Ok", "NotAwaitingReset" }
      /\ resetPostcheck' \in { resetPostcheck, report }
      /\ \/ state' = state
         \/ state' = "Unrecovered"
         \/ state' = "ResetRecovered" /\ report.recovered
  BY <1>1 DEF Attempt!RecordBootResetPostcheck
<1>5. TypeOK'
  <2>1. state' \in Attempt!BootAttemptStates /\ event' \in Attempt!BootAttemptEventStatuses
    BY <1>4 DEF IInv, TypeOK, Attempt!TypeOK, Attempt!BootAttemptStates,
       Attempt!BootAttemptEventStatuses
  <2> QED
    BY <1>1, <1>2, <1>4, <2>1 DEF IInv, TypeOK, Attempt!TypeOK
<1>6. AttemptInv'
  BY <1>4 DEF IInv, AttemptInv, Attempt!Runnable
<1>7. ExecInv'
  BY <1>1, IdleExecInv
<1>8. GpuInv'
  BY <1>1, <1>3, <1>4 DEF IInv, GpuInv, QuietStates, Attempt!Runnable
<1>9. DmaInv'
  BY <1>1, <1>4 DEF IInv, DmaInv, Attempt!Runnable
<1> QED
  BY <1>5, <1>6, <1>7, <1>8, <1>9 DEF IInv

\* The DMA buffers change hands only where a report permits it, and such a report
\* belongs to a quiet GPU.
LEMMA DmaIInv == ASSUME IInv, PrepareDma \/ ReleaseDma PROVE IInv'
<1>1. /\ UNCHANGED << attemptVars, exec, gpu, resetResult >>
      /\ dmaPrepared' \in BOOLEAN /\ state \in QuietStates \ { "Ready" }
  BY DEF PrepareDma, ReleaseDma, MayRelease, QuietStates
<1>2. Phase' = Phase /\ (Attempt!Runnable)' = Attempt!Runnable /\ ~Attempt!Runnable
  BY <1>1 DEF Phase, attemptVars, Attempt!Runnable, QuietStates
<1>3. TypeOK'
  BY <1>1 DEF IInv, TypeOK, Attempt!TypeOK, attemptVars
<1>4. AttemptInv' /\ ExecInv'
  BY <1>1, <1>2 DEF IInv, AttemptInv, ExecInv, attemptVars
<1>5. GpuInv'
  BY <1>1, <1>2 DEF IInv, GpuInv, attemptVars
<1>6. DmaInv'
  BY <1>1, <1>2 DEF IInv, GpuInv, DmaInv
<1> QED
  BY <1>3, <1>4, <1>5, <1>6 DEF IInv

\* An attempt begins on a quiet GPU, and becomes Ready only with WPR2 down and the
\* DMA buffers prepared.
LEMMA BeginIInv ==
  ASSUME IInv, NEW facts, NEW policyValid, BeginAttempt(facts, policyValid)
  PROVE  IInv'
<1>1. /\ exec = Idle /\ UNCHANGED << exec, gpu, dmaPrepared >> /\ resetResult' = "none"
      /\ state \in QuietStates /\ ~gpu.driven
      /\ "allSystemDmaResolved" \in facts <=> dmaPrepared
      /\ Attempt!BeginBootAttempt(facts, gpu.wpr2, policyValid)
  BY DEF IInv, ExecInv, GpuInv, BeginAttempt, MayBegin, QuietStates
<1>2. "allSystemDmaResolved" \in Attempt!AllFacts
  BY DEF Attempt!AllFacts
<1>3. /\ state' \in { "Ready", "Rejected" }
      /\ state' = "Ready" => facts = Attempt!AllFacts /\ ~gpu.wpr2
      /\ nextPhaseIndex' = 0 /\ firstResetCommitCrossed' = FALSE
      /\ recovery' = Attempt!NoRecovery /\ resetPostcheck' = Attempt!NoPostcheck
      /\ event' = "Ok"
  BY <1>1 DEF Attempt!BeginBootAttempt, Attempt!CheckBootCommitPreflight
<1>4. state' = "Ready" => dmaPrepared /\ ~gpu.wpr2
  BY <1>1, <1>2, <1>3
<1>5. TypeOK'
  <2>1. Attempt!NoPostcheck \in Attempt!PostcheckReports
    BY DEF Attempt!NoPostcheck, Attempt!PostcheckReport, Attempt!PostcheckReports
  <2>2. state' \in Attempt!BootAttemptStates /\ event' \in Attempt!BootAttemptEventStatuses
    BY <1>3 DEF Attempt!BootAttemptStates, Attempt!BootAttemptEventStatuses
  <2>3. firstResetCommitCrossed' \in BOOLEAN /\ nextPhaseIndex' \in 0..12
    <3>1. firstResetCommitCrossed' \in BOOLEAN
      BY <1>3, Zenon
    <3> QED
      BY <1>3, <3>1
  <2> QED
    BY <1>1, <1>3, <2>1, <2>2, <2>3, AttemptTable DEF IInv, TypeOK, Attempt!TypeOK
<1>6. AttemptInv'
  BY <1>3, AttemptTable DEF AttemptInv, Attempt!Runnable
<1>7. ExecInv'
  BY <1>1, IdleExecInv
<1>8. GpuInv'
  <2>1. ~gpu'.driven /\ ~exec'.started /\ gpu' = gpu
    BY <1>1, IdleType
  <2> QED
    BY <1>1, <1>3, <1>4, <2>1 DEF IInv, GpuInv, Attempt!Runnable
<1>9. DmaInv'
  BY <1>1, <1>3, <1>4 DEF DmaInv, Attempt!Runnable
<1> QED
  BY <1>5, <1>6, <1>7, <1>8, <1>9 DEF IInv

-----------------------------------------------------------------------------
(***************************************************************************)
(* The invariant and the theorems.                                         *)
(***************************************************************************)

\* The invariant holds before the first call.
LEMMA InitIInv == Init => IInv
<1> SUFFICES ASSUME Init PROVE IInv
  OBVIOUS
<1>1. /\ state = "Cold" /\ nextPhaseIndex = 0 /\ firstResetCommitCrossed = FALSE
      /\ recovery = Attempt!NoRecovery /\ resetPostcheck = Attempt!NoPostcheck
      /\ event = "Ok" /\ exec = Idle /\ ~exec.started
      /\ gpu \in [ driven : BOOLEAN, fwsec : BOOLEAN, wpr2 : BOOLEAN ]
      /\ ~gpu.driven /\ ~gpu.fwsec /\ resetResult = "none" /\ ~Attempt!Runnable
  BY IdleType DEF Init, Attempt!Init, Attempt!Runnable
<1>2. TypeOK
  <2>1. Attempt!NoPostcheck \in Attempt!PostcheckReports
    BY DEF Attempt!NoPostcheck, Attempt!PostcheckReport, Attempt!PostcheckReports
  <2>2. firstResetCommitCrossed \in BOOLEAN /\ dmaPrepared \in BOOLEAN
    BY Zenon DEF Init, Attempt!Init
  <2>3. /\ state \in Attempt!BootAttemptStates /\ event \in Attempt!BootAttemptEventStatuses
        /\ nextPhaseIndex \in 0..12
    BY <1>1 DEF Attempt!BootAttemptStates, Attempt!BootAttemptEventStatuses
  <2> QED
    BY <1>1, <2>1, <2>2, <2>3, IdleType, AttemptTable DEF TypeOK, Attempt!TypeOK
<1>3. AttemptInv
  BY <1>1 DEF AttemptInv
<1>4. ExecInv
  BY <1>1, IdleType DEF ExecInv
<1>5. GpuInv
  BY <1>1 DEF GpuInv
<1>6. DmaInv
  BY <1>1 DEF DmaInv
<1> QED
  BY <1>2, <1>3, <1>4, <1>5, <1>6 DEF IInv

\* A step that changes nothing keeps it.
LEMMA StutterIInv == ASSUME IInv, UNCHANGED vars PROVE IInv'
<1>1. exec' = exec /\ UNCHANGED << attemptVars, gpu, resetResult, dmaPrepared >>
  BY DEF vars
<1>2. ExecInv'
  BY <1>1 DEF IInv, ExecInv, Phase, attemptVars, Attempt!Runnable
<1> QED
  BY <1>1, <1>2, LocalStep DEF IInv, TypeOK

\* Every step keeps the invariant.
LEMMA NextIInv == IInv /\ [Next]_vars => IInv'
<1> SUFFICES ASSUME IInv, [Next]_vars PROVE IInv'
  OBVIOUS
<1>1. CASE ExecutorStep
  BY <1>1, SkipIInv, WriteIInv, ActionFailsIInv, PollSatisfiedIInv, PollAgainIInv,
     DelayIInv, IfIInv, EnterChecksIInv, ChecksIInv, RecordIInv DEF ExecutorStep
<1>2. CASE RaiseWpr2
  BY <1>2, RaiseIInv
<1>3. CASE CallerStep
  <2>1. ASSUME NEW w \in BOOLEAN, NEW h \in BOOLEAN,
               ExecuteNextBootPhase(w, h) \/ RefuseBootPhase(w, h)
        PROVE  IInv'
    BY <2>1, ExecuteIInv, StutterIInv DEF RefuseBootPhase
  <2>2. ASSUME NEW f \in BOOLEAN, NEW ph \in BOOLEAN, NEW g \in BOOLEAN,
               NEW e \in BOOLEAN, NEW h \in BOOLEAN, NEW l \in BOOLEAN, AwaitsReset,
               ExecuteRecoveryReset(PlanGpuRecoveryReset(f, ph, g), e, h, l)
        PROVE  IInv'
    BY <2>2, ResetIInv
  <2>3. ASSUME NEW p \in BOOLEAN, NEW b \in BOOLEAN, RecordPostcheck(p, b)
        PROVE  IInv'
    BY <2>3, PostcheckIInv
  <2>4. ASSUME NEW facts \in FactSets, NEW v \in BOOLEAN, BeginAttempt(facts, v)
        PROVE  IInv'
    BY <2>4, BeginIInv
  <2>5. CASE PrepareDma \/ ReleaseDma
    BY <2>5, DmaIInv
  <2> QED
    BY <1>3, <2>1, <2>2, <2>3, <2>4, <2>5 DEF CallerStep
<1>4. CASE UNCHANGED vars
  BY <1>4, StutterIInv
<1> QED
  BY <1>1, <1>2, <1>3, <1>4 DEF Next

\* The inductive invariant holds of every behaviour.
THEOREM Invariant == Spec => []IInv
BY InitIInv, NextIInv, PTL DEF Spec

\* Types, and the wait budget: the polls, delays and checks of one call never
\* sleep longer than maxPhaseWaitMilliseconds.
THEOREM TypeCorrect == Spec => []TypeOK
BY Invariant, PTL DEF IInv

\* No attempt the executor drives is past ResetGspForFrts without the boundary.
THEOREM PastResetCommitted == Spec => []PastResetIsCommitted
<1>1. IInv => PastResetIsCommitted
  BY DEF IInv, AttemptInv, PastResetIsCommitted, Attempt!PastResetIsCommitted
<1> QED
  BY <1>1, Invariant, PTL

\* Once the boundary is crossed no failure is ever reported, or permitted, as cold.
THEOREM CommitIsFinal == Spec => []CommitForbidsColdRecovery
<1>1. IInv => CommitForbidsColdRecovery
  BY DEF IInv, AttemptInv, CommitForbidsColdRecovery, Attempt!CommitForbidsColdRecovery
<1> QED
  BY <1>1, Invariant, PTL

\* No landed register write is ever missing from the attempt once the executor has
\* returned.
THEOREM LandedWritesRecorded == Spec => []LandedWritesAreOnRecord
<1>1. IInv => LandedWritesAreOnRecord
  BY IdleType DEF IInv, ExecInv, GpuInv, LandedWritesAreOnRecord
<1> QED
  BY <1>1, Invariant, PTL

\* A failure reported as cold-reversible has left the GPU untouched.
THEOREM ColdFailureIsCold == Spec => []ColdFailureLeftGpuUntouched
<1>1. IInv => ColdFailureLeftGpuUntouched
  BY DEF IInv, GpuInv, QuietStates, ColdFailureLeftGpuUntouched
<1> QED
  BY <1>1, Invariant, PTL

\* The DMA buffers stay pinned as long as an engine may reference them.
THEOREM DmaStaysPinned == Spec => []DrivenGpuKeepsDmaPinned
<1>1. IInv => DrivenGpuKeepsDmaPinned
  BY DEF IInv, DmaInv, DrivenGpuKeepsDmaPinned
<1> QED
  BY <1>1, Invariant, PTL

\* An attempt is Ready, or reset-recovered, only on a quiet GPU with WPR2 down.
THEOREM RunnableOnQuietGpu == Spec => []RunnableOnlyOnQuietGpu
<1>1. IInv => RunnableOnlyOnQuietGpu
  BY DEF IInv, GpuInv, QuietStates, RunnableOnlyOnQuietGpu
<1> QED
  BY <1>1, Invariant, PTL

\* A boot that succeeded has WPR2 up.
THEOREM SucceededHasWpr2 == Spec => []SucceededMeansWpr2Up
<1>1. IInv => SucceededMeansWpr2Up
  BY AttemptTable DEF IInv, AttemptInv, GpuInv, SucceededMeansWpr2Up
<1> QED
  BY <1>1, Invariant, PTL

\* Every executed phase is accepted by the orchestrator: no action list finishes
\* with a hardwareActionsStarted flag RecordBootPhaseResult would refuse.
THEOREM ExecutedPhasesRecorded == Spec => ExecutedPhaseIsRecorded
<1>1. IInv /\ [Next]_vars =>
        [exec.pc = "record" /\ exec'.pc = "idle" => event' = "Ok"]_vars
  <2> SUFFICES ASSUME IInv, Next, exec.pc = "record", exec'.pc = "idle"
               PROVE  event' = "Ok"
    OBVIOUS
  <2>1. ExecutorStep
    BY DEF Next, RaiseWpr2, CallerStep, ExecuteNextBootPhase, RefuseBootPhase,
       ExecuteRecoveryReset, RecordPostcheck, BeginAttempt, PrepareDma, ReleaseDma
  <2>2. RecordPhase
    BY <2>1 DEF ExecutorStep, SkipAction, WriteRegister, RegisterUnavailable,
       PollSatisfied, PollAgain, PollTimesOut, Delay, BeginIf, EndIf, EnterChecks,
       CheckPasses, CheckAgain, CheckTimesOut, CheckUnreadable, InAction, InCheck
  <2> QED
    BY <2>2, RecordIInv
<1> QED
  BY <1>1, Invariant, PTL DEF Spec, ExecutedPhaseIsRecorded

\* A call without the write gate never changes what runs on the GPU.
THEOREM DryCallsLeaveGpu == Spec => DryCallLeavesGpu
<1>1. IInv /\ [Next]_vars =>
        [exec.pc # "idle" /\ ~exec.writesEnabled =>
           gpu'.driven = gpu.driven /\ gpu'.fwsec = gpu.fwsec]_vars
  <2> SUFFICES ASSUME IInv, Next, exec.pc # "idle", ~exec.writesEnabled
               PROVE  gpu'.driven = gpu.driven /\ gpu'.fwsec = gpu.fwsec
    OBVIOUS
  <2>1. ExecutorStep \/ RaiseWpr2
    BY DEF Next, CallerStep, ExecuteNextBootPhase, RefuseBootPhase,
       ExecuteRecoveryReset, RecordPostcheck, BeginAttempt, PrepareDma, ReleaseDma
  <2>2. ~WriteRegister
    <3>1. WriteRegister => HasActions(Phase)
      BY CurrentAction DEF WriteRegister, InAction
    <3> QED
      BY <3>1 DEF IInv, ExecInv
  <2>3. CASE ExecutorStep
    BY <2>2, <2>3 DEF ExecutorStep, SkipAction, RegisterUnavailable,
       PollSatisfied, PollAgain, PollTimesOut, Delay, BeginIf, EndIf, EnterChecks,
       CheckPasses, CheckAgain, CheckTimesOut, CheckUnreadable, InCheck, RecordPhase
  <2>4. CASE RaiseWpr2
    BY <2>4 DEF RaiseWpr2, IInv, TypeOK
  <2> QED
    BY <2>1, <2>3, <2>4
<1> QED
  BY <1>1, Invariant, PTL DEF Spec, DryCallLeavesGpu

-----------------------------------------------------------------------------
(***************************************************************************)
(* The orchestrator alone, whatever sequence of calls a caller makes: its  *)
(* type invariant and its two safety invariants.  First the phase table    *)
(* and the recovery classes.                                               *)
(***************************************************************************)

\* The reset is the phase at index 1, it has actions, and no later phase is the
\* reset or the prefill (boot_sequence_policy.cpp, kExpectedPhases).
LEMMA AnyCallerPhaseTable ==
  /\ Attempt!PhaseAt(0) = "PrefillBootstrapRpcRecords"
  /\ Attempt!PhaseAt(1) = "ResetGspForFrts"
  /\ \A i \in 2..11 : Attempt!PhaseAt(i) \notin { "PrefillBootstrapRpcRecords", "ResetGspForFrts" }
  /\ ~Attempt!HasActions("PrefillBootstrapRpcRecords")
  /\ Attempt!HasActions("ResetGspForFrts")
BY DEF Attempt!PhaseAt, Attempt!kExpectedPhases, Attempt!HasActions, Attempt!CheckOnlyPhases

\* A failed phase is cold-reversible exactly when it is the prefill, or the reset
\* before its first write (RecoveryForBootFailure).
LEMMA AnyCallerRecoveryClass ==
  ASSUME NEW phase, NEW started \in BOOLEAN
  PROVE  Attempt!RecoveryForBootFailure(phase, started) =
           IF \/ phase = "PrefillBootstrapRpcRecords"
              \/ phase = "ResetGspForFrts" /\ ~started
           THEN Attempt!ColdReversible ELSE Attempt!FullResetRequired
BY DEF Attempt!RecoveryForBootFailure

\* The three recovery classes tell the flags the orchestrator looks at apart.
LEMMA AnyCallerRecoveryFlags ==
  /\ ~Attempt!ColdReversible.fullGpuResetRequired
  /\ Attempt!FullResetRequired.fullGpuResetRequired
  /\ ~Attempt!FullResetRequired.mayRetryBootstrap /\ ~Attempt!FullResetRequired.mayReleaseDmaBuffers
  /\ ~Attempt!NoRecovery.mayRetryBootstrap /\ ~Attempt!NoRecovery.mayReleaseDmaBuffers
BY DEF Attempt!ColdReversible, Attempt!FullResetRequired, Attempt!NoRecovery, Attempt!Recovery

\* What RecordBootPhaseResult stores for a failed phase.
LEMMA AnyCallerFailureClass ==
  ASSUME NEW i \in 0..11, NEW started \in BOOLEAN, NEW crossed \in BOOLEAN
  PROVE  Attempt!FailureRecovery(Attempt!PhaseAt(i), started, crossed) =
           IF (i = 0 \/ (i = 1 /\ ~started)) /\ ~crossed
           THEN Attempt!ColdReversible ELSE Attempt!FullResetRequired
<1>1. Attempt!RecoveryForBootFailure(Attempt!PhaseAt(i), started) =
        IF i = 0 \/ (i = 1 /\ ~started) THEN Attempt!ColdReversible ELSE Attempt!FullResetRequired
  <2>1. CASE i = 0
    BY <2>1, AnyCallerPhaseTable, AnyCallerRecoveryClass
  <2>2. CASE i = 1
    BY <2>2, AnyCallerPhaseTable, AnyCallerRecoveryClass
  <2>3. CASE i \in 2..11
    BY <2>3, AnyCallerPhaseTable, AnyCallerRecoveryClass
  <2> QED
    BY <2>1, <2>2, <2>3
<1>2. Attempt!RecoveryForBootFailure("ResetGspForFrts", TRUE) = Attempt!FullResetRequired
  BY AnyCallerRecoveryClass
<1> QED
  BY <1>1, <1>2, AnyCallerRecoveryFlags DEF Attempt!FailureRecovery

-----------------------------------------------------------------------------
(***************************************************************************)
(* The invariants.  CommitForbidsColdRecovery is not inductive: a runnable *)
(* attempt that already held cold permissions could cross the boundary.    *)
(* Failures are terminal, so a runnable attempt holds none.                *)
(***************************************************************************)

AnyCallerRunnableHasNoRecovery == Attempt!Runnable => recovery = Attempt!NoRecovery

AnyCallerIInv ==
  /\ Attempt!TypeOK
  /\ Attempt!PastResetIsCommitted
  /\ Attempt!CommitForbidsColdRecovery
  /\ AnyCallerRunnableHasNoRecovery

\* A fresh BootAttempt{} satisfies the invariant.
LEMMA AnyCallerInitIInv == Attempt!Init => AnyCallerIInv
<1> SUFFICES ASSUME Attempt!Init PROVE AnyCallerIInv
  OBVIOUS
<1>1. resetPostcheck \in Attempt!PostcheckReports
  BY DEF Attempt!Init, Attempt!NoPostcheck, Attempt!PostcheckReport, Attempt!PostcheckReports
<1>b. firstResetCommitCrossed \in BOOLEAN
  BY Zenon DEF Attempt!Init
<1>2. Attempt!TypeOK
  BY <1>1, <1>b DEF Attempt!Init, Attempt!TypeOK, Attempt!BootAttemptStates,
     Attempt!BootAttemptEventStatuses, Attempt!PhaseCount
<1>3. Attempt!PastResetIsCommitted
  BY DEF Attempt!Init, Attempt!PastResetIsCommitted
<1>4. Attempt!CommitForbidsColdRecovery
  BY DEF Attempt!Init, Attempt!CommitForbidsColdRecovery
<1>5. AnyCallerRunnableHasNoRecovery
  BY DEF Attempt!Init, AnyCallerRunnableHasNoRecovery
<1> QED
  BY <1>2, <1>3, <1>4, <1>5 DEF AnyCallerIInv

\* BeginBootAttempt keeps it, whatever the preflight says.
LEMMA AnyCallerBeginIInv ==
  ASSUME AnyCallerIInv, NEW facts, NEW wpr2Up, NEW policyValid,
         Attempt!BeginBootAttempt(facts, wpr2Up, policyValid)
  PROVE  AnyCallerIInv'
<1>1. resetPostcheck' \in Attempt!PostcheckReports
  BY DEF Attempt!BeginBootAttempt, Attempt!NoPostcheck, Attempt!PostcheckReport,
     Attempt!PostcheckReports
<1>2. state' \in { "Ready", "Rejected" }
  BY DEF Attempt!BeginBootAttempt
<1>3. firstResetCommitCrossed' \in BOOLEAN
  BY Zenon DEF Attempt!BeginBootAttempt
<1> QED
  BY <1>1, <1>2, <1>3 DEF Attempt!BeginBootAttempt, AnyCallerIInv, Attempt!TypeOK,
     Attempt!PastResetIsCommitted,
     Attempt!CommitForbidsColdRecovery, AnyCallerRunnableHasNoRecovery, Attempt!Runnable,
     Attempt!BootAttemptStates,
     Attempt!BootAttemptEventStatuses, Attempt!PhaseCount, Attempt!NoRecovery, Attempt!Recovery

\* RecordBootPhaseResult keeps it, whatever index and flags the caller passes.
LEMMA AnyCallerRecordPhaseIInv ==
  ASSUME AnyCallerIInv,
         NEW i \in 0..Attempt!PhaseCount, NEW valid \in BOOLEAN,
         NEW succeeded \in BOOLEAN, NEW started \in BOOLEAN,
         Attempt!RecordBootPhaseResult(i, valid, succeeded, started)
  PROVE  AnyCallerIInv'
<1> DEFINE status  == Attempt!PhaseResultStatus(i, valid, succeeded, started)
           crossed == firstResetCommitCrossed \/ (Attempt!PhaseAt(i) = "ResetGspForFrts" /\ started)
           failure == Attempt!FailureRecovery(Attempt!PhaseAt(i), started, crossed)
<1>t. /\ status \in Attempt!BootAttemptEventStatuses
      /\ resetPostcheck' = resetPostcheck /\ event' = status
  BY DEF Attempt!PhaseResultStatus, Attempt!BootAttemptEventStatuses,
     Attempt!RecordBootPhaseResult
<1>1. CASE status # "Ok"
  <2>1. UNCHANGED << state, nextPhaseIndex, firstResetCommitCrossed, recovery >>
    BY <1>1 DEF Attempt!RecordBootPhaseResult
  <2> QED
    BY <2>1, <1>t DEF AnyCallerIInv, Attempt!TypeOK, Attempt!PastResetIsCommitted,
       Attempt!CommitForbidsColdRecovery,
       AnyCallerRunnableHasNoRecovery, Attempt!Runnable
<1>2. CASE status = "Ok"
  <2>1. /\ Attempt!Runnable /\ i = nextPhaseIndex /\ i \in 0..11
        /\ succeeded => Attempt!HasActions(Attempt!PhaseAt(i)) = started
        /\ started => Attempt!HasActions(Attempt!PhaseAt(i))
    BY <1>2 DEF Attempt!PhaseResultStatus, Attempt!PhaseCount
  <2>2. /\ firstResetCommitCrossed' = crossed
        /\ nextPhaseIndex' = Attempt!IndexAfter(succeeded)
    BY <1>2 DEF Attempt!RecordBootPhaseResult, Attempt!CommitCrossed
  <2>3. crossed \in BOOLEAN /\ recovery = Attempt!NoRecovery
    BY <2>1 DEF AnyCallerIInv, Attempt!TypeOK, AnyCallerRunnableHasNoRecovery
  <2>4. CASE succeeded
    <3>1. /\ recovery' = recovery /\ nextPhaseIndex' = i + 1
          /\ state' \in { "Succeeded", "Running" }
      BY <1>2, <2>1, <2>4 DEF Attempt!RecordBootPhaseResult, Attempt!IndexAfter
    <3>2. i = 1 => crossed
      BY <2>1, <2>4, AnyCallerPhaseTable
    <3>3. Attempt!PastResetIsCommitted'
      <4>1. CASE i = 0
        BY <3>1, <4>1 DEF Attempt!PastResetIsCommitted
      <4>2. CASE i = 1
        BY <2>2, <3>2, <4>2 DEF Attempt!PastResetIsCommitted
      <4>3. CASE i >= 2
        BY <2>1, <2>2, <4>3 DEF AnyCallerIInv, Attempt!PastResetIsCommitted
      <4> QED
        BY <2>1, <4>1, <4>2, <4>3
    <3>4. Attempt!CommitForbidsColdRecovery' /\ AnyCallerRunnableHasNoRecovery'
      BY <2>3, <3>1, AnyCallerRecoveryFlags DEF Attempt!CommitForbidsColdRecovery,
         AnyCallerRunnableHasNoRecovery
    <3>5. nextPhaseIndex' \in 0..Attempt!PhaseCount
      BY <2>1, <3>1 DEF Attempt!PhaseCount
    <3>6. state' \in Attempt!BootAttemptStates
      BY <3>1 DEF Attempt!BootAttemptStates
    <3>7. firstResetCommitCrossed' \in BOOLEAN
      BY <2>2, <2>3
    <3> QED
      BY <1>t, <2>3, <3>1, <3>3, <3>4, <3>5, <3>6, <3>7 DEF AnyCallerIInv, Attempt!TypeOK
  <2>5. CASE ~succeeded
    <3>1. /\ recovery' = failure /\ nextPhaseIndex' = i
          /\ state' = IF failure.fullGpuResetRequired
                      THEN "FailedNeedsGpuReset" ELSE "FailedColdReversible"
      BY <1>2, <2>1, <2>5 DEF Attempt!RecordBootPhaseResult, Attempt!CommitCrossed,
         Attempt!IndexAfter
    <3>2. failure = IF (i = 0 \/ (i = 1 /\ ~started)) /\ ~crossed
                    THEN Attempt!ColdReversible ELSE Attempt!FullResetRequired
      BY <2>1, <2>3, AnyCallerFailureClass
    <3>3. Attempt!PastResetIsCommitted'
      BY <2>1, <2>2, <3>1 DEF AnyCallerIInv, Attempt!PastResetIsCommitted
    <3>4. Attempt!CommitForbidsColdRecovery'
      BY <2>2, <3>1, <3>2, AnyCallerRecoveryFlags DEF Attempt!CommitForbidsColdRecovery
    <3> QED
      BY <1>t, <2>1, <2>2, <2>3, <3>1, <3>2, <3>3, <3>4 DEF AnyCallerIInv, Attempt!TypeOK,
         AnyCallerRunnableHasNoRecovery, Attempt!Runnable, Attempt!BootAttemptStates,
         Attempt!PhaseCount
  <2> QED
    BY <2>4, <2>5
<1> QED
  BY <1>1, <1>2

\* RecordBootResetPostcheck keeps it, whatever report it is given.
LEMMA AnyCallerRecordPostcheckIInv ==
  ASSUME AnyCallerIInv, NEW report \in Attempt!PostcheckReports, Attempt!RecordBootResetPostcheck(report)
  PROVE  AnyCallerIInv'
<1>1. /\ state' \in { state, "ResetRecovered", "Unrecovered" }
      /\ resetPostcheck' \in { resetPostcheck, report }
      /\ event' \in { "Ok", "NotAwaitingReset" }
      /\ UNCHANGED << nextPhaseIndex, firstResetCommitCrossed, recovery >>
  BY DEF Attempt!RecordBootResetPostcheck
<1> QED
  BY <1>1 DEF AnyCallerIInv, Attempt!TypeOK, Attempt!PastResetIsCommitted,
     Attempt!CommitForbidsColdRecovery,
     AnyCallerRunnableHasNoRecovery, Attempt!Runnable, Attempt!BootAttemptStates,
     Attempt!BootAttemptEventStatuses

\* Every step of the orchestrator keeps the invariant.
LEMMA AnyCallerNextIInv == AnyCallerIInv /\ [Attempt!Next]_(Attempt!attemptVars) => AnyCallerIInv'
<1> SUFFICES ASSUME AnyCallerIInv, [Attempt!Next]_(Attempt!attemptVars) PROVE AnyCallerIInv'
  OBVIOUS
<1>1. CASE UNCHANGED Attempt!attemptVars
  BY <1>1 DEF Attempt!attemptVars, AnyCallerIInv, Attempt!TypeOK,
     Attempt!PastResetIsCommitted, Attempt!CommitForbidsColdRecovery,
     AnyCallerRunnableHasNoRecovery, Attempt!Runnable
<1>2. ASSUME NEW facts \in Attempt!FactSets, NEW wpr2Up \in BOOLEAN, NEW policyValid \in BOOLEAN,
             Attempt!BeginBootAttempt(facts, wpr2Up, policyValid)
      PROVE  AnyCallerIInv'
  BY <1>2, AnyCallerBeginIInv
<1>3. ASSUME NEW i \in 0..Attempt!PhaseCount, NEW valid \in BOOLEAN,
             NEW succeeded \in BOOLEAN, NEW started \in BOOLEAN,
             Attempt!RecordBootPhaseResult(i, valid, succeeded, started)
      PROVE  AnyCallerIInv'
  BY <1>3, AnyCallerRecordPhaseIInv
<1>4. ASSUME NEW report \in Attempt!PostcheckReports, Attempt!RecordBootResetPostcheck(report)
      PROVE  AnyCallerIInv'
  BY <1>4, AnyCallerRecordPostcheckIInv
<1> QED
  BY <1>1, <1>2, <1>3, <1>4 DEF Attempt!Next

\* The inductive invariant holds of every behaviour of the orchestrator.
THEOREM AnyCallerInvariant == Attempt!Spec => []AnyCallerIInv
BY AnyCallerInitIInv, AnyCallerNextIInv, PTL DEF Attempt!Spec

\* BootAttempt's fields keep their types and the phase index stays within the
\* twelve phases, whatever a caller reports.
THEOREM AnyCallerTypes == Attempt!Spec => []Attempt!TypeOK
BY AnyCallerInvariant, PTL DEF AnyCallerIInv

\* No sequence of reported results gets an attempt past ResetGspForFrts without
\* recording the crossed commit boundary.
THEOREM AnyCallerPastResetCommitted == Attempt!Spec => []Attempt!PastResetIsCommitted
BY AnyCallerInvariant, PTL DEF AnyCallerIInv

\* Once the commit boundary is crossed no failure is ever reported as cold.
THEOREM AnyCallerCommitIsFinal == Attempt!Spec => []Attempt!CommitForbidsColdRecovery
BY AnyCallerInvariant, PTL DEF AnyCallerIInv

=============================================================================
