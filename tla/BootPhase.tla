----------------------------- MODULE BootPhase -----------------------------
(***************************************************************************)
(* A boot attempt driven by the DriverKit phase executor                   *)
(* (macos/Driver/RTXMacBootPhase.cpp and RTXMacFalcon.cpp), together with  *)
(* the GPU it drives, the recovery reset (RTXMacReset.cpp) and a caller    *)
(* that follows the permissions the orchestrator reports.                  *)
(*                                                                         *)
(* RTXMacExecuteNextBootPhase is split at every register access and sleep, *)
(* because the GPU runs on between them: a poll may be answered late, or   *)
(* never, and WPR2 may rise after the driver has given up.  Every mapping  *)
(* of a register may fail.  Time is the executor's own wait counter.       *)
(*                                                                         *)
(* The caller does not exist in the repository yet (docs/ROADMAP.md,       *)
(* Gate C).  It is modelled as the most general one that respects the      *)
(* permission flags: it may call the executor at any time, with or without *)
(* the write gate, issues a reset only for an attempt that awaits one,     *)
(* reports each reset once, and begins an attempt or releases the DMA      *)
(* buffers only where a report says it may.                                *)
(***************************************************************************)
EXTENDS FalconPlan, Integers

CONSTANTS
  MaxPhaseWait,  \* maxPhaseWaitMilliseconds
  PollTimeout,   \* kDefaultPollTimeoutMs, the timeoutMs of every poll action
  ResetDelay     \* the delay of PlanReset, in the same unit

ASSUME WaitAssumption ==
  /\ MaxPhaseWait \in Nat \ { 0 }
  /\ PollTimeout \in Nat \ { 0 }
  /\ ResetDelay \in Nat \ { 0 }

VARIABLES
  state, nextPhaseIndex, firstResetCommitCrossed, recovery, resetPostcheck, event,
  exec,         \* the locals of RTXMacExecuteNextBootPhase while it runs
  gpu,          \* what the attempt has done to the GPU
  resetResult,  \* what the last RTXMacExecuteRecoveryReset returned
  dmaPrepared   \* the cold session's DMA buffers are prepared and pinned

Attempt == INSTANCE BootAttempt

attemptVars == << state, nextPhaseIndex, firstResetCommitCrossed, recovery,
                  resetPostcheck, event >>

vars == << attemptVars, exec, gpu, resetResult, dmaPrepared >>

-----------------------------------------------------------------------------
(***************************************************************************)
(* Executor locals.  "index" is one based into the phase's actions;        *)
(* "wait" is out.waitMilliseconds, which the plan and the checks share.    *)
(***************************************************************************)

Idle == [ pc |-> "idle", index |-> 1, skipping |-> FALSE, wait |-> 0,
          actionWait |-> 0, started |-> FALSE, succeeded |-> FALSE,
          writesEnabled |-> FALSE ]

Execs == [ pc : { "idle", "actions", "check", "record" }, index : Nat \ { 0 },
           skipping : BOOLEAN, wait : 0..MaxPhaseWait, actionWait : 0..PollTimeout,
           started : BOOLEAN, succeeded : BOOLEAN, writesEnabled : BOOLEAN ]

Phase == PhaseAt(nextPhaseIndex)

Actions == PhaseActions(Phase)

Action == Actions[exec.index]

\* Leave the phase body; RecordBootPhaseResult is what remains to be done.
EndBody(ok) == exec' = [ exec EXCEPT !.pc = "record", !.succeeded = ok ]

\* The action completed: on to the next one.
NextAction == exec' = [ exec EXCEPT !.index = @ + 1, !.actionWait = 0 ]

\* Mutant: the limit is checked before the addition only.
CanConsumeWaitIgnoringAddition(total, addition, maximum) == total <= maximum

CanConsumeWait(total, addition, maximum) ==
  addition <= maximum /\ total <= maximum - addition

-----------------------------------------------------------------------------
(***************************************************************************)
(* RTXMacExecuteNextBootPhase.                                             *)
(***************************************************************************)

\* Mutant: the write gate is left to the Falcon executor.
MayExecuteUngated(writesEnabled, hostReady) ==
  /\ Attempt!Runnable
  /\ hostReady
  /\ nextPhaseIndex < PhaseCount

\* The gates before any access; hostReady stands for a usable BAR0 descriptor
\* and a sequence that still passes the policy audit.
MayExecute(writesEnabled, hostReady) ==
  /\ Attempt!Runnable
  /\ hostReady
  /\ nextPhaseIndex < PhaseCount
  /\ HasActions(Phase) => writesEnabled

ExecuteNextBootPhase(writesEnabled, hostReady) ==
  /\ exec.pc = "idle"
  /\ MayExecute(writesEnabled, hostReady)
  /\ exec' = [ Idle EXCEPT !.pc = "actions", !.writesEnabled = writesEnabled ]
  /\ UNCHANGED << attemptVars, gpu, resetResult, dmaPrepared >>

\* A refused call returns kIOReturnNotPermitted and touches nothing.
RefuseBootPhase(writesEnabled, hostReady) ==
  /\ exec.pc = "idle"
  /\ ~MayExecute(writesEnabled, hostReady)
  /\ UNCHANGED vars

InAction(kinds) ==
  /\ exec.pc = "actions"
  /\ exec.index <= Len(Actions)
  /\ Action.kind \in kinds
  /\ exec.skipping => Action.kind = "EndIf"
  /\ UNCHANGED << attemptVars, resetResult, dmaPrepared >>

\* The body of an If whose condition was false is stepped over.
SkipAction ==
  /\ exec.pc = "actions"
  /\ exec.index <= Len(Actions)
  /\ exec.skipping /\ Action.kind # "EndIf"
  /\ NextAction
  /\ UNCHANGED << attemptVars, gpu, resetResult, dmaPrepared >>

\* What a landed write does to the GPU: starting the FWSEC Falcon lets it raise
\* WPR2, resetting the GSP engine stops it.
GpuAfterWrite ==
  [ gpu EXCEPT !.driven = TRUE,
               !.fwsec = CASE Phase = "ExecuteFrtsFwsec" /\ Action.reg = "CpuCtl" -> TRUE
                           [] Phase = "ResetGspForRiscv" /\ Action.reg = "EngineReset" -> FALSE
                           [] OTHER -> @ ]

\* Mutant: a masked write is not reported as a started hardware action.
WriteRegisterReportingPlainOnly ==
  /\ InAction({ "Write32", "MaskedWrite", "StartCpuRespectAlias" })
  /\ gpu' = GpuAfterWrite
  /\ exec' = [ exec EXCEPT !.index = @ + 1, !.actionWait = 0,
                           !.started = @ \/ Action.kind = "Write32" ]

\* ExecuteConcreteWrite succeeds: the write has landed and is on record.
WriteRegister ==
  /\ InAction({ "Write32", "MaskedWrite", "StartCpuRespectAlias" })
  /\ gpu' = GpuAfterWrite
  /\ exec' = [ exec EXCEPT !.index = @ + 1, !.actionWait = 0, !.started = TRUE ]

\* MapRegister fails before the access.
RegisterUnavailable ==
  /\ InAction({ "Write32", "MaskedWrite", "StartCpuRespectAlias", "PollMaskEqual",
                "IfMaskEqualBegin" })
  /\ EndBody(FALSE)
  /\ UNCHANGED gpu

PollSatisfied ==
  /\ InAction({ "PollMaskEqual" })
  /\ NextAction
  /\ UNCHANGED gpu

PollAgain ==
  /\ InAction({ "PollMaskEqual" })
  /\ exec.actionWait < PollTimeout
  /\ CanConsumeWait(exec.wait, 1, MaxPhaseWait)
  /\ exec' = [ exec EXCEPT !.wait = @ + 1, !.actionWait = @ + 1 ]
  /\ UNCHANGED gpu

PollTimesOut ==
  /\ InAction({ "PollMaskEqual" })
  /\ exec.actionWait >= PollTimeout \/ ~CanConsumeWait(exec.wait, 1, MaxPhaseWait)
  /\ EndBody(FALSE)
  /\ UNCHANGED gpu

Delay ==
  /\ InAction({ "DelayMilliseconds" })
  /\ IF CanConsumeWait(exec.wait, ResetDelay, MaxPhaseWait)
     THEN exec' = [ exec EXCEPT !.index = @ + 1, !.wait = @ + ResetDelay ]
     ELSE EndBody(FALSE)
  /\ UNCHANGED gpu

BeginIf ==
  /\ InAction({ "IfMaskEqualBegin" })
  /\ \E conditionHolds \in BOOLEAN :
       exec' = [ exec EXCEPT !.index = @ + 1, !.skipping = ~conditionHolds ]
  /\ UNCHANGED gpu

EndIf ==
  /\ InAction({ "EndIf" })
  /\ exec' = [ exec EXCEPT !.index = @ + 1, !.skipping = FALSE ]
  /\ UNCHANGED gpu

\* The plan is done: run the phase's check, if it has one, on what is left of
\* the wait budget.
EnterChecks ==
  /\ exec.pc = "actions"
  /\ exec.index > Len(Actions)
  /\ IF Phase \notin PhasesWithCheck
     THEN EndBody(TRUE)
     ELSE IF exec.wait >= MaxPhaseWait
     THEN EndBody(FALSE)
     ELSE exec' = [ exec EXCEPT !.pc = "check" ]
  /\ UNCHANGED << attemptVars, gpu, resetResult, dmaPrepared >>

-----------------------------------------------------------------------------
(***************************************************************************)
(* ExecuteCheck.  Only the WPR2 check reads state this model keeps; what   *)
(* the others read is up to the GPU.                                       *)
(***************************************************************************)

InCheck ==
  /\ exec.pc = "check"
  /\ UNCHANGED << attemptVars, gpu, resetResult, dmaPrepared >>

CheckSatisfied(value) == value

\* What one read of the checked register tells.
ReadCheck == IF Phase = "VerifyWpr2" THEN { gpu.wpr2 } ELSE BOOLEAN

CheckPasses ==
  /\ InCheck
  /\ \E value \in ReadCheck : CheckSatisfied(value)
  /\ EndBody(TRUE)

\* Mutant: the wait counter is too narrow for the limit and wraps.
CheckAgainWrapping ==
  /\ InCheck
  /\ \E value \in ReadCheck : ~CheckSatisfied(value)
  /\ exec.wait < MaxPhaseWait
  /\ exec' = [ exec EXCEPT !.wait = (@ + 1) % MaxPhaseWait ]

CheckAgain ==
  /\ InCheck
  /\ \E value \in ReadCheck : ~CheckSatisfied(value)
  /\ exec.wait < MaxPhaseWait
  /\ exec' = [ exec EXCEPT !.wait = @ + 1 ]

CheckTimesOut ==
  /\ InCheck
  /\ \E value \in ReadCheck : ~CheckSatisfied(value)
  /\ exec.wait >= MaxPhaseWait
  /\ EndBody(FALSE)

CheckUnreadable ==
  /\ InCheck
  /\ EndBody(FALSE)

\* The result is recorded against the attempt and the call returns.
RecordPhase ==
  /\ exec.pc = "record"
  /\ Attempt!RecordBootPhaseResult(nextPhaseIndex, TRUE, exec.succeeded, exec.started)
  /\ exec' = Idle
  /\ UNCHANGED << gpu, resetResult, dmaPrepared >>

ExecutorStep ==
  \/ SkipAction \/ WriteRegister \/ RegisterUnavailable
  \/ PollSatisfied \/ PollAgain \/ PollTimesOut
  \/ Delay \/ BeginIf \/ EndIf \/ EnterChecks
  \/ CheckPasses \/ CheckAgain \/ CheckTimesOut \/ CheckUnreadable
  \/ RecordPhase

-----------------------------------------------------------------------------
(***************************************************************************)
(* The GPU.                                                                *)
(***************************************************************************)

\* FWSEC, once started, may raise WPR2 at any moment, also long after the
\* driver stopped polling.
RaiseWpr2 ==
  /\ gpu.fwsec /\ ~gpu.wpr2
  /\ gpu' = [ gpu EXCEPT !.wpr2 = TRUE ]
  /\ UNCHANGED << attemptVars, exec, resetResult, dmaPrepared >>

-----------------------------------------------------------------------------
(***************************************************************************)
(* Recovery reset.                                                         *)
(***************************************************************************)

\* The gates of RTXMacExecuteRecoveryReset, with the capability read again.
MayReset(plan, resetsEnabled, hotResetAllowed, liveFlr) ==
  /\ resetsEnabled
  /\ plan.valid
  /\ plan.mechanism = "FunctionLevelReset" => liveFlr
  /\ plan.mechanism = "HotReset" => hotResetAllowed

\* A function that was reset runs nothing and masters no bus; whether WPR2
\* survives is up to the GPU.
ResetGpu == { [ gpu EXCEPT !.driven = FALSE, !.fwsec = FALSE, !.wpr2 = up ]
              : up \in { FALSE, gpu.wpr2 } }

\* pci->Reset may also fail, with or without having had an effect.
ExecuteRecoveryReset(plan, resetsEnabled, hotResetAllowed, liveFlr) ==
  /\ exec.pc = "idle"
  /\ IF MayReset(plan, resetsEnabled, hotResetAllowed, liveFlr)
     THEN \/ resetResult' = "issued" /\ gpu' \in ResetGpu
          \/ resetResult' = "failed" /\ gpu' \in ResetGpu \union { gpu }
     ELSE resetResult' = "failed" /\ UNCHANGED gpu
  /\ UNCHANGED << attemptVars, exec, dmaPrepared >>

\* The caller reads the identity, BAR0 and WPR2 and records the report.  A report
\* is recorded against the reset result it was made from, which is then spent.
RecordPostcheck(pciIdentityMatches, bar0Accessible) ==
  /\ exec.pc = "idle"
  /\ Attempt!RecordBootResetPostcheck(CheckResetPostconditions(
       [ resetSucceeded     |-> resetResult = "issued",
         pciIdentityMatches |-> pciIdentityMatches,
         bar0Accessible     |-> bar0Accessible,
         wpr2Up             |-> gpu.wpr2 ]))
  /\ resetResult' = "none"
  /\ UNCHANGED << exec, gpu, dmaPrepared >>

-----------------------------------------------------------------------------
(***************************************************************************)
(* The caller.                                                             *)
(***************************************************************************)

\* Assumption on the caller: a reset is issued only for an attempt that awaits one.
\* RTXMacExecuteRecoveryReset does not know the attempt and does not look.
AwaitsReset == state \in { "FailedNeedsGpuReset", "Unrecovered" }

\* A report permits the caller to start over.
MayBegin ==
  \/ state \in { "Cold", "Rejected" }
  \/ state = "FailedColdReversible" /\ recovery.mayRetryBootstrap
  \/ state = "ResetRecovered" /\ resetPostcheck.mayBeginColdRebuild

\* A report permits the caller to give the DMA buffers back.
MayRelease ==
  \/ state \in { "Cold", "Rejected" }
  \/ state = "FailedColdReversible" /\ recovery.mayReleaseDmaBuffers
  \/ state = "ResetRecovered" /\ resetPostcheck.mayReleasePinnedBootBuffers

PrepareDma ==
  /\ exec.pc = "idle" /\ MayRelease
  /\ dmaPrepared' = TRUE
  /\ UNCHANGED << attemptVars, exec, gpu, resetResult >>

ReleaseDma ==
  /\ exec.pc = "idle" /\ MayRelease
  /\ dmaPrepared' = FALSE
  /\ UNCHANGED << attemptVars, exec, gpu, resetResult >>

\* The caller reports what it holds: the DMA fact and WPR2 as they are, the
\* other facts as they happen to be.
BeginAttempt(facts, sequencePolicyValid) ==
  /\ exec.pc = "idle" /\ MayBegin
  /\ "allSystemDmaResolved" \in facts <=> dmaPrepared
  /\ Attempt!BeginBootAttempt(facts, gpu.wpr2, sequencePolicyValid)
  /\ resetResult' = "none"
  /\ UNCHANGED << exec, gpu, dmaPrepared >>

CallerStep ==
  \/ \E writesEnabled, hostReady \in BOOLEAN :
       \/ ExecuteNextBootPhase(writesEnabled, hostReady)
       \/ RefuseBootPhase(writesEnabled, hostReady)
  \/ \E flrSupported, planHot, gate, resetsEnabled, hotResetAllowed, liveFlr \in BOOLEAN :
       /\ AwaitsReset
       /\ ExecuteRecoveryReset(PlanGpuRecoveryReset(flrSupported, planHot, gate),
                               resetsEnabled, hotResetAllowed, liveFlr)
  \/ \E pciIdentityMatches, bar0Accessible \in BOOLEAN :
       RecordPostcheck(pciIdentityMatches, bar0Accessible)
  \/ \E facts \in FactSets, sequencePolicyValid \in BOOLEAN :
       BeginAttempt(facts, sequencePolicyValid)
  \/ PrepareDma
  \/ ReleaseDma

-----------------------------------------------------------------------------

Init ==
  /\ Attempt!Init
  /\ exec = Idle
  /\ gpu \in [ driven : { FALSE }, fwsec : { FALSE }, wpr2 : BOOLEAN ]
  /\ resetResult = "none"
  /\ dmaPrepared = FALSE

Next == ExecutorStep \/ RaiseWpr2 \/ CallerStep

\* The executor's thread runs and IOSleep returns.  Nothing is assumed of the GPU
\* or the caller.
Fairness == WF_vars(ExecutorStep)

Spec == Init /\ [][Next]_vars

FairSpec == Spec /\ Fairness

-----------------------------------------------------------------------------
(***************************************************************************)
(* Properties.                                                             *)
(***************************************************************************)

\* The executor's locals and the modelled GPU facts keep their types, and the
\* wait a call has spent stays within maxPhaseWaitMilliseconds: the Falcon plan's
\* polls and delays and the phase check draw on one budget
\* (RTXMacBootPhase.cpp:141-160, CanConsumeWait).
TypeOK ==
  /\ Attempt!TypeOK
  /\ exec \in Execs
  /\ gpu \in [ driven : BOOLEAN, fwsec : BOOLEAN, wpr2 : BOOLEAN ]
  /\ resetResult \in { "none", "issued", "failed" }
  /\ dmaPrepared \in BOOLEAN

\* "Reaching any of these means the initial GSP reset has already executed"
\* (boot_recovery.cpp:53): however phases fail, are retried or begin anew after a
\* reset, an attempt past ResetGspForFrts has the commit boundary on record.
PastResetIsCommitted == Attempt!PastResetIsCommitted

\* Once the boundary is crossed a failure never ends in the state, nor leaves the
\* permissions, of a cold one (boot_recovery.hpp:7-9).
CommitForbidsColdRecovery == Attempt!CommitForbidsColdRecovery

\* Whenever no phase is executing, a GPU that the driver has written to belongs to
\* an attempt that records the crossed commit boundary: no order of register
\* failures, time-outs, refused calls and resets hides a landed write from the
\* orchestrator (RTXMacFalcon.cpp:149 and 203, boot_orchestrator.cpp:45).
LandedWritesAreOnRecord ==
  gpu.driven /\ exec.pc = "idle" => firstResetCommitCrossed

\* A failure the attempt calls cold-reversible has left the GPU untouched, so
\* rolling the cold resources back is sound (boot_recovery.hpp:7-9, 20-23).
ColdFailureLeftGpuUntouched ==
  state = "FailedColdReversible" => ~gpu.driven /\ ~gpu.fwsec

\* DMA buffers are never given back while an engine may still reference them
\* (boot_recovery.cpp:53-56): only a reset that was verified, or a failure before
\* the first write, unpins them.
DrivenGpuKeepsDmaPinned == gpu.driven => dmaPrepared

\* ResetRecovered is only reached with the GPU quiet and WPR2 down
\* (reset_postcheck.cpp:14-21), and the next attempt becomes runnable only on such
\* a GPU, even when FWSEC raises WPR2 after its phase was given up.
RunnableOnlyOnQuietGpu ==
  state \in { "Ready", "ResetRecovered" } => ~gpu.driven /\ ~gpu.wpr2

\* A boot that ends in Succeeded has really raised WPR2 (the VerifyWpr2 phase).
SucceededMeansWpr2Up == state = "Succeeded" => gpu.driven /\ gpu.wpr2

\* A phase that passed the executor's gates always updates the attempt when it
\* returns: the action lists never finish with hardwareActionsStarted in
\* disagreement with RecordBootPhaseResult (boot_orchestrator.cpp:38-43).
ExecutedPhaseIsRecorded ==
  [][exec.pc = "record" /\ exec'.pc = "idle" => event' = "Ok"]_vars

\* Every call of the executor returns, whether or not the GPU ever answers.
PhaseTerminates == exec.pc # "idle" ~> exec.pc = "idle"

\* A call made without the write gate never changes what runs on the GPU, wherever
\* earlier calls have left the attempt.  Such a call executes, and consumes, a phase
\* that has only checks, so it also moves the attempt on to phases that write: the
\* gate is looked at once per call and only if the phase has actions
\* (RTXMacBootPhase.cpp:125-132).
DryCallLeavesGpu ==
  [][exec.pc # "idle" /\ ~exec.writesEnabled =>
       gpu'.driven = gpu.driven /\ gpu'.fwsec = gpu.fwsec]_vars

=============================================================================
