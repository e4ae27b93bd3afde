---------------------------- MODULE BootAttempt ----------------------------
(***************************************************************************)
(* The boot orchestrator (src/core/boot_orchestrator.cpp): the state of    *)
(* one GSP boot attempt and the three functions that change it.            *)
(*                                                                         *)
(* The functions are total: a caller may pass any phase index, flag or     *)
(* report at any time, and a call the state does not allow returns an      *)
(* event status and changes nothing else.  This module lets the caller do  *)
(* exactly that; module BootPhase puts the real executor in its place.     *)
(***************************************************************************)
EXTENDS BootPolicy, Integers

VARIABLES
  state,                    \* BootAttempt::state
  nextPhaseIndex,           \* BootAttempt::nextPhaseIndex, zero based
  firstResetCommitCrossed,  \* BootAttempt::firstResetCommitCrossed
  recovery,                 \* BootAttempt::recovery
  resetPostcheck,           \* BootAttempt::resetPostcheck
  event                     \* BootAttemptEventStatus of the last call

attemptVars == << state, nextPhaseIndex, firstResetCommitCrossed, recovery,
                  resetPostcheck, event >>

BootAttemptStates ==
  { "Cold", "Ready", "Running", "Succeeded", "Rejected", "FailedColdReversible",
    "FailedNeedsGpuReset", "ResetRecovered", "Unrecovered" }

BootAttemptEventStatuses ==
  { "Ok", "NotRunnable", "WrongPhase", "InvalidHardwareActionFlag",
    "NotAwaitingReset" }

Runnable == state \in { "Ready", "Running" }

-----------------------------------------------------------------------------

Init ==
  /\ state = "Cold"
  /\ nextPhaseIndex = 0
  /\ firstResetCommitCrossed = FALSE
  /\ recovery = NoRecovery
  /\ resetPostcheck = NoPostcheck
  /\ event = "Ok"

\* A fresh attempt replaces whatever the caller held before.
BeginBootAttempt(facts, wpr2Up, sequencePolicyValid) ==
  /\ state' = IF CheckBootCommitPreflight(facts, wpr2Up).ready /\ sequencePolicyValid
              THEN "Ready" ELSE "Rejected"
  /\ nextPhaseIndex' = 0
  /\ firstResetCommitCrossed' = FALSE
  /\ recovery' = NoRecovery
  /\ resetPostcheck' = NoPostcheck
  /\ event' = "Ok"

\* Why a phase result is refused, or "Ok": the early returns in their order.
PhaseResultStatus(phaseIndex, sequenceValid, succeeded, started) ==
  IF ~Runnable
  THEN "NotRunnable"
  ELSE IF ~sequenceValid \/ phaseIndex # nextPhaseIndex \/ phaseIndex >= PhaseCount
  THEN "WrongPhase"
  ELSE IF \/ succeeded /\ HasActions(PhaseAt(phaseIndex)) # started
          \/ ~HasActions(PhaseAt(phaseIndex)) /\ started
  THEN "InvalidHardwareActionFlag"
  ELSE "Ok"

\* A crossed commit boundary turns every failure into a full-reset one.
FailureRecovery(phase, started, crossed) ==
  LET r == RecoveryForBootFailure(phase, started)
  IN  IF crossed /\ ~r.fullGpuResetRequired
      THEN RecoveryForBootFailure("ResetGspForFrts", TRUE)
      ELSE r

\* The first reset's writes cross the commit boundary, for good.
CommitCrossed(phase, started) ==
  firstResetCommitCrossed \/ (phase = "ResetGspForFrts" /\ started)

IndexAfter(succeeded) == IF succeeded THEN nextPhaseIndex + 1 ELSE nextPhaseIndex

RecordBootPhaseResult(phaseIndex, sequenceValid, succeeded, started) ==
  LET status  == PhaseResultStatus(phaseIndex, sequenceValid, succeeded, started)
      phase   == PhaseAt(phaseIndex)
      crossed == CommitCrossed(phase, started)
      failure == FailureRecovery(phase, started, crossed)
  IN  /\ event' = status
      /\ \/ /\ status # "Ok"
            /\ UNCHANGED << state, nextPhaseIndex, firstResetCommitCrossed, recovery >>
         \/ /\ status = "Ok"
            /\ firstResetCommitCrossed' = crossed
            /\ nextPhaseIndex' = IndexAfter(succeeded)
            /\ IF succeeded
               THEN /\ state' = IF nextPhaseIndex' = PhaseCount
                                THEN "Succeeded" ELSE "Running"
                    /\ UNCHANGED recovery
               ELSE /\ state' = IF failure.fullGpuResetRequired
                                THEN "FailedNeedsGpuReset" ELSE "FailedColdReversible"
                    /\ recovery' = failure
      /\ UNCHANGED resetPostcheck

RecordBootResetPostcheck(report) ==
  /\ \/ /\ state # "FailedNeedsGpuReset"
        /\ event' = "NotAwaitingReset"
        /\ UNCHANGED << state, resetPostcheck >>
     \/ /\ state = "FailedNeedsGpuReset"
        /\ event' = "Ok"
        /\ resetPostcheck' = report
        /\ state' = IF /\ report.recovered
                       /\ report.mayReleasePinnedBootBuffers
                       /\ report.mayBeginColdRebuild
                       /\ ~report.keepPinnedAndRequireReset
                    THEN "ResetRecovered" ELSE "Unrecovered"
  /\ UNCHANGED << nextPhaseIndex, firstResetCommitCrossed, recovery >>

Next ==
  \/ \E facts \in FactSets, wpr2Up, policyValid \in BOOLEAN :
       BeginBootAttempt(facts, wpr2Up, policyValid)
  \/ \E phaseIndex \in 0..PhaseCount, sequenceValid, succeeded, started \in BOOLEAN :
       RecordBootPhaseResult(phaseIndex, sequenceValid, succeeded, started)
  \/ \E report \in PostcheckReports : RecordBootResetPostcheck(report)

Spec == Init /\ [][Next]_attemptVars

-----------------------------------------------------------------------------
(***************************************************************************)
(* Properties that hold whatever the caller passes.                        *)
(***************************************************************************)

\* The orchestrator's fields keep their C++ types, and the index never passes
\* the end of the sequence (boot_orchestrator.hpp, struct BootAttempt).
TypeOK ==
  /\ state \in BootAttemptStates
  /\ nextPhaseIndex \in 0..PhaseCount
  /\ firstResetCommitCrossed \in BOOLEAN
  /\ recovery \in { NoRecovery, ColdReversible, FullResetRequired }
  /\ resetPostcheck \in PostcheckReports
  /\ event \in BootAttemptEventStatuses

\* "Reaching any of these means the initial GSP reset has already executed"
\* (boot_recovery.cpp:53): no sequence of results, however wrong its flags, gets
\* an attempt past ResetGspForFrts without the commit boundary on record.
PastResetIsCommitted == nextPhaseIndex >= 2 => firstResetCommitCrossed

\* Once the boundary is crossed a failure is a full-reset failure: it never ends
\* in the state, nor leaves the permissions, of a cold one (boot_recovery.hpp:7-9).
CommitForbidsColdRecovery ==
  firstResetCommitCrossed =>
    /\ state # "FailedColdReversible"
    /\ ~recovery.mayRetryBootstrap /\ ~recovery.mayReleaseDmaBuffers

=============================================================================
