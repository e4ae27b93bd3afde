----------------------------- MODULE BootPolicy -----------------------------
(***************************************************************************)
(* The portable decision functions around a GA10x GSP boot attempt: the    *)
(* exact phase order, the final commit preflight, the recovery class of a  *)
(* failed phase, the recovery-reset plan and the post-reset check.         *)
(*                                                                         *)
(* They are pure functions in the code (src/core/boot_*.cpp and            *)
(* reset_*.cpp) and constant-level operators here.  Reports are records    *)
(* with the field names of the C++ structs.  PCI identities and register   *)
(* values are kept only as far as the functions compare them.              *)
(***************************************************************************)
EXTENDS Naturals, Sequences

-----------------------------------------------------------------------------
(***************************************************************************)
(* Phases.                                                                 *)
(***************************************************************************)

kExpectedPhases == <<
  "PrefillBootstrapRpcRecords", "ResetGspForFrts", "ExecuteFrtsFwsec",
  "VerifyWpr2", "ResetGspForRiscv", "ProgramLibosMailbox", "ResetSec2",
  "ExecuteSec2Booter", "VerifySec2Booter", "ReleaseGspRiscv",
  "VerifyGspRiscv", "WaitStatusQueue" >>

PhaseCount == 12

\* The phase at the code's zero-based index.
PhaseAt(i) == kExpectedPhases[i + 1]

\* Phases the audited sequence gives no Falcon action: they only check.
CheckOnlyPhases ==
  { "PrefillBootstrapRpcRecords", "VerifyWpr2", "VerifySec2Booter",
    "VerifyGspRiscv", "WaitStatusQueue" }

\* !phase.actions.empty() for a sequence the shape policy accepts.
HasActions(phase) == phase \notin CheckOnlyPhases

\* Phases the audited sequence gives exactly one check.
PhasesWithCheck == CheckOnlyPhases \ { "PrefillBootstrapRpcRecords" }

-----------------------------------------------------------------------------
(***************************************************************************)
(* Recovery class of a failed phase.                                       *)
(***************************************************************************)

Recovery(reset, cold) ==
  [ fullGpuResetRequired       |-> reset,
    mayRetryBootstrap          |-> cold,
    mayRollbackPraminScratch   |-> cold,
    mayRollbackPciCommand      |-> cold,
    mayRollbackSysmemFlushPage |-> cold,
    mayReleaseDmaBuffers       |-> cold,
    keepDmaAndFlushPinned      |-> reset ]

ColdReversible == Recovery(FALSE, TRUE)

FullResetRequired == Recovery(TRUE, FALSE)

\* The value-initialised struct of an attempt that has not failed.
NoRecovery == Recovery(FALSE, FALSE)

RecoveryForBootFailure(failedPhase, phaseActionsStarted) ==
  CASE failedPhase = "PrefillBootstrapRpcRecords" -> ColdReversible
    [] failedPhase = "ResetGspForFrts" ->
         IF phaseActionsStarted THEN FullResetRequired ELSE ColdReversible
    [] OTHER -> FullResetRequired

-----------------------------------------------------------------------------
(***************************************************************************)
(* The final gate before the first Falcon reset.  BootCommitPrerequisites  *)
(* is the set of facts the caller holds and whether                        *)
(* NV_PFB_PRI_MMU_WPR2_ADDR_HI read non-zero.  Which missing fact is       *)
(* reported first is diagnostic only and is left out.                      *)
(***************************************************************************)

AllFacts ==
  { "executionGateEnabled", "armingContractAccepted", "pciMemorySpaceEnabled",
    "pciBusMasterEnabled", "sysmemFlushPageProgrammed", "allSystemDmaResolved",
    "resolvedArtifactsBuilt", "frtsFramebufferImageVerified",
    "sec2FramebufferImageVerified", "bootstrapRpcPrefilled",
    "falconPlansPolicyValid" }

\* Bound: the sets of facts a caller is checked with lack at most two.
FactSets == { AllFacts \ { f, g } : f, g \in AllFacts \union { "nothing" } }

CheckBootCommitPreflight(facts, wpr2Up) ==
  [ ready                 |-> facts = AllFacts /\ ~wpr2Up,
    coldRollbackStillSafe |-> TRUE ]

-----------------------------------------------------------------------------
(***************************************************************************)
(* Recovery reset: plan and post-reset check.                              *)
(***************************************************************************)

\* Function-level reset is preferred; a hot reset needs explicit permission.
\* A valid plan carries every invalidation flag, so ResetPlanInvalidatesBootState
\* is its "valid" field.
PlanGpuRecoveryReset(flrSupported, hotResetAllowed, executionGateEnabled) ==
  LET mechanism == CASE ~executionGateEnabled -> "None"
                     [] executionGateEnabled /\ flrSupported -> "FunctionLevelReset"
                     [] executionGateEnabled /\ ~flrSupported /\ hotResetAllowed -> "HotReset"
                     [] OTHER -> "None"
  IN [ valid |-> mechanism # "None", mechanism |-> mechanism ]

PostcheckReport(ok) ==
  [ recovered                   |-> ok,
    mayReleasePinnedBootBuffers |-> ok,
    mayBeginColdRebuild         |-> ok,
    keepPinnedAndRequireReset   |-> ~ok ]

\* The value-initialised report of an attempt no postcheck was recorded for.
NoPostcheck == [ PostcheckReport(FALSE) EXCEPT !.keepPinnedAndRequireReset = FALSE ]

PostcheckReports == [ recovered                   : BOOLEAN,
                      mayReleasePinnedBootBuffers : BOOLEAN,
                      mayBeginColdRebuild         : BOOLEAN,
                      keepPinnedAndRequireReset   : BOOLEAN ]

\* Mutant: a reset that did not succeed is not looked at.
CheckResetPostconditionsIgnoringReset(in) ==
  PostcheckReport(in.pciIdentityMatches /\ in.bar0Accessible /\ ~in.wpr2Up)

CheckResetPostconditions(in) ==
  PostcheckReport(/\ in.resetSucceeded
                  /\ in.pciIdentityMatches
                  /\ in.bar0Accessible
                  /\ ~in.wpr2Up)

=============================================================================
