----------------------------- MODULE FalconPlan -----------------------------
(***************************************************************************)
(* The Falcon action lists of the audited boot sequence                    *)
(* (src/core/falcon_plan.cpp, PlanBootSequence in gsp_manifest.cpp).       *)
(*                                                                         *)
(* An action is its kind and the register it touches.  Values, masks and   *)
(* engine base addresses do not change which step the executor takes and   *)
(* are left out; time limits are the constants of module BootPhase.        *)
(***************************************************************************)
EXTENDS BootPolicy

CONSTANT TransferBlocks  \* 256-byte DMA transfers of one IMEM or DMEM load

ASSUME TransferBlocksAssumption == TransferBlocks \in Nat

ActionKinds ==
  { "Write32", "MaskedWrite", "PollMaskEqual", "DelayMilliseconds",
    "StartCpuRespectAlias", "IfMaskEqualBegin", "EndIf" }

\* The registers the plans touch; "None" for an action that touches none.
Registers ==
  { "None", "EngineReset", "Hwcfg2", "RiscvBcrCtrl", "FalconRm", "FalconOs",
    "DmaCtl", "DmaCmd", "DmaBase", "DmaBase1", "DmaMemOffset", "DmaFbOffset",
    "FbifCtl", "FbifTransCfg0", "BromParaAddr0", "BromEngineIdMask", "BromUcodeId",
    "BromModSel", "BootVec", "Mailbox0", "Mailbox1", "CpuCtl" }

Act(kind, reg) == [ kind |-> kind, reg |-> reg ]

Write(reg)  == Act("Write32", reg)
Masked(reg) == Act("MaskedWrite", reg)
Poll(reg)   == Act("PollMaskEqual", reg)

PlanReset(bootRiscv) ==
  << Masked("EngineReset"), Act("DelayMilliseconds", "None"),
     Masked("EngineReset"), Poll("Hwcfg2") >>
  \o IF bootRiscv
     THEN << Masked("RiscvBcrCtrl") >>
     ELSE << Act("IfMaskEqualBegin", "Hwcfg2"), Masked("RiscvBcrCtrl"),
             Poll("RiscvBcrCtrl"), Write("FalconRm"), Act("EndIf", "None") >>

\* One 256-byte transfer: wait until the queue is not full, then three writes.
TransferBlock ==
  << Poll("DmaCmd"), Write("DmaMemOffset"), Write("DmaFbOffset"), Write("DmaCmd") >>

AddDma ==
  << Poll("DmaCmd"), Write("DmaBase"), Write("DmaBase1") >>
  \o [ k \in 1..(4 * TransferBlocks) |-> TransferBlock[((k - 1) % 4) + 1] ]
  \o << Poll("DmaCmd") >>

PlanAuthenticatedExecution(hasMailbox) ==
  << Masked("FbifCtl"), Write("DmaCtl"), Masked("FbifTransCfg0") >>
  \o AddDma \o AddDma
  \o << Write("BromParaAddr0"), Write("BromEngineIdMask"), Write("BromUcodeId"),
        Masked("BromModSel"), Write("BootVec") >>
  \o (IF hasMailbox THEN << Write("Mailbox0"), Write("Mailbox1") >> ELSE << >>)
  \o << Act("StartCpuRespectAlias", "CpuCtl"), Poll("CpuCtl") >>

\* phase.actions of the sequence PlanBootSequence builds.
PhaseActions(phase) ==
  CASE phase \in { "ResetGspForFrts", "ResetSec2" } -> PlanReset(FALSE)
    [] phase = "ResetGspForRiscv"                   -> PlanReset(TRUE)
    [] phase = "ExecuteFrtsFwsec"                   -> PlanAuthenticatedExecution(FALSE)
    [] phase = "ExecuteSec2Booter"                  -> PlanAuthenticatedExecution(TRUE)
    [] phase = "ProgramLibosMailbox"                -> << Write("Mailbox0"), Write("Mailbox1") >>
    [] phase = "ReleaseGspRiscv"                    -> << Write("FalconOs") >>
    [] OTHER                                        -> << >>

=============================================================================
