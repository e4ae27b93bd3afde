---------------------------- MODULE FalconPolicy ----------------------------
(***************************************************************************)
(* The Falcon plans with their values (falcon_plan.cpp, PlanBootSequence)  *)
(* and the static policy that audits them (falcon_policy.cpp, the action   *)
(* part of boot_sequence_policy.cpp).                                      *)
(*                                                                         *)
(* A register value, and a mask, is the set of its one bits, so that a     *)
(* mask test is set inclusion; an address is an engine and a register      *)
(* name.  The widths that bound the arithmetic are constants.              *)
(***************************************************************************)
EXTENDS Integers, Sequences, FiniteSetsExt

CONSTANTS WordBits,       \* 32: width of a register
          Base1Bits,      \* 9: width of DMA base high
          MemOffsetBits,  \* 24: width of the DMA memory offset
          kTransferBytes, \* 256
          kPageBytes      \* 4096

ASSUME WidthAssumption ==
  /\ WordBits \in 17..32 /\ Base1Bits \in 1..WordBits
  /\ MemOffsetBits \in 1..WordBits
  /\ kTransferBytes \in Nat \ {0} /\ kPageBytes \in Nat \ {0}

Engines == {"Gsp", "Sec2"}
All == 0..(WordBits - 1)
ToWord(n) == {b \in All : (n \div 2^b) % 2 = 1}
Number(bits) == MapThenSumSet(LAMBDA b : 2^b, bits)

kWriteRules ==
  [ EngineReset |-> {0}, RiscvBcrCtrl |-> {0, 4, 8}, FalconOs |-> All,
    FalconRm |-> All, FbifCtl |-> {7}, DmaCtl |-> 0..2, FbifTransCfg0 |-> 0..2,
    DmaBase |-> All, DmaBase1 |-> 0..(Base1Bits - 1),
    DmaMemOffset |-> 0..(MemOffsetBits - 1), DmaFbOffset |-> All,
    DmaCmd |-> (0..5) \cup (8..10) \cup (12..14) \cup {16},
    BromParaAddr0 |-> All, BromEngineIdMask |-> All, BromUcodeId |-> 0..7,
    BromModSel |-> 0..7, BootVec |-> All, Mailbox0 |-> All, Mailbox1 |-> All,
    CpuCtl |-> {1}, CpuCtlAlias |-> {1} ]

kReadRules ==
  [ Hwcfg2 |-> {10, 12}, DmaCmd |-> {0, 1}, RiscvBcrCtrl |-> {0, 4, 8},
    CpuCtl |-> All ]

Registers == DOMAIN kWriteRules \cup DOMAIN kReadRules

-----------------------------------------------------------------------------
(* Actions and their audit *)

Act(kind, engine, reg, value, mask, timeoutMs) ==
  [kind |-> kind, engine |-> engine, reg |-> reg, value |-> value,
   mask |-> mask, timeoutMs |-> timeoutMs]

Write32(e, reg, value) == Act("Write32", e, reg, value, All, 0)
WriteWithin(e, reg, value, mask) == Act("Write32", e, reg, value, mask, 0)
MaskedWrite(e, reg, value, mask) == Act("MaskedWrite", e, reg, value, mask, 0)
AddPoll(e, reg, mask, value) == Act("PollMaskEqual", e, reg, value, mask, 10000)
Delay(ms) == Act("DelayMilliseconds", "None", "None", ToWord(ms), {}, 0)
EndIf == Act("EndIf", "None", "None", {}, {}, 0)

\* DecodeEngineAddress and FindRule.
Listed(a, rules) == a.engine \in Engines /\ a.reg \in DOMAIN rules
MaskAllowed(a, rules) == a.mask # {} /\ a.mask \subseteq rules[a.reg]

\* Mutant: the alias of CPUCTL is left out of the list.
CheckGa102ActionPolicyWithoutAlias(a) ==
  IF a.reg = "CpuCtlAlias" THEN "DeniedUnknownAddress"
  ELSE IF a.kind = "StartCpuRespectAlias" THEN "RequiresStartCpuAliasSupport"
  ELSE "Allowed"

CheckGa102ActionPolicy(a) ==
  LET fits == a.value \subseteq a.mask
  IN  CASE a.kind \in {"Write32", "MaskedWrite"} ->
             IF ~Listed(a, kWriteRules) THEN "DeniedUnknownAddress"
             ELSE IF ~MaskAllowed(a, kWriteRules) THEN "DeniedMask"
             ELSE IF ~fits THEN "DeniedValue"
             ELSE IF a.timeoutMs # 0 THEN "DeniedTimeout" ELSE "Allowed"
        [] a.kind \in {"PollMaskEqual", "IfMaskEqualBegin"} ->
             IF ~Listed(a, kReadRules) THEN "DeniedUnknownAddress"
             ELSE IF ~MaskAllowed(a, kReadRules) THEN "DeniedMask"
             ELSE IF ~fits THEN "DeniedValue"
             ELSE IF a.timeoutMs \notin (IF a.kind = "PollMaskEqual"
                                           THEN 1..60000 ELSE {0})
               THEN "DeniedTimeout" ELSE "Allowed"
        [] a.kind = "DelayMilliseconds" ->
             IF \/ a.engine # "None" \/ a.mask # {} \/ a.timeoutMs # 0
                \/ Number(a.value) \notin 1..10000
               THEN "DeniedTimeout" ELSE "Allowed"
        [] a.kind = "StartCpuRespectAlias" ->
             IF \/ ~(a.engine \in Engines /\ a.reg = "CpuCtl")
                \/ a.value # {} \/ a.mask # {} \/ a.timeoutMs # 0
               THEN "DeniedUnknownAddress" ELSE "RequiresStartCpuAliasSupport"
        [] a.kind = "EndIf" ->
             IF a = EndIf THEN "Allowed" ELSE "DeniedControlFlow"

\* Mutant: the start bit always goes to CPUCTL.
ResolveGa102StartCpuActionPlain(a, cpuCtl) ==
  MaskedWrite(a.engine, "CpuCtl", {1}, {1})

\* ResolveGa102StartCpuAction: bit 6 of CPUCTL says where the start bit goes.
ResolveGa102StartCpuAction(a, cpuCtl) ==
  IF 6 \in cpuCtl THEN WriteWithin(a.engine, "CpuCtlAlias", {1}, {1})
  ELSE MaskedWrite(a.engine, "CpuCtl", {1}, {1})

\* The conditional regions open at position i.
OpenBefore(actions, i, kind) ==
  Cardinality({k \in 1..(i - 1) : actions[k].kind = kind})

\* CheckGa102PlanPolicy: every action is allowed, and conditional regions are
\* closed and not nested.
CheckGa102PlanPolicy(actions) ==
  /\ \A i \in DOMAIN actions :
       CheckGa102ActionPolicy(actions[i]) \in {"Allowed", "RequiresStartCpuAliasSupport"}
  /\ \A i \in DOMAIN actions :
       LET open == OpenBefore(actions, i, "IfMaskEqualBegin")
                     - OpenBefore(actions, i, "EndIf")
       IN  /\ actions[i].kind = "IfMaskEqualBegin" => open = 0
           /\ actions[i].kind = "EndIf" => open = 1
  /\ OpenBefore(actions, Len(actions) + 1, "IfMaskEqualBegin")
       = OpenBefore(actions, Len(actions) + 1, "EndIf")

-----------------------------------------------------------------------------
(* Plans *)

Refused == << >>

\* The core PlanReset selects once the memories are scrubbed.
SelectCore(e, bootRiscv, chipId) ==
  IF bootRiscv THEN << MaskedWrite(e, "RiscvBcrCtrl", {4, 8}, {0, 4, 8}) >>
  ELSE << Act("IfMaskEqualBegin", e, "Hwcfg2", {10}, {10}, 0),
          MaskedWrite(e, "RiscvBcrCtrl", {}, {4}),
          AddPoll(e, "RiscvBcrCtrl", {0}, {0}),
          Write32(e, "FalconRm", ToWord(chipId)), EndIf >>

\* Mutant: the register base is always that of the GSP.
PlanResetOfGsp(e, bootRiscv, chipId) ==
  << MaskedWrite("Gsp", "EngineReset", {0}, {0}), Delay(100),
     MaskedWrite("Gsp", "EngineReset", {}, {0}), AddPoll("Gsp", "Hwcfg2", {12}, {}) >>
  \o SelectCore("Gsp", bootRiscv, chipId)

PlanReset(e, bootRiscv, chipId) ==
  << MaskedWrite(e, "EngineReset", {0}, {0}), Delay(100),
     MaskedWrite(e, "EngineReset", {}, {0}), AddPoll(e, "Hwcfg2", {12}, {}) >>
  \o SelectCore(e, bootRiscv, chipId)

kImemDmaCommand == {10, 9, 4, 2}  \* 0x614
kDmemDmaCommand == {10, 9}        \* 0x600

\* Mutant: the transfers are issued without waiting for room.
TransferBlockUnpolled(e, dest, memoryOffset, command) ==
  << WriteWithin(e, "DmaMemOffset", ToWord(dest), 0..(MemOffsetBits - 1)),
     Write32(e, "DmaFbOffset", ToWord(memoryOffset)),
     WriteWithin(e, "DmaCmd", command, kWriteRules.DmaCmd) >>

\* One transfer: when the queue is not full, the destination in the Falcon,
\* the offset from the base, and the command.
TransferBlock(e, dest, memoryOffset, command) ==
  << AddPoll(e, "DmaCmd", {0}, {}),
     WriteWithin(e, "DmaMemOffset", ToWord(dest), 0..(MemOffsetBits - 1)),
     Write32(e, "DmaFbOffset", ToWord(memoryOffset)),
     WriteWithin(e, "DmaCmd", command, kWriteRules.DmaCmd) >>

\* The loop of AddDma: the transfers of `blocks` consecutive blocks.
Transfers(e, dest, memoryOffset, blocks, command) ==
  LET block(k) == TransferBlock(e, dest + k * kTransferBytes,
                                memoryOffset + k * kTransferBytes, command)
      size == Len(block(0))
  IN  [k \in 1..(blocks * size) |-> block((k - 1) \div size)[((k - 1) % size) + 1]]

\* AddDma: the base of the source, the transfers, and a wait for the last one.
AddDmaWithEnd(e, source, dest, memoryOffset, bytes, command, end) ==
  LET shifted == source \div kTransferBytes
      blocks  == bytes \div kTransferBytes
      last    == (blocks - 1) * kTransferBytes
  IN  IF \/ bytes % kTransferBytes # 0 \/ source % kTransferBytes # 0
         \/ shifted >= 2^(WordBits + Base1Bits)
         \/ blocks > 0 /\ (dest + last >= 2^WordBits \/ memoryOffset + last >= 2^WordBits)
        THEN Refused
        ELSE << AddPoll(e, "DmaCmd", {0}, {}),
                Write32(e, "DmaBase", ToWord(shifted)),
                WriteWithin(e, "DmaBase1", ToWord(shifted \div 2^WordBits),
                            0..(Base1Bits - 1)) >>
             \o Transfers(e, dest, memoryOffset, blocks, command) \o end

\* Mutant: the last transfer is not waited for.
AddDmaWithoutIdle(e, source, dest, memoryOffset, bytes, command) ==
  AddDmaWithEnd(e, source, dest, memoryOffset, bytes, command, << >>)

\* Mutant: the plan waits until the queue is busy.
AddDmaWaitsBusy(e, source, dest, memoryOffset, bytes, command) ==
  AddDmaWithEnd(e, source, dest, memoryOffset, bytes, command,
                << AddPoll(e, "DmaCmd", {1}, {}) >>)

AddDma(e, source, dest, memoryOffset, bytes, command) ==
  AddDmaWithEnd(e, source, dest, memoryOffset, bytes, command,
                << AddPoll(e, "DmaCmd", {1}, {1}) >>)

\* PlanAuthenticatedExecution; an image address is far below 2^64.
PlanAuthenticatedExecution(p) ==
  LET e    == p.engine
      imem == AddDma(e, p.image + p.codeOffset - p.imemVirtualBase,
                     p.imemPhysicalBase, p.imemVirtualBase, p.imemBytes,
                     kImemDmaCommand)
      dmem == AddDma(e, p.image + p.dataOffset - p.dmemVirtualBase,
                     p.dmemPhysicalBase, p.dmemVirtualBase, p.dmemBytes,
                     kDmemDmaCommand)
  IN  IF \/ p.imemBytes % kTransferBytes # 0 \/ p.dmemBytes % kTransferBytes # 0
         \/ p.codeOffset < p.imemVirtualBase \/ p.dataOffset < p.dmemVirtualBase
         \/ Refused \in {imem, dmem}
        THEN Refused
        ELSE << MaskedWrite(e, "FbifCtl", {7}, {7}),
                WriteWithin(e, "DmaCtl", {}, 0..2),
                MaskedWrite(e, "FbifTransCfg0", {2}, 0..2) >>
             \o imem \o dmem
             \o << Write32(e, "BromParaAddr0", ToWord(p.pkcOffset)),
                   Write32(e, "BromEngineIdMask", ToWord(p.engineIdMask)),
                   WriteWithin(e, "BromUcodeId", ToWord(p.ucodeId), 0..7),
                   MaskedWrite(e, "BromModSel", {0}, 0..7),
                   Write32(e, "BootVec", ToWord(p.imemVirtualBase)) >>
             \o (IF p.mailbox = {} THEN << >>
                 ELSE << Write32(e, "Mailbox0", ToWord(Max(p.mailbox))),
                         Write32(e, "Mailbox1", ToWord(Max(p.mailbox) \div 2^WordBits)) >>)
             \o << Act("StartCpuRespectAlias", e, "CpuCtl", {}, {}, 0),
                   AddPoll(e, "CpuCtl", {4}, {4}) >>

-----------------------------------------------------------------------------
(* The boot sequence *)

FrtsParameters(in) ==
  [engine |-> "Gsp", image |-> in.frtsImage, codeOffset |-> 0,
   dataOffset |-> in.fwsec.imemLoadSize,
   imemPhysicalBase |-> in.fwsec.imemPhysBase,
   imemVirtualBase |-> in.fwsec.imemVirtBase,
   imemBytes |-> in.fwsec.imemLoadSize,
   dmemPhysicalBase |-> in.fwsec.dmemPhysBase, dmemVirtualBase |-> 0,
   dmemBytes |-> in.fwsec.dmemLoadSize, pkcOffset |-> in.fwsec.pkcDataOffset,
   engineIdMask |-> in.fwsec.engineIdMask, ucodeId |-> in.fwsec.ucodeId, mailbox |-> {}]

Sec2Parameters(in) ==
  [engine |-> "Sec2", image |-> in.sec2Image, codeOffset |-> in.sec2.codeOffset,
   dataOffset |-> in.sec2.dataOffset, imemPhysicalBase |-> 0,
   imemVirtualBase |-> in.sec2.codeOffset, imemBytes |-> in.sec2.codeSize,
   dmemPhysicalBase |-> 0, dmemVirtualBase |-> 0,
   dmemBytes |-> in.sec2.dataSize, pkcOffset |-> 16,
   engineIdMask |-> 1, ucodeId |-> 3, mailbox |-> {in.wprMetadata}]

MailboxWrites(libos) ==
  << Write32("Gsp", "Mailbox0", ToWord(libos)),
     Write32("Gsp", "Mailbox1", ToWord(libos \div 2^WordBits)) >>

PageAligned(address) == address % kPageBytes = 0

\* AddressesOk, for the addresses the sequence uses.
AddressesOk(in) ==
  /\ PageAligned(in.libos) /\ PageAligned(in.wprMetadata)
  /\ PageAligned(in.frtsImage) /\ PageAligned(in.sec2Image)

\* PlanBootSequence: the action lists of the twelve phases.
PlanBootSequence(in) ==
  LET frts == PlanAuthenticatedExecution(FrtsParameters(in))
      sec2 == PlanAuthenticatedExecution(Sec2Parameters(in))
  IN  IF \/ ~AddressesOk(in)
         \/ in.fwsec.imemLoadSize = 0 \/ in.fwsec.dmemLoadSize = 0
         \/ Refused \in {frts, sec2}
        THEN << >>
        ELSE << << >>, PlanReset("Gsp", FALSE, in.chip), frts, << >>,
                PlanReset("Gsp", TRUE, in.chip), MailboxWrites(in.libos),
                PlanReset("Sec2", FALSE, in.chip), sec2, << >>,
                << Write32("Gsp", "FalconOs", ToWord(in.appVersion)) >>,
                << >>, << >> >>

\* PhaseActionShapePolicy: phases that only check have no action, the mailbox
\* and release phases exactly their writes, the others some action.
PhaseActionShapePolicy(in, i, actions) ==
  CASE i \in {1, 4, 9, 11, 12} -> actions = << >>
    [] i = 6  -> actions = MailboxWrites(in.libos)
    [] i = 10 -> actions = << Write32("Gsp", "FalconOs", ToWord(in.appVersion)) >>
    [] OTHER  -> actions # << >>

\* CheckGa102BootSequencePolicy; the checks of a phase are those of BootPolicy.
CheckGa102BootSequencePolicy(in, sequence) ==
  /\ in.libos # 0 /\ PageAligned(in.libos)  \* expectations.libosInitArguments
  /\ Len(sequence) = 12
  /\ \A i \in 1..12 : /\ PhaseActionShapePolicy(in, i, sequence[i])
                      /\ CheckGa102PlanPolicy(sequence[i])

=============================================================================
