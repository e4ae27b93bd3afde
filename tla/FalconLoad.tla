----------------------------- MODULE FalconLoad -----------------------------
(***************************************************************************)
(* The Falcon plans executed on the registers (RTXMacFalcon.cpp): each     *)
(* action is a step of the driver, between which the engine transfers      *)
(* blocks, scrubs its memories and runs on its own.  BootPhase follows the *)
(* same loop with its waits and failures; here the values matter.          *)
(*                                                                         *)
(* The engine is external: a DMA command takes the two offsets with it     *)
(* into a queue of QueueDepth transfers and reads the base when the        *)
(* transfer is made; a reset stops the processor, drops the queue and puts *)
(* the registers at their reset value; its end starts scrubbing.           *)
(***************************************************************************)
EXTENDS FalconPolicy

CONSTANTS Jobs,         \* the addresses and sizes given to PlanBootSequence
          QueueDepth,   \* transfers the DMA queue of an engine holds
          ResetValues   \* bits a register may have after reset

\* What PlanBootSequence is given: addresses, the FWSEC descriptor and the booter.
BootInputs ==
  [frtsImage : Nat, sec2Image : Nat, wprMetadata : Nat, libos : Nat, chip : Nat,
   appVersion : Nat,
   fwsec : [imemLoadSize : Nat, dmemLoadSize : Nat, imemPhysBase : Nat,
            imemVirtBase : Nat, dmemPhysBase : Nat, pkcDataOffset : Nat,
            engineIdMask : Nat, ucodeId : Nat],
   sec2 : [codeOffset : Nat, codeSize : Nat, dataOffset : Nat, dataSize : Nat]]

ASSUME LoadAssumption ==
  /\ QueueDepth \in Nat \ {0} /\ Jobs # {} /\ Jobs \subseteq BootInputs
  /\ ResetValues # {} /\ \A r \in ResetValues : r \subseteq All

VARIABLES job,       \* the inputs of this boot
          hw,        \* what the engines are: [riscv, alias, reset]
          sequence,  \* BootSequence.phases, the actions of each
          pc,        \* where the driver is
          phase, index, skipping,
          cpuCtl,    \* the CPUCTL snapshot of StartCpuRespectAlias
          eng,       \* the state of the two engines
          executed   \* engines whose processor ran since the attempt began

driver == << job, sequence, pc, phase, index, skipping, cpuCtl >>
loadVars == << driver, hw, eng, executed >>

-----------------------------------------------------------------------------
(* The engines *)

Restarted(e) ==
  [regs |-> [r \in Registers |-> hw[e].reset], fifo |-> << >>, imem |-> {},
   dmem |-> {}, scrubbing |-> FALSE, bcrValid |-> FALSE, cpu |-> "halted",
   overrun |-> FALSE]

\* What a read of the register returns.
Read(e, reg) ==
  LET en == eng[e]
      bit(b, cond) == IF cond THEN {b} ELSE {}
  IN  CASE reg = "Hwcfg2" -> bit(12, en.scrubbing) \cup bit(10, hw[e].riscv)
        [] reg = "DmaCmd" -> bit(0, Len(en.fifo) >= QueueDepth) \cup bit(1, en.fifo = << >>)
        [] reg = "RiscvBcrCtrl" -> (en.regs[reg] \ {0}) \cup bit(0, en.bcrValid)
        [] reg = "CpuCtl" -> bit(4, en.cpu = "halted") \cup bit(6, hw[e].alias)
        [] OTHER -> en.regs[reg]

\* The address the DMA base registers give.
Base(regs) ==
  (Number(regs.DmaBase) + Number(regs.DmaBase1 \cap 0..(Base1Bits - 1)) * 2^WordBits)
    * kTransferBytes

\* The engine after the register is written.
Store(e, reg, value) ==
  LET en   == eng[e]
      kept == [en EXCEPT !.regs[reg] = value]
      held == 0 \in en.regs.EngineReset
  IN  CASE reg = "EngineReset" ->
             IF 0 \in value THEN [Restarted(e) EXCEPT !.regs.EngineReset = value]
             ELSE [kept EXCEPT !.scrubbing = @ \/ held]
        [] reg = "DmaCmd" ->
             IF Len(en.fifo) >= QueueDepth THEN [kept EXCEPT !.overrun = TRUE]
             ELSE [kept EXCEPT !.fifo = Append(@,
                     [target |-> IF 4 \in value THEN "imem" ELSE "dmem",
                      dest   |-> Number(en.regs.DmaMemOffset \cap 0..(MemOffsetBits - 1)),
                      offset |-> Number(en.regs.DmaFbOffset)])]
        [] reg = "RiscvBcrCtrl" -> [kept EXCEPT !.bcrValid = FALSE]
        [] reg \in {"CpuCtl", "CpuCtlAlias"} ->
             IF 1 \in value /\ (reg = "CpuCtlAlias") = hw[e].alias
               THEN [en EXCEPT !.cpu = "running"] ELSE en
        [] OTHER -> kept

Transfer(e) ==
  /\ eng[e].fifo # << >>
  /\ LET t == Head(eng[e].fifo)
         block == << t.dest, Base(eng[e].regs) + t.offset >>
     IN  eng' = [eng EXCEPT ![e].fifo = Tail(@),
                            ![e][t.target] = {b \in @ : b[1] # t.dest} \cup {block}]
  /\ UNCHANGED << driver, hw, executed >>

ScrubDone(e) ==
  /\ eng[e].scrubbing
  /\ eng' = [eng EXCEPT ![e].scrubbing = FALSE, ![e].imem = {}, ![e].dmem = {}]
  /\ UNCHANGED << driver, hw, executed >>

BcrBecomesValid(e) ==
  /\ ~eng[e].bcrValid /\ ~eng[e].scrubbing
  /\ eng' = [eng EXCEPT ![e].bcrValid = TRUE]
  /\ UNCHANGED << driver, hw, executed >>

CpuHalts(e) ==
  /\ eng[e].cpu = "running"
  /\ eng' = [eng EXCEPT ![e].cpu = "halted"]
  /\ executed' = executed \cup {e}
  /\ UNCHANGED << driver, hw >>

-----------------------------------------------------------------------------
(* The driver *)

\* The boot has been planned.
LoadInit ==
  /\ job \in Jobs
  /\ hw \in [Engines -> [riscv : BOOLEAN, alias : BOOLEAN, reset : ResetValues]]
  /\ eng = [e \in Engines |-> Restarted(e)]
  /\ sequence = PlanBootSequence(job)
  /\ pc = (IF sequence = << >> THEN "refused" ELSE "audit")
  /\ phase = 1 /\ index = 1
  /\ skipping = FALSE /\ cpuCtl = {} /\ executed = {}

\* BeginBootAttempt audits the whole sequence before anything runs.
AuditSequence ==
  /\ pc = "audit"
  /\ pc' = IF CheckGa102BootSequencePolicy(job, sequence) THEN "enter" ELSE "refused"
  /\ UNCHANGED << job, sequence, phase, index, skipping, cpuCtl, hw, eng, executed >>

\* RTXMacExecuteFalconPlan up to its loop.
EnterPlan ==
  /\ pc = "enter"
  /\ pc' = IF CheckGa102PlanPolicy(sequence[phase]) THEN "run" ELSE "denied"
  /\ index' = 1 /\ skipping' = FALSE
  /\ UNCHANGED << job, sequence, phase, cpuCtl, hw, eng, executed >>

LeavePlan ==
  /\ pc = "run" /\ index > Len(sequence[phase])
  /\ IF phase = Len(sequence) THEN pc' = "done" /\ phase' = phase
     ELSE pc' = "enter" /\ phase' = phase + 1
  /\ UNCHANGED << job, sequence, index, skipping, cpuCtl, hw, eng, executed >>

Current == sequence[phase][index]

\* The loop reaches an action of this kind that is not skipped.
At(kinds) ==
  /\ pc = "run" /\ index <= Len(sequence[phase])
  /\ Current.kind \in kinds
  /\ skipping => Current.kind = "EndIf"

Advance == index' = index + 1 /\ UNCHANGED << job, sequence, pc, phase, cpuCtl >>

\* The value a MaskedWrite or a Write32 stores.
NewValue(a) ==
  IF a.kind = "Write32" THEN a.value
  ELSE (Read(a.engine, a.reg) \ a.mask) \cup (a.value \cap a.mask)

\* ExecuteConcreteWrite: the action is checked again and stored.
ExecuteConcreteWrite(a) == eng' = [eng EXCEPT ![a.engine] = Store(a.engine, a.reg, NewValue(a))]

StepWrite ==
  /\ At({"Write32", "MaskedWrite"})
  /\ CheckGa102ActionPolicy(Current) = "Allowed"
  /\ ExecuteConcreteWrite(Current)
  /\ Advance
  /\ UNCHANGED << skipping, hw, executed >>

\* A poll whose register has the value; until then it sleeps.
StepPoll ==
  /\ At({"PollMaskEqual"})
  /\ Read(Current.engine, Current.reg) \cap Current.mask = Current.value
  /\ Advance
  /\ UNCHANGED << skipping, hw, eng, executed >>

StepDelay ==
  /\ At({"DelayMilliseconds"})
  /\ Advance
  /\ UNCHANGED << skipping, hw, eng, executed >>

StepIf ==
  /\ At({"IfMaskEqualBegin"})
  /\ skipping' = (Read(Current.engine, Current.reg) \cap Current.mask # Current.value)
  /\ Advance
  /\ UNCHANGED << hw, eng, executed >>

StepEndIf ==
  /\ At({"EndIf"})
  /\ skipping' = FALSE
  /\ Advance
  /\ UNCHANGED << hw, eng, executed >>

StepSkip ==
  /\ pc = "run" /\ index <= Len(sequence[phase])
  /\ skipping /\ Current.kind # "EndIf"
  /\ Advance
  /\ UNCHANGED << skipping, hw, eng, executed >>

ReadCpuCtl ==
  /\ At({"StartCpuRespectAlias"})
  /\ cpuCtl' = Read(Current.engine, Current.reg)
  /\ pc' = "start"
  /\ UNCHANGED << job, sequence, phase, index, skipping, hw, eng, executed >>

\* The resolved start goes through the same policy as a planned write.
StartCpu ==
  /\ pc = "start"
  /\ LET a == ResolveGa102StartCpuAction(Current, cpuCtl)
     IN  IF CheckGa102ActionPolicy(a) = "Allowed"
           THEN pc' = "run" /\ index' = index + 1 /\ ExecuteConcreteWrite(a)
           ELSE pc' = "denied" /\ UNCHANGED << index, eng >>
  /\ UNCHANGED << job, sequence, phase, skipping, cpuCtl, hw, executed >>

\* A mapping that fails, or a poll or delay whose time runs out.
Fail ==
  /\ \/ At({"Write32", "MaskedWrite", "PollMaskEqual", "DelayMilliseconds",
            "IfMaskEqualBegin", "StartCpuRespectAlias"})
     \/ pc = "start"
  /\ pc' = "failed"
  /\ UNCHANGED << job, sequence, phase, index, skipping, cpuCtl, hw, eng, executed >>

Driver ==
  \/ AuditSequence \/ EnterPlan \/ LeavePlan
  \/ StepWrite \/ StepPoll \/ StepDelay \/ StepIf \/ StepEndIf \/ StepSkip
  \/ ReadCpuCtl \/ StartCpu

Engine(e) == Transfer(e) \/ ScrubDone(e) \/ BcrBecomesValid(e) \/ CpuHalts(e)

LoadNext == Driver \/ Fail \/ \E e \in Engines : Engine(e)

LoadSpec == LoadInit /\ [][LoadNext]_loadVars

\* The driver thread runs and the engines make progress; nothing need fail.
FairSpec == LoadSpec /\ WF_loadVars(Driver) /\ \A e \in Engines : WF_loadVars(Engine(e))

-----------------------------------------------------------------------------
(* Properties *)

Blocks(n) == {k * kTransferBytes : k \in 0..((n \div kTransferBytes) - 1)}

\* The blocks of an image's code or data at their place in the engine.
Loaded(physical, source, bytes) ==
  {<< physical + d, source + d >> : d \in Blocks(bytes)}

\* The authenticated image the boot wants in each engine.
ExpectedImem ==
  [Gsp  |-> Loaded(job.fwsec.imemPhysBase, job.frtsImage, job.fwsec.imemLoadSize),
   Sec2 |-> Loaded(0, job.sec2Image + job.sec2.codeOffset, job.sec2.codeSize)]
ExpectedDmem ==
  [Gsp  |-> Loaded(job.fwsec.dmemPhysBase, job.frtsImage + job.fwsec.imemLoadSize,
                   job.fwsec.dmemLoadSize),
   Sec2 |-> Loaded(0, job.sec2Image + job.sec2.dataOffset, job.sec2.dataSize)]

\* An engine's processor runs only when its memories hold exactly the blocks
\* of the image, no command was lost to a full queue, no transfer is left and no scrubbing can still erase them:
\* the polls of PlanReset and AddDma close every window in which the engine
\* is still at work on the step before.
StartedImageIsComplete ==
  \A e \in Engines :
    eng[e].cpu = "running" =>
      /\ eng[e].imem = ExpectedImem[e] /\ eng[e].dmem = ExpectedDmem[e]
      /\ eng[e].fifo = << >> /\ ~eng[e].scrubbing /\ ~eng[e].overrun

\* A sequence the audit passed is never denied half way: what the executor
\* checks again, the resolved start of the processor included, was allowed.
AuditedSequenceIsNeverDenied ==
  /\ pc # "denied"
  /\ At({"Write32", "MaskedWrite"}) => CheckGa102ActionPolicy(Current) = "Allowed"

\* While the SEC2 booter runs, the reset GSP waits for it with the RISC-V core
\* selected and the LibOS address in its mailboxes, and SEC2 has the address of
\* the WPR metadata: no later phase of PlanBootSequence undoes an earlier one.
Sec2ResumesReadyGsp ==
  LET boxes(e) == Number(eng[e].regs.Mailbox0) + Number(eng[e].regs.Mailbox1) * 2^WordBits
  IN  eng.Sec2.cpu = "running" =>
        /\ boxes("Gsp") = job.libos /\ boxes("Sec2") = job.wprMetadata
        /\ {4, 8} \subseteq eng.Gsp.regs.RiscvBcrCtrl /\ ~eng.Gsp.scrubbing
        /\ "Gsp" \in executed

\* A boot that ends has run both images: the poll for a halted processor that
\* follows the start cannot be satisfied by one that never started.
DoneMeansBothRan == pc = "done" => executed = Engines

\* Every plan ends unless something fails: no poll waits for what the engine
\* will never do.
PlansEnd == <>(pc \in {"refused", "denied", "done", "failed"})

\* The executor's position and the engines' registers keep their types, and a
\* transfer queue never holds more than QueueDepth commands (RTXMacFalcon.cpp:131-224).
TypeOK ==
  /\ job \in Jobs /\ phase \in 1..12 /\ index \in Nat \ {0} /\ skipping \in BOOLEAN
  /\ pc \in {"audit", "enter", "run", "start", "refused", "denied", "done", "failed"}
  /\ cpuCtl \subseteq All /\ executed \subseteq Engines
  /\ \A e \in Engines :
       /\ DOMAIN eng[e].regs = Registers /\ Len(eng[e].fifo) <= QueueDepth
       /\ \A r \in Registers : eng[e].regs[r] \subseteq All
       /\ eng[e].cpu \in {"halted", "running"}

=============================================================================
