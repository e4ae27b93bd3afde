------------------------- MODULE PraminTransaction -------------------------
(***************************************************************************)
(* Staging an image into VRAM through the PRAMIN window                    *)
(* (macos/Driver/RTXMacPramin.cpp and RTXMacPraminTransaction.cpp).        *)
(*                                                                         *)
(* Every operation is a pass over the plan's chunks: select the window,    *)
(* access the aperture.  RTXMacStagePraminTransactional is the pass        *)
(* sequence read, stage, verify and, if stage or verify fails, restore and *)
(* reverify.  Passes are split at each BAR0 access; a mapping may fail,    *)
(* and a posted aperture write may be dropped.  Plans come from the        *)
(* planner or have been altered since.                                     *)
(*                                                                         *)
(* Memory is kept by 32-bit word, the unit of every access, and a word     *)
(* holds where its value came from.                                        *)
(***************************************************************************)
EXTENDS PraminPlan

CONSTANTS
  Plans,    \* the PraminStagePlan values a caller may pass
  MaxCalls  \* bound: calls in one behaviour

ASSUME CallAssumption == MaxCalls \in Nat

ASSUME PlanAssumption == \A plan \in Plans : plan \in PraminStagePlans

VARIABLES
  vram,      \* word address -> content
  selector,  \* BAR0 0x1700
  job,       \* the call in progress, or the last one
  backup,    \* backupStorage: source word -> content
  before,    \* history: vram when the call began
  calls      \* history: number of calls

vars == << vram, selector, job, backup, before, calls >>

Words == 0..((VramSize \div 4) - 1)

Original(w) == << "vram", w >>
Source(j)   == << "image", j >>

Operations == { "transaction", "stage", "verify", "read" }

\* Mutant: a transaction starts to write without having read everything back up.
FirstPassWithoutBackup(op) == IF op = "transaction" THEN "stage" ELSE op

FirstPass(op) == IF op = "transaction" THEN "read" ELSE op

EmptyPlan == [ valid |-> FALSE, vramOffset |-> 0, totalBytes |-> 0, chunks |-> << >> ]

-----------------------------------------------------------------------------
(***************************************************************************)
(* Passes.                                                                 *)
(***************************************************************************)

Running == job.pc # "idle"

Chunk == job.plan.chunks[job.k]

Begin(pass, failure) ==
  [ job EXCEPT !.pc = "select", !.pass = pass, !.k = 1, !.failure = failure,
               !.expectedVram = job.plan.vramOffset, !.expectedSource = 0 ]

Return(status) == [ job EXCEPT !.pc = "idle", !.result = status ]

\* Mutant: only a failed verification is rolled back.
JobAfterFailureOfVerifyOnly(status) ==
  IF job.op = "transaction" /\ job.pass = "verify"
  THEN Begin("restore", status)
  ELSE IF job.op = "transaction" /\ job.pass \in { "restore", "reverify" }
  THEN Return("Error")
  ELSE Return(status)

\* The pass returned a failure.  A transaction that may have written rolls back,
\* and a rollback that fails is reported as kIOReturnError.
JobAfterFailure(status) ==
  IF job.op = "transaction" /\ job.pass \in { "stage", "verify" }
  THEN Begin("restore", status)
  ELSE IF job.op = "transaction" /\ job.pass \in { "restore", "reverify" }
  THEN Return("Error")
  ELSE Return(status)

\* Mutant: a stage pass that reported no error is taken as verified.
JobAfterSuccessUnverified ==
  IF job.op # "transaction" THEN Return("Success")
  ELSE CASE job.pass = "read"     -> Begin("stage", "none")
         [] job.pass = "stage"    -> Return("Success")
         [] job.pass = "restore"  -> Begin("reverify", job.failure)
         [] job.pass = "reverify" -> Return(job.failure)

JobAfterSuccess ==
  IF job.op # "transaction" THEN Return("Success")
  ELSE CASE job.pass = "read"     -> Begin("stage", "none")
         [] job.pass = "stage"    -> Begin("verify", "none")
         [] job.pass = "verify"   -> Return("Success")
         [] job.pass = "restore"  -> Begin("reverify", job.failure)
         [] job.pass = "reverify" -> Return(job.failure)

\* On to the next chunk.
JobAfterChunk ==
  [ job EXCEPT !.pc = "select", !.k = @ + 1, !.expectedVram = @ + Chunk.bytes,
               !.expectedSource = @ + Chunk.bytes ]

ChunkValid ==
  ValidateChunk(Chunk, job.expectedVram, job.expectedSource, job.plan.totalBytes)

-----------------------------------------------------------------------------
(***************************************************************************)
(* Actions.                                                                *)
(***************************************************************************)

Init ==
  /\ vram = [ w \in Words |-> Original(w) ]
  /\ selector \in { 0, 1 }
  /\ job = [ pc |-> "idle", op |-> "read", pass |-> "read", plan |-> EmptyPlan, k |-> 1,
             expectedVram |-> 0, expectedSource |-> 0, failure |-> "none",
             result |-> "none" ]
  /\ backup = [ j \in Words |-> "unread" ]
  /\ before = vram
  /\ calls = 0

\* A call of one of the four operations.  sizesMatch: the caller's buffers have
\* the plan's size.
Call(op, plan, writesEnabled, sizesMatch) ==
  LET fresh == [ job EXCEPT !.op = op, !.plan = plan, !.pass = FirstPass(op), !.k = 1,
                            !.expectedVram = plan.vramOffset, !.expectedSource = 0,
                            !.failure = "none" ]
  IN  /\ ~Running /\ calls < MaxCalls
      /\ calls' = calls + 1
      /\ before' = vram
      /\ job' = CASE ~writesEnabled -> [ fresh EXCEPT !.result = "NotPermitted" ]
                  [] writesEnabled /\ ~(sizesMatch /\ ValidateStage(plan)) ->
                       [ fresh EXCEPT !.result = "BadArgument" ]
                  [] OTHER -> [ fresh EXCEPT !.pc = "select", !.result = "none" ]
      /\ UNCHANGED << vram, selector, backup >>

RejectChunk ==
  /\ job.pc = "select" /\ job.k <= Len(job.plan.chunks)
  /\ ~ChunkValid
  /\ job' = JobAfterFailure("BadArgument")
  /\ UNCHANGED << vram, selector, backup, before, calls >>

SelectWindow ==
  /\ job.pc = "select" /\ job.k <= Len(job.plan.chunks)
  /\ ChunkValid
  /\ selector' = Chunk.windowSelector
  /\ job' = [ job EXCEPT !.pc = "access" ]
  /\ UNCHANGED << vram, backup, before, calls >>

\* The aperture policy refuses the access.
DenyAccess ==
  /\ job.pc = "access"
  /\ ~ApertureAllowed(Chunk.bar0ApertureOffset, Chunk.bytes)
  /\ job' = JobAfterFailure("NotPermitted")
  /\ UNCHANGED << vram, selector, backup, before, calls >>

\* MapBar0Range fails, for the selector or for the aperture.
MappingFails ==
  /\ \/ job.pc = "select" /\ job.k <= Len(job.plan.chunks) /\ ChunkValid
     \/ job.pc = "access" /\ ApertureAllowed(Chunk.bar0ApertureOffset, Chunk.bytes)
  /\ \E status \in { "NoResources", "Error" } : job' = JobAfterFailure(status)
  /\ UNCHANGED << vram, selector, backup, before, calls >>

CanAccess(passes) ==
  /\ job.pc = "access"
  /\ ApertureAllowed(Chunk.bar0ApertureOffset, Chunk.bytes)
  /\ job.pass \in passes

\* The device: the word of VRAM behind the i-th word of the chunk, and the word
\* of the caller's buffer that goes with it.
Target(i) == (selector * SelectorUnit + Chunk.bar0ApertureOffset) \div 4 + i
Buffer(i) == Chunk.sourceOffset \div 4 + i

ChunkWords == 0..(Chunk.bytes \div 4 - 1)

Image(j) == IF job.pass \in { "restore", "reverify" } THEN backup[j] ELSE Source(j)

ReadAperture ==
  /\ CanAccess({ "read" })
  /\ backup' = [ j \in Words |->
       IF \E i \in ChunkWords : Buffer(i) = j
       THEN vram[Target(CHOOSE i \in ChunkWords : Buffer(i) = j)] ELSE backup[j] ]
  /\ job' = JobAfterChunk
  /\ UNCHANGED << vram, selector, before, calls >>

\* Any set of the posted writes may be dropped by the device.
WriteAperture ==
  /\ CanAccess({ "stage", "restore" })
  /\ \E dropped \in SUBSET ChunkWords :
       vram' = [ w \in Words |->
         IF \E i \in ChunkWords \ dropped : Target(i) = w
         THEN Image(Buffer(CHOOSE i \in ChunkWords \ dropped : Target(i) = w))
         ELSE vram[w] ]
  /\ job' = JobAfterChunk
  /\ UNCHANGED << selector, backup, before, calls >>

CompareAperture ==
  /\ CanAccess({ "verify", "reverify" })
  /\ job' = IF \A i \in ChunkWords : vram[Target(i)] = Image(Buffer(i))
            THEN JobAfterChunk ELSE JobAfterFailure("IOError")
  /\ UNCHANGED << vram, selector, backup, before, calls >>

\* The loop is done: the chunks must add up to the plan.
EndPass ==
  /\ job.pc = "select" /\ job.k > Len(job.plan.chunks)
  /\ job' = IF /\ job.expectedSource = job.plan.totalBytes
               /\ job.expectedVram = job.plan.vramOffset + job.plan.totalBytes
            THEN JobAfterSuccess ELSE JobAfterFailure("BadArgument")
  /\ UNCHANGED << vram, selector, backup, before, calls >>

Step == \/ RejectChunk \/ SelectWindow \/ DenyAccess \/ MappingFails \/ ReadAperture
        \/ WriteAperture \/ CompareAperture \/ EndPass

Next ==
  \/ \E op \in Operations, plan \in Plans, writesEnabled, sizesMatch \in BOOLEAN :
       Call(op, plan, writesEnabled, sizesMatch)
  \/ Step

Spec == Init /\ [][Next]_vars

-----------------------------------------------------------------------------
(***************************************************************************)
(* Properties.                                                             *)
(***************************************************************************)

InRange(w) ==
  /\ job.plan.vramOffset <= 4 * w
  /\ 4 * w < job.plan.vramOffset + job.plan.totalBytes

\* No word outside the planned range ever changes, also while a pass is under way
\* and whatever was done to the plan since it was made ("Every planner chunk is
\* independently revalidated before BAR0 access", docs/PRAMIN_STAGING.md:55).
OutsideRangeUntouched == \A w \in Words : vram[w] # before[w] => InRange(w)

\* A transaction that returns success has put the whole image in place, although
\* any posted write may have been dropped (RTXMacVerifyPramin).
SuccessMeansStaged ==
  job.pc = "idle" /\ job.op = "transaction" /\ job.result = "Success" =>
    \A w \in Words : InRange(w) => vram[w] = Source(w - job.plan.vramOffset \div 4)

\* "the original bytes are restored and verified before returning the original
\* failure. If rollback itself fails, kIOReturnError is returned instead"
\* (RTXMacPramin.hpp:44-46).
FailureMeansRestored ==
  job.pc = "idle" /\ job.op = "transaction" /\ job.result \notin { "Success", "Error" } =>
    vram = before

\* A transaction writes nothing under a plan that is not sound as a whole: the
\* backup pass walks every chunk before the first write.
UnsoundPlanWritesNothing ==
  job.op = "transaction" /\ ~AuditedPlan(job.plan) => vram = before

\* What a call may write at all: only words of the planned range, and none under an
\* unsound plan, wherever its windows start and end (RTXMacStagePramin and
\* RTXMacStagePraminTransactional).
WritesAreConfined == OutsideRangeUntouched /\ UnsoundPlanWritesNothing

=============================================================================
