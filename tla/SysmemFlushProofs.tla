------------------------- MODULE SysmemFlushProofs -------------------------
(***************************************************************************)
(* Proofs about the sysmem flush page, for every register width, page size *)
(* and set of addresses, any number of plans, and any number of writes of  *)
(* another owner: both properties of SysmemFlush, and that a plan for an   *)
(* address the registers can hold is one the calls accept.                 *)
(***************************************************************************)
EXTENDS SysmemFlush, TLAPS

-----------------------------------------------------------------------------
(***************************************************************************)
(* The inductive invariant.                                                *)
(***************************************************************************)

Stages == { "idle", "observe", "program", "confirm", "restore", "reconfirm" }

ReadStages == { "observe", "confirm", "reconfirm" }

RegisterErrors == { "AccessError", "IOError" }

Calls == [ stage : Stages, op : { "program", "rollback" }, second : BOOLEAN, seenLo : Nat,
           failure : RegisterErrors \union { "none" }, hidden : BOOLEAN,
           result : { "none", "Success", "NotPermitted", "BadArgument" } \union RegisterErrors ]

\* The locals of a call that the argument needs: a hidden failure is an error, and
\* no call goes on under a plan that was not validated or with a result.
CallInv ==
  /\ call \in Calls
  /\ call.stage = "idle" => ~call.second
  /\ call.stage # "idle" =>
       plans > 0 /\ call.result = "none" /\ ValidateSysmemFlushPagePlan(plan)
  /\ call.stage \in { "program", "confirm" } => call.op = "program"
  /\ call.hidden => call.failure # "none"
  /\ call.stage \in { "restore", "reconfirm" } /\ call.op = "program" => call.failure # "none"

\* While nobody else writes, a value read is still the register's.
SeenInv ==
  ownerWrites = 0 /\ call.stage \in ReadStages /\ call.second => call.seenLo = lo

\* Outside the writes of a call, the registers are switched or not, or an error
\* was returned.
SettledInv ==
  ( /\ ownerWrites = 0 /\ plans > 0 /\ ~reported
    /\ call.stage \in { "idle", "observe", "program" } /\ ~(call.stage = "program" /\ call.second)
  ) => << lo, hi >> \in { Old, New }

CountInv == plans \in Nat /\ ownerWrites \in Nat

IInv == TypeOK /\ CountInv /\ CallInv /\ SeenInv /\ SettledInv /\ SuccessMeansSwitched

-----------------------------------------------------------------------------
(***************************************************************************)
(* Arithmetic of the two registers.                                        *)
(***************************************************************************)

\* A quotient of natural numbers is one, and division has its defining equation.
LEMMA Division ==
  ASSUME NEW a \in Nat, NEW n \in Nat \ { 0 }
  PROVE  /\ a \div n \in Nat /\ a % n \in 0..(n - 1)
         /\ a = n * (a \div n) + (a % n)
OBVIOUS

\* The equation determines quotient and remainder.
LEMMA DivisionUnique ==
  ASSUME NEW n \in Nat \ { 0 }, NEW q \in Nat, NEW r \in 0..(n - 1)
  PROVE  (n * q + r) \div n = q /\ (n * q + r) % n = r
OBVIOUS

\* The reserved part of a high register is nothing or the one bit above the
\* address field.
LEMMA ReservedBit ==
  ASSUME NEW h \in 0..(2 * HiSize - 1)
  PROVE  Reserved(h) \in { 0, HiSize }
<1> USE EncodingAssumption
<1> DEFINE q == h \div HiSize
           r == h % HiSize
<1>0. h \in Nat /\ HiSize \in Nat \ { 0 }
  OBVIOUS
<1>1. q \in Nat /\ r \in 0..(HiSize - 1) /\ h = HiSize * q + r
  BY <1>0, Division
<1>2. q < 2
  <2>1. CASE q >= 2
    <3>1. HiSize * q >= HiSize * 2
      BY <1>1, <2>1
    <3> QED
      BY <1>1, <3>1
  <2> QED
    BY <1>1, <2>1
<1>3. q = 0 \/ q = 1
  BY <1>1, <1>2
<1>4. Reserved(h) = HiSize * q
  BY <1>1 DEF Reserved
<1> QED
  BY <1>3, <1>4

\* Programming never leaves the two registers' widths.
LEMMA EncodingTypes ==
  ASSUME NEW a \in Nat, NEW h \in 0..(2 * HiSize - 1)
  PROVE  /\ EncodedLo(a) \in 0..(LoSize - 1)
         /\ NewHi(a, h) \in 0..(2 * HiSize - 1)
<1>0. Granule \in Nat \ { 0 } /\ LoSize \in Nat \ { 0 } /\ HiSize \in Nat \ { 0 }
  BY EncodingAssumption
<1>1. Granule * LoSize \in Nat \ { 0 }
  BY <1>0
<1>2. a \div Granule \in Nat /\ a \div (Granule * LoSize) \in Nat
  BY <1>0, <1>1, Division
<1>3. EncodedLo(a) \in 0..(LoSize - 1) /\ EncodedHi(a) \in 0..(HiSize - 1)
  BY <1>0, <1>2, Division DEF EncodedLo, EncodedHi
<1> QED
  BY <1>0, <1>3, ReservedBit DEF NewHi

\* A multiple of a multiple.
LEMMA AlignedToGranule ==
  ASSUME NEW a \in Nat, a % PageBytes = 0
  PROVE  a = Granule * (a \div Granule)
<1>0. Granule \in Nat \ { 0 } /\ PageBytes \in Nat \ { 0 } /\ PageBytes % Granule = 0
  BY EncodingAssumption
<1> DEFINE i == a \div PageBytes
           j == PageBytes \div Granule
<1>1. i \in Nat /\ a = PageBytes * i
  BY <1>0, Division
<1>2. j \in Nat /\ PageBytes = Granule * j
  BY <1>0, Division
<1> HIDE DEF i, j
<1>3. j * i \in Nat /\ a = Granule * (j * i) + 0
  BY <1>0, <1>1, <1>2
<1>4. a \div Granule = j * i
  <2>1. 0 \in 0..(Granule - 1)
    BY <1>0
  <2>2. (Granule * (j * i) + 0) \div Granule = j * i
    BY <1>0, <1>3, <2>1, DivisionUnique
  <2> QED
    BY <1>3, <2>2
<1> QED
  BY <1>0, <1>3, <1>4

\* Decoding undoes encoding: a page-aligned address below the registers' reach comes
\* back from the two registers, whatever the bits beside the address field are
\* (DecodeSysmemFlushPageAddress, sysmem_flush.cpp).
LEMMA DecodeOfEncode ==
  ASSUME NEW a \in 0..(Granule * LoSize * HiSize - 1), a % PageBytes = 0,
         NEW h \in 0..(2 * HiSize - 1)
  PROVE  DecodeSysmemFlushPageAddress(EncodedLo(a), NewHi(a, h)) = a
<1>0. Granule \in Nat \ { 0 } /\ LoSize \in Nat \ { 0 } /\ HiSize \in Nat \ { 0 }
  BY EncodingAssumption
<1> DEFINE k == a \div Granule
           q == k \div LoSize
           r == k % LoSize
<1>1. a \in Nat /\ Granule * LoSize \in Nat \ { 0 }
  BY <1>0
<1>2. k \in Nat /\ a = Granule * k
  BY <1>0, <1>1, Division, AlignedToGranule
<1>3. q \in Nat /\ r \in 0..(LoSize - 1) /\ k = LoSize * q + r
  BY <1>0, <1>2, Division
<1> HIDE DEF k, q, r
<1>4. a = (Granule * LoSize) * q + Granule * r
  BY <1>0, <1>2, <1>3
<1>5. Granule * r \in 0..(Granule * LoSize - 1)
  <2>1. Granule * r <= Granule * (LoSize - 1)
    BY <1>0, <1>3
  <2>2. Granule * (LoSize - 1) = Granule * LoSize - Granule
    BY <1>0
  <2> QED
    BY <1>0, <1>3, <2>1, <2>2
<1>6. a \div (Granule * LoSize) = q
  BY <1>1, <1>3, <1>4, <1>5, DivisionUnique
<1>7. q < HiSize
  <2>1. CASE q >= HiSize
    <3>1. (Granule * LoSize) * q >= (Granule * LoSize) * HiSize
      BY <1>0, <1>1, <1>3, <2>1
    <3> QED
      BY <1>0, <1>1, <1>3, <1>4, <1>5, <3>1
  <2> QED
    BY <1>0, <1>3, <2>1
<1>8. EncodedHi(a) = q /\ EncodedLo(a) = r
  <2>1. (HiSize * 0 + q) % HiSize = q
    BY <1>0, <1>3, <1>7, DivisionUnique
  <2> QED
    BY <1>0, <1>3, <1>6, <2>1 DEF EncodedHi, EncodedLo, k, r
<1>9. NewHi(a, h) % HiSize = q
  <2>1. PICK b \in { 0, 1 } : Reserved(h) = HiSize * b
    BY <1>0, ReservedBit
  <2>2. (HiSize * b + q) % HiSize = q
    BY <1>0, <1>3, <1>7, DivisionUnique
  <2> QED
    BY <1>8, <2>1, <2>2 DEF NewHi
<1> QED
  BY <1>0, <1>3, <1>4, <1>8, <1>9 DEF DecodeSysmemFlushPageAddress

-----------------------------------------------------------------------------
(***************************************************************************)
(* Plans.                                                                  *)
(***************************************************************************)

\* PlanSysmemFlushPage and ValidateSysmemFlushPagePlan agree: a plan is one the calls
\* accept exactly when its address is page aligned and not zero, whichever register
\* values it was made from.
THEOREM PlannedIsValidated ==
  ASSUME NEW a \in Addresses, NEW l \in 0..(LoSize - 1), NEW h \in 0..(2 * HiSize - 1)
  PROVE  ValidateSysmemFlushPagePlan(PlanSysmemFlushPage(a, l, h)) <=> PageAligned(a)
<1> DEFINE p == PlanSysmemFlushPage(a, l, h)
<1>1. a \in 0..(Granule * LoSize * HiSize - 1)
  BY EncodingAssumption
<1>2. p.valid = PageAligned(a) /\ p.dmaAddress = a /\ p.oldHi = h
  BY DEF PlanSysmemFlushPage
<1>3. CASE PageAligned(a)
  <2>1. p.newLo = EncodedLo(a) /\ p.newHi = NewHi(a, h)
    BY <1>3 DEF PlanSysmemFlushPage
  <2>2. DecodeSysmemFlushPageAddress(EncodedLo(a), NewHi(a, h)) = a
    BY <1>1, <1>3, DecodeOfEncode DEF PageAligned
  <2> QED
    BY <1>2, <1>3, <2>1, <2>2 DEF ValidateSysmemFlushPagePlan
<1>4. CASE ~PageAligned(a)
  BY <1>2, <1>4 DEF ValidateSysmemFlushPagePlan
<1> QED
  BY <1>3, <1>4

\* What a plan made by the planner looks like.
LEMMA PlanType ==
  ASSUME NEW a \in Nat, NEW l \in 0..(LoSize - 1), NEW h \in 0..(2 * HiSize - 1)
  PROVE  PlanSysmemFlushPage(a, l, h) \in
           [ valid : BOOLEAN, dmaAddress : Nat, oldLo : 0..(LoSize - 1),
             oldHi : 0..(2 * HiSize - 1), newLo : 0..(LoSize - 1), newHi : 0..(2 * HiSize - 1) ]
<1>1. PageAligned(a) \in BOOLEAN
  BY DEF PageAligned
<1>2. 0 \in 0..(LoSize - 1) /\ 0 \in 0..(2 * HiSize - 1)
  BY EncodingAssumption
<1> QED
  BY <1>1, <1>2, EncodingTypes DEF PlanSysmemFlushPage

-----------------------------------------------------------------------------
(***************************************************************************)
(* The invariant.                                                          *)
(***************************************************************************)

LEMMA InitInv == Init => IInv
<1> SUFFICES ASSUME Init PROVE IInv
  OBVIOUS
<1>0. HiSize \in Nat \ { 0 } /\ LoSize \in Nat \ { 0 }
  BY EncodingAssumption
<1>1. lo \in 0..(LoSize - 1) /\ hi \in 0..(2 * HiSize - 1)
  BY <1>0 DEF Init
<1>2. plan \in [ valid : BOOLEAN, dmaAddress : Nat, oldLo : 0..(LoSize - 1),
                 oldHi : 0..(2 * HiSize - 1), newLo : 0..(LoSize - 1),
                 newHi : 0..(2 * HiSize - 1) ]
  <2>1. 0 \in 0..(LoSize - 1) /\ 0 \in 0..(2 * HiSize - 1)
    BY <1>0
  <2> QED
    BY <2>1, PlanType DEF Init, NoPlan
<1>3. TypeOK /\ CountInv
  BY <1>1, <1>2 DEF Init, TypeOK, CountInv
<1>4. CallInv
  BY DEF Init, CallInv, Calls, Stages, RegisterErrors
<1>5. SeenInv /\ SettledInv /\ SuccessMeansSwitched
  BY DEF Init, SeenInv, SettledInv, SuccessMeansSwitched, ReadStages
<1> QED
  BY <1>3, <1>4, <1>5 DEF IInv

\* What a call does next, in every stage, keeps its locals well formed; a call that
\* returns an error is reported.
LEMMA ErrorNext ==
  ASSUME IInv, call.stage # "idle", NEW status \in RegisterErrors
  PROVE  LET n == AfterError(status)
         IN  \/ /\ call.stage \in { "observe", "restore", "reconfirm" }
                /\ \E result \in RegisterErrors : n = Return(result)
             \/ /\ call.stage \in { "program", "confirm" }
                /\ \E hidden \in BOOLEAN : n = Begin("restore", status, hidden)
<1>1. call.stage \in Stages /\ call.hidden \in BOOLEAN
  BY DEF IInv, CallInv, Calls
<1>2. CASE call.stage = "observe"
  BY <1>2 DEF AfterError
<1>3. CASE call.stage = "program"
  BY <1>3 DEF AfterError
<1>4. CASE call.stage = "confirm"
  BY <1>4 DEF AfterError
<1>5. CASE call.stage \in { "restore", "reconfirm" }
  <2>1. (IF call.hidden THEN call.failure ELSE status) \in RegisterErrors
    BY DEF IInv, CallInv, Calls
  <2>2. AfterError(status) = Return(IF call.hidden THEN call.failure ELSE status)
    BY <1>5 DEF AfterError
  <2> QED
    BY <1>5, <2>1, <2>2
<1> QED
  BY <1>1, <1>2, <1>3, <1>4, <1>5 DEF Stages

LEMMA AccessFailsInv == IInv /\ AccessFails => IInv'
<1> SUFFICES ASSUME IInv, AccessFails PROVE IInv'
  OBVIOUS
<1> DEFINE n == AfterError("AccessError")
<1>1. call' = n /\ UNCHANGED << lo, hi, plan, plans, ownerWrites >>
  BY DEF AccessFails, Continue
<1>2. CASE \E result \in RegisterErrors : n = Return(result)
  <2>1. PICK result \in RegisterErrors : call' = Return(result)
    BY <1>1, <1>2
  <2>2. reported' = TRUE
    <3>1. call'.stage = "idle" /\ call'.result \in { "AccessError", "IOError" }
      BY <2>1 DEF Return, IInv, CallInv, Calls, RegisterErrors
    <3>2. n.stage = "idle" /\ n.result \in { "AccessError", "IOError" }
      BY <1>1, <3>1
    <3> QED
      BY <3>2, Zenon DEF AccessFails, Continue
  <2> QED
    BY <1>1, <2>1, <2>2 DEF IInv, TypeOK, CountInv, CallInv, SeenInv, SettledInv,
       SuccessMeansSwitched, Return, Calls, Stages, RegisterErrors, ReadStages, Old
<1>3. CASE \E hidden \in BOOLEAN : n = Begin("restore", "AccessError", hidden)
  <2>1. PICK hidden \in BOOLEAN : call' = Begin("restore", "AccessError", hidden)
    BY <1>1, <1>3
  <2>2. reported' \in BOOLEAN
    BY DEF AccessFails, Continue, IInv, TypeOK
  <2> QED
    BY <1>1, <2>1, <2>2 DEF IInv, TypeOK, CountInv, CallInv, SeenInv, SettledInv,
       SuccessMeansSwitched, Begin, Calls, Stages, RegisterErrors, ReadStages, Old,
       AccessFails, ValidateSysmemFlushPagePlan
<1> QED
  BY <1>2, <1>3, ErrorNext DEF AccessFails, RegisterErrors

\* The first register of a stage was read.
LEMMA FirstReadInv ==
  ASSUME IInv, ReadState, ~call.second
  PROVE  IInv'
<1>1. call' = [ call EXCEPT !.second = TRUE, !.seenLo = lo ]
      /\ UNCHANGED << lo, hi, plan, plans, ownerWrites >>
  BY DEF ReadState, Continue
<1>2. call.stage \in ReadStages /\ call \in Calls
  BY DEF ReadState, IInv, CallInv, ReadStages
<1>3. call'.stage # "idle"
  BY <1>1, <1>2 DEF ReadStages
<1>4. reported' = reported
  BY <1>1, <1>3 DEF ReadState, Continue, IInv, TypeOK
<1>5. lo \in Nat
  BY EncodingAssumption DEF IInv, TypeOK
<1> QED
  BY <1>1, <1>2, <1>4, <1>5 DEF IInv, TypeOK, CountInv, CallInv, SeenInv, SettledInv,
     SuccessMeansSwitched, ReadStages, Calls, Stages, RegisterErrors, Old, New,
     ValidateSysmemFlushPagePlan

\* Both registers of a stage were read, and compared.
LEMMA SecondReadInv ==
  ASSUME IInv, ReadState, call.second
  PROVE  IInv'
<1> DEFINE live == << call.seenLo, hi >>
           n == AfterReads(live)
<1>1. call' = n /\ UNCHANGED << lo, hi, plan, plans, ownerWrites >>
  BY DEF ReadState, Continue
<1>2. call.stage \in ReadStages /\ call \in Calls
  BY DEF ReadState, IInv, CallInv, ReadStages
<1>3. ownerWrites = 0 => live = << lo, hi >>
  BY <1>2 DEF IInv, SeenInv
<1>4. reported' \in BOOLEAN /\ (reported => reported')
  BY DEF ReadState, Continue, IInv, TypeOK
<1>5. ASSUME call'.stage = "idle", call'.result \in RegisterErrors
      PROVE  reported'
  BY <1>1, <1>5 DEF ReadState, Continue, RegisterErrors
<1> USE DEF ReadStages, Calls, Stages, RegisterErrors
<1>6. ASSUME NEW r \in { "Success", "NotPermitted" } \union RegisterErrors, call' = Return(r),
             r = "Success" /\ ownerWrites = 0 =>
               (IF call.op = "program" THEN << lo, hi >> = New ELSE << lo, hi >> = Old),
             r \notin RegisterErrors /\ ownerWrites = 0 /\ ~reported => << lo, hi >> \in { Old, New }
      PROVE  IInv'
  <2>1. call'.stage = "idle" /\ call'.result = r /\ call'.op = call.op
        /\ ~call'.second /\ call' \in Calls
        /\ call'.hidden = call.hidden /\ call'.failure = call.failure
    BY <1>2, <1>6 DEF Return
  <2>2. (TypeOK /\ CountInv /\ CallInv /\ SeenInv)'
    BY <1>1, <1>4, <2>1 DEF IInv, TypeOK, CountInv, CallInv, SeenInv
  <2>3. SettledInv'
    <3>1. r \in RegisterErrors => reported'
      BY <1>5, <2>1
    <3> QED
      BY <1>1, <1>4, <1>6, <2>1, <3>1 DEF SettledInv, Old, New
  <2>4. SuccessMeansSwitched'
    <3>1. ValidateSysmemFlushPagePlan(plan)
      BY <1>2 DEF IInv, CallInv, Calls
    <3>2. DecodeSysmemFlushPageAddress(plan.newLo, plan.newHi) = plan.dmaAddress
      BY <3>1 DEF ValidateSysmemFlushPagePlan
    <3>3. << lo, hi >> = New => lo = plan.newLo /\ hi = plan.newHi
      BY DEF New
    <3>4. plan' = plan /\ lo' = lo /\ hi' = hi /\ ownerWrites' = ownerWrites
      BY <1>1
    <3>5. Old' = Old
      BY <3>4 DEF Old
    <3>6. CASE call.op = "program"
      BY <1>6, <2>1, <3>2, <3>3, <3>4, <3>6 DEF SuccessMeansSwitched
    <3>7. CASE call.op # "program"
      BY <1>6, <2>1, <3>4, <3>5, <3>7 DEF SuccessMeansSwitched
    <3> QED
      BY <3>6, <3>7
  <2> QED
    BY <2>2, <2>3, <2>4 DEF IInv
<1>7. ASSUME NEW stage \in { "program", "restore" }, NEW failure \in RegisterErrors \union { "none" },
             NEW hidden \in BOOLEAN, call' = Begin(stage, failure, hidden),
             hidden => failure # "none",
             stage = "restore" /\ call.op = "program" => failure # "none",
             stage = "program" => call.op = "program",
             stage = "program" /\ ownerWrites = 0 => << lo, hi >> = Old
      PROVE  IInv'
  <2>1. call'.stage = stage /\ call'.failure = failure /\ call'.hidden = hidden
        /\ ~call'.second /\ call'.op = call.op /\ call'.result = call.result
        /\ call' \in Calls
    BY <1>2, <1>7 DEF Begin
  <2>2. (TypeOK /\ CountInv /\ CallInv /\ SeenInv)'
    BY <1>1, <1>2, <1>4, <1>7, <2>1
       DEF IInv, TypeOK, CountInv, CallInv, SeenInv, ValidateSysmemFlushPagePlan
  <2>3. (SettledInv /\ SuccessMeansSwitched)'
    BY <1>1, <1>7, <2>1 DEF SettledInv, SuccessMeansSwitched, Old
  <2> QED
    BY <2>2, <2>3 DEF IInv
<1>8. CASE call.stage = "observe"
  <2>1. CASE call.op = "program" /\ live = Old
    <3>1. call' = Begin("program", "none", FALSE)
      BY <1>1, <1>8, <2>1 DEF AfterReads
    <3> QED
      BY <1>3, <1>7, <2>1, <3>1
  <2>2. CASE call.op = "rollback" /\ live = New
    <3>1. call' = Begin("restore", "none", FALSE)
      BY <1>1, <1>8, <2>2 DEF AfterReads
    <3> QED
      BY <1>7, <2>2, <3>1
  <2>3. CASE ~(call.op = "program" /\ live = Old) /\ ~(call.op = "rollback" /\ live = New)
    <3>1. call' = Return("NotPermitted")
      BY <1>1, <1>8, <2>3 DEF AfterReads
    <3>2. ownerWrites = 0 /\ ~reported => << lo, hi >> \in { Old, New }
      BY <1>8 DEF IInv, SettledInv, CallInv
    <3> QED
      BY <1>6, <3>1, <3>2
  <2> QED
    BY <2>1, <2>2, <2>3
<1>9. CASE call.stage = "confirm"
  <2>1. CASE live = New
    <3>1. call' = Return("Success") /\ call.op = "program"
      BY <1>1, <1>9, <2>1 DEF AfterReads, IInv, CallInv
    <3> QED
      BY <1>3, <1>6, <2>1, <3>1
  <2>2. CASE live # New
    <3>1. call' = Begin("restore", "IOError", FALSE)
      BY <1>1, <1>9, <2>2 DEF AfterReads, AfterError
    <3> QED
      BY <1>7, <3>1
  <2> QED
    BY <2>1, <2>2
<1>10. CASE call.stage = "reconfirm"
  <2>1. CASE live # Old
    <3>1. call' = AfterError("IOError")
      BY <1>1, <1>10, <2>1 DEF AfterReads
    <3>2. PICK r \in RegisterErrors : call' = Return(r)
      BY <1>10, <3>1, ErrorNext
    <3> QED
      BY <1>6, <3>2
  <2>2. CASE live = Old /\ call.op = "rollback"
    <3>1. call' = Return("Success")
      BY <1>1, <1>10, <2>2 DEF AfterReads
    <3> QED
      BY <1>3, <1>6, <2>2, <3>1
  <2>3. CASE live = Old /\ call.op = "program"
    <3>1. call' = Return(call.failure) /\ call.failure \in RegisterErrors
      BY <1>1, <1>10, <2>3 DEF AfterReads, IInv, CallInv
    <3> QED
      BY <1>6, <3>1
  <2> QED
    BY <1>2, <2>1, <2>2, <2>3
<1> QED
  BY <1>2, <1>8, <1>9, <1>10

\* A register was written, or the write was lost.
LEMMA WriteStateInv == IInv /\ WriteState => IInv'
<1> SUFFICES ASSUME IInv, WriteState PROVE IInv'
  OBVIOUS
<1> USE DEF Calls, Stages, RegisterErrors, ReadStages
<1>1. call \in Calls /\ call.stage \in { "program", "restore" }
  BY DEF WriteState, IInv, CallInv
<1>2. UNCHANGED << plan, plans, ownerWrites >> /\ reported' \in BOOLEAN
  BY DEF WriteState, Continue, IInv, TypeOK
<1>3. call' \in Calls /\ call'.stage \in { "program", "confirm", "restore", "reconfirm" }
      /\ call'.op = call.op /\ call'.result = call.result
      /\ (call'.stage \in { "confirm", "reconfirm" } => ~call'.second)
      /\ (call'.stage \in { "program", "restore" } => call'.second)
      /\ (call'.hidden => call'.failure # "none")
      /\ (call'.stage \in { "program", "confirm" } => call.stage = "program")
      /\ (call'.stage \in { "restore", "reconfirm" } =>
            call.stage = "restore" /\ call'.failure = call.failure)
  BY <1>1 DEF WriteState, Continue, AfterWrites, Begin, IInv, CallInv
<1>4. lo' \in 0..(LoSize - 1) /\ hi' \in 0..(2 * HiSize - 1)
  BY <1>1 DEF WriteState, New, Old, IInv, TypeOK
<1>5. (TypeOK /\ CountInv)'
  BY <1>2, <1>3, <1>4 DEF IInv, TypeOK, CountInv
<1>6. CallInv'
  BY <1>1, <1>2, <1>3 DEF IInv, CallInv, ValidateSysmemFlushPagePlan
<1>7. (SeenInv /\ SettledInv /\ SuccessMeansSwitched)'
  BY <1>3 DEF SeenInv, SettledInv, SuccessMeansSwitched
<1> QED
  BY <1>5, <1>6, <1>7 DEF IInv

\* A new plan is made from the registers, so they are its old values.
LEMMA PlanInv ==
  ASSUME IInv, NEW a \in Addresses, Plan(a)
  PROVE  IInv'
<1> USE DEF Calls, Stages, RegisterErrors, ReadStages
<1>1. a \in Nat
  BY EncodingAssumption
<1>2. TypeOK'
  BY <1>1, PlanType DEF Plan, IInv, TypeOK, CallInv
<1>3. CountInv' /\ CallInv'
  BY DEF Plan, IInv, CountInv, CallInv
<1>4. (SeenInv /\ SuccessMeansSwitched)'
  BY DEF Plan, IInv, CallInv, SeenInv, SuccessMeansSwitched
<1>5. SettledInv'
  <2>1. plan'.oldLo = lo /\ plan'.oldHi = hi /\ lo' = lo /\ hi' = hi
    BY DEF Plan, PlanSysmemFlushPage
  <2> QED
    BY <2>1 DEF SettledInv, Old
<1> QED
  BY <1>2, <1>3, <1>4, <1>5 DEF IInv

LEMMA CallStepInv ==
  ASSUME IInv, NEW op \in { "program", "rollback" }, NEW writesEnabled \in BOOLEAN,
         Call(op, writesEnabled)
  PROVE  IInv'
<1> USE DEF Calls, Stages, RegisterErrors, ReadStages
<1>1. UNCHANGED << lo, hi, plan, reported, plans, ownerWrites >>
  BY DEF Call
<1>2. call' \in Calls /\ ~call'.second /\ ~call'.hidden /\ call'.op = op
      /\ call'.stage \in { "idle", "observe" } /\ call'.result # "Success"
      /\ (call'.stage = "observe" =>
            plans > 0 /\ call'.result = "none" /\ ValidateSysmemFlushPagePlan(plan))
  BY DEF Call, IInv, CallInv
<1>3. (TypeOK /\ CountInv)'
  BY <1>1, <1>2 DEF IInv, TypeOK, CountInv
<1>4. CallInv'
  BY <1>1, <1>2 DEF CallInv, ValidateSysmemFlushPagePlan
<1>5. (SeenInv /\ SuccessMeansSwitched)'
  BY <1>2 DEF SeenInv, SuccessMeansSwitched
<1>6. SettledInv'
  BY <1>1, <1>2 DEF Call, IInv, SettledInv, Old, New
<1> QED
  BY <1>3, <1>4, <1>5, <1>6 DEF IInv

LEMMA OwnerInv == IInv /\ OwnerReprograms => IInv'
<1> SUFFICES ASSUME IInv, OwnerReprograms PROVE IInv'
  OBVIOUS
<1>1. UNCHANGED << plan, call, reported, plans >> /\ ownerWrites' # 0 /\ ownerWrites' \in Nat
  BY DEF OwnerReprograms, IInv, CountInv
<1>2. lo' \in 0..(LoSize - 1) /\ hi' \in 0..(2 * HiSize - 1)
  BY EncodingAssumption, EncodingTypes DEF OwnerReprograms, IInv, TypeOK
<1>3. (TypeOK /\ CountInv)'
  BY <1>1, <1>2 DEF IInv, TypeOK, CountInv
<1>4. CallInv'
  BY <1>1 DEF IInv, CallInv, ValidateSysmemFlushPagePlan
<1>5. (SeenInv /\ SettledInv /\ SuccessMeansSwitched)'
  BY <1>1 DEF SeenInv, SettledInv, SuccessMeansSwitched
<1> QED
  BY <1>3, <1>4, <1>5 DEF IInv

LEMMA StutterInv == IInv /\ UNCHANGED vars => IInv'
BY DEF vars, IInv, TypeOK, CountInv, CallInv, SeenInv, SettledInv, SuccessMeansSwitched,
   ValidateSysmemFlushPagePlan, Old, New

LEMMA NextInv == IInv /\ [Next]_vars => IInv'
<1> SUFFICES ASSUME IInv, [Next]_vars PROVE IInv'
  OBVIOUS
<1>1. ASSUME NEW a \in Addresses, Plan(a) PROVE IInv'
  BY <1>1, PlanInv
<1>2. ASSUME NEW op \in { "program", "rollback" }, NEW writesEnabled \in BOOLEAN,
             Call(op, writesEnabled)
      PROVE  IInv'
  BY <1>2, CallStepInv
<1>3. CASE AccessFails
  BY <1>3, AccessFailsInv
<1>4. CASE ReadState
  BY <1>4, FirstReadInv, SecondReadInv
<1>5. CASE WriteState
  BY <1>5, WriteStateInv
<1>6. CASE OwnerReprograms
  BY <1>6, OwnerInv
<1>7. CASE UNCHANGED vars
  BY <1>7, StutterInv
<1> QED
  BY <1>1, <1>2, <1>3, <1>4, <1>5, <1>6, <1>7 DEF Next, Step

LEMMA Invariance == Spec => []IInv
<1> QED
  BY InitInv, NextInv, PTL DEF Spec

-----------------------------------------------------------------------------
(***************************************************************************)
(* The results.                                                            *)
(***************************************************************************)

\* No plan, call or foreign write takes the registers or the plan out of their
\* widths (sysmem_flush.cpp).
THEOREM FlushTypes == Spec => []TypeOK
<1>1. IInv => TypeOK
  BY DEF IInv
<1> QED
  BY <1>1, Invariance, PTL

\* A program or rollback call that returns success has moved both registers although
\* each write may have been lost: RTXMacProgramSysmemFlushPage and
\* RTXMacRollbackSysmemFlushPage read back before they report it.
THEOREM FlushSuccess == Spec => []SuccessMeansSwitched
<1>1. IInv => SuccessMeansSwitched
  BY DEF IInv
<1> QED
  BY <1>1, Invariance, PTL

\* Registers left neither switched nor restored never go unreported, wherever a
\* mapping fails, also inside the restore of a failed program call.
THEOREM FlushTornIsReported == Spec => []TornStateIsReported
<1>1. IInv => TornStateIsReported
  BY DEF IInv, SettledInv, TornStateIsReported
<1> QED
  BY <1>1, Invariance, PTL

=============================================================================
