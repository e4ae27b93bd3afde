--------------------------- MODULE FirmwareProofs ---------------------------
(***************************************************************************)
(* Proofs about the firmware on its way into the GPU. The package, for all *)
(* firmware files, alignments and sizes and any number of files and        *)
(* damages: builder and parser agree on the layout, what is staged from a  *)
(* file with one damage is what the file was built from, and a session is  *)
(* prepared from the staged package. The Falcon plans executed on the      *)
(* registers, for every boot input, width, queue depth and reset value,    *)
(* however the engines transfer, scrub, run and halt between two steps of  *)
(* the driver: a sequence the audit passed is never denied half way, and a *)
(* boot that ends has run both images.                                     *)
(***************************************************************************)
EXTENDS PackageIntake, FalconLoad, SequenceTheorems, TLAPS

-----------------------------------------------------------------------------
(***************************************************************************)
(* Alignment.                                                              *)
(***************************************************************************)

LEMMA Division ==
  ASSUME NEW a \in Nat, NEW n \in Nat \ {0}
  PROVE  a \div n \in Nat /\ a % n \in 0..(n - 1) /\ a = n * (a \div n) + (a % n)
OBVIOUS

LEMMA DivisionUnique ==
  ASSUME NEW n \in Nat \ {0}, NEW q \in Nat, NEW r \in 0..(n - 1)
  PROVE  (n * q + r) \div n = q /\ (n * q + r) % n = r
OBVIOUS

Aligned(x) == x % kPayloadAlignment = 0

LEMMA AlignFacts ==
  ASSUME NEW v \in Nat, NEW a \in Nat \ {0}
  PROVE  AlignUp(v, a) \in Nat /\ AlignUp(v, a) >= v /\ AlignUp(v, a) % a = 0
<1> DEFINE x == v + a - 1
           q == x \div a
<1>1. x \in Nat /\ x >= v + (a - 1)
  OBVIOUS
<1>2. AlignUp(v, a) = q * a
  BY DEF AlignUp
<1> HIDE DEF x
<1>3. q \in Nat /\ x % a \in 0..(a - 1) /\ x = a * q + (x % a)
  BY <1>1, Division
<1> HIDE DEF q
<1>4. q * a = a * q + 0 /\ q * a \in Nat
  BY <1>3
<1>5. q * a >= v
  BY <1>1, <1>3
<1>6. 0 \in 0..(a - 1)
  OBVIOUS
<1>7. (a * q + 0) % a = 0
  BY <1>3, <1>6, DivisionUnique
<1> QED BY <1>2, <1>4, <1>5, <1>7

-----------------------------------------------------------------------------
(***************************************************************************)
(* Bytes.                                                                  *)
(***************************************************************************)

LEMMA SliceFacts ==
  ASSUME NEW b \in ByteSeqs, NEW off \in Nat, NEW size \in Nat, off + size <= Len(b)
  PROVE  /\ Slice(b, off, size) \in ByteSeqs /\ Len(Slice(b, off, size)) = size
         /\ \A i \in 1..size : Slice(b, off, size)[i] = b[off + i]
<1>1. Len(b) \in Nat
  BY DEF ByteSeqs
<1>2. Len(SubSeq(b, off + 1, off + size)) = size
  BY <1>1 DEF ByteSeqs
<1>3. ASSUME NEW i \in 1..size PROVE SubSeq(b, off + 1, off + size)[i] = b[off + i]
  <2>1. SubSeq(b, off + 1, off + size)[i] = b[(off + 1) + i - 1]
    <3>1. \A j \in (off + 1)..(off + size) : b[j] \in Nat
      BY <1>1 DEF ByteSeqs
    <3>2. i \in 1..((off + size) - (off + 1) + 1)
      OBVIOUS
    <3> QED BY <3>1, <3>2, SubSeqProperties
  <2> QED BY <2>1
<1>4. SubSeq(b, off + 1, off + size) \in Seq(Nat)
  BY <1>1 DEF ByteSeqs
<1> QED BY <1>2, <1>3, <1>4 DEF Slice, ByteSeqs

LEMMA OverwriteFacts ==
  ASSUME NEW b \in ByteSeqs, NEW off, NEW part \in ByteSeqs
  PROVE  Overwrite(b, off, part) \in ByteSeqs /\ Len(Overwrite(b, off, part)) = Len(b)
<1> DEFINE w(i) == IF i - off \in DOMAIN part THEN part[i - off] ELSE b[i]
<1>1. Overwrite(b, off, part) = [i \in 1..Len(b) |-> w(i)]
  BY DEF Overwrite, ByteSeqs
<1>2. ASSUME NEW i \in 1..Len(b) PROVE w(i) \in Nat
  BY DEF ByteSeqs
<1> HIDE DEF w
<1>3. Len(b) \in Nat
  BY DEF ByteSeqs
<1> QED BY <1>1, <1>2, <1>3 DEF ByteSeqs

LEMMA SameBytes ==
  ASSUME NEW s \in ByteSeqs, NEW t \in ByteSeqs, Len(s) = Len(t),
         \A i \in 1..Len(s) : s[i] = t[i]
  PROVE  s = t
BY SeqEqual DEF ByteSeqs

-----------------------------------------------------------------------------
(***************************************************************************)
(* The builder.                                                            *)
(***************************************************************************)

\* The five payloads, each of some bytes.
FivePayloads(p) ==
  /\ p = [k \in SectionKinds |-> p[k]]
  /\ \A k \in SectionKinds : p[k] \in ByteSeqs

PatchedSizes(s, p) ==
  /\ Len(p[4]) = AlignUp(s.fwsec.storedSize, kImageRound)
  /\ Len(p[5]) = Len(s.sec2.data)
  /\ p[1] = s.firmware /\ p[2] = s.gspSignature /\ p[3] = s.boot.data

LEMMA Constants ==
  /\ kPayloadAlignment \in Nat \ {0} /\ kTableEnd \in Nat \ {0} /\ kImageRound \in Nat \ {0}
  /\ kFrtsCommandBytes \in Nat \ {0} /\ kRsa3072SignatureBytes \in Nat \ {0}
  /\ kGspSignatureBytes \in Nat \ {0} /\ kFrtsReserve \in Nat
BY PackageAssumption

\* The FRTS patch keeps the size of the rounded image, and the signature it puts in fits.
LEMMA FwsecPatched ==
  ASSUME NEW s \in SourceFiles, NEW plan \in PlanFwsecFrtsPatch(s.fwsec)
  PROVE  LET fw == ApplyFwsecFrtsPatch(s.fwsec, plan)
             rounded == AlignUp(s.fwsec.storedSize, kImageRound)
         IN  /\ fw \in ByteSeqs /\ Len(fw) = rounded
             /\ Fits(rounded, s.fwsec.imemLoadSize + s.fwsec.pkcDataOffset,
                     kRsa3072SignatureBytes)
<1> DEFINE f == s.fwsec
           rounded == AlignUp(f.storedSize, kImageRound)
           image == Slice(f.image, 0, rounded)
           tail == SubSeq(f.signature, Len(f.signature) - kRsa3072SignatureBytes + 1,
                          Len(f.signature))
<1>1. /\ f.storedSize \in Nat /\ f.image \in ByteSeqs /\ f.signature \in ByteSeqs
  BY DEF SourceFiles
<1>2. /\ plan.bytes = rounded /\ Len(f.image) >= rounded
      /\ Fits(rounded, f.imemLoadSize + f.pkcDataOffset, kRsa3072SignatureBytes)
      /\ Len(f.signature) >= kRsa3072SignatureBytes
  BY DEF PlanFwsecFrtsPatch
<1>3. rounded \in Nat
  BY <1>1, Constants, AlignFacts
<1>4. ApplyFwsecFrtsPatch(f, plan) =
        Overwrite(Overwrite(Overwrite(image, plan.init, FrtsCommandId),
                            plan.command, FrtsCommand), plan.signature, tail)
  BY <1>2 DEF ApplyFwsecFrtsPatch
<1>5. tail \in ByteSeqs
  <2>1. Len(f.signature) \in Nat
    BY <1>1 DEF ByteSeqs
  <2> DEFINE m == Len(f.signature) - kRsa3072SignatureBytes + 1
  <2>2. m \in Int /\ m >= 1
    BY <1>2, <2>1, Constants
  <2> HIDE DEF m
  <2>3. \A i \in m..Len(f.signature) : f.signature[i] \in Nat
    BY <1>1, <2>1, <2>2 DEF ByteSeqs
  <2>4. SubSeq(f.signature, m, Len(f.signature)) \in Seq(Nat)
    BY <2>1, <2>2, <2>3, SubSeqProperties
  <2> QED BY <2>4 DEF m, ByteSeqs
<1>6. FrtsCommandId \in ByteSeqs /\ FrtsCommand \in ByteSeqs
  BY Constants DEF FrtsCommandId, FrtsCommand, ByteSeqs
<1> HIDE DEF f, rounded, tail
<1>7. image \in ByteSeqs /\ Len(image) = rounded
  <2>1. 0 + rounded <= Len(f.image)
    BY <1>2, <1>3
  <2> QED BY <1>1, <1>3, <2>1, SliceFacts
<1> HIDE DEF image
<1> DEFINE o1 == Overwrite(image, plan.init, FrtsCommandId)
           o2 == Overwrite(o1, plan.command, FrtsCommand)
           o3 == Overwrite(o2, plan.signature, tail)
<1>8. o1 \in ByteSeqs /\ Len(o1) = rounded
  BY <1>6, <1>7, OverwriteFacts
<1> HIDE DEF o1
<1>9. o2 \in ByteSeqs /\ Len(o2) = rounded
  BY <1>6, <1>8, OverwriteFacts
<1> HIDE DEF o2
<1>10. o3 \in ByteSeqs /\ Len(o3) = rounded
  BY <1>5, <1>9, OverwriteFacts
<1> QED BY <1>2, <1>4, <1>10 DEF o1, o2, f, rounded

LEMMA BooterPatched ==
  ASSUME NEW s \in SourceFiles, NEW sec2 \in PatchBooterProductionSignature(s.sec2)
  PROVE  sec2 \in ByteSeqs /\ Len(sec2) = Len(s.sec2.data)
<1> DEFINE b == s.sec2
           size == Len(b.signatures) \div b.signatureCount
           part == Slice(b.signatures, b.selected, size)
<1>1. /\ b.signatures \in ByteSeqs /\ b.data \in ByteSeqs /\ b.signatureCount \in Nat
      /\ b.selected \in Nat
  BY DEF SourceFiles
<1>2. /\ b.signatureCount # 0 /\ Fits(Len(b.signatures), b.selected, size)
      /\ sec2 = Overwrite(b.data, b.patchOffset, part)
  BY DEF PatchBooterProductionSignature
<1>3. Len(b.signatures) \in Nat
  BY <1>1 DEF ByteSeqs
<1>4. size \in Nat
  BY <1>1, <1>2, <1>3, Division
<1> HIDE DEF size, b
<1>5. b.selected + size <= Len(b.signatures)
  BY <1>1, <1>2, <1>3, <1>4 DEF Fits
<1>6. part \in ByteSeqs
  BY <1>1, <1>4, <1>5, SliceFacts
<1> HIDE DEF part
<1>7. sec2 \in ByteSeqs /\ Len(sec2) = Len(b.data)
  BY <1>1, <1>2, <1>6, OverwriteFacts
<1> QED BY <1>7 DEF b

LEMMA PayloadFacts ==
  ASSUME NEW s \in SourceFiles, NEW p \in Payloads(s)
  PROVE  /\ FivePayloads(p) /\ PatchedSizes(s, p)
         /\ Fits(Len(p[4]), s.fwsec.imemLoadSize + s.fwsec.pkcDataOffset,
                 kRsa3072SignatureBytes)
<1>1. PICK plan \in PlanFwsecFrtsPatch(s.fwsec), sec2 \in PatchBooterProductionSignature(s.sec2) :
        p = << s.firmware, s.gspSignature, s.boot.data,
               ApplyFwsecFrtsPatch(s.fwsec, plan), sec2 >>
  BY DEF Payloads
<1>2. /\ s.firmware \in ByteSeqs /\ s.gspSignature \in ByteSeqs /\ s.boot.data \in ByteSeqs
  BY DEF SourceFiles
<1> DEFINE fw == ApplyFwsecFrtsPatch(s.fwsec, plan)
<1>3. /\ fw \in ByteSeqs /\ Len(fw) = AlignUp(s.fwsec.storedSize, kImageRound)
      /\ Fits(Len(fw), s.fwsec.imemLoadSize + s.fwsec.pkcDataOffset, kRsa3072SignatureBytes)
  BY FwsecPatched
<1>4. sec2 \in ByteSeqs /\ Len(sec2) = Len(s.sec2.data)
  BY BooterPatched
<1> HIDE DEF fw
<1>5. /\ DOMAIN p = 1..5 /\ p[1] = s.firmware /\ p[2] = s.gspSignature /\ p[3] = s.boot.data
      /\ p[4] = fw /\ p[5] = sec2
  BY <1>1 DEF fw
<1>6. \A k \in 1..5 : p[k] \in ByteSeqs
  BY <1>2, <1>3, <1>4, <1>5
<1>7. p = [k \in 1..5 |-> p[k]]
  BY <1>1
<1> QED BY <1>3, <1>4, <1>5, <1>6, <1>7 DEF FivePayloads, PatchedSizes, SectionKinds

\* A source gives one list of payloads.
LEMMA PayloadsAreOne == ASSUME NEW s, NEW p \in Payloads(s), NEW q \in Payloads(s) PROVE p = q
<1>1. \A a, b \in PlanFwsecFrtsPatch(s.fwsec) : a = b
  BY DEF PlanFwsecFrtsPatch
<1>2. \A a, b \in PatchBooterProductionSignature(s.sec2) : a = b
  BY DEF PatchBooterProductionSignature
<1> QED BY <1>1, <1>2 DEF Payloads

Before(p, at, i, j) == at[i] + Len(p[i]) <= at[j]

\* The sections are laid out one behind the other, aligned, behind the table.
Stacked(p, at) ==
  /\ \A k \in SectionKinds :
       /\ at[k] \in Nat /\ Aligned(at[k])
       /\ at[k] >= AlignUp(kTableEnd, kPayloadAlignment)
  /\ \A i, j \in SectionKinds : i < j => Before(p, at, i, j)

LEMMA LayoutIsStacked == ASSUME NEW p, FivePayloads(p) PROVE Stacked(p, OffsetOf(p))
<1> DEFINE A == kPayloadAlignment
           a1 == AlignUp(kTableEnd, A)
           a2 == AlignUp(a1 + Len(p[1]), A)
           a3 == AlignUp(a2 + Len(p[2]), A)
           a4 == AlignUp(a3 + Len(p[3]), A)
           a5 == AlignUp(a4 + Len(p[4]), A)
           at == OffsetOf(p)
<1>1. \A k \in 1..5 : Len(p[k]) \in Nat
  BY DEF FivePayloads, SectionKinds, ByteSeqs
<1>2. at = << a1, a2, a3, a4, a5 >>
  BY DEF OffsetOf, Layout
<1>3. a1 \in Nat /\ Aligned(a1)
  BY Constants, AlignFacts DEF Aligned
<1> HIDE DEF a1
<1>4. a2 \in Nat /\ Aligned(a2) /\ a2 >= a1 + Len(p[1])
  <2>1. a1 + Len(p[1]) \in Nat
    BY <1>1, <1>3
  <2> QED BY <2>1, Constants, AlignFacts DEF Aligned
<1> HIDE DEF a2
<1>5. a3 \in Nat /\ Aligned(a3) /\ a3 >= a2 + Len(p[2])
  <2>1. a2 + Len(p[2]) \in Nat
    BY <1>1, <1>4
  <2> QED BY <2>1, Constants, AlignFacts DEF Aligned
<1> HIDE DEF a3
<1>6. a4 \in Nat /\ Aligned(a4) /\ a4 >= a3 + Len(p[3])
  <2>1. a3 + Len(p[3]) \in Nat
    BY <1>1, <1>5
  <2> QED BY <2>1, Constants, AlignFacts DEF Aligned
<1> HIDE DEF a4
<1>7. a5 \in Nat /\ Aligned(a5) /\ a5 >= a4 + Len(p[4])
  <2>1. a4 + Len(p[4]) \in Nat
    BY <1>1, <1>6
  <2> QED BY <2>1, Constants, AlignFacts DEF Aligned
<1> HIDE DEF a5, at
<1>8. at[1] = a1 /\ at[2] = a2 /\ at[3] = a3 /\ at[4] = a4 /\ at[5] = a5
  BY <1>2
<1>9. /\ Len(p[1]) \in Nat /\ Len(p[2]) \in Nat /\ Len(p[3]) \in Nat /\ Len(p[4]) \in Nat
  BY <1>1
<1>10. a1 <= a2 /\ a2 <= a3 /\ a3 <= a4 /\ a4 <= a5
  <2>1. a1 <= a2
    BY <1>3, <1>4, <1>9
  <2>2. a2 <= a3
    BY <1>4, <1>5, <1>9
  <2>3. a3 <= a4
    BY <1>5, <1>6, <1>9
  <2>4. a4 <= a5
    BY <1>6, <1>7, <1>9
  <2> QED BY <2>1, <2>2, <2>3, <2>4
<1>11. a1 <= a3 /\ a1 <= a4 /\ a1 <= a5 /\ a1 <= a1
  BY <1>3, <1>4, <1>5, <1>6, <1>7, <1>10
<1> HIDE DEF A
<1>12. ASSUME NEW k \in 1..5 PROVE at[k] \in Nat /\ Aligned(at[k]) /\ at[k] >= a1
  <2>1. at[k] \in {a1, a2, a3, a4, a5}
    BY <1>8
  <2>2. at[k] \in Nat /\ Aligned(at[k])
    BY <1>3, <1>4, <1>5, <1>6, <1>7, <2>1
  <2>3. at[k] >= a1
    BY <1>3, <1>4, <1>5, <1>6, <1>7, <1>10, <1>11, <2>1
  <2> QED BY <2>2, <2>3
<1> DEFINE l1 == Len(p[1])
           l2 == Len(p[2])
           l3 == Len(p[3])
           l4 == Len(p[4])
<1> HIDE DEF l1, l2, l3, l4
<1>13. /\ a1 + l1 <= a2 /\ a1 + l1 <= a3 /\ a1 + l1 <= a4 /\ a1 + l1 <= a5
       /\ a2 + l2 <= a3 /\ a2 + l2 <= a4 /\ a2 + l2 <= a5
       /\ a3 + l3 <= a4 /\ a3 + l3 <= a5 /\ a4 + l4 <= a5
  <2>1. /\ a1 + l1 <= a2 /\ a2 + l2 <= a3 /\ a3 + l3 <= a4 /\ a4 + l4 <= a5
        /\ l1 \in Nat /\ l2 \in Nat /\ l3 \in Nat /\ l4 \in Nat
    BY <1>3, <1>4, <1>5, <1>6, <1>7, <1>9 DEF l1, l2, l3, l4
  <2> QED BY <1>3, <1>4, <1>5, <1>6, <1>7, <1>10, <2>1
<1>14. /\ Before(p, at, 1, 2) /\ Before(p, at, 1, 3) /\ Before(p, at, 1, 4)
       /\ Before(p, at, 1, 5) /\ Before(p, at, 2, 3) /\ Before(p, at, 2, 4)
       /\ Before(p, at, 2, 5) /\ Before(p, at, 3, 4) /\ Before(p, at, 3, 5)
       /\ Before(p, at, 4, 5)
  BY <1>8, <1>13 DEF Before, l1, l2, l3, l4
<1>15. ASSUME NEW i \in 1..5, NEW j \in 1..5, i < j PROVE Before(p, at, i, j)
  BY <1>14, <1>15
<1> QED BY <1>12, <1>15 DEF Stacked, SectionKinds, at, a1, A

\* The bytes the builder writes: at its offset lies each payload.
LEMMA ContentsFacts ==
  ASSUME NEW p, FivePayloads(p), NEW at, Stacked(p, at)
  PROVE  LET bytes == Contents(p, at)
         IN  /\ bytes \in ByteSeqs /\ Len(bytes) = at[5] + Len(p[5])
             /\ \A k \in SectionKinds :
                  at[k] + Len(p[k]) <= Len(bytes) /\ Slice(bytes, at[k], Len(p[k])) = p[k]
<1> DEFINE n == at[5] + Len(p[5])
           here(i) == {k \in SectionKinds : i - at[k] \in DOMAIN p[k]}
           w(i) == IF here(i) = {} THEN 0
                   ELSE LET k == CHOOSE k \in here(i) : TRUE IN p[k][i - at[k]]
           bytes == Contents(p, at)
<1>1. bytes = [i \in 1..n |-> w(i)]
  BY DEF Contents
<1>2. ASSUME NEW k \in 1..5
      PROVE  /\ Len(p[k]) \in Nat /\ at[k] \in Nat /\ p[k] \in ByteSeqs
             /\ DOMAIN p[k] = 1..Len(p[k])
  <2>1. p[k] \in ByteSeqs /\ at[k] \in Nat
    BY DEF FivePayloads, SectionKinds, Stacked
  <2> QED BY <2>1 DEF ByteSeqs
<1>3. \A k \in 1..5 : at[k] + Len(p[k]) <= n
  <2>1. ASSUME NEW k \in 1..5 PROVE at[k] + Len(p[k]) <= n
    <3>1. CASE k = 5
      BY <1>2, <3>1
    <3>2. CASE k # 5
      <4>1. Before(p, at, k, 5)
        BY <3>2 DEF Stacked, SectionKinds
      <4>2. /\ Len(p[k]) \in Nat /\ at[k] \in Nat /\ Len(p[5]) \in Nat /\ at[5] \in Nat
        BY <1>2
      <4> QED BY <4>1, <4>2 DEF Before
    <3> QED BY <3>1, <3>2
  <2> QED BY <2>1
<1>4. n \in Nat
  BY <1>2
<1>5. ASSUME NEW i \in 1..n PROVE w(i) \in Nat
  <2>1. CASE here(i) = {}
    BY <2>1
  <2>2. CASE here(i) # {}
    <3> DEFINE k == CHOOSE k \in here(i) : TRUE
    <3>1. k \in here(i)
      BY <2>2
    <3> HIDE DEF k
    <3>2. k \in 1..5 /\ i - at[k] \in DOMAIN p[k]
      BY <3>1 DEF SectionKinds
    <3>3. p[k][i - at[k]] \in Nat
      <4>1. p[k] \in Seq(Nat)
        BY <1>2, <3>2 DEF ByteSeqs
      <4> QED BY <3>2, <4>1
    <3>4. w(i) = p[k][i - at[k]]
      BY <2>2 DEF k
    <3> QED BY <3>3, <3>4
  <2> QED BY <2>1, <2>2
<1>6. ASSUME NEW k \in 1..5, NEW i \in 1..Len(p[k]) PROVE w(at[k] + i) = p[k][i]
  <2> DEFINE x == at[k] + i
  <2>1. x - at[k] = i /\ x \in Int
    <3>1. at[k] \in Nat /\ Len(p[k]) \in Nat
      BY <1>2
    <3> QED BY <3>1
  <2> HIDE DEF x
  <2>2. k \in here(x)
    BY <1>2, <2>1 DEF SectionKinds
  <2>3. ASSUME NEW j \in here(x) PROVE j = k
    <3>1. j \in 1..5 /\ x - at[j] \in 1..Len(p[j])
      BY <1>2, <2>3 DEF SectionKinds
    <3>2. /\ Len(p[k]) \in Nat /\ at[k] \in Nat /\ Len(p[j]) \in Nat /\ at[j] \in Nat
      BY <1>2, <3>1
    <3>3. ~(j < k)
      <4>1. j < k => Before(p, at, j, k)
        BY <3>1 DEF Stacked, SectionKinds
      <4> QED BY <2>1, <3>1, <3>2, <4>1 DEF Before
    <3>4. ~(k < j)
      <4>1. k < j => Before(p, at, k, j)
        BY <3>1 DEF Stacked, SectionKinds
      <4> QED BY <2>1, <3>1, <3>2, <4>1 DEF Before
    <3> QED BY <3>1, <3>3, <3>4
  <2> DEFINE c == CHOOSE j \in here(x) : TRUE
  <2>4. c \in here(x)
    BY <2>2
  <2>5. c = k
    BY <2>3, <2>4
  <2>6. w(x) = p[c][x - at[c]]
    BY <2>2
  <2> HIDE DEF c, w, here
  <2>7. w(x) = p[k][i]
    BY <2>1, <2>5, <2>6
  <2> QED BY <2>7 DEF x
<1> HIDE DEF w, here, bytes
<1>7. bytes \in ByteSeqs /\ Len(bytes) = n
  BY <1>1, <1>4, <1>5 DEF ByteSeqs
<1>8. ASSUME NEW k \in 1..5 PROVE Slice(bytes, at[k], Len(p[k])) = p[k]
  <2> DEFINE sl == Slice(bytes, at[k], Len(p[k]))
  <2>1. /\ sl \in ByteSeqs /\ Len(sl) = Len(p[k])
        /\ \A i \in 1..Len(p[k]) : sl[i] = bytes[at[k] + i]
    BY <1>2, <1>3, <1>7, SliceFacts
  <2> HIDE DEF sl
  <2>2. ASSUME NEW i \in 1..Len(p[k]) PROVE sl[i] = p[k][i]
    <3>1. at[k] + i \in 1..n
      <4>1. /\ Len(p[k]) \in Nat /\ at[k] \in Nat /\ at[k] + Len(p[k]) <= n
        BY <1>2, <1>3
      <4> HIDE DEF n
      <4> QED BY <1>4, <4>1
    <3>2. bytes[at[k] + i] = w(at[k] + i)
      BY <1>1, <3>1
    <3> QED BY <1>6, <2>1, <3>2
  <2>3. sl = p[k]
    BY <1>2, <2>1, <2>2, SameBytes
  <2> QED BY <2>3 DEF sl
<1> QED BY <1>3, <1>7, <1>8 DEF bytes, SectionKinds

-----------------------------------------------------------------------------
(***************************************************************************)
(* A file: its table and its bytes, whatever the damages.                  *)
(***************************************************************************)

Records == [kind : SectionKinds, reserved : Nat, offset : Nat, size : Nat, sha256 : ByteSeqs]

FileFields ==
  {"magic", "version", "layout", "reserved", "packageBytes", "metadata", "records", "bytes"}

FileOK(f) ==
  /\ f = [x \in FileFields |-> f[x]]
  /\ f.records \in [SectionKinds -> Records] /\ f.bytes \in ByteSeqs

\* The bytes a record points to.
Pointed(f, k) == Slice(f.bytes, f.records[k].offset, f.records[k].size)

OwnKinds(f) == \A k \in SectionKinds : f.records[k].kind = k

\* Each record has the digest or the bytes of its payload, and the kinds are
\* as written unless one of them is missing.
Carries(f, p) ==
  /\ \A k \in SectionKinds : f.records[k].sha256 = p[k] \/ Pointed(f, k) = p[k]
  /\ OwnKinds(f) \/ \E i \in SectionKinds : \A k \in SectionKinds : f.records[k].kind # i

\* What the builder writes, for the payloads p of its sources.
Written(f, s, p) ==
  /\ f.magic = TRUE /\ f.version = 1 /\ f.layout = TRUE /\ f.reserved = 0
  /\ f.packageBytes = Len(f.bytes) /\ f.metadata = StaticMetadata(s)
  /\ OwnKinds(f) /\ Stacked(p, OffsetOf(p))
  /\ Len(f.bytes) = OffsetOf(p)[5] + Len(p[5])
  /\ \A k \in SectionKinds :
       /\ f.records[k].reserved = 0 /\ f.records[k].offset = OffsetOf(p)[k]
       /\ f.records[k].size = Len(p[k]) /\ f.records[k].sha256 = p[k]
       /\ OffsetOf(p)[k] + Len(p[k]) <= Len(f.bytes) /\ Pointed(f, k) = p[k]

LEMMA BuiltIsWritten ==
  ASSUME NEW s \in SourceFiles, NEW p \in Payloads(s)
  PROVE  FileOK(BuildGa10xPackage(s)) /\ Written(BuildGa10xPackage(s), s, p)
<1> DEFINE at == OffsetOf(p)
           bytes == Contents(p, at)
           f == BuildGa10xPackage(s)
<1>1. p = CHOOSE q \in Payloads(s) : TRUE
  <2>1. (CHOOSE q \in Payloads(s) : TRUE) \in Payloads(s)
    OBVIOUS
  <2> QED BY <2>1, PayloadsAreOne
<1>2. f = [magic |-> TRUE, version |-> 1, layout |-> TRUE, reserved |-> 0,
           packageBytes |-> Len(bytes), metadata |-> StaticMetadata(s),
           records |-> [k \in SectionKinds |->
                          [kind |-> k, reserved |-> 0, offset |-> at[k],
                           size |-> Len(p[k]), sha256 |-> p[k]]],
           bytes |-> bytes]
  BY <1>1, Zenon DEF BuildGa10xPackage, Sha256
<1>3. FivePayloads(p)
  BY PayloadFacts
<1>4. Stacked(p, at)
  BY <1>3, LayoutIsStacked
<1>5. /\ bytes \in ByteSeqs /\ Len(bytes) = at[5] + Len(p[5])
      /\ \A k \in SectionKinds :
           at[k] + Len(p[k]) <= Len(bytes) /\ Slice(bytes, at[k], Len(p[k])) = p[k]
  BY <1>3, <1>4, ContentsFacts
<1>6. \A k \in SectionKinds : at[k] \in Nat /\ Len(p[k]) \in Nat /\ p[k] \in ByteSeqs
  BY <1>3, <1>4 DEF Stacked, FivePayloads, ByteSeqs
<1> HIDE DEF f, at, bytes
<1>7. f = [x \in FileFields |-> f[x]]
  BY <1>2 DEF FileFields
<1>8. /\ f.magic = TRUE /\ f.version = 1 /\ f.layout = TRUE /\ f.reserved = 0
      /\ f.packageBytes = Len(bytes) /\ f.metadata = StaticMetadata(s) /\ f.bytes = bytes
      /\ f.records = [k \in SectionKinds |->
                        [kind |-> k, reserved |-> 0, offset |-> at[k],
                         size |-> Len(p[k]), sha256 |-> p[k]]]
  BY <1>2
<1>9. f.records \in [SectionKinds -> Records]
  BY <1>6, <1>8 DEF Records
<1>10. ASSUME NEW k \in SectionKinds
       PROVE  /\ f.records[k].kind = k /\ f.records[k].reserved = 0
              /\ f.records[k].offset = at[k] /\ f.records[k].size = Len(p[k])
              /\ f.records[k].sha256 = p[k]
  BY <1>8
<1>11. ASSUME NEW k \in SectionKinds PROVE Pointed(f, k) = p[k]
  <2>1. f.records[k].offset = at[k] /\ f.records[k].size = Len(p[k]) /\ f.bytes = bytes
    BY <1>8, <1>10
  <2>2. Slice(bytes, at[k], Len(p[k])) = p[k]
    BY <1>5
  <2> QED BY <2>1, <2>2 DEF Pointed
<1>12. FileOK(f)
  BY <1>5, <1>7, <1>8, <1>9, Zenon DEF FileOK
<1>13. OwnKinds(f)
  BY <1>10 DEF OwnKinds
<1>14. Written(f, s, p)
  BY <1>4, <1>5, <1>8, <1>10, <1>11, <1>13, Zenon DEF Written, at
<1> QED BY <1>12, <1>14 DEF f

LEMMA WrittenCarries ==
  ASSUME NEW f, NEW s, NEW p, Written(f, s, p)
  PROVE  Carries(f, p)
BY DEF Written, Carries

\* What the parser does not find wrong is all that its "Ok" says.
LEMMA OkMeans ==
  ASSUME NEW f
  PROVE  ParseAndVerify(f) = "Ok" <=>
           /\ ~(Len(f.bytes) < kTableEnd) /\ f.magic /\ f.version = 1
           /\ f.layout /\ f.reserved = 0 /\ f.packageBytes = Len(f.bytes)
           /\ TargetAllowed(f.metadata)
           /\ \A i \in SectionKinds : f.records[i].reserved = 0
           /\ {f.records[i].kind : i \in SectionKinds} = SectionKinds
           /\ \A i \in SectionKinds : RecordInFile(f, f.records[i])
           /\ \A i \in SectionKinds : f.records[i].offset % kPayloadAlignment = 0
           /\ ~SectionsOverlap(f.records)
           /\ \A i \in SectionKinds : HashMatches(f, f.records[i])
BY Zenon DEF ParseAndVerify

\* What the builder lets through the parser accepts.
LEMMA WrittenParses ==
  ASSUME NEW s \in SourceFiles, BuildAllowed(s), NEW p \in Payloads(s),
         NEW f, FileOK(f), Written(f, s, p)
  PROVE  ParseAndVerify(f) = "Ok"
<1> DEFINE at == OffsetOf(p)
           T == AlignUp(kTableEnd, kPayloadAlignment)
<1>1. FivePayloads(p)
  BY PayloadFacts
<1>2. ASSUME NEW k \in SectionKinds
      PROVE  at[k] \in Nat /\ Aligned(at[k]) /\ at[k] >= T
  BY DEF Written, Stacked
<1>3. ASSUME NEW k \in SectionKinds PROVE Len(p[k]) \in Nat /\ Len(p[k]) > 0
  <2>1. PICK q \in Payloads(s) : \A j \in SectionKinds : Len(q[j]) > 0
    BY DEF BuildAllowed
  <2>2. p = q
    BY PayloadsAreOne
  <2>3. p[k] \in ByteSeqs
    BY <1>1 DEF FivePayloads
  <2> QED BY <2>1, <2>2, <2>3 DEF ByteSeqs
<1>4. T \in Nat /\ T >= kTableEnd
  BY Constants, AlignFacts
<1>5. Len(f.bytes) \in Nat
  BY DEF FileOK, ByteSeqs
<1>6. ASSUME NEW k \in SectionKinds
      PROVE  /\ f.records[k].offset = at[k] /\ f.records[k].size = Len(p[k])
             /\ f.records[k].reserved = 0 /\ f.records[k].kind = k
             /\ f.records[k].sha256 = p[k] /\ Pointed(f, k) = p[k]
             /\ at[k] + Len(p[k]) <= Len(f.bytes)
  BY DEF Written, OwnKinds
<1> HIDE DEF at, T
<1>7. ~(Len(f.bytes) < kTableEnd)
  <2>1. 5 \in SectionKinds
    BY DEF SectionKinds
  <2>2. at[5] \in Nat /\ at[5] >= T /\ Len(p[5]) \in Nat /\ at[5] + Len(p[5]) <= Len(f.bytes)
    BY <1>2, <1>3, <1>6, <2>1
  <2> QED BY <1>4, <1>5, <2>2, Constants
<1>8. TargetAllowed(f.metadata)
  <2>1. f.metadata = StaticMetadata(s)
    BY DEF Written
  <2>2. f.metadata.pci = s.pci /\ f.metadata.vram = s.vram
    BY <2>1 DEF StaticMetadata
  <2> QED BY <2>2 DEF TargetAllowed, BuildAllowed
<1>9. ASSUME NEW k \in SectionKinds PROVE RecordInFile(f, f.records[k])
  BY <1>2, <1>3, <1>5, <1>6 DEF RecordInFile, Fits, T
<1>10. ASSUME NEW k \in SectionKinds PROVE f.records[k].offset % kPayloadAlignment = 0
  BY <1>2, <1>6 DEF Aligned
<1>11. ~SectionsOverlap(f.records)
  <2>1. ASSUME NEW i \in SectionKinds, NEW j \in SectionKinds, i < j
        PROVE  ~(f.records[j].offset < f.records[i].offset + f.records[i].size)
    <3>1. Before(p, at, i, j)
      BY <2>1 DEF Written, Stacked, at
    <3>2. at[i] \in Nat /\ at[j] \in Nat /\ Len(p[i]) \in Nat
      BY <1>2, <1>3
    <3>3. f.records[j].offset = at[j] /\ f.records[i].offset = at[i]
          /\ f.records[i].size = Len(p[i])
      BY <1>6
    <3> QED BY <3>1, <3>2, <3>3 DEF Before
  <2> QED BY <2>1 DEF SectionsOverlap
<1>12. ASSUME NEW k \in SectionKinds PROVE HashMatches(f, f.records[k])
  BY <1>6 DEF HashMatches, Sha256, Pointed
<1>13. {f.records[i].kind : i \in SectionKinds} = SectionKinds
  BY <1>6
<1>14. /\ f.magic /\ f.version = 1 /\ f.layout /\ f.reserved = 0
       /\ f.packageBytes = Len(f.bytes)
  BY DEF Written
<1> QED BY <1>6, <1>7, <1>8, <1>9, <1>10, <1>11, <1>12, <1>13, <1>14, OkMeans

\* The section of a kind is the payload of that kind.
LEMMA FoundIsPointed ==
  ASSUME NEW f, OwnKinds(f), NEW k \in SectionKinds
  PROVE  FindSection(f, k) = Pointed(f, k)
<1> DEFINE i == CHOOSE i \in SectionKinds : f.records[i].kind = k
<1>1. i \in SectionKinds /\ f.records[i].kind = k
  BY DEF OwnKinds
<1>2. i = k
  BY <1>1 DEF OwnKinds
<1> HIDE DEF i
<1>3. FindSection(f, k) = Slice(f.bytes, f.records[i].offset, f.records[i].size)
  BY DEF FindSection, i
<1> QED BY <1>2, <1>3 DEF Pointed

\* The metadata the builder writes fits its payloads unless a source has one of
\* the faults it does not look at.
LEMMA WrittenSemantics ==
  ASSUME NEW s \in SourceFiles, BuildAllowed(s), NEW p \in Payloads(s),
         NEW f, FileOK(f), Written(f, s, p)
  PROVE  CheckGa10xPackageSemantics(f) <=> ~UncheckedByBuilder(s)
<1> DEFINE md == f.metadata
           fw == s.fwsec
<1>1. ASSUME NEW k \in SectionKinds PROVE Len(FindSection(f, k)) = Len(p[k])
  BY FoundIsPointed DEF Written
<1>2. /\ FivePayloads(p) /\ PatchedSizes(s, p)
      /\ Fits(Len(p[4]), fw.imemLoadSize + fw.pkcDataOffset, kRsa3072SignatureBytes)
  BY PayloadFacts
<1>3. /\ Len(p[2]) = Len(s.gspSignature) /\ Len(p[3]) = Len(s.boot.data)
      /\ Len(p[4]) = AlignUp(fw.storedSize, kImageRound) /\ Len(p[5]) = Len(s.sec2.data)
      /\ \A k \in 1..5 : Len(p[k]) \in Nat
  BY <1>2 DEF PatchedSizes, FivePayloads, SectionKinds, ByteSeqs
<1>4. /\ Len(FindSection(f, Signature)) = Len(s.gspSignature)
      /\ Len(FindSection(f, Bootloader)) = Len(s.boot.data)
      /\ Len(FindSection(f, Fwsec)) = AlignUp(fw.storedSize, kImageRound)
      /\ Len(FindSection(f, Sec2)) = Len(s.sec2.data)
  <2>1. 2 \in SectionKinds /\ 3 \in SectionKinds /\ 4 \in SectionKinds /\ 5 \in SectionKinds
    BY DEF SectionKinds
  <2>2. /\ Len(FindSection(f, 2)) = Len(p[2]) /\ Len(FindSection(f, 3)) = Len(p[3])
        /\ Len(FindSection(f, 4)) = Len(p[4]) /\ Len(FindSection(f, 5)) = Len(p[5])
    BY <1>1, <2>1
  <2> QED BY <1>3, <2>2 DEF Signature, Bootloader, Fwsec, Sec2
<1>5. /\ md.monitorCode = s.boot.monitorCode /\ md.monitorData = s.boot.monitorData
      /\ md.manifest = s.boot.manifest /\ md.imem = fw.imemLoadSize
      /\ md.dmem = fw.dmemLoadSize /\ md.engineIdMask = fw.engineIdMask
      /\ md.ucodeId = fw.ucodeId /\ md.pkc = fw.pkcDataOffset
      /\ md.sec2Code = s.sec2.code /\ md.sec2Data = s.sec2.osData
  BY DEF Written, StaticMetadata
<1>6. /\ s.boot.monitorCode \in Nat /\ s.boot.monitorData \in Nat /\ s.boot.manifest \in Nat
      /\ fw.imemLoadSize \in Nat /\ fw.dmemLoadSize \in Nat
      /\ s.sec2.code \in Ranges /\ s.sec2.osData \in Ranges
  BY DEF SourceFiles
<1>7. /\ Len(s.gspSignature) \in Nat /\ Len(s.boot.data) \in Nat /\ Len(s.sec2.data) \in Nat
      /\ AlignUp(fw.storedSize, kImageRound) \in Nat
  BY <1>3
<1> DEFINE g == Len(s.gspSignature)
           b == Len(s.boot.data)
           w == AlignUp(fw.storedSize, kImageRound)
           d == Len(s.sec2.data)
<1>8. CheckGa10xPackageSemantics(f) <=>
        /\ g = kGspSignatureBytes
        /\ \A off \in {s.boot.monitorCode, s.boot.monitorData, s.boot.manifest} : off < b
        /\ fw.imemLoadSize # 0 /\ fw.dmemLoadSize # 0 /\ fw.engineIdMask # 0 /\ fw.ucodeId # 0
        /\ Fits(w, fw.imemLoadSize, fw.dmemLoadSize)
        /\ Fits(w, fw.imemLoadSize + fw.pkcDataOffset, kRsa3072SignatureBytes)
        /\ \A r \in {s.sec2.code, s.sec2.osData} : r.size # 0 /\ Fits(d, r.offset, r.size)
  BY <1>4, <1>5 DEF CheckGa10xPackageSemantics
<1>9. Fits(w, fw.imemLoadSize + fw.pkcDataOffset, kRsa3072SignatureBytes)
  BY <1>2, <1>3
<1> HIDE DEF g, b, w, d
<1>10. (\A off \in {s.boot.monitorCode, s.boot.monitorData, s.boot.manifest} : off < b)
         <=> ~\E off \in {s.boot.monitorCode, s.boot.monitorData, s.boot.manifest} : off >= b
  <2>1. ASSUME NEW off \in {s.boot.monitorCode, s.boot.monitorData, s.boot.manifest}
        PROVE  off < b <=> ~(off >= b)
    <3>1. off \in Nat /\ b \in Nat
      BY <1>6, <1>7 DEF b
    <3> QED BY <3>1
  <2> QED BY <2>1
<1>11. Fits(w, fw.imemLoadSize, fw.dmemLoadSize) <=> ~(fw.imemLoadSize + fw.dmemLoadSize > w)
  BY <1>6, <1>7 DEF Fits, w
<1>12. ASSUME NEW r \in {s.sec2.code, s.sec2.osData}
       PROVE  Fits(d, r.offset, r.size)
  <2>1. r.offset \in Nat /\ r.size \in Nat /\ d \in Nat
    BY <1>6, <1>7 DEF Ranges, d
  <2>2. r.offset + r.size <= d
    BY DEF BuildAllowed, BooterInRange, d
  <2> QED BY <2>1, <2>2 DEF Fits
<1>13. UncheckedByBuilder(s) <=>
         \/ g # kGspSignatureBytes
         \/ \E off \in {s.boot.monitorCode, s.boot.monitorData, s.boot.manifest} : off >= b
         \/ 0 \in {fw.imemLoadSize, fw.dmemLoadSize, fw.engineIdMask, fw.ucodeId}
         \/ fw.imemLoadSize + fw.dmemLoadSize > w
         \/ \E r \in {s.sec2.code, s.sec2.osData} : r.size = 0
  BY DEF UncheckedByBuilder, g, b, w, d
<1> QED BY <1>8, <1>9, <1>10, <1>11, <1>12, <1>13

\* A file that is accepted has sections that share nothing.
SectionsApart(f) ==
  LET span(i) == (f.records[i].offset + 1)..(f.records[i].offset + f.records[i].size)
  IN  /\ {f.records[i].kind : i \in SectionKinds} = SectionKinds
      /\ \A i \in SectionKinds :
           span(i) # {} /\ span(i) \subseteq (kTableEnd + 1)..Len(f.bytes)
      /\ \A i, j \in SectionKinds : i # j => span(i) \cap span(j) = {}

LEMMA OkIsApart ==
  ASSUME NEW f, FileOK(f), ParseAndVerify(f) = "Ok"
  PROVE  SectionsApart(f)
<1> DEFINE o(i) == f.records[i].offset
           z(i) == f.records[i].size
           span(i) == (o(i) + 1)..(o(i) + z(i))
<1>1. /\ {f.records[i].kind : i \in SectionKinds} = SectionKinds
      /\ \A i \in SectionKinds : RecordInFile(f, f.records[i])
      /\ ~SectionsOverlap(f.records)
  BY OkMeans
<1>2. ASSUME NEW i \in SectionKinds PROVE o(i) \in Nat /\ z(i) \in Nat
  <2>1. f.records[i] \in Records
    BY DEF FileOK
  <2> QED BY <2>1 DEF Records
<1>3. Len(f.bytes) \in Nat
  BY DEF FileOK, ByteSeqs
<1>4. /\ AlignUp(kTableEnd, kPayloadAlignment) \in Nat
      /\ AlignUp(kTableEnd, kPayloadAlignment) >= kTableEnd
  BY Constants, AlignFacts
<1>5. ASSUME NEW i \in SectionKinds
      PROVE  span(i) # {} /\ span(i) \subseteq (kTableEnd + 1)..Len(f.bytes)
  <2>1. /\ z(i) # 0 /\ o(i) <= Len(f.bytes) /\ z(i) <= Len(f.bytes) - o(i)
        /\ o(i) >= AlignUp(kTableEnd, kPayloadAlignment)
    BY <1>1 DEF RecordInFile, Fits
  <2>2. o(i) \in Nat /\ z(i) \in Nat
    BY <1>2
  <2> HIDE DEF o, z
  <2>3. o(i) + 1 \in span(i)
    BY <2>1, <2>2
  <2>4. span(i) \subseteq (kTableEnd + 1)..Len(f.bytes)
    BY <1>3, <1>4, <2>1, <2>2, Constants
  <2> QED BY <2>3, <2>4
<1>6. ASSUME NEW i \in SectionKinds, NEW j \in SectionKinds, i < j
      PROVE  span(i) \cap span(j) = {}
  <2>1. ~(o(i) < o(j) + z(j) /\ o(j) < o(i) + z(i))
    BY <1>1, <1>6 DEF SectionsOverlap
  <2>2. o(i) \in Nat /\ z(i) \in Nat /\ o(j) \in Nat /\ z(j) \in Nat
    BY <1>2
  <2> HIDE DEF o, z
  <2> QED BY <2>1, <2>2
<1>7. ASSUME NEW i \in SectionKinds, NEW j \in SectionKinds, i # j
      PROVE  span(i) \cap span(j) = {}
  <2>1. CASE i < j
    BY <1>6, <2>1
  <2>2. CASE j < i
    <3>1. span(j) \cap span(i) = {}
      BY <1>6, <2>2
    <3> HIDE DEF span
    <3> QED BY <3>1
  <2>3. i < j \/ j < i
    BY <1>7 DEF SectionKinds
  <2> QED BY <2>1, <2>2, <2>3
<1> QED BY <1>1, <1>5, <1>7 DEF SectionsApart

\* A file that is accepted and carries payloads leads to these.
LEMMA OkGivesThePayloads ==
  ASSUME NEW f, ParseAndVerify(f) = "Ok", NEW p, FivePayloads(p), Carries(f, p)
  PROVE  [k \in SectionKinds |-> FindSection(f, k)] = p
<1>1. /\ {f.records[i].kind : i \in SectionKinds} = SectionKinds
      /\ \A i \in SectionKinds : HashMatches(f, f.records[i])
  BY OkMeans
<1>2. OwnKinds(f)
  <2>1. ASSUME NEW i \in SectionKinds, \A k \in SectionKinds : f.records[k].kind # i PROVE FALSE
    BY <1>1, <2>1
  <2> QED BY <2>1 DEF Carries
<1>3. ASSUME NEW k \in SectionKinds PROVE FindSection(f, k) = p[k]
  <2>1. FindSection(f, k) = Pointed(f, k)
    BY <1>2, FoundIsPointed
  <2>2. Pointed(f, k) = f.records[k].sha256
    BY <1>1 DEF HashMatches, Sha256, Pointed
  <2>3. f.records[k].sha256 = p[k] \/ Pointed(f, k) = p[k]
    BY DEF Carries
  <2> QED BY <2>1, <2>2, <2>3
<1>4. [k \in SectionKinds |-> FindSection(f, k)] = [k \in SectionKinds |-> p[k]]
  BY <1>3
<1>5. p = [k \in SectionKinds |-> p[k]]
  BY DEF FivePayloads
<1> QED BY <1>4, <1>5

-----------------------------------------------------------------------------
(***************************************************************************)
(* Damages.                                                                *)
(***************************************************************************)

\* What one damage leaves of the table: each record keeps its digest or what it
\* points to, and at most one takes the kind of another.
OneOff(g, f) ==
  /\ \A k \in SectionKinds :
       g.records[k].sha256 = f.records[k].sha256 \/ Pointed(g, k) = Pointed(f, k)
  /\ \/ \A k \in SectionKinds : g.records[k].kind = f.records[k].kind
     \/ \E i, j \in SectionKinds :
          /\ i # j /\ g.records[i].kind = f.records[j].kind
          /\ \A k \in SectionKinds \ {i} : g.records[k].kind = f.records[k].kind

LEMMA OtherField ==
  ASSUME NEW f, FileOK(f), NEW x \in FileFields \ {"records", "bytes"}, NEW v
  PROVE  FileOK([f EXCEPT ![x] = v]) /\ OneOff([f EXCEPT ![x] = v], f)
<1> DEFINE g == [f EXCEPT ![x] = v]
<1>1. g = [y \in FileFields |-> g[y]]
  BY DEF FileOK
<1>2. g.records = f.records /\ g.bytes = f.bytes
  BY DEF FileOK, FileFields
<1> HIDE DEF g
<1>3. FileOK(g)
  BY <1>1, <1>2 DEF FileOK
<1>4. OneOff(g, f)
  BY <1>2 DEF OneOff, Pointed
<1> QED BY <1>3, <1>4 DEF g

LEMMA RecordField ==
  ASSUME NEW f, FileOK(f), NEW i \in SectionKinds, NEW r \in Records
  PROVE  LET g == [f EXCEPT !.records = [f.records EXCEPT ![i] = r]]
         IN  /\ FileOK(g) /\ g.bytes = f.bytes /\ g.records[i] = r
             /\ \A k \in SectionKinds \ {i} : g.records[k] = f.records[k]
<1> DEFINE g == [f EXCEPT !.records = [f.records EXCEPT ![i] = r]]
<1>1. g = [y \in FileFields |-> g[y]]
  BY DEF FileOK
<1>2. g.records = [f.records EXCEPT ![i] = r] /\ g.bytes = f.bytes
  BY DEF FileOK, FileFields
<1> HIDE DEF g
<1>3. /\ g.records \in [SectionKinds -> Records] /\ g.records[i] = r
      /\ \A k \in SectionKinds \ {i} : g.records[k] = f.records[k]
  BY <1>2 DEF FileOK
<1>4. FileOK(g)
  BY <1>1, <1>2, <1>3 DEF FileOK
<1> QED BY <1>2, <1>3, <1>4 DEF g

LEMMA BytesField ==
  ASSUME NEW f, FileOK(f), NEW b \in ByteSeqs
  PROVE  FileOK([f EXCEPT !.bytes = b]) /\ OneOff([f EXCEPT !.bytes = b], f)
<1> DEFINE g == [f EXCEPT !.bytes = b]
<1>1. g = [y \in FileFields |-> g[y]]
  BY DEF FileOK
<1>2. g.records = f.records /\ g.bytes = b
  BY DEF FileOK, FileFields
<1> HIDE DEF g
<1>3. FileOK(g)
  BY <1>1, <1>2 DEF FileOK
<1>4. OneOff(g, f)
  BY <1>2 DEF OneOff
<1> QED BY <1>3, <1>4 DEF g

LEMMA HeaderDamaged ==
  ASSUME NEW f, FileOK(f), NEW g \in HeaderDamages(f) \cup MetadataDamages(f)
  PROVE  FileOK(g) /\ OneOff(g, f)
<1>1. \E x \in FileFields \ {"records", "bytes"} : \E v : g = [f EXCEPT ![x] = v]
  <2>1. CASE g \in HeaderDamages(f)
    <3>1. {"magic", "version", "layout", "reserved", "packageBytes"}
            \subseteq FileFields \ {"records", "bytes"}
      BY DEF FileFields
    <3>2. \/ g = [f EXCEPT !["magic"] = FALSE] \/ g = [f EXCEPT !["version"] = 2]
          \/ g = [f EXCEPT !["layout"] = FALSE] \/ g = [f EXCEPT !["reserved"] = 1]
          \/ g = [f EXCEPT !["packageBytes"] = f.packageBytes - 1]
      BY <2>1 DEF HeaderDamages
    <3> QED BY <3>1, <3>2, Zenon
  <2>2. CASE g \in MetadataDamages(f)
    <3>1. "metadata" \in FileFields \ {"records", "bytes"}
      BY DEF FileFields
    <3>2. \/ \E id : g = [f EXCEPT !["metadata"] = [f.metadata EXCEPT !.pci = id]]
          \/ g = [f EXCEPT !["metadata"] = [f.metadata EXCEPT !.appVersion = @ + 1]]
          \/ g = [f EXCEPT !["metadata"] = [f.metadata EXCEPT !.vram = @ + 1]]
          \/ g = [f EXCEPT !["metadata"] = [f.metadata EXCEPT !.imem = @ + 1]]
          \/ g = [f EXCEPT !["metadata"] = [f.metadata EXCEPT !.dmem = @ + 1]]
      BY <2>2 DEF MetadataDamages
    <3> QED BY <3>1, <3>2, Zenon
  <2> QED BY <2>1, <2>2
<1>2. PICK x \in FileFields \ {"records", "bytes"} : \E v : g = [f EXCEPT ![x] = v]
  BY <1>1
<1>3. PICK v : g = [f EXCEPT ![x] = v]
  BY <1>2
<1>4. FileOK([f EXCEPT ![x] = v]) /\ OneOff([f EXCEPT ![x] = v], f)
  BY OtherField
<1> QED BY <1>3, <1>4

LEMMA RecordDamaged ==
  ASSUME NEW f, FileOK(f), NEW g \in RecordDamages(f)
  PROVE  FileOK(g) /\ OneOff(g, f)
<1> DEFINE R(i) == f.records[i]
           Put(i, r) == [f EXCEPT !.records = [f.records EXCEPT ![i] = r]]
<1>1. ASSUME NEW i \in SectionKinds PROVE R(i) \in Records
  BY DEF FileOK
<1>2. ASSUME NEW i \in SectionKinds, NEW r \in Records,
             r.sha256 = R(i).sha256 \/ (r.offset = R(i).offset /\ r.size = R(i).size),
             r.kind = R(i).kind \/ \E j \in SectionKinds \ {i} : r.kind = R(j).kind
      PROVE  FileOK(Put(i, r)) /\ OneOff(Put(i, r), f)
  <2> DEFINE h == Put(i, r)
  <2>1. /\ FileOK(h) /\ h.bytes = f.bytes /\ h.records[i] = r
        /\ \A k \in SectionKinds \ {i} : h.records[k] = f.records[k]
    BY RecordField
  <2> HIDE DEF h
  <2>2. ASSUME NEW k \in SectionKinds
        PROVE  h.records[k].sha256 = f.records[k].sha256 \/ Pointed(h, k) = Pointed(f, k)
    <3>1. CASE k = i
      BY <1>2, <2>1, <3>1 DEF Pointed
    <3>2. CASE k # i
      BY <2>1, <3>2
    <3> QED BY <3>1, <3>2
  <2>3. CASE r.kind = R(i).kind
    <3>1. \A k \in SectionKinds : h.records[k].kind = f.records[k].kind
      BY <2>1, <2>3
    <3> QED BY <2>1, <2>2, <3>1 DEF OneOff, h
  <2>4. CASE \E j \in SectionKinds \ {i} : r.kind = R(j).kind
    <3>1. \E j \in SectionKinds :
            /\ i # j /\ h.records[i].kind = f.records[j].kind
            /\ \A k \in SectionKinds \ {i} : h.records[k].kind = f.records[k].kind
      BY <2>1, <2>4
    <3> QED BY <2>1, <2>2, <3>1 DEF OneOff, h
  <2> QED BY <1>2, <2>3, <2>4
<1>3. ASSUME NEW i \in {1, 3}, NEW j \in {2, 4, 5}, g \in BorrowedField(f, i, j)
      PROVE  FileOK(g) /\ OneOff(g, f)
  <2>1. i \in SectionKinds /\ j \in SectionKinds /\ i # j
    BY DEF SectionKinds
  <2>2. R(i) \in Records /\ R(j) \in Records
    BY <1>1, <2>1
  <2> DEFINE r1 == [R(i) EXCEPT !.kind = R(j).kind]
             r2 == [R(i) EXCEPT !.offset = R(j).offset]
             r3 == [R(i) EXCEPT !.size = R(j).size]
             r4 == [R(i) EXCEPT !.sha256 = R(j).sha256]
  <2>3. g = Put(i, r1) \/ g = Put(i, r2) \/ g = Put(i, r3) \/ g = Put(i, r4)
    BY <1>3 DEF BorrowedField
  <2>4. r1 \in Records /\ r1.sha256 = R(i).sha256 /\ r1.kind = R(j).kind
    BY <2>2 DEF Records
  <2>5. r2 \in Records /\ r2.sha256 = R(i).sha256 /\ r2.kind = R(i).kind
    BY <2>2 DEF Records
  <2>6. r3 \in Records /\ r3.sha256 = R(i).sha256 /\ r3.kind = R(i).kind
    BY <2>2 DEF Records
  <2>7. /\ r4 \in Records /\ r4.offset = R(i).offset /\ r4.size = R(i).size
        /\ r4.kind = R(i).kind
    BY <2>2 DEF Records
  <2> HIDE DEF r1, r2, r3, r4, Put, R
  <2>8. CASE g = Put(i, r1)
    <3>1. \E m \in SectionKinds \ {i} : r1.kind = R(m).kind
      BY <2>1, <2>4
    <3> QED BY <1>2, <2>1, <2>4, <2>8, <3>1
  <2>9. CASE g = Put(i, r2)
    BY <1>2, <2>1, <2>5, <2>9
  <2>10. CASE g = Put(i, r3)
    BY <1>2, <2>1, <2>6, <2>10
  <2>11. CASE g = Put(i, r4)
    BY <1>2, <2>1, <2>7, <2>11
  <2> QED BY <2>3, <2>8, <2>9, <2>10, <2>11
<1>4. ASSUME NEW i \in SectionKinds, g = LongerSection(f, i)
      PROVE  FileOK(g) /\ OneOff(g, f)
  <2> DEFINE r == [R(i) EXCEPT !.size = R(i).size + 1]
  <2>1. g = Put(i, r)
    BY <1>4 DEF LongerSection
  <2>2. R(i) \in Records
    BY <1>1
  <2>3. r \in Records /\ r.sha256 = R(i).sha256 /\ r.kind = R(i).kind
    BY <2>2 DEF Records
  <2> HIDE DEF r, Put, R
  <2> QED BY <1>2, <2>1, <2>3
<1>5. \/ \E i \in {1, 3}, j \in {2, 4, 5} : g \in BorrowedField(f, i, j)
      \/ \E i \in SectionKinds : g = LongerSection(f, i)
  BY DEF RecordDamages
<1> QED BY <1>3, <1>4, <1>5

LEMMA UpdateKeepsRange ==
  ASSUME NEW S, NEW T, NEW h \in [S -> T], NEW x, NEW v \in T
  PROVE  [h EXCEPT ![x] = v] \in [S -> T]
OBVIOUS

LEMMA ByteDamaged ==
  ASSUME NEW f, FileOK(f), NEW g \in ByteDamages(f)
  PROVE  FileOK(g) /\ OneOff(g, f)
<1>1. f.bytes \in Seq(Nat)
  BY DEF FileOK, ByteSeqs
<1>2. ASSUME NEW x PROVE [f.bytes EXCEPT ![x] = 999] \in ByteSeqs
  <2>1. Len(f.bytes) \in Nat /\ f.bytes \in [1..Len(f.bytes) -> Nat]
    BY <1>1
  <2>2. [f.bytes EXCEPT ![x] = 999] \in [1..Len(f.bytes) -> Nat]
    <3>1. 999 \in Nat
      OBVIOUS
    <3> QED BY <2>1, <3>1, UpdateKeepsRange, Zenon
  <2> QED BY <2>1, <2>2 DEF ByteSeqs
<1>3. SubSeq(f.bytes, 1, Len(f.bytes) - 1) \in ByteSeqs
  BY <1>1 DEF ByteSeqs
<1>4. \/ \E x : g = [f EXCEPT !.bytes = [f.bytes EXCEPT ![x] = 999]]
      \/ g = [f EXCEPT !.bytes = SubSeq(f.bytes, 1, Len(f.bytes) - 1)]
  BY DEF ByteDamages
<1>5. PICK b \in ByteSeqs : g = [f EXCEPT !.bytes = b]
  <2>1. ASSUME NEW x, g = [f EXCEPT !.bytes = [f.bytes EXCEPT ![x] = 999]]
        PROVE  \E c \in ByteSeqs : g = [f EXCEPT !.bytes = c]
    <3> DEFINE c == [f.bytes EXCEPT ![x] = 999]
    <3>1. c \in ByteSeqs /\ g = [f EXCEPT !.bytes = c]
      BY <1>2, <2>1
    <3> HIDE DEF c
    <3> QED BY <3>1
  <2>2. CASE g = [f EXCEPT !.bytes = SubSeq(f.bytes, 1, Len(f.bytes) - 1)]
    BY <1>3, <2>2
  <2> QED BY <1>4, <2>1, <2>2
<1>6. FileOK([f EXCEPT !.bytes = b]) /\ OneOff([f EXCEPT !.bytes = b], f)
  BY BytesField
<1> QED BY <1>5, <1>6

\* A file with one damage still carries the payloads.
LEMMA DamagedCarries ==
  ASSUME NEW f, NEW s, NEW p, Written(f, s, p), NEW g, OneOff(g, f)
  PROVE  Carries(g, p)
<1>1. ASSUME NEW k \in SectionKinds
      PROVE  f.records[k].kind = k /\ f.records[k].sha256 = p[k] /\ Pointed(f, k) = p[k]
  BY DEF Written, OwnKinds
<1>2. \A k \in SectionKinds : g.records[k].sha256 = p[k] \/ Pointed(g, k) = p[k]
  BY <1>1 DEF OneOff
<1>3. CASE \A k \in SectionKinds : g.records[k].kind = f.records[k].kind
  BY <1>1, <1>2, <1>3 DEF Carries, OwnKinds
<1>4. ASSUME NEW i \in SectionKinds, NEW j \in SectionKinds, i # j,
             g.records[i].kind = f.records[j].kind,
             \A k \in SectionKinds \ {i} : g.records[k].kind = f.records[k].kind
      PROVE  Carries(g, p)
  <2>1. \A k \in SectionKinds : g.records[k].kind # i
    BY <1>1, <1>4
  <2> QED BY <1>2, <2>1 DEF Carries
<1> QED BY <1>3, <1>4 DEF OneOff

LEMMA DamageFacts ==
  ASSUME NEW f, FileOK(f),
         NEW g \in HeaderDamages(f) \cup MetadataDamages(f) \cup RecordDamages(f) \cup ByteDamages(f)
  PROVE  FileOK(g) /\ OneOff(g, f)
<1>1. CASE g \in HeaderDamages(f) \cup MetadataDamages(f)
  BY <1>1, HeaderDamaged
<1>2. CASE g \in RecordDamages(f)
  BY <1>2, RecordDamaged
<1>3. CASE g \in ByteDamages(f)
  BY <1>3, ByteDamaged
<1> QED BY <1>1, <1>2, <1>3

-----------------------------------------------------------------------------
(***************************************************************************)
(* The inductive invariant.                                                *)
(***************************************************************************)

\* What the builder and its check of its own work let through, as they wrote it.
Sound(f, s) ==
  /\ f = BuildGa10xPackage(s) /\ BuildAllowed(s) /\ ~UncheckedByBuilder(s)

\* A file written for s that has had so many damages.
FileOf(f, s, n) ==
  /\ s \in Sources /\ BuildAllowed(s) /\ FileOK(f)
  /\ n = 0 => Sound(f, s)
  /\ n <= 1 => \A p \in Payloads(s) : Carries(f, p)

FileInv ==
  /\ damages \in Nat
  /\ \/ file = {} /\ origin = {}
     \/ \E f, s : file = {f} /\ origin = {s} /\ FileOf(f, s, damages)

BuiltOf(s) == IF BuildAllowed(s) THEN {BuildGa10xPackage(s)} ELSE {}

ToolOK(t) ==
  /\ t.source \in Sources /\ t.done \in BOOLEAN
  /\ ~t.done => t.built = BuiltOf(t.source)
  /\ t.done => (t.built # {} <=> BuildAllowed(t.source) /\ ~UncheckedByBuilder(t.source))

ToolInv == tool = {} \/ \E t : tool = {t} /\ ToolOK(t)

Accepts(f, id) ==
  ParseAndVerify(f) = "Ok" /\ CheckGa10xPackageSemantics(f) /\ f.metadata.pci = id

ValidationOK(v) ==
  /\ v.accepted => v.hasResult
  /\ v.hasResult => \E f : v.of = {f} /\ FileOK(f) /\ (v.accepted <=> Accepts(f, live))

ValidationInv == ValidationOK(validation)

StagedInv ==
  staged.ready =>
    /\ \E f : staged.digest = {f} /\ staged.sections = [k \in SectionKinds |-> FindSection(f, k)]
    /\ staged.damages <= 1 => \A s \in staged.from : staged.sections \in Payloads(s)

IInv == FileInv /\ ToolInv /\ ValidationInv /\ StagedInv /\ SessionMatchesStaged

LEMMA SoundFacts ==
  ASSUME NEW s \in Sources, BuildAllowed(s)
  PROVE  /\ FileOK(BuildGa10xPackage(s))
         /\ ParseAndVerify(BuildGa10xPackage(s)) = "Ok"
         /\ CheckGa10xPackageSemantics(BuildGa10xPackage(s)) <=> ~UncheckedByBuilder(s)
         /\ BuildGa10xPackage(s).metadata.pci = s.pci
         /\ \A p \in Payloads(s) : Written(BuildGa10xPackage(s), s, p)
<1> DEFINE f == BuildGa10xPackage(s)
<1>1. s \in SourceFiles
  BY IntakeAssumption
<1>2. ASSUME NEW p \in Payloads(s) PROVE FileOK(f) /\ Written(f, s, p)
  BY <1>1, BuiltIsWritten
<1>3. PICK p \in Payloads(s) : TRUE
  BY DEF BuildAllowed
<1> HIDE DEF f
<1>4. FileOK(f) /\ Written(f, s, p)
  BY <1>2, <1>3
<1>5. ParseAndVerify(f) = "Ok"
  BY <1>1, <1>3, <1>4, WrittenParses
<1>6. CheckGa10xPackageSemantics(f) <=> ~UncheckedByBuilder(s)
  BY <1>1, <1>3, <1>4, WrittenSemantics
<1>7. f.metadata.pci = s.pci
  BY <1>4 DEF Written, StaticMetadata
<1> QED BY <1>2, <1>4, <1>5, <1>6, <1>7 DEF f

LEMMA InitInv == ASSUME Init PROVE IInv
<1>1. FileInv
  BY DEF Init, FileInv
<1>2. ToolInv
  BY DEF Init, ToolInv
<1>3. ValidationInv
  BY DEF Init, ValidationInv, ValidationOK, NotValidated
<1>4. StagedInv
  BY DEF Init, StagedInv, NotStaged
<1>5. SessionMatchesStaged
  BY DEF Init, SessionMatchesStaged, NoSession
<1> QED BY <1>1, <1>2, <1>3, <1>4, <1>5 DEF IInv

\* The snapshot of the file of a state.
LEMMA SnapshotOK ==
  ASSUME NEW f, FileOK(f), live' = live, validation' = ValidateBytesAgainstLiveGPU(f)
  PROVE  ValidationInv' /\ (validation'.accepted => Accepts(f, live))
<1>1. /\ validation'.hasResult = TRUE /\ validation'.of = {f}
      /\ validation'.accepted = (ParseAndVerify(f) = "Ok" /\ CheckGa10xPackageSemantics(f)
                                   /\ f.metadata.pci = live)
  BY DEF ValidateBytesAgainstLiveGPU
<1>2. validation'.accepted <=> Accepts(f, live)
  BY <1>1 DEF Accepts
<1>3. ValidationOK(validation)'
  BY <1>1, <1>2 DEF ValidationOK
<1> QED BY <1>2, <1>3 DEF ValidationInv

LEMMA BuildInv == ASSUME IInv, BuildPackage PROVE IInv'
<1>1. PICK s \in Sources : tool' = {[source |-> s, built |-> BuiltOf(s), done |-> FALSE]}
  BY IntakeAssumption DEF BuildPackage, BuiltOf
<1>2. UNCHANGED << live, origin, file, damages, builds, validation, staged, session >>
  BY DEF BuildPackage
<1> DEFINE t == [source |-> s, built |-> BuiltOf(s), done |-> FALSE]
<1>3. t.source = s /\ t.built = BuiltOf(s) /\ t.done = FALSE
  OBVIOUS
<1> HIDE DEF t
<1>4. ToolOK(t)
  BY <1>3 DEF ToolOK
<1>5. ToolInv'
  BY <1>1, <1>4 DEF ToolInv, ToolOK, t
<1>6. FileInv' /\ ValidationInv' /\ StagedInv' /\ SessionMatchesStaged'
  BY <1>2 DEF IInv, FileInv, ValidationInv, ValidationOK, StagedInv, SessionMatchesStaged
<1> QED BY <1>5, <1>6 DEF IInv

\* The tool finds in its own work only what the builder did not look at.
LEMMA CheckInv == ASSUME IInv, SelfCheck PROVE IInv'
<1>1. PICK t : tool = {t} /\ ToolOK(t)
  BY DEF IInv, ToolInv, SelfCheck
<1> DEFINE passed == {p \in t.built : ParseAndVerify(p) = "Ok" /\ CheckGa10xPackageSemantics(p)}
           s == t.source
           u == [source |-> s, built |-> passed, done |-> TRUE]
<1>2. /\ tool' = {u}
      /\ IF passed # {}
           THEN origin' = {s} /\ file' = passed /\ damages' = 0
           ELSE UNCHANGED << origin, file, damages >>
      /\ UNCHANGED << live, validation, staged, session >>
  BY <1>1 DEF SelfCheck
<1>3. ~t.done
  BY <1>1 DEF SelfCheck, building
<1>4. s \in Sources /\ t.built = BuiltOf(s)
  BY <1>1, <1>3 DEF ToolOK
<1>5. passed # {} <=> BuildAllowed(s) /\ ~UncheckedByBuilder(s)
  <2>1. CASE BuildAllowed(s)
    <3>1. t.built = {BuildGa10xPackage(s)}
      BY <1>4, <2>1 DEF BuiltOf
    <3>2. /\ ParseAndVerify(BuildGa10xPackage(s)) = "Ok"
          /\ CheckGa10xPackageSemantics(BuildGa10xPackage(s)) <=> ~UncheckedByBuilder(s)
      BY <1>4, <2>1, SoundFacts
    <3> QED BY <2>1, <3>1, <3>2
  <2>2. CASE ~BuildAllowed(s)
    <3>1. t.built = {}
      BY <1>4, <2>2 DEF BuiltOf
    <3> QED BY <2>2, <3>1
  <2> QED BY <2>1, <2>2
<1>6. passed # {} => passed = {BuildGa10xPackage(s)}
  BY <1>4, <1>5 DEF BuiltOf
<1>7. u.source = s /\ u.built = passed /\ u.done = TRUE
  OBVIOUS
<1> HIDE DEF u, passed, s
<1>8. ToolOK(u)
  BY <1>4, <1>5, <1>7 DEF ToolOK
<1>9. ToolInv'
  BY <1>2, <1>8 DEF ToolInv, ToolOK
<1>10. FileInv'
  <2>1. CASE passed = {}
    BY <1>2, <2>1 DEF IInv, FileInv
  <2>2. CASE passed # {}
    <3> DEFINE f == BuildGa10xPackage(s)
    <3>1. file' = {f} /\ origin' = {s} /\ damages' = 0
      BY <1>2, <1>6, <2>2
    <3>2. BuildAllowed(s) /\ ~UncheckedByBuilder(s)
      BY <1>5, <2>2
    <3>3. FileOK(f) /\ \A p \in Payloads(s) : Written(f, s, p)
      BY <1>4, <3>2, SoundFacts
    <3>4. Sound(f, s)
      BY <3>2 DEF Sound
    <3> HIDE DEF f
    <3>5. \A p \in Payloads(s) : Carries(f, p)
      BY <3>3, WrittenCarries
    <3>6. FileOf(f, s, 0)
      BY <1>4, <3>2, <3>3, <3>4, <3>5 DEF FileOf
    <3> QED BY <3>1, <3>6 DEF FileInv
  <2> QED BY <2>1, <2>2
<1>11. ValidationInv' /\ StagedInv' /\ SessionMatchesStaged'
  BY <1>2 DEF IInv, ValidationInv, ValidationOK, StagedInv, SessionMatchesStaged
<1> QED BY <1>9, <1>10, <1>11 DEF IInv

LEMMA DamageInv == ASSUME IInv, Damage PROVE IInv'
<1>1. PICK f, s : file = {f} /\ origin = {s} /\ FileOf(f, s, damages) /\ damages \in Nat
  BY DEF IInv, FileInv, Damage
<1>2. PICK g \in HeaderDamages(f) \cup MetadataDamages(f) \cup RecordDamages(f) \cup ByteDamages(f) :
        file' = {g}
  BY <1>1 DEF Damage
<1>3. /\ damages' = damages + 1 /\ tool' = {}
      /\ UNCHANGED << live, origin, builds, validation, staged, session >>
  BY DEF Damage
<1>4. FileOK(g) /\ OneOff(g, f)
  BY <1>1, DamageFacts DEF FileOf
<1>5. ASSUME damages + 1 <= 1, NEW p \in Payloads(s) PROVE Carries(g, p)
  <2>1. damages = 0
    BY <1>1, <1>5
  <2>2. s \in Sources /\ BuildAllowed(s) /\ f = BuildGa10xPackage(s)
    BY <1>1, <2>1 DEF FileOf, Sound
  <2>3. Written(f, s, p)
    BY <2>2, SoundFacts
  <2> QED BY <1>4, <2>3, DamagedCarries
<1>6. FileOf(g, s, damages + 1) /\ damages + 1 \in Nat
  BY <1>1, <1>4, <1>5 DEF FileOf
<1>7. FileInv'
  BY <1>1, <1>2, <1>3, <1>6 DEF FileInv
<1>8. ToolInv'
  BY <1>3 DEF ToolInv
<1>9. ValidationInv' /\ StagedInv' /\ SessionMatchesStaged'
  BY <1>3 DEF IInv, ValidationInv, ValidationOK, StagedInv, SessionMatchesStaged
<1> QED BY <1>7, <1>8, <1>9 DEF IInv

LEMMA ValidateInv == ASSUME IInv, ValidatePackage PROVE IInv'
<1>1. PICK f, s : file = {f} /\ origin = {s} /\ FileOf(f, s, damages)
  BY DEF IInv, FileInv, ValidatePackage
<1>2. /\ validation' = ValidateBytesAgainstLiveGPU(f) /\ tool' = {}
      /\ UNCHANGED << live, origin, file, damages, builds, staged, session >>
  BY <1>1 DEF ValidatePackage
<1>3. ValidationInv'
  BY <1>1, <1>2, SnapshotOK DEF FileOf
<1>4. ToolInv'
  BY <1>2 DEF ToolInv
<1>5. FileInv' /\ StagedInv' /\ SessionMatchesStaged'
  BY <1>2 DEF IInv, FileInv, StagedInv, SessionMatchesStaged
<1> QED BY <1>3, <1>4, <1>5 DEF IInv

LEMMA StageInv == ASSUME IInv, StagePackage PROVE IInv'
<1>1. PICK f, s : file = {f} /\ origin = {s} /\ FileOf(f, s, damages)
  BY DEF IInv, FileInv, StagePackage
<1> DEFINE sections == [k \in SectionKinds |-> FindSection(f, k)]
<1>2. /\ validation' = ValidateBytesAgainstLiveGPU(f) /\ tool' = {} /\ session' = NoSession
      /\ \/ staged' = NotStaged
         \/ /\ validation'.accepted
            /\ staged' = [ready |-> TRUE, digest |-> {f}, from |-> origin,
                          sections |-> sections, damages |-> damages]
      /\ UNCHANGED << live, origin, file, damages, builds >>
  BY <1>1 DEF StagePackage, Sha256
<1>3. ValidationInv' /\ (validation'.accepted => Accepts(f, live))
  BY <1>1, <1>2, SnapshotOK DEF FileOf
<1>4. ToolInv' /\ SessionMatchesStaged'
  BY <1>2 DEF ToolInv, SessionMatchesStaged, NoSession
<1>5. FileInv'
  BY <1>2 DEF IInv, FileInv
<1>6. StagedInv'
  <2>1. CASE staged' = NotStaged
    BY <2>1 DEF StagedInv, NotStaged
  <2>2. CASE /\ validation'.accepted
             /\ staged' = [ready |-> TRUE, digest |-> {f}, from |-> origin,
                           sections |-> sections, damages |-> damages]
    <3>1. staged'.digest = {f} /\ staged'.sections = sections /\ staged'.from = {s}
          /\ staged'.damages = damages
      BY <1>1, <2>2
    <3>2. ASSUME damages <= 1 PROVE sections \in Payloads(s)
      <4>1. s \in SourceFiles /\ BuildAllowed(s) /\ \A p \in Payloads(s) : Carries(f, p)
        BY <1>1, <3>2, IntakeAssumption DEF FileOf
      <4>2. PICK p \in Payloads(s) : TRUE
        BY <4>1 DEF BuildAllowed
      <4>3. FivePayloads(p) /\ Carries(f, p)
        BY <4>1, <4>2, PayloadFacts
      <4>4. ParseAndVerify(f) = "Ok"
        BY <1>3, <2>2 DEF Accepts
      <4>5. sections = p
        BY <4>3, <4>4, OkGivesThePayloads
      <4> QED BY <4>2, <4>5
    <3> HIDE DEF sections
    <3>3. staged'.damages <= 1 => \A x \in staged'.from : staged'.sections \in Payloads(x)
      BY <3>1, <3>2
    <3> QED BY <3>1, <3>3 DEF StagedInv, sections
  <2> QED BY <1>2, <2>1, <2>2
<1> QED BY <1>3, <1>4, <1>5, <1>6 DEF IInv

LEMMA PrepareInv == ASSUME IInv, PrepareColdBootSession PROVE IInv'
<1>1. PICK f, s : file = {f} /\ origin = {s} /\ FileOf(f, s, damages)
  BY DEF IInv, FileInv, PrepareColdBootSession
<1>2. /\ validation' = ValidateBytesAgainstLiveGPU(f) /\ tool' = {}
      /\ \/ session' = NoSession
         \/ /\ SamePackage(f)
            /\ session' = [ready |-> TRUE, firmware |-> FindSection(f, Firmware),
                           metadata |-> {f.metadata}]
      /\ UNCHANGED << live, origin, file, damages, builds, staged >>
  BY <1>1 DEF PrepareColdBootSession
<1>3. ValidationInv'
  BY <1>1, <1>2, SnapshotOK DEF FileOf
<1>4. ToolInv'
  BY <1>2 DEF ToolInv
<1>5. FileInv' /\ StagedInv'
  BY <1>2 DEF IInv, FileInv, StagedInv
<1>6. SessionMatchesStaged'
  <2>1. CASE session' = NoSession
    BY <2>1 DEF SessionMatchesStaged, NoSession
  <2>2. CASE /\ SamePackage(f)
             /\ session' = [ready |-> TRUE, firmware |-> FindSection(f, Firmware),
                            metadata |-> {f.metadata}]
    <3>1. staged.ready /\ staged.digest = {f}
      BY <2>2 DEF SamePackage, Sha256
    <3>2. PICK h : staged.digest = {h}
                   /\ staged.sections = [k \in SectionKinds |-> FindSection(h, k)]
      BY <3>1 DEF IInv, StagedInv
    <3>3. h = f
      BY <3>1, <3>2
    <3>4. Firmware \in SectionKinds
      BY DEF Firmware, SectionKinds
    <3>5. staged.sections[Firmware] = FindSection(f, Firmware)
      BY <3>2, <3>3, <3>4
    <3>6. session'.firmware = FindSection(f, Firmware) /\ session'.metadata = {f.metadata}
      BY <2>2
    <3> QED BY <1>2, <3>1, <3>5, <3>6 DEF SessionMatchesStaged
  <2> QED BY <1>2, <2>1, <2>2
<1> QED BY <1>3, <1>4, <1>5, <1>6 DEF IInv

LEMMA IntakeInvariant == Spec => []IInv
<1>1. Init => IInv
  BY InitInv
<1>2. IInv /\ [Next]_vars => IInv'
  <2> SUFFICES ASSUME IInv, [Next]_vars PROVE IInv'
    OBVIOUS
  <2>1. CASE UNCHANGED vars
    BY <2>1 DEF vars, IInv, FileInv, ToolInv, ValidationInv, ValidationOK, StagedInv,
                SessionMatchesStaged
  <2> QED BY <2>1, BuildInv, CheckInv, DamageInv, ValidateInv, StageInv, PrepareInv DEF Next
<1> QED BY <1>1, <1>2, PTL DEF Spec

-----------------------------------------------------------------------------
(***************************************************************************)
(* The theorems.                                                           *)
(***************************************************************************)

\* BuildGa10xPackage, the tool's check and ParseAndVerify agree: but for the reasons
\* the builder does not look at, what it lets through is written, and the file as
\* written is accepted by exactly the GPU it is for.
THEOREM BuiltPackagesAreAccepted == Spec => []BuiltIsAccepted
<1>1. IInv => BuiltIsAccepted
  <2> SUFFICES ASSUME IInv PROVE BuiltIsAccepted
    OBVIOUS
  <2>1. ASSUME NEW t \in tool, t.done
        PROVE  t.built # {} <=> BuildAllowed(t.source) /\ ~UncheckedByBuilder(t.source)
    BY <2>1 DEF IInv, ToolInv, ToolOK
  <2>2. ASSUME validation.hasResult, validation.of = file, damages = 0, NEW s \in origin
        PROVE  validation.accepted <=> s.pci = live
    <3>1. PICK f : file = {f} /\ origin = {s} /\ FileOf(f, s, damages)
      BY <2>2 DEF IInv, FileInv
    <3>2. s \in Sources /\ BuildAllowed(s) /\ f = BuildGa10xPackage(s) /\ ~UncheckedByBuilder(s)
      BY <2>2, <3>1 DEF FileOf, Sound
    <3>3. validation.accepted <=> Accepts(f, live)
      BY <2>2, <3>1 DEF IInv, ValidationInv, ValidationOK
    <3>4. /\ ParseAndVerify(f) = "Ok" /\ f.metadata.pci = s.pci
          /\ CheckGa10xPackageSemantics(f) <=> ~UncheckedByBuilder(s)
      BY <3>2, SoundFacts
    <3> QED BY <3>2, <3>3, <3>4 DEF Accepts
  <2> QED BY <2>1, <2>2 DEF BuiltIsAccepted
<1> QED BY <1>1, IntakeInvariant, PTL

\* Whatever fields, bytes or lengths of a file were damaged, the sections of one that
\* the client accepts share no byte, and a file with one damage stages nothing but
\* the payloads it was built from.
THEOREM AcceptedPackagesAreSound == Spec => []AcceptedIsSound
<1>1. IInv => AcceptedIsSound
  <2> SUFFICES ASSUME IInv PROVE AcceptedIsSound
    OBVIOUS
  <2>1. AcceptedSectionsApart
    <3>1. ASSUME validation.accepted, NEW f \in validation.of PROVE SectionsApart(f)
      <4>1. FileOK(f) /\ Accepts(f, live)
        BY <3>1 DEF IInv, ValidationInv, ValidationOK
      <4> QED BY <4>1, OkIsApart DEF Accepts
    <3> QED BY <3>1 DEF AcceptedSectionsApart, SectionsApart
  <2>2. StagedContentIsBuilt
    BY DEF IInv, StagedInv, StagedContentIsBuilt
  <2> QED BY <2>1, <2>2 DEF AcceptedIsSound
<1> QED BY <1>1, IntakeInvariant, PTL

\* PrepareColdBootSession takes firmware and metadata from a file given anew: a ready
\* session has those of the package StagePackage put into the DMA buffers.
THEOREM SessionsMatchTheStaged == Spec => []SessionMatchesStaged
<1>1. IInv => SessionMatchesStaged
  BY DEF IInv
<1> QED BY <1>1, IntakeInvariant, PTL

-----------------------------------------------------------------------------
(***************************************************************************)
(* The inductive invariant.                                                *)
(***************************************************************************)

ActionKinds ==
  {"Write32", "MaskedWrite", "PollMaskEqual", "DelayMilliseconds", "IfMaskEqualBegin",
   "EndIf", "StartCpuRespectAlias"}
Bits == SUBSET Nat
ActionsOf(kinds) ==
  [kind : kinds, engine : Engines \cup {"None"}, reg : Registers \cup {"None"}, value : Bits, mask : Bits,
   timeoutMs : Nat]

Actions == ActionsOf(ActionKinds)
\* The actions of a plan without a condition.
Straight == ActionsOf({"Write32", "MaskedWrite", "PollMaskEqual", "StartCpuRespectAlias"})

\* The end of PlanAuthenticatedExecution.
StartAndWait(e) ==
  << Act("StartCpuRespectAlias", e, "CpuCtl", {}, {}, 0), AddPoll(e, "CpuCtl", {4}, {4}) >>

\* A plan that starts the engine last, and takes every action before that.
RunsLast(plan, e) ==
  /\ plan \in Seq(Straight) /\ Len(plan) \in Nat \ {0, 1, 2}
  /\ plan[Len(plan) - 1] = StartAndWait(e)[1]
  /\ plan[Len(plan)] = StartAndWait(e)[2]

\* The phase that runs the image of an engine.
RunPhase == [Gsp |-> 3, Sec2 |-> 8]

\* A sequence PlanBootSequence makes, unless it refuses.
TwelvePhases(seq) ==
  /\ Len(seq) = 12
  /\ \A i \in 1..12 : seq[i] \in Seq(Actions)
  /\ \A e \in Engines : RunsLast(seq[RunPhase[e]], e)

Fields == {"regs", "fifo", "imem", "dmem", "scrubbing", "bcrValid", "cpu", "overrun"}
Numbers == {Number(bits) : bits \in SUBSET All}
Commands == [target : {"imem", "dmem"}, dest : Numbers, offset : Numbers]

EngineOK(en) ==
  /\ DOMAIN en = Fields
  /\ en.regs \in [Registers -> SUBSET All]
  /\ en.fifo \in Seq(Commands) /\ Len(en.fifo) <= QueueDepth
  /\ en.cpu \in {"halted", "running"}

EnginesInv ==
  /\ DOMAIN eng = Engines /\ \A e \in Engines : EngineOK(eng[e])
  /\ hw \in [Engines -> [riscv : BOOLEAN, alias : BOOLEAN, reset : SUBSET All]]
  /\ executed \in SUBSET Engines

Busy == {"enter", "run", "start"}

\* The position of the driver in the sequence the audit passed.
PlaceInv ==
  /\ job \in Jobs /\ phase \in 1..12 /\ index \in Nat \ {0} /\ skipping \in BOOLEAN
  /\ cpuCtl \in SUBSET All
  /\ pc \in {"audit", "enter", "run", "start", "refused", "done", "failed"}
  /\ pc # "refused" => TwelvePhases(sequence)
  /\ pc \in Busy => CheckGa102BootSequencePolicy(job, sequence)
  /\ pc = "start" => /\ index <= Len(sequence[phase])
                     /\ Current.kind = "StartCpuRespectAlias"
                     /\ 6 \in cpuCtl <=> hw[Current.engine].alias

\* What the position says of the processor of an engine.
RanInv(e) ==
  LET p == RunPhase[e]
  IN  /\ pc = "done" \/ phase > p => e \in executed
      /\ phase = p /\ pc \in {"run", "start"} =>
           /\ ~skipping /\ index <= Len(sequence[p]) + 1
           /\ index = Len(sequence[p]) => eng[e].cpu = "running" \/ e \in executed
           /\ index = Len(sequence[p]) + 1 => e \in executed

LoadIInv == EnginesInv /\ PlaceInv /\ \A e \in Engines : RanInv(e)

-----------------------------------------------------------------------------
(***************************************************************************)
(* The plans.                                                              *)
(***************************************************************************)

LEMMA WordIsBits == ASSUME NEW n PROVE ToWord(n) \in Bits
BY WidthAssumption DEF ToWord, Bits, All

LEMMA MasksAreBits ==
  /\ All \in Bits /\ 0..(MemOffsetBits - 1) \in Bits /\ 0..(Base1Bits - 1) \in Bits
  /\ 0..2 \in Bits /\ 0..7 \in Bits /\ kWriteRules.DmaCmd \in Bits
  /\ kImemDmaCommand \in Bits /\ kDmemDmaCommand \in Bits
<1>1. /\ All \in Bits /\ 0..(MemOffsetBits - 1) \in Bits /\ 0..(Base1Bits - 1) \in Bits
      /\ 0..2 \in Bits /\ 0..7 \in Bits
  BY WidthAssumption DEF Bits, All
<1>2. kWriteRules.DmaCmd = (0..5) \cup (8..10) \cup (12..14) \cup {16}
  BY DEF kWriteRules
<1>3. kImemDmaCommand \in Bits /\ kDmemDmaCommand \in Bits
  BY DEF Bits, kImemDmaCommand, kDmemDmaCommand
<1> QED BY <1>1, <1>2, <1>3 DEF Bits

LEMMA FewBits ==
  /\ {} \in Bits /\ {0} \in Bits /\ {1} \in Bits /\ {2} \in Bits /\ {4} \in Bits
  /\ {7} \in Bits /\ {10} \in Bits /\ {12} \in Bits /\ {4, 8} \in Bits /\ {0, 4, 8} \in Bits
BY DEF Bits

LEMMA BuildersAreActions ==
  ASSUME NEW e \in Engines, NEW reg \in Registers, NEW v \in Bits, NEW m \in Bits
  PROVE  /\ Write32(e, reg, v) \in Straight /\ WriteWithin(e, reg, v, m) \in Straight
         /\ MaskedWrite(e, reg, v, m) \in Straight /\ AddPoll(e, reg, m, v) \in Straight
BY MasksAreBits DEF Write32, WriteWithin, MaskedWrite, AddPoll, Act, Straight, ActionsOf

\* The registers the plans name.
LEMMA Named ==
  Registers = {"EngineReset", "RiscvBcrCtrl", "FalconOs", "FalconRm", "FbifCtl", "DmaCtl",
               "FbifTransCfg0", "DmaBase", "DmaBase1", "DmaMemOffset", "DmaFbOffset", "DmaCmd",
               "BromParaAddr0", "BromEngineIdMask", "BromUcodeId", "BromModSel", "BootVec",
               "Mailbox0", "Mailbox1", "CpuCtl", "CpuCtlAlias", "Hwcfg2"}
BY DEF Registers, kWriteRules, kReadRules

LEMMA StraightAreActions == Straight \subseteq Actions /\ Seq(Straight) \subseteq Seq(Actions)
<1>1. Straight \subseteq Actions
  BY DEF Straight, Actions, ActionsOf, ActionKinds
<1>2. ASSUME NEW s \in Seq(Straight) PROVE s \in Seq(Actions)
  BY <1>1
<1> QED BY <1>1, <1>2

LEMMA JoinType ==
  ASSUME NEW S, NEW s \in Seq(S), NEW t \in Seq(S)
  PROVE  s \o t \in Seq(S) /\ Len(s \o t) = Len(s) + Len(t)
OBVIOUS

LEMMA GrowType ==
  ASSUME NEW S, NEW s \in Seq(S), NEW t \in Seq(S), NEW n \in Nat, Len(s) >= n
  PROVE  s \o t \in Seq(S) /\ Len(s \o t) >= n
OBVIOUS

LEMMA PairType ==
  ASSUME NEW S, NEW a \in S, NEW b \in S
  PROVE  << a, b >> \in Seq(S) /\ Len(<< a, b >>) = 2
OBVIOUS

LEMMA EmptyType == ASSUME NEW S PROVE << >> \in Seq(S) /\ Len(<< >>) = 0
OBVIOUS

LEMMA BlockIsStraight ==
  ASSUME NEW e \in Engines, NEW dest, NEW offset, NEW command \in Bits
  PROVE  /\ TransferBlock(e, dest, offset, command) \in Seq(Straight)
         /\ Len(TransferBlock(e, dest, offset, command)) = 4
<1> DEFINE a == AddPoll(e, "DmaCmd", {0}, {})
           b == WriteWithin(e, "DmaMemOffset", ToWord(dest), 0..(MemOffsetBits - 1))
           c == Write32(e, "DmaFbOffset", ToWord(offset))
           d == WriteWithin(e, "DmaCmd", command, kWriteRules.DmaCmd)
<1>1. a \in Straight
  BY BuildersAreActions, Named, FewBits
<1>2. b \in Straight
  BY BuildersAreActions, Named, WordIsBits, MasksAreBits
<1>3. c \in Straight
  BY BuildersAreActions, Named, WordIsBits, MasksAreBits
<1>4. d \in Straight
  BY BuildersAreActions, Named, MasksAreBits
<1>5. TransferBlock(e, dest, offset, command) = << a, b, c, d >>
  BY DEF TransferBlock
<1> HIDE DEF a, b, c, d
<1> QED BY <1>1, <1>2, <1>3, <1>4, <1>5

LEMMA DivFacts ==
  ASSUME NEW n \in Nat, NEW k \in Nat \ {0}
  PROVE  n \div k \in Nat /\ n % k \in 0..(k - 1)
OBVIOUS

LEMMA TransfersAreStraight ==
  ASSUME NEW e \in Engines, NEW dest, NEW offset, NEW blocks \in Nat, NEW command \in Bits
  PROVE  Transfers(e, dest, offset, blocks, command) \in Seq(Straight)
<1> DEFINE block(k) == TransferBlock(e, dest + k * kTransferBytes,
                                     offset + k * kTransferBytes, command)
           at(k) == block((k - 1) \div 4)[((k - 1) % 4) + 1]
<1>1. \A k : block(k) \in Seq(Straight) /\ Len(block(k)) = 4
  BY BlockIsStraight
<1>2. Transfers(e, dest, offset, blocks, command) = [k \in 1..(blocks * 4) |-> at(k)]
  <2>1. Transfers(e, dest, offset, blocks, command) =
          [k \in 1..(blocks * Len(block(0))) |->
             block((k - 1) \div Len(block(0)))[((k - 1) % Len(block(0))) + 1]]
    BY Zenon DEF Transfers
  <2>2. Len(block(0)) = 4
    BY <1>1
  <2> HIDE DEF block
  <2> QED BY <2>1, <2>2
<1> HIDE DEF block
<1>3. ASSUME NEW k \in 1..(blocks * 4) PROVE at(k) \in Straight
  <2>1. ((k - 1) % 4) + 1 \in 1..4
    OBVIOUS
  <2>2. block((k - 1) \div 4) \in Seq(Straight) /\ Len(block((k - 1) \div 4)) = 4
    BY <1>1
  <2> QED BY <2>1, <2>2
<1> HIDE DEF at
<1>4. blocks * 4 \in Nat
  OBVIOUS
<1> QED BY <1>2, <1>3, <1>4

LEMMA DmaIsStraight ==
  ASSUME NEW e \in Engines, NEW source, NEW dest, NEW offset, NEW bytes \in Nat,
         NEW command \in Bits
  PROVE  AddDma(e, source, dest, offset, bytes, command) \in Seq(Straight)
<1> DEFINE a == AddPoll(e, "DmaCmd", {0}, {})
           b == Write32(e, "DmaBase", ToWord(source \div kTransferBytes))
           c == WriteWithin(e, "DmaBase1",
                            ToWord((source \div kTransferBytes) \div 2^WordBits),
                            0..(Base1Bits - 1))
           d == AddPoll(e, "DmaCmd", {1}, {1})
           middle == Transfers(e, dest, offset, bytes \div kTransferBytes, command)
<1>1. a \in Straight /\ d \in Straight
  BY BuildersAreActions, Named, FewBits
<1>2. b \in Straight
  BY BuildersAreActions, Named, WordIsBits, MasksAreBits
<1>3. c \in Straight
  BY BuildersAreActions, Named, WordIsBits, MasksAreBits
<1>4. middle \in Seq(Straight)
  BY TransfersAreStraight, DivFacts, WidthAssumption
<1>5. \/ AddDma(e, source, dest, offset, bytes, command) = << a, b, c >> \o middle \o << d >>
      \/ AddDma(e, source, dest, offset, bytes, command) = << >>
  BY DEF AddDma, AddDmaWithEnd, Refused
<1> HIDE DEF a, b, c, d, middle
<1>6. << a, b, c >> \in Seq(Straight) /\ << d >> \in Seq(Straight)
  BY <1>1, <1>2, <1>3
<1>7. << a, b, c >> \o middle \in Seq(Straight)
  BY <1>4, <1>6, JoinType
<1>8. (<< a, b, c >> \o middle) \o << d >> \in Seq(Straight)
  BY <1>6, <1>7, JoinType
<1>9. << >> \in Seq(Straight)
  OBVIOUS
<1> QED BY <1>5, <1>8, <1>9, Zenon

\* A plan of PlanAuthenticatedExecution starts the processor once everything else is done.
LEMMA ExecutionRunsLast ==
  ASSUME NEW p, p.engine \in Engines, p.imemBytes \in Nat, p.dmemBytes \in Nat,
         PlanAuthenticatedExecution(p) # Refused
  PROVE  RunsLast(PlanAuthenticatedExecution(p), p.engine)
<1> DEFINE e == p.engine
           imem == AddDma(e, p.image + p.codeOffset - p.imemVirtualBase,
                          p.imemPhysicalBase, p.imemVirtualBase, p.imemBytes, kImemDmaCommand)
           dmem == AddDma(e, p.image + p.dataOffset - p.dmemVirtualBase,
                          p.dmemPhysicalBase, p.dmemVirtualBase, p.dmemBytes, kDmemDmaCommand)
           setup == << MaskedWrite(e, "FbifCtl", {7}, {7}), WriteWithin(e, "DmaCtl", {}, 0..2),
                       MaskedWrite(e, "FbifTransCfg0", {2}, 0..2) >>
           brom == << Write32(e, "BromParaAddr0", ToWord(p.pkcOffset)),
                      Write32(e, "BromEngineIdMask", ToWord(p.engineIdMask)),
                      WriteWithin(e, "BromUcodeId", ToWord(p.ucodeId), 0..7),
                      MaskedWrite(e, "BromModSel", {0}, 0..7),
                      Write32(e, "BootVec", ToWord(p.imemVirtualBase)) >>
           boxes == IF p.mailbox = {} THEN << >>
                    ELSE << Write32(e, "Mailbox0", ToWord(Max(p.mailbox))),
                            Write32(e, "Mailbox1", ToWord(Max(p.mailbox) \div 2^WordBits)) >>
           body == setup \o imem \o dmem \o brom \o boxes
           plan == PlanAuthenticatedExecution(p)
<1>1. imem \in Seq(Straight) /\ dmem \in Seq(Straight)
  BY DmaIsStraight, MasksAreBits
<1>2. setup \in Seq(Straight) /\ Len(setup) >= 3
  <2> DEFINE a == MaskedWrite(e, "FbifCtl", {7}, {7})
             b == WriteWithin(e, "DmaCtl", {}, 0..2)
             c == MaskedWrite(e, "FbifTransCfg0", {2}, 0..2)
  <2>1. a \in Straight /\ b \in Straight /\ c \in Straight
    BY BuildersAreActions, Named, FewBits, MasksAreBits
  <2>2. setup = << a, b, c >>
    OBVIOUS
  <2> HIDE DEF a, b, c, setup
  <2> QED BY <2>1, <2>2
<1>3. brom \in Seq(Straight)
  <2> DEFINE a == Write32(e, "BromParaAddr0", ToWord(p.pkcOffset))
             b == Write32(e, "BromEngineIdMask", ToWord(p.engineIdMask))
             c == WriteWithin(e, "BromUcodeId", ToWord(p.ucodeId), 0..7)
             d == MaskedWrite(e, "BromModSel", {0}, 0..7)
             f == Write32(e, "BootVec", ToWord(p.imemVirtualBase))
  <2>1. a \in Straight /\ b \in Straight /\ f \in Straight
    BY BuildersAreActions, Named, WordIsBits, MasksAreBits
  <2>2. c \in Straight
    BY BuildersAreActions, Named, WordIsBits, MasksAreBits
  <2>3. d \in Straight
    BY BuildersAreActions, Named, FewBits, MasksAreBits
  <2>4. brom = << a, b, c, d, f >>
    OBVIOUS
  <2> HIDE DEF a, b, c, d, f, brom
  <2> QED BY <2>1, <2>2, <2>3, <2>4
<1>4. boxes \in Seq(Straight)
  <2> DEFINE a == Write32(e, "Mailbox0", ToWord(Max(p.mailbox)))
             b == Write32(e, "Mailbox1", ToWord(Max(p.mailbox) \div 2^WordBits))
  <2>1. a \in Straight /\ b \in Straight
    BY BuildersAreActions, Named, WordIsBits, MasksAreBits
  <2>2. boxes = << >> \/ boxes = << a, b >>
    OBVIOUS
  <2> HIDE DEF a, b, boxes
  <2> QED BY <2>1, <2>2, PairType, EmptyType, Zenon
<1>5. plan = body \o StartAndWait(e)
  BY DEF PlanAuthenticatedExecution, StartAndWait
<1> HIDE DEF imem, dmem, setup, brom, boxes, plan
<1>6. body \in Seq(Straight) /\ Len(body) >= 3
  <2>1. setup \o imem \in Seq(Straight) /\ Len(setup \o imem) >= 3
    BY <1>1, <1>2, GrowType
  <2>2. setup \o imem \o dmem \in Seq(Straight) /\ Len(setup \o imem \o dmem) >= 3
    BY <1>1, <2>1, GrowType
  <2>3. setup \o imem \o dmem \o brom \in Seq(Straight)
        /\ Len(setup \o imem \o dmem \o brom) >= 3
    BY <1>3, <2>2, GrowType
  <2> QED BY <1>4, <2>3, GrowType
<1>7. StartAndWait(e)[1] \in Straight /\ StartAndWait(e)[2] \in Straight
  BY FewBits, Named DEF StartAndWait, Straight, ActionsOf, Act, AddPoll
<1>8. StartAndWait(e) \in Seq(Straight) /\ Len(StartAndWait(e)) = 2
  <2>1. StartAndWait(e) = << StartAndWait(e)[1], StartAndWait(e)[2] >>
    BY DEF StartAndWait
  <2> QED BY <1>7, <2>1, PairType, Zenon
<1> HIDE DEF body, e
<1>9. plan \in Seq(Straight) /\ Len(plan) = Len(body) + 2
  BY <1>5, <1>6, <1>8, JoinType
<1>10. plan[Len(plan) - 1] = StartAndWait(e)[1] /\ plan[Len(plan)] = StartAndWait(e)[2]
  BY <1>5, <1>6, <1>8, <1>9
<1>11. RunsLast(plan, e)
  BY <1>6, <1>9, <1>10 DEF RunsLast
<1> QED BY <1>11 DEF plan, e

LEMMA ResetIsPlan ==
  ASSUME NEW e \in Engines, NEW riscv \in BOOLEAN, NEW chip
  PROVE  PlanReset(e, riscv, chip) \in Seq(Actions)
<1> DEFINE a == MaskedWrite(e, "EngineReset", {0}, {0})
           b == Delay(100)
           c == MaskedWrite(e, "EngineReset", {}, {0})
           d == AddPoll(e, "Hwcfg2", {12}, {})
           f == MaskedWrite(e, "RiscvBcrCtrl", {4, 8}, {0, 4, 8})
           g == Act("IfMaskEqualBegin", e, "Hwcfg2", {10}, {10}, 0)
           h == MaskedWrite(e, "RiscvBcrCtrl", {}, {4})
           i == AddPoll(e, "RiscvBcrCtrl", {0}, {0})
           j == Write32(e, "FalconRm", ToWord(chip))
<1>1. /\ a \in Straight /\ c \in Straight /\ d \in Straight /\ f \in Straight
      /\ h \in Straight /\ i \in Straight
  BY BuildersAreActions, Named, FewBits
<1>2. j \in Straight
  BY BuildersAreActions, Named, WordIsBits
<1>3. b \in Actions
  BY WordIsBits, FewBits DEF Delay, Act, Actions, ActionsOf, ActionKinds
<1>4. g \in Actions
  BY FewBits, Named DEF Act, Actions, ActionsOf, ActionKinds
<1>5. EndIf \in Actions
  BY FewBits DEF EndIf, Act, Actions, ActionsOf, ActionKinds
<1>6. \/ PlanReset(e, riscv, chip) = << a, b, c, d >> \o << f >>
      \/ PlanReset(e, riscv, chip) = << a, b, c, d >> \o << g, h, i, j, EndIf >>
  BY DEF PlanReset, SelectCore
<1> HIDE DEF a, b, c, d, f, g, h, i, j
<1>7. << a, b, c, d >> \in Seq(Actions)
  BY <1>1, <1>3, StraightAreActions
<1>8. << f >> \in Seq(Actions)
  BY <1>1, StraightAreActions
<1>9. << g, h, i, j, EndIf >> \in Seq(Actions)
  BY <1>1, <1>2, <1>4, <1>5, StraightAreActions
<1> QED BY <1>6, <1>7, <1>8, <1>9, JoinType

\* Whatever the inputs, PlanBootSequence refuses or makes twelve phases, of which
\* those of FWSEC and of the booter end by running the image.
LEMMA SequenceShape ==
  ASSUME NEW in \in BootInputs, PlanBootSequence(in) # << >>
  PROVE  TwelvePhases(PlanBootSequence(in))
<1> DEFINE frts == PlanAuthenticatedExecution(FrtsParameters(in))
           sec2 == PlanAuthenticatedExecution(Sec2Parameters(in))
           r1 == PlanReset("Gsp", FALSE, in.chip)
           r2 == PlanReset("Gsp", TRUE, in.chip)
           r3 == PlanReset("Sec2", FALSE, in.chip)
           boxes == MailboxWrites(in.libos)
           os == << Write32("Gsp", "FalconOs", ToWord(in.appVersion)) >>
           seq == PlanBootSequence(in)
<1>1. /\ frts # Refused /\ sec2 # Refused
      /\ seq = << << >>, r1, frts, << >>, r2, boxes, r3, sec2, << >>, os, << >>, << >> >>
  BY DEF PlanBootSequence
<1>2. RunsLast(frts, "Gsp")
  <2>1. /\ FrtsParameters(in).engine = "Gsp"
        /\ FrtsParameters(in).imemBytes \in Nat /\ FrtsParameters(in).dmemBytes \in Nat
    BY DEF FrtsParameters, BootInputs
  <2> QED BY <1>1, <2>1, ExecutionRunsLast DEF Engines
<1>3. RunsLast(sec2, "Sec2")
  <2>1. /\ Sec2Parameters(in).engine = "Sec2"
        /\ Sec2Parameters(in).imemBytes \in Nat /\ Sec2Parameters(in).dmemBytes \in Nat
    BY DEF Sec2Parameters, BootInputs
  <2> QED BY <1>1, <2>1, ExecutionRunsLast DEF Engines
<1>4. r1 \in Seq(Actions) /\ r2 \in Seq(Actions) /\ r3 \in Seq(Actions)
  BY ResetIsPlan DEF Engines
<1>5. boxes \in Seq(Actions)
  <2>1. /\ Write32("Gsp", "Mailbox0", ToWord(in.libos)) \in Straight
        /\ Write32("Gsp", "Mailbox1", ToWord(in.libos \div 2^WordBits)) \in Straight
    BY BuildersAreActions, Named, WordIsBits, MasksAreBits DEF Engines
  <2> QED BY <2>1, PairType, StraightAreActions DEF MailboxWrites
<1>6. os \in Seq(Actions)
  <2> DEFINE a == Write32("Gsp", "FalconOs", ToWord(in.appVersion))
  <2>1. a \in Straight
    BY BuildersAreActions, Named, WordIsBits, MasksAreBits DEF Engines
  <2>2. os = << a >>
    OBVIOUS
  <2> HIDE DEF a, os
  <2> QED BY <2>1, <2>2, StraightAreActions
<1>7. frts \in Seq(Actions) /\ sec2 \in Seq(Actions)
  BY <1>2, <1>3, StraightAreActions DEF RunsLast
<1> HIDE DEF frts, sec2, r1, r2, r3, boxes, os, seq
<1>8. Len(seq) = 12 /\ seq[3] = frts /\ seq[8] = sec2
  BY <1>1
<1>9. ASSUME NEW i \in 1..12 PROVE seq[i] \in Seq(Actions)
  <2>1. seq[i] \in {<< >>, r1, frts, r2, boxes, r3, sec2, os}
    BY <1>1
  <2> QED BY <1>4, <1>5, <1>6, <1>7, <2>1, EmptyType
<1>10. \A e \in Engines : RunsLast(seq[RunPhase[e]], e)
  BY <1>2, <1>3, <1>8 DEF Engines, RunPhase
<1>11. TwelvePhases(seq)
  BY <1>8, <1>9, <1>10 DEF TwelvePhases
<1> QED BY <1>11 DEF seq

-----------------------------------------------------------------------------
(***************************************************************************)
(* The policy.                                                             *)
(***************************************************************************)

\* What CheckGa102PlanPolicy lets pass.
Passes(a) == CheckGa102ActionPolicy(a) \in {"Allowed", "RequiresStartCpuAliasSupport"}

LEMMA RulesFit ==
  /\ \A r \in DOMAIN kWriteRules : r \in Registers /\ kWriteRules[r] \subseteq All
  /\ "CpuCtl" \in DOMAIN kWriteRules /\ kWriteRules["CpuCtl"] = {1}
  /\ "CpuCtlAlias" \in DOMAIN kWriteRules /\ kWriteRules["CpuCtlAlias"] = {1}
<1>1. \A r \in DOMAIN kWriteRules : r \in Registers
  BY DEF Registers
<1> DEFINE w1 == {0, 4, 8}
           w2 == 0..2
           w3 == 0..7
           w4 == 0..(Base1Bits - 1)
           w5 == 0..(MemOffsetBits - 1)
           w6 == (0..5) \cup (8..10) \cup (12..14) \cup {16}
<1>2. /\ {0} \in SUBSET All /\ {1} \in SUBSET All /\ {7} \in SUBSET All
      /\ w1 \in SUBSET All /\ w2 \in SUBSET All /\ w3 \in SUBSET All
      /\ w4 \in SUBSET All /\ w5 \in SUBSET All /\ w6 \in SUBSET All /\ All \in SUBSET All
  BY WidthAssumption DEF All
<1>3. \A r \in DOMAIN kWriteRules :
        kWriteRules[r] \in {{0}, {1}, {7}, All, w1, w2, w3, w4, w5, w6}
  BY DEF kWriteRules
<1> HIDE DEF w1, w2, w3, w4, w5, w6
<1>4. \A r \in DOMAIN kWriteRules : kWriteRules[r] \subseteq All
  <2>1. ASSUME NEW W \in {{0}, {1}, {7}, All, w1, w2, w3, w4, w5, w6} PROVE W \in SUBSET All
    BY <1>2
  <2> QED BY <1>3, <2>1
<1>5. /\ "CpuCtl" \in DOMAIN kWriteRules /\ kWriteRules["CpuCtl"] = {1}
      /\ "CpuCtlAlias" \in DOMAIN kWriteRules /\ kWriteRules["CpuCtlAlias"] = {1}
  BY DEF kWriteRules
<1> QED BY <1>1, <1>4, <1>5

LEMMA AuditedAction ==
  ASSUME NEW in, NEW seq, CheckGa102BootSequencePolicy(in, seq), NEW i \in 1..12
  PROVE  CheckGa102PlanPolicy(seq[i]) /\ \A k \in DOMAIN seq[i] : Passes(seq[i][k])
BY DEF CheckGa102BootSequencePolicy, CheckGa102PlanPolicy, Passes

LEMMA PassedWrite ==
  ASSUME NEW a, a.kind \in {"Write32", "MaskedWrite"}, Passes(a)
  PROVE  /\ CheckGa102ActionPolicy(a) = "Allowed"
         /\ a.engine \in Engines /\ a.reg \in DOMAIN kWriteRules
         /\ a.mask \subseteq kWriteRules[a.reg] /\ a.value \subseteq a.mask
<1>1. CASE a.kind = "Write32"
  BY <1>1 DEF Passes, CheckGa102ActionPolicy, Listed, MaskAllowed
<1>2. CASE a.kind = "MaskedWrite"
  BY <1>2 DEF Passes, CheckGa102ActionPolicy, Listed, MaskAllowed
<1> QED BY <1>1, <1>2

LEMMA PassedStart ==
  ASSUME NEW a, a.kind = "StartCpuRespectAlias", Passes(a)
  PROVE  a.engine \in Engines /\ a.reg = "CpuCtl"
BY DEF Passes, CheckGa102ActionPolicy

LEMMA ResolvedStart ==
  ASSUME NEW a, a.engine \in Engines, NEW snapshot
  PROVE  LET w == ResolveGa102StartCpuAction(a, snapshot)
         IN  /\ CheckGa102ActionPolicy(w) = "Allowed"
             /\ w.engine = a.engine /\ w.reg \in {"CpuCtl", "CpuCtlAlias"}
             /\ w.reg = "CpuCtlAlias" <=> 6 \in snapshot
             /\ w.kind \in {"Write32", "MaskedWrite"} /\ w.value = {1} /\ w.mask = {1}
<1>1. CASE 6 \in snapshot
  <2> DEFINE w == WriteWithin(a.engine, "CpuCtlAlias", {1}, {1})
  <2>1. ResolveGa102StartCpuAction(a, snapshot) = w
    BY <1>1 DEF ResolveGa102StartCpuAction
  <2>2. /\ w.kind = "Write32" /\ w.engine = a.engine /\ w.reg = "CpuCtlAlias"
        /\ w.value = {1} /\ w.mask = {1} /\ w.timeoutMs = 0
    BY DEF WriteWithin, Act
  <2> HIDE DEF w
  <2>3. CheckGa102ActionPolicy(w) = "Allowed"
    BY <2>2, RulesFit DEF CheckGa102ActionPolicy, Listed, MaskAllowed
  <2> QED BY <1>1, <2>1, <2>2, <2>3
<1>2. CASE 6 \notin snapshot
  <2> DEFINE w == MaskedWrite(a.engine, "CpuCtl", {1}, {1})
  <2>1. ResolveGa102StartCpuAction(a, snapshot) = w
    BY <1>2 DEF ResolveGa102StartCpuAction
  <2>2. /\ w.kind = "MaskedWrite" /\ w.engine = a.engine /\ w.reg = "CpuCtl"
        /\ w.value = {1} /\ w.mask = {1} /\ w.timeoutMs = 0
    BY DEF MaskedWrite, Act
  <2> HIDE DEF w
  <2>3. CheckGa102ActionPolicy(w) = "Allowed"
    BY <2>2, RulesFit DEF CheckGa102ActionPolicy, Listed, MaskAllowed
  <2> QED BY <1>2, <2>1, <2>2, <2>3
<1> QED BY <1>1, <1>2

-----------------------------------------------------------------------------
(***************************************************************************)
(* The engines.                                                            *)
(***************************************************************************)

LEMMA RestartedOK ==
  ASSUME NEW e \in Engines, hw[e].reset \in SUBSET All
  PROVE  EngineOK(Restarted(e))
<1>1. Restarted(e).regs \in [Registers -> SUBSET All]
  BY DEF Restarted
<1>2. DOMAIN Restarted(e) = Fields
  BY DEF Restarted, Fields
<1>3. Restarted(e).fifo = << >> /\ Restarted(e).cpu = "halted"
  BY DEF Restarted
<1> QED BY <1>1, <1>2, <1>3, EmptyType, LoadAssumption DEF EngineOK

LEMMA ReadFits ==
  ASSUME EnginesInv, NEW e \in Engines, NEW reg \in Registers
  PROVE  Read(e, reg) \in SUBSET All
<1>1. eng[e].regs[reg] \in SUBSET All
  BY DEF EnginesInv, EngineOK
<1>2. /\ 0 \in All /\ 1 \in All /\ 4 \in All /\ 6 \in All /\ 10 \in All /\ 12 \in All
  BY WidthAssumption DEF All
<1> QED BY <1>1, <1>2 DEF Read

LEMMA NewValueFits ==
  ASSUME EnginesInv, NEW a, a.kind \in {"Write32", "MaskedWrite"}, Passes(a)
  PROVE  NewValue(a) \in SUBSET All
<1>1. /\ a.engine \in Engines /\ a.reg \in Registers /\ a.value \subseteq All
  BY PassedWrite, RulesFit
<1>2. Read(a.engine, a.reg) \in SUBSET All
  BY <1>1, ReadFits
<1> QED BY <1>1, <1>2 DEF NewValue

LEMMA NumberOfBits == ASSUME NEW b \in SUBSET All PROVE Number(b) \in Numbers
BY DEF Numbers

LEMMA StoreOK ==
  ASSUME EnginesInv, NEW e \in Engines, NEW reg \in Registers, NEW value \in SUBSET All
  PROVE  EngineOK(Store(e, reg, value))
<1> DEFINE en == eng[e]
           kept == [en EXCEPT !.regs[reg] = value]
<1>1. EngineOK(en) /\ hw[e].reset \in SUBSET All
  BY DEF EnginesInv
<1>2. /\ DOMAIN kept = Fields /\ kept.regs \in [Registers -> SUBSET All]
      /\ kept.fifo = en.fifo /\ kept.cpu = en.cpu
  BY <1>1 DEF EngineOK, Fields
<1>3. EngineOK(kept)
  BY <1>1, <1>2 DEF EngineOK
<1>4. CASE reg = "EngineReset"
  <2>1. EngineOK([Restarted(e) EXCEPT !.regs.EngineReset = value])
    BY <1>1, RestartedOK, Named DEF EngineOK, Fields
  <2>2. EngineOK([kept EXCEPT !.scrubbing = @ \/ 0 \in en.regs.EngineReset])
    <3> HIDE DEF kept, en
    <3> QED BY <1>3 DEF EngineOK, Fields
  <2> QED BY <1>4, <2>1, <2>2 DEF Store
<1>5. CASE reg = "DmaCmd"
  <2> DEFINE command == [target |-> IF 4 \in value THEN "imem" ELSE "dmem",
                         dest   |-> Number(en.regs.DmaMemOffset \cap 0..(MemOffsetBits - 1)),
                         offset |-> Number(en.regs.DmaFbOffset)]
  <2>1. command \in Commands
    <3>1. /\ en.regs.DmaMemOffset \cap 0..(MemOffsetBits - 1) \in SUBSET All
          /\ en.regs.DmaFbOffset \in SUBSET All
      BY <1>1, Named DEF EngineOK
    <3>2. /\ Number(en.regs.DmaMemOffset \cap 0..(MemOffsetBits - 1)) \in Numbers
          /\ Number(en.regs.DmaFbOffset) \in Numbers
      BY <3>1, NumberOfBits
    <3> QED BY <3>2 DEF Commands
  <2>2. Store(e, reg, value) =
          IF Len(en.fifo) >= QueueDepth THEN [kept EXCEPT !.overrun = TRUE]
          ELSE [kept EXCEPT !.fifo = Append(@, command)]
    BY <1>5 DEF Store
  <2> HIDE DEF kept, en, command
  <2>3. EngineOK([kept EXCEPT !.overrun = TRUE])
    BY <1>3 DEF EngineOK, Fields
  <2>4. ASSUME ~(Len(en.fifo) >= QueueDepth)
        PROVE  EngineOK([kept EXCEPT !.fifo = Append(@, command)])
    <3>1. Append(kept.fifo, command) \in Seq(Commands)
          /\ Len(Append(kept.fifo, command)) = Len(kept.fifo) + 1
      BY <1>3, <2>1 DEF EngineOK
    <3>2. Len(kept.fifo) + 1 <= QueueDepth
      BY <1>2, <1>3, <2>4, LoadAssumption DEF EngineOK
    <3> QED BY <1>3, <3>1, <3>2 DEF EngineOK, Fields
  <2> QED BY <2>2, <2>3, <2>4
<1>6. CASE reg = "RiscvBcrCtrl"
  <2>1. Store(e, reg, value) = [kept EXCEPT !.bcrValid = FALSE]
    BY <1>6 DEF Store
  <2> HIDE DEF kept
  <2> QED BY <1>3, <2>1 DEF EngineOK, Fields
<1>7. CASE reg \in {"CpuCtl", "CpuCtlAlias"}
  <2>1. Store(e, reg, value) \in {en, [en EXCEPT !.cpu = "running"]}
    BY <1>7 DEF Store
  <2> HIDE DEF en
  <2> QED BY <1>1, <2>1 DEF EngineOK, Fields
<1>8. CASE reg \notin {"EngineReset", "DmaCmd", "RiscvBcrCtrl", "CpuCtl", "CpuCtlAlias"}
  <2>1. Store(e, reg, value) = kept
    BY <1>8 DEF Store
  <2> QED BY <1>3, <2>1
<1> QED BY <1>4, <1>5, <1>6, <1>7, <1>8

\* A start bit written where bit 6 of CPUCTL said runs the processor.
LEMMA StartRuns ==
  ASSUME EnginesInv, NEW e \in Engines, NEW reg \in {"CpuCtl", "CpuCtlAlias"}, NEW value,
         1 \in value, reg = "CpuCtlAlias" <=> hw[e].alias
  PROVE  Store(e, reg, value).cpu = "running"
<1>1. DOMAIN eng[e] = Fields /\ hw[e].alias \in BOOLEAN
  BY DEF EnginesInv, EngineOK
<1>2. Store(e, reg, value) = [eng[e] EXCEPT !.cpu = "running"]
  BY <1>1 DEF Store
<1> QED BY <1>1, <1>2 DEF Fields

Started(e) == eng[e].cpu = "running" \/ e \in executed

\* What an engine does by itself leaves a started processor started or run.
LEMMA EngineStep ==
  ASSUME EnginesInv, NEW e \in Engines, Engine(e)
  PROVE  EnginesInv' /\ \A f \in Engines : Started(f) => Started(f)'
<1>1. EngineOK(eng[e]) /\ DOMAIN eng = Engines
  BY DEF EnginesInv
<1>2. CASE Transfer(e)
  <2> DEFINE t == Head(eng[e].fifo)
             block == << t.dest, Base(eng[e].regs) + t.offset >>
  <2>1. eng[e].fifo \in Seq(Commands) /\ eng[e].fifo # << >>
    BY <1>1, <1>2 DEF Transfer, EngineOK
  <2>2. t \in Commands /\ Tail(eng[e].fifo) \in Seq(Commands)
        /\ Len(Tail(eng[e].fifo)) = Len(eng[e].fifo) - 1 /\ Len(eng[e].fifo) \in Nat
    BY <2>1
  <2>3. t.target \in {"imem", "dmem"}
    BY <2>2 DEF Commands
  <2>4. eng' = [eng EXCEPT ![e].fifo = Tail(@),
                           ![e][t.target] = {b \in @ : b[1] # t.dest} \cup {block}]
        /\ UNCHANGED << hw, executed >>
    BY <1>2 DEF Transfer
  <2> HIDE DEF t, block
  <2>5. /\ DOMAIN eng' = Engines /\ \A f \in Engines \ {e} : eng'[f] = eng[f]
        /\ DOMAIN eng'[e] = Fields /\ eng'[e].fifo = Tail(eng[e].fifo)
        /\ eng'[e].regs = eng[e].regs /\ eng'[e].cpu = eng[e].cpu
    BY <1>1, <2>3, <2>4 DEF EngineOK, Fields
  <2>6. EngineOK(eng'[e])
    BY <1>1, <2>2, <2>5, LoadAssumption DEF EngineOK
  <2> QED BY <2>4, <2>5, <2>6 DEF EnginesInv, Started
<1>3. CASE ScrubDone(e)
  <2>1. eng' = [eng EXCEPT ![e].scrubbing = FALSE, ![e].imem = {}, ![e].dmem = {}]
        /\ UNCHANGED << hw, executed >>
    BY <1>3 DEF ScrubDone
  <2>2. /\ DOMAIN eng' = Engines /\ \A f \in Engines \ {e} : eng'[f] = eng[f]
        /\ DOMAIN eng'[e] = Fields /\ eng'[e].fifo = eng[e].fifo
        /\ eng'[e].regs = eng[e].regs /\ eng'[e].cpu = eng[e].cpu
    BY <1>1, <2>1 DEF EngineOK, Fields
  <2>3. EngineOK(eng'[e])
    BY <1>1, <2>2 DEF EngineOK
  <2> QED BY <2>1, <2>2, <2>3 DEF EnginesInv, Started
<1>4. CASE BcrBecomesValid(e)
  <2>1. eng' = [eng EXCEPT ![e].bcrValid = TRUE] /\ UNCHANGED << hw, executed >>
    BY <1>4 DEF BcrBecomesValid
  <2>2. /\ DOMAIN eng' = Engines /\ \A f \in Engines \ {e} : eng'[f] = eng[f]
        /\ DOMAIN eng'[e] = Fields /\ eng'[e].fifo = eng[e].fifo
        /\ eng'[e].regs = eng[e].regs /\ eng'[e].cpu = eng[e].cpu
    BY <1>1, <2>1 DEF EngineOK, Fields
  <2>3. EngineOK(eng'[e])
    BY <1>1, <2>2 DEF EngineOK
  <2> QED BY <2>1, <2>2, <2>3 DEF EnginesInv, Started
<1>5. CASE CpuHalts(e)
  <2>1. /\ eng' = [eng EXCEPT ![e].cpu = "halted"] /\ hw' = hw
        /\ executed' = executed \cup {e}
    BY <1>5 DEF CpuHalts
  <2>2. /\ DOMAIN eng' = Engines /\ \A f \in Engines \ {e} : eng'[f] = eng[f]
        /\ DOMAIN eng'[e] = Fields /\ eng'[e].fifo = eng[e].fifo
        /\ eng'[e].regs = eng[e].regs /\ eng'[e].cpu = "halted"
    BY <1>1, <2>1 DEF EngineOK, Fields
  <2>3. EngineOK(eng'[e])
    BY <1>1, <2>2 DEF EngineOK
  <2> QED BY <2>1, <2>2, <2>3 DEF EnginesInv, Started
<1> QED BY <1>2, <1>3, <1>4, <1>5 DEF Engine

LEMMA WriteStep ==
  ASSUME EnginesInv, NEW a, a.kind \in {"Write32", "MaskedWrite"}, Passes(a),
         ExecuteConcreteWrite(a), UNCHANGED << hw, executed >>
  PROVE  /\ EnginesInv'
         /\ eng'[a.engine] = Store(a.engine, a.reg, NewValue(a))
<1>1. a.engine \in Engines /\ a.reg \in Registers
  BY PassedWrite, RulesFit
<1>2. EngineOK(Store(a.engine, a.reg, NewValue(a)))
  BY <1>1, NewValueFits, StoreOK
<1>3. /\ DOMAIN eng' = Engines /\ eng'[a.engine] = Store(a.engine, a.reg, NewValue(a))
      /\ \A f \in Engines \ {a.engine} : eng'[f] = eng[f]
  BY <1>1 DEF ExecuteConcreteWrite, EnginesInv
<1> QED BY <1>1, <1>2, <1>3 DEF EnginesInv

-----------------------------------------------------------------------------
(***************************************************************************)
(* The driver.                                                             *)
(***************************************************************************)

\* The action the driver is at, in a sequence the audit passed.
LEMMA Here ==
  ASSUME PlaceInv, pc \in {"run", "start"}, index <= Len(sequence[phase])
  PROVE  /\ Current \in Actions /\ Passes(Current)
         /\ \A e \in Engines : phase = RunPhase[e] =>
              /\ Current \in Straight
              /\ index = Len(sequence[phase]) => Current = StartAndWait(e)[2]
              /\ index = Len(sequence[phase]) - 1 => Current = StartAndWait(e)[1]
<1>1. /\ phase \in 1..12 /\ index \in Nat \ {0} /\ TwelvePhases(sequence)
      /\ CheckGa102BootSequencePolicy(job, sequence)
  BY DEF PlaceInv, Busy
<1>2. sequence[phase] \in Seq(Actions)
  BY <1>1 DEF TwelvePhases
<1>3. index \in DOMAIN sequence[phase] /\ Current \in Actions
  BY <1>1, <1>2 DEF Current
<1>4. Passes(Current)
  BY <1>1, <1>3, AuditedAction DEF Current
<1>5. ASSUME NEW e \in Engines, phase = RunPhase[e]
      PROVE  /\ Current \in Straight
             /\ index = Len(sequence[phase]) => Current = StartAndWait(e)[2]
             /\ index = Len(sequence[phase]) - 1 => Current = StartAndWait(e)[1]
  <2>1. RunsLast(sequence[phase], e)
    BY <1>1, <1>5 DEF TwelvePhases
  <2> QED BY <1>1, <2>1 DEF RunsLast, Current
<1> QED BY <1>3, <1>4, <1>5

\* A step to the next action.
LEMMA NextPlace ==
  ASSUME PlaceInv, pc \in {"run", "start"}, pc' = "run", index' = index + 1,
         UNCHANGED << job, sequence, phase, cpuCtl, hw >>, skipping' \in BOOLEAN
  PROVE  PlaceInv'
BY DEF PlaceInv, Busy

LEMMA NextRan ==
  ASSUME PlaceInv, NEW e \in Engines, RanInv(e), pc \in {"run", "start"}, pc' = "run",
         index <= Len(sequence[phase]), index' = index + 1,
         UNCHANGED << sequence, phase, executed >>,
         phase = RunPhase[e] =>
           /\ ~skipping'
           /\ index = Len(sequence[phase]) - 1 => Started(e)'
           /\ index = Len(sequence[phase]) => e \in executed
  PROVE  RanInv(e)'
<1>1. index \in Nat
  BY DEF PlaceInv
<1>2. phase > RunPhase[e] => e \in executed
  BY DEF RanInv
<1>3. CASE phase = RunPhase[e]
  <2>1. Len(sequence[phase]) \in Nat
    BY DEF PlaceInv, TwelvePhases
  <2> QED BY <1>1, <1>2, <1>3, <2>1 DEF RanInv, Started
<1>4. CASE phase # RunPhase[e]
  BY <1>2, <1>4 DEF RanInv
<1> QED BY <1>3, <1>4

\* A step that does not move the driver, or ends it in a failure.
LEMMA StayRan ==
  ASSUME NEW e \in Engines, RanInv(e), Started(e) => Started(e)', executed \subseteq executed',
         UNCHANGED << sequence, phase, index, skipping >>,
         \/ pc' = pc \/ pc' \in {"refused", "failed", "enter"}
         \/ pc = "run" /\ pc' = "start"
  PROVE  RanInv(e)'
BY DEF RanInv, Started

LEMMA AuditKeeps == ASSUME LoadIInv, AuditSequence PROVE LoadIInv'
<1>1. /\ pc = "audit" /\ pc' = IF CheckGa102BootSequencePolicy(job, sequence) THEN "enter" ELSE "refused"
      /\ UNCHANGED << job, sequence, phase, index, skipping, cpuCtl, hw, eng, executed >>
  BY DEF AuditSequence
<1>2. EnginesInv'
  BY <1>1 DEF LoadIInv, EnginesInv
<1>3. PlaceInv'
  BY <1>1 DEF LoadIInv, PlaceInv, Busy
<1>4. ASSUME NEW e \in Engines PROVE RanInv(e)'
  BY <1>1, StayRan DEF LoadIInv, Started
<1> QED BY <1>2, <1>3, <1>4 DEF LoadIInv

LEMMA EnterKeeps == ASSUME LoadIInv, EnterPlan PROVE LoadIInv'
<1>1. /\ pc = "enter" /\ index' = 1 /\ skipping' = FALSE
      /\ UNCHANGED << job, sequence, phase, cpuCtl, hw, eng, executed >>
  BY DEF EnterPlan
<1>2. pc' = "run"
  BY AuditedAction DEF EnterPlan, LoadIInv, PlaceInv, Busy
<1>3. EnginesInv'
  BY <1>1 DEF LoadIInv, EnginesInv
<1>4. PlaceInv'
  <2>1. skipping' \in BOOLEAN
    BY <1>1
  <2> QED BY <1>1, <1>2, <2>1 DEF LoadIInv, PlaceInv, Busy
<1>5. ASSUME NEW e \in Engines PROVE RanInv(e)'
  <2>1. Len(sequence[RunPhase[e]]) \in Nat \ {0, 1, 2}
    BY <1>1 DEF LoadIInv, PlaceInv, TwelvePhases, RunsLast
  <2>2. phase > RunPhase[e] => e \in executed
    BY DEF LoadIInv, RanInv
  <2> QED BY <1>1, <1>2, <2>1, <2>2 DEF RanInv
<1> QED BY <1>3, <1>4, <1>5 DEF LoadIInv

LEMMA LeaveKeeps == ASSUME LoadIInv, LeavePlan PROVE LoadIInv'
<1>1. /\ pc = "run" /\ index > Len(sequence[phase])
      /\ UNCHANGED << job, sequence, index, skipping, cpuCtl, hw, eng, executed >>
      /\ IF phase = Len(sequence) THEN pc' = "done" /\ phase' = phase
         ELSE pc' = "enter" /\ phase' = phase + 1
  BY DEF LeavePlan
<1>2. EnginesInv'
  BY <1>1 DEF LoadIInv, EnginesInv
<1>3. phase \in 1..12 /\ index \in Nat /\ Len(sequence) = 12
      /\ Len(sequence[phase]) \in Nat
  BY <1>1 DEF LoadIInv, PlaceInv, TwelvePhases
<1>4. PlaceInv'
  BY <1>1, <1>3 DEF LoadIInv, PlaceInv, Busy
<1>5. ASSUME NEW e \in Engines PROVE RanInv(e)'
  <2>1. RunPhase[e] \in {3, 8}
    BY DEF RunPhase, Engines
  <2>2. phase > RunPhase[e] => e \in executed
    BY DEF LoadIInv, RanInv
  <2>3. phase = RunPhase[e] => e \in executed
    BY <1>1, <1>3 DEF LoadIInv, RanInv
  <2>4. phase' > RunPhase[e] \/ pc' = "done" => e \in executed'
    BY <1>1, <1>3, <2>1, <2>2, <2>3
  <2>5. pc' \notin {"run", "start"}
    BY <1>1
  <2> QED BY <2>4, <2>5 DEF RanInv
<1> QED BY <1>2, <1>4, <1>5 DEF LoadIInv

LEMMA FailKeeps == ASSUME LoadIInv, Fail PROVE LoadIInv'
<1>1. /\ pc' = "failed" /\ pc \in {"run", "start"}
      /\ UNCHANGED << job, sequence, phase, index, skipping, cpuCtl, hw, eng, executed >>
  BY DEF Fail, At
<1>2. EnginesInv'
  BY <1>1 DEF LoadIInv, EnginesInv
<1>3. PlaceInv'
  BY <1>1 DEF LoadIInv, PlaceInv, Busy
<1>4. ASSUME NEW e \in Engines PROVE RanInv(e)'
  BY <1>1, StayRan DEF LoadIInv, Started
<1> QED BY <1>2, <1>3, <1>4 DEF LoadIInv

LEMMA EngineKeeps == ASSUME LoadIInv, NEW e \in Engines, Engine(e) PROVE LoadIInv'
<1>1. UNCHANGED << job, sequence, pc, phase, index, skipping, cpuCtl, hw >>
  BY DEF Engine, Transfer, ScrubDone, BcrBecomesValid, CpuHalts, driver
<1>2. EnginesInv' /\ \A f \in Engines : Started(f) => Started(f)'
  BY EngineStep DEF LoadIInv
<1>3. executed \subseteq executed'
  BY DEF Engine, Transfer, ScrubDone, BcrBecomesValid, CpuHalts
<1>4. PlaceInv'
  BY <1>1 DEF LoadIInv, PlaceInv, Busy, Current
<1>5. ASSUME NEW f \in Engines PROVE RanInv(f)'
  BY <1>1, <1>2, <1>3, StayRan DEF LoadIInv
<1> QED BY <1>2, <1>4, <1>5 DEF LoadIInv

LEMMA WriteKeeps == ASSUME LoadIInv, StepWrite PROVE LoadIInv'
<1>1. /\ pc = "run" /\ index <= Len(sequence[phase]) /\ ExecuteConcreteWrite(Current)
      /\ Current.kind \in {"Write32", "MaskedWrite"} /\ ~skipping
      /\ UNCHANGED << job, sequence, pc, phase, cpuCtl, skipping, hw, executed >>
      /\ index' = index + 1
  BY DEF StepWrite, At, Advance
<1>2. Passes(Current)
  BY <1>1, Here DEF LoadIInv
<1>3. EnginesInv'
  BY <1>1, <1>2, WriteStep DEF LoadIInv
<1>4. PlaceInv'
  BY <1>1, NextPlace DEF LoadIInv, PlaceInv
<1>5. ASSUME NEW e \in Engines PROVE RanInv(e)'
  <2>1. phase = RunPhase[e] => index # Len(sequence[phase]) /\ index # Len(sequence[phase]) - 1
    BY <1>1, Here DEF LoadIInv, StartAndWait, Act, AddPoll
  <2> QED BY <1>1, <2>1, NextRan DEF LoadIInv
<1> QED BY <1>3, <1>4, <1>5 DEF LoadIInv

\* The poll that follows the start is satisfied by a processor that halted, and so ran.
LEMMA PollKeeps == ASSUME LoadIInv, StepPoll PROVE LoadIInv'
<1>1. /\ pc = "run" /\ index <= Len(sequence[phase]) /\ Current.kind = "PollMaskEqual"
      /\ ~skipping /\ Read(Current.engine, Current.reg) \cap Current.mask = Current.value
      /\ UNCHANGED << job, sequence, pc, phase, cpuCtl, skipping, hw, eng, executed >>
      /\ index' = index + 1
  BY DEF StepPoll, At, Advance
<1>2. EnginesInv'
  BY <1>1 DEF LoadIInv, EnginesInv
<1>3. PlaceInv'
  BY <1>1, NextPlace DEF LoadIInv, PlaceInv
<1>4. ASSUME NEW e \in Engines PROVE RanInv(e)'
  <2>1. phase = RunPhase[e] => index # Len(sequence[phase]) - 1
    BY <1>1, Here DEF LoadIInv, StartAndWait, Act
  <2>2. ASSUME phase = RunPhase[e], index = Len(sequence[phase]) PROVE e \in executed
    <3>1. Current = StartAndWait(e)[2]
      BY <1>1, <2>2, Here DEF LoadIInv
    <3>2. Current.engine = e /\ Current.reg = "CpuCtl" /\ Current.mask = {4} /\ Current.value = {4}
      BY <3>1 DEF StartAndWait, AddPoll, Act
    <3>3. 4 \in Read(e, "CpuCtl")
      BY <1>1, <3>2
    <3>4. eng[e].cpu = "halted"
      BY <3>3 DEF Read
    <3>5. eng[e].cpu = "running" \/ e \in executed
      BY <1>1, <2>2 DEF LoadIInv, RanInv
    <3> QED BY <3>4, <3>5
  <2> QED BY <1>1, <2>1, <2>2, NextRan DEF LoadIInv
<1> QED BY <1>2, <1>3, <1>4 DEF LoadIInv

LEMMA DelayKeeps == ASSUME LoadIInv, StepDelay PROVE LoadIInv'
<1>1. /\ pc = "run" /\ index <= Len(sequence[phase]) /\ Current.kind = "DelayMilliseconds"
      /\ ~skipping
      /\ UNCHANGED << job, sequence, pc, phase, cpuCtl, skipping, hw, eng, executed >>
      /\ index' = index + 1
  BY DEF StepDelay, At, Advance
<1>2. EnginesInv'
  BY <1>1 DEF LoadIInv, EnginesInv
<1>3. PlaceInv'
  BY <1>1, NextPlace DEF LoadIInv, PlaceInv
<1>4. ASSUME NEW e \in Engines PROVE RanInv(e)'
  <2>1. phase # RunPhase[e]
    BY <1>1, Here DEF LoadIInv, Straight, ActionsOf
  <2> QED BY <1>1, <2>1, NextRan DEF LoadIInv
<1> QED BY <1>2, <1>3, <1>4 DEF LoadIInv

LEMMA IfKeeps == ASSUME LoadIInv, StepIf PROVE LoadIInv'
<1>1. /\ pc = "run" /\ index <= Len(sequence[phase]) /\ Current.kind = "IfMaskEqualBegin"
      /\ UNCHANGED << job, sequence, pc, phase, cpuCtl, hw, eng, executed >>
      /\ index' = index + 1
  BY DEF StepIf, At, Advance
<1>2. skipping' \in BOOLEAN
  BY DEF StepIf
<1>3. EnginesInv'
  BY <1>1 DEF LoadIInv, EnginesInv
<1>4. PlaceInv'
  BY <1>1, <1>2, NextPlace DEF LoadIInv
<1>5. ASSUME NEW e \in Engines PROVE RanInv(e)'
  <2>1. phase # RunPhase[e]
    BY <1>1, Here DEF LoadIInv, Straight, ActionsOf
  <2> QED BY <1>1, <2>1, NextRan DEF LoadIInv
<1> QED BY <1>3, <1>4, <1>5 DEF LoadIInv

LEMMA EndIfKeeps == ASSUME LoadIInv, StepEndIf PROVE LoadIInv'
<1>1. /\ pc = "run" /\ index <= Len(sequence[phase]) /\ Current.kind = "EndIf"
      /\ UNCHANGED << job, sequence, pc, phase, cpuCtl, hw, eng, executed >>
      /\ index' = index + 1
  BY DEF StepEndIf, At, Advance
<1>2. skipping' \in BOOLEAN
  BY DEF StepEndIf
<1>3. EnginesInv'
  BY <1>1 DEF LoadIInv, EnginesInv
<1>4. PlaceInv'
  BY <1>1, <1>2, NextPlace DEF LoadIInv
<1>5. ASSUME NEW e \in Engines PROVE RanInv(e)'
  <2>1. phase # RunPhase[e]
    BY <1>1, Here DEF LoadIInv, Straight, ActionsOf
  <2> QED BY <1>1, <2>1, NextRan DEF LoadIInv
<1> QED BY <1>3, <1>4, <1>5 DEF LoadIInv

LEMMA SkipKeeps == ASSUME LoadIInv, StepSkip PROVE LoadIInv'
<1>1. /\ pc = "run" /\ index <= Len(sequence[phase]) /\ skipping
      /\ UNCHANGED << job, sequence, pc, phase, cpuCtl, skipping, hw, eng, executed >>
      /\ index' = index + 1
  BY DEF StepSkip, Advance
<1>2. EnginesInv'
  BY <1>1 DEF LoadIInv, EnginesInv
<1>3. PlaceInv'
  BY <1>1, NextPlace DEF LoadIInv, PlaceInv
<1>4. ASSUME NEW e \in Engines PROVE RanInv(e)'
  <2>1. phase # RunPhase[e]
    BY <1>1 DEF LoadIInv, RanInv
  <2> QED BY <1>1, <2>1, NextRan DEF LoadIInv
<1> QED BY <1>2, <1>3, <1>4 DEF LoadIInv

LEMMA ReadKeeps == ASSUME LoadIInv, ReadCpuCtl PROVE LoadIInv'
<1>1. /\ pc = "run" /\ index <= Len(sequence[phase])
      /\ Current.kind = "StartCpuRespectAlias" /\ pc' = "start"
      /\ cpuCtl' = Read(Current.engine, Current.reg)
      /\ UNCHANGED << job, sequence, phase, index, skipping, hw, eng, executed >>
  BY DEF ReadCpuCtl, At
<1>2. Passes(Current)
  BY <1>1, Here DEF LoadIInv
<1>3. Current.engine \in Engines /\ Current.reg = "CpuCtl"
  BY <1>1, <1>2, PassedStart
<1>4. EnginesInv'
  BY <1>1 DEF LoadIInv, EnginesInv
<1>5. cpuCtl' \in SUBSET All
  BY <1>1, <1>3, ReadFits, Named DEF LoadIInv
<1>6. 6 \in cpuCtl' <=> hw[Current.engine].alias
  BY <1>1, <1>3 DEF Read
<1>7. Current' = Current
  BY <1>1 DEF Current
<1>8. PlaceInv'
  BY <1>1, <1>5, <1>6, <1>7 DEF LoadIInv, PlaceInv, Busy
<1>9. ASSUME NEW e \in Engines PROVE RanInv(e)'
  BY <1>1, StayRan DEF LoadIInv, Started
<1> QED BY <1>4, <1>8, <1>9 DEF LoadIInv

\* The start goes where the snapshot says, which is where the engine takes it.
LEMMA StartKeeps == ASSUME LoadIInv, StartCpu PROVE LoadIInv'
<1> DEFINE a == ResolveGa102StartCpuAction(Current, cpuCtl)
<1>1. /\ pc = "start" /\ index <= Len(sequence[phase])
      /\ Current.kind = "StartCpuRespectAlias"
      /\ 6 \in cpuCtl <=> hw[Current.engine].alias
      /\ UNCHANGED << job, sequence, phase, skipping, cpuCtl, hw, executed >>
  BY DEF StartCpu, LoadIInv, PlaceInv
<1>2. Passes(Current)
  BY <1>1, Here DEF LoadIInv
<1>3. Current.engine \in Engines
  BY <1>1, <1>2, PassedStart
<1>4. /\ CheckGa102ActionPolicy(a) = "Allowed" /\ a.engine = Current.engine
      /\ a.reg \in {"CpuCtl", "CpuCtlAlias"}
      /\ a.reg = "CpuCtlAlias" <=> 6 \in cpuCtl
      /\ a.kind \in {"Write32", "MaskedWrite"} /\ a.value = {1} /\ a.mask = {1}
  BY <1>3, ResolvedStart
<1>5. pc' = "run" /\ index' = index + 1 /\ ExecuteConcreteWrite(a)
  BY <1>4 DEF StartCpu
<1> HIDE DEF a
<1>6. EnginesInv' /\ eng'[a.engine] = Store(a.engine, a.reg, NewValue(a))
  BY <1>1, <1>4, <1>5, WriteStep DEF LoadIInv, Passes
<1>7. 1 \in NewValue(a)
  BY <1>4 DEF NewValue
<1>8. eng'[Current.engine].cpu = "running"
  BY <1>1, <1>3, <1>4, <1>6, <1>7, StartRuns DEF LoadIInv
<1>9. PlaceInv'
  BY <1>1, <1>5, NextPlace DEF LoadIInv, PlaceInv
<1>10. ASSUME NEW e \in Engines PROVE RanInv(e)'
  <2>1. ASSUME phase = RunPhase[e] PROVE index # Len(sequence[phase]) /\ ~skipping'
    BY <1>1, <2>1, Here DEF LoadIInv, RanInv, StartAndWait, AddPoll, Act
  <2>2. ASSUME phase = RunPhase[e], index = Len(sequence[phase]) - 1 PROVE Started(e)'
    <3>1. Current.engine = e
      BY <1>1, <2>2, Here DEF LoadIInv, StartAndWait, Act
    <3> QED BY <1>8, <3>1 DEF Started
  <2> QED BY <1>1, <1>5, <2>1, <2>2, NextRan DEF LoadIInv
<1> QED BY <1>6, <1>9, <1>10 DEF LoadIInv

-----------------------------------------------------------------------------
(***************************************************************************)
(* The theorems.                                                           *)
(***************************************************************************)

LEMMA LoadInitInv == LoadInit => LoadIInv
<1> SUFFICES ASSUME LoadInit PROVE LoadIInv
  OBVIOUS
<1>1. /\ job \in Jobs /\ sequence = PlanBootSequence(job) /\ phase = 1 /\ index = 1
      /\ pc = (IF sequence = << >> THEN "refused" ELSE "audit")
      /\ skipping = FALSE /\ cpuCtl = {} /\ executed = {}
      /\ eng = [e \in Engines |-> Restarted(e)]
      /\ hw \in [Engines -> [riscv : BOOLEAN, alias : BOOLEAN, reset : ResetValues]]
  BY DEF LoadInit
<1>2. hw \in [Engines -> [riscv : BOOLEAN, alias : BOOLEAN, reset : SUBSET All]]
  BY <1>1, LoadAssumption
<1>3. ASSUME NEW e \in Engines PROVE EngineOK(eng[e])
  BY <1>1, <1>2, RestartedOK
<1>4. EnginesInv
  BY <1>1, <1>2, <1>3 DEF EnginesInv
<1>5. pc # "refused" => TwelvePhases(sequence)
  BY <1>1, SequenceShape, LoadAssumption
<1>6. skipping \in BOOLEAN
  BY <1>1
<1>7. PlaceInv
  BY <1>1, <1>5, <1>6 DEF PlaceInv, Busy
<1>8. ASSUME NEW e \in Engines PROVE RanInv(e)
  BY <1>1 DEF RanInv, RunPhase, Engines
<1> QED BY <1>4, <1>7, <1>8 DEF LoadIInv

LEMMA LoadNextInv == LoadIInv /\ [LoadNext]_loadVars => LoadIInv'
<1> SUFFICES ASSUME LoadIInv, [LoadNext]_loadVars PROVE LoadIInv'
  OBVIOUS
<1>1. CASE Driver
  BY <1>1, AuditKeeps, EnterKeeps, LeaveKeeps, WriteKeeps, PollKeeps, DelayKeeps, IfKeeps,
     EndIfKeeps, SkipKeeps, ReadKeeps, StartKeeps DEF Driver
<1>2. CASE Fail
  BY <1>2, FailKeeps
<1>3. CASE \E e \in Engines : Engine(e)
  BY <1>3, EngineKeeps
<1>4. CASE UNCHANGED loadVars
  BY <1>4 DEF loadVars, driver, LoadIInv, EnginesInv, PlaceInv, RanInv, Current, Busy
<1> QED BY <1>1, <1>2, <1>3, <1>4 DEF LoadNext

LEMMA Invariant == LoadSpec => []LoadIInv
BY LoadInitInv, LoadNextInv, PTL DEF LoadSpec

\* A sequence the audit of BeginBootAttempt passed is executed to its end: no check
\* RTXMacExecuteFalconPlan repeats, of a plan, of an action or of the start it resolves from
\* CPUCTL, denies what the audit allowed, whatever the engines read back.
THEOREM AuditedNeverDenied == LoadSpec => []AuditedSequenceIsNeverDenied
<1>1. LoadIInv => AuditedSequenceIsNeverDenied
  <2> SUFFICES ASSUME LoadIInv PROVE AuditedSequenceIsNeverDenied
    OBVIOUS
  <2>1. pc # "denied"
    BY DEF LoadIInv, PlaceInv
  <2>2. ASSUME At({"Write32", "MaskedWrite"}) PROVE CheckGa102ActionPolicy(Current) = "Allowed"
    BY <2>2, Here, PassedWrite DEF LoadIInv, At
  <2> QED BY <2>1, <2>2 DEF AuditedSequenceIsNeverDenied
<1> QED BY <1>1, Invariant, PTL

\* A boot that comes to its end has run FWSEC on the GSP and the booter on SEC2: the poll
\* for a halted processor of PlanAuthenticatedExecution is never satisfied by one that did
\* not start, because the start went where bit 6 of CPUCTL said.
THEOREM DoneRanBoth == LoadSpec => []DoneMeansBothRan
<1>1. LoadIInv => DoneMeansBothRan
  BY DEF LoadIInv, RanInv, EnginesInv, DoneMeansBothRan
<1> QED BY <1>1, Invariant, PTL

\* The executor's position and the engines keep their types, and the transfer queue of an
\* engine never holds more than QueueDepth commands.
THEOREM FalconTypes == LoadSpec => []TypeOK
<1>1. LoadIInv => TypeOK
  BY DEF LoadIInv, PlaceInv, EnginesInv, EngineOK, TypeOK
<1> QED BY <1>1, Invariant, PTL

=============================================================================
