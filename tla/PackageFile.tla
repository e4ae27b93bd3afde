---------------------------- MODULE PackageFile -----------------------------
(***************************************************************************)
(* The boot package: built from the firmware files on one machine          *)
(* (BuildGa10xPackage, with the FRTS and booter patches of frts.cpp and    *)
(* nvfw.cpp) and parsed, hashed and judged on another (ParseAndVerify,     *)
(* CheckGa10xPackageSemantics).                                            *)
(*                                                                         *)
(* A payload is a sequence of bytes.  The fields of the header, of the     *)
(* metadata and of the section table, each stored and loaded at its own    *)
(* width, are fields of a record; what the container parsers find in a     *)
(* firmware file is given by a source.  Sizes are constants, so that small *)
(* ones show the same alignments and edges.  A digest is the hashed bytes. *)
(***************************************************************************)
EXTENDS Integers, Sequences, FiniteSets

CONSTANTS kPayloadAlignment,       \* 0x1000
          kTableEnd,               \* kSectionTableOffset + 5 * kSectionRecordBytes
          KnownIdentities,         \* identities IsKnownRtx3060Ti accepts
          kFrtsReserve,            \* kFrtsReserveFromVramEnd
          MaxRegionPages,          \* 2^32 - 1
          kImageRound,             \* 256
          kMapperBytes,            \* 64
          kInitCommandField,       \* 44
          kFrtsCommandBytes,       \* 44
          kRsa3072SignatureBytes,  \* 0x180
          kGspSignatureBytes       \* 0x1000

ASSUME PackageAssumption ==
  /\ {kPayloadAlignment, kTableEnd, kImageRound, kFrtsCommandBytes,
      kRsa3072SignatureBytes, kGspSignatureBytes} \subseteq Nat \ {0}
  /\ {kFrtsReserve, MaxRegionPages, kMapperBytes, kInitCommandField} \subseteq Nat
  /\ kInitCommandField < kMapperBytes
  /\ kFrtsReserve % kPayloadAlignment = 0

SectionKinds == 1..5
Firmware == 1
Signature == 2
Bootloader == 3
Fwsec == 4
Sec2 == 5

Fits(total, off, size) == off <= total /\ size <= total - off
AlignUp(v, a) == ((v + a - 1) \div a) * a
Slice(bytes, off, size) == SubSeq(bytes, off + 1, off + size)
Overwrite(bytes, off, part) ==
  [i \in DOMAIN bytes |-> IF i - off \in DOMAIN part THEN part[i - off] ELSE bytes[i]]
Sha256(bytes) == bytes

ByteSeqs == Seq(Nat)
Ranges == [offset : Nat, size : Nat]

\* What a package is built from: the GPU, and the firmware files as the container
\* parsers give them.
SourceFiles ==
  [pci : Nat, vram : Nat, firmware : ByteSeqs, gspSignature : ByteSeqs,
   boot : [parsed : BOOLEAN, data : ByteSeqs, appVersion : Nat, monitorCode : Nat,
           monitorData : Nat, manifest : Nat],
   fwsec : [parsed : BOOLEAN, storedSize : Nat, image : ByteSeqs, signature : ByteSeqs,
            imemLoadSize : Nat, dmemLoadSize : Nat, interfaceOffset : Nat, headerSize : Nat,
            entrySize : Nat, entries : Seq([isMapper : BOOLEAN, dmemOffset : Nat]),
            commandOffset : Nat, commandCapacity : Nat, pkcDataOffset : Nat,
            engineIdMask : Nat, ucodeId : Nat],
   sec2 : [parsed : BOOLEAN, data : ByteSeqs, signatures : ByteSeqs, signatureCount : Nat,
           selected : Nat, patchOffset : Nat, code : Ranges, osData : Ranges]]

-----------------------------------------------------------------------------
(* Patches *)

\* BuildFrtsCommand has a command for this much video memory.
FrtsCommandExists(vram) ==
  LET region == vram - kFrtsReserve
  IN  /\ region >= 0 /\ region % kPayloadAlignment = 0
      /\ region \div kPayloadAlignment <= MaxRegionPages

FrtsCommand == [i \in 1..kFrtsCommandBytes |-> 800 + i]
FrtsCommandId == << 777 >>

\* PlanFwsecFrtsPatch: the places of a VBIOS image to be patched, or none.
\* The mapper is the first interface entry with the id of the DMEM mapper.
PlanFwsecFrtsPatch(f) ==
  LET rounded  == AlignUp(f.storedSize, kImageRound)
      header   == f.imemLoadSize + f.interfaceOffset
      entries  == header + f.headerSize
      mappers  == {i \in DOMAIN f.entries : f.entries[i].isMapper}
      first    == CHOOSE i \in mappers : \A j \in mappers : i <= j
      mapper   == f.imemLoadSize + f.entries[first].dmemOffset
      command  == f.imemLoadSize + f.commandOffset
      sign     == f.imemLoadSize + f.pkcDataOffset
  IN  IF /\ f.storedSize > 0 /\ Len(f.image) >= rounded
         /\ Fits(rounded, header, 4)
         /\ f.headerSize >= 4 /\ f.entrySize >= 8 /\ Len(f.entries) > 0
         /\ Fits(rounded, entries, f.entrySize * Len(f.entries))
         /\ mappers # {} /\ Fits(rounded, mapper, kMapperBytes)
         /\ f.commandCapacity >= kFrtsCommandBytes
         /\ Fits(rounded, command, kFrtsCommandBytes)
         /\ Fits(rounded, sign, kRsa3072SignatureBytes)
         /\ Len(f.signature) >= kRsa3072SignatureBytes
        THEN {[bytes |-> rounded, init |-> mapper + kInitCommandField,
               command |-> command, signature |-> sign]}
        ELSE {}

\* ApplyFwsecFrtsPatch: the command id, the command and the last signature.
ApplyFwsecFrtsPatch(f, plan) ==
  LET image == Slice(f.image, 0, plan.bytes)
      tail  == SubSeq(f.signature, Len(f.signature) - kRsa3072SignatureBytes + 1,
                      Len(f.signature))
  IN  Overwrite(Overwrite(Overwrite(image, plan.init, FrtsCommandId),
                          plan.command, FrtsCommand), plan.signature, tail)

\* PatchBooterProductionSignature: the selected one of the signatures of equal
\* size is put into the data; no result if anything is out of range.
PatchBooterProductionSignature(s) ==
  LET size == Len(s.signatures) \div s.signatureCount
  IN  IF /\ s.signatureCount # 0 /\ Len(s.signatures) # 0
         /\ Len(s.signatures) % s.signatureCount = 0
         /\ Fits(Len(s.signatures), s.selected, size)
         /\ Fits(Len(s.data), s.patchOffset, size)
        THEN {Overwrite(s.data, s.patchOffset, Slice(s.signatures, s.selected, size))}
        ELSE {}

-----------------------------------------------------------------------------
(* Building *)

\* The payloads of a package, or none when a source is refused.
Payloads(s) ==
  {<< s.firmware, s.gspSignature, s.boot.data, ApplyFwsecFrtsPatch(s.fwsec, plan), sec2 >> :
     plan \in PlanFwsecFrtsPatch(s.fwsec), sec2 \in PatchBooterProductionSignature(s.sec2)}

\* The code and the data of the booter lie in its image, or ParseBooterImage refuses.
BooterInRange(s) ==
  \A r \in {s.sec2.code, s.sec2.osData} : r.offset + r.size <= Len(s.sec2.data)

BuildAllowed(s) ==
  /\ s.pci \in KnownIdentities
  /\ FrtsCommandExists(s.vram) /\ s.vram % kPayloadAlignment = 0
  /\ s.fwsec.parsed /\ Len(s.fwsec.signature) > 0
  /\ Len(s.firmware) > 0 /\ Len(s.gspSignature) > 0
  /\ s.boot.parsed /\ Len(s.boot.data) > 0
  /\ s.sec2.parsed /\ BooterInRange(s)
  /\ \E p \in Payloads(s) : \A k \in SectionKinds : Len(p[k]) > 0

StaticMetadata(s) ==
  [pci |-> s.pci, vram |-> s.vram, appVersion |-> s.boot.appVersion,
   monitorCode |-> s.boot.monitorCode, monitorData |-> s.boot.monitorData,
   manifest |-> s.boot.manifest, pkc |-> s.fwsec.pkcDataOffset,
   imem |-> s.fwsec.imemLoadSize, dmem |-> s.fwsec.dmemLoadSize,
   engineIdMask |-> s.fwsec.engineIdMask, ucodeId |-> s.fwsec.ucodeId,
   sec2Code |-> s.sec2.code, sec2Data |-> s.sec2.osData]

\* The cursor of the layout loop: the offsets of the five sections when each starts
\* at the next alignment behind the one before.
Layout(payloads, alignment) ==
  LET at1 == AlignUp(kTableEnd, kPayloadAlignment)
      at2 == AlignUp(at1 + Len(payloads[1]), alignment)
      at3 == AlignUp(at2 + Len(payloads[2]), alignment)
      at4 == AlignUp(at3 + Len(payloads[3]), alignment)
      at5 == AlignUp(at4 + Len(payloads[4]), alignment)
  IN  << at1, at2, at3, at4, at5 >>

\* Mutant: a section starts right behind the one before.
OffsetOfPacked(payloads) == Layout(payloads, 1)

OffsetOf(payloads) == Layout(payloads, kPayloadAlignment)

\* The bytes written: zero where no payload lies.
Contents(payloads, at) ==
  [i \in 1..(at[5] + Len(payloads[5])) |->
     LET here == {k \in SectionKinds : i - at[k] \in DOMAIN payloads[k]}
     IN  IF here = {} THEN 0
         ELSE LET k == CHOOSE k \in here : TRUE IN payloads[k][i - at[k]]]

BuildGa10xPackage(s) ==
  LET payloads == CHOOSE p \in Payloads(s) : TRUE
      at       == OffsetOf(payloads)
      bytes    == Contents(payloads, at)
  IN  [magic |-> TRUE, version |-> 1, layout |-> TRUE, reserved |-> 0,
       packageBytes |-> Len(bytes), metadata |-> StaticMetadata(s),
       records |-> [k \in SectionKinds |->
                      [kind |-> k, reserved |-> 0, offset |-> at[k],
                       size |-> Len(payloads[k]), sha256 |-> Sha256(payloads[k])]],
       bytes |-> bytes]

-----------------------------------------------------------------------------
(* Parsing *)

TargetAllowed(md) ==
  /\ md.pci \in KnownIdentities
  /\ FrtsCommandExists(md.vram) /\ md.vram % kPayloadAlignment = 0

RecordInFile(file, r) ==
  /\ r.size # 0 /\ Fits(Len(file.bytes), r.offset, r.size)
  /\ r.offset >= AlignUp(kTableEnd, kPayloadAlignment)

\* Mutant: only sections that follow each other in the table are compared.
SectionsOverlapNext(records) ==
  \E i \in 1..4 : LET a == records[i]  b == records[i + 1]
                  IN  a.offset < b.offset + b.size /\ b.offset < a.offset + a.size

SectionsOverlap(records) ==
  \E i, j \in SectionKinds :
    LET a == records[i]  b == records[j]
    IN  i < j /\ a.offset < b.offset + b.size /\ b.offset < a.offset + a.size

\* Mutant: the digest of a section is not compared.
HashMatchesAlways(file, r) == Len(Slice(file.bytes, r.offset, r.size)) = r.size

HashMatches(file, r) == Sha256(Slice(file.bytes, r.offset, r.size)) = r.sha256

\* ParseAndVerify: its status.  The records are checked one after the other;
\* of several with a fault any of the reasons may be the one given here.
ParseAndVerify(file) ==
  LET rs == file.records
  IN  IF Len(file.bytes) < kTableEnd THEN "TooSmall"
      ELSE IF ~file.magic THEN "BadMagic"
      ELSE IF file.version # 1 THEN "UnsupportedVersion"
      ELSE IF ~file.layout \/ file.reserved # 0 THEN "BadHeader"
      ELSE IF file.packageBytes # Len(file.bytes) THEN "BadPackageSize"
      ELSE IF ~TargetAllowed(file.metadata) THEN "BadTarget"
      ELSE IF \/ \E i \in SectionKinds : rs[i].reserved # 0
              \/ {rs[i].kind : i \in SectionKinds} # SectionKinds
        THEN "DuplicateOrUnknownSection"
      ELSE IF \E i \in SectionKinds : ~RecordInFile(file, rs[i]) THEN "BadSectionRange"
      ELSE IF \E i \in SectionKinds : rs[i].offset % kPayloadAlignment # 0
        THEN "BadSectionAlignment"
      ELSE IF SectionsOverlap(rs) THEN "OverlappingSections"
      ELSE IF \E i \in SectionKinds : ~HashMatches(file, rs[i]) THEN "HashMismatch"
      ELSE "Ok"

\* FindSection: the payload of the record with this kind, in a parsed file.
FindSection(file, kind) ==
  LET i == CHOOSE i \in SectionKinds : file.records[i].kind = kind
  IN  Slice(file.bytes, file.records[i].offset, file.records[i].size)

\* CheckGa10xPackageSemantics: the metadata fits the payloads it describes.
CheckGa10xPackageSemantics(file) ==
  LET md == file.metadata
      size(kind) == Len(FindSection(file, kind))
  IN  /\ size(Signature) = kGspSignatureBytes
      /\ \A off \in {md.monitorCode, md.monitorData, md.manifest} : off < size(Bootloader)
      /\ md.imem # 0 /\ md.dmem # 0 /\ md.engineIdMask # 0 /\ md.ucodeId # 0
      /\ Fits(size(Fwsec), md.imem, md.dmem)
      /\ Fits(size(Fwsec), md.imem + md.pkc, kRsa3072SignatureBytes)
      /\ \A r \in {md.sec2Code, md.sec2Data} : r.size # 0 /\ Fits(size(Sec2), r.offset, r.size)

=============================================================================
