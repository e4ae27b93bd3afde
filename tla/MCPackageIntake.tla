-------------------------- MODULE MCPackageIntake ---------------------------
(***************************************************************************)
(* PackageIntake with payloads of 3 to 24 bytes, aligned to 8.  The first  *)
(* source is accepted; the second differs in its firmware only; the third  *)
(* is for another GPU; the others meet one of the builder's or the         *)
(* driver's conditions each.                                               *)
(***************************************************************************)
EXTENDS PackageIntake

Bytes(tag, n) == [i \in 1..n |-> tag * 100 + i]

FirstSource ==
  [pci |-> 1, vram |-> 32, firmware |-> Bytes(1, 11), gspSignature |-> Bytes(2, 8),
   boot |-> [parsed |-> TRUE, data |-> Bytes(3, 8), appVersion |-> 5,
             monitorCode |-> 2, monitorData |-> 4, manifest |-> 7],
   fwsec |-> [parsed |-> TRUE, storedSize |-> 23, image |-> Bytes(4, 24),
              signature |-> Bytes(6, 4), imemLoadSize |-> 4, dmemLoadSize |-> 20,
              interfaceOffset |-> 0, headerSize |-> 4, entrySize |-> 8,
              entries |-> << [isMapper |-> TRUE, dmemOffset |-> 12] >>,
              commandOffset |-> 16, commandCapacity |-> 2, pkcDataOffset |-> 18,
              engineIdMask |-> 1, ucodeId |-> 9],
   sec2 |-> [parsed |-> TRUE, data |-> Bytes(5, 8), signatures |-> Bytes(7, 4),
             signatureCount |-> 2, selected |-> 2, patchOffset |-> 3,
             code |-> [offset |-> 0, size |-> 4], osData |-> [offset |-> 4, size |-> 4]]]

MCSources ==
  { FirstSource,
    [FirstSource EXCEPT !.firmware = Bytes(8, 8)],
    [FirstSource EXCEPT !.pci = 2, !.vram = 24],
    [FirstSource EXCEPT !.pci = 3],
    [FirstSource EXCEPT !.vram = 34],
    [FirstSource EXCEPT !.vram = 120],
    [FirstSource EXCEPT !.gspSignature = Bytes(2, 7)],
    [FirstSource EXCEPT !.boot.manifest = 8],
    [FirstSource EXCEPT !.fwsec.dmemLoadSize = 21],
    [FirstSource EXCEPT !.fwsec.engineIdMask = 0],
    [FirstSource EXCEPT !.fwsec.pkcDataOffset = 19],
    [FirstSource EXCEPT !.fwsec.entries = << [isMapper |-> FALSE, dmemOffset |-> 12] >>],
    [FirstSource EXCEPT !.sec2.selected = 3],
    [FirstSource EXCEPT !.sec2.osData.size = 5],
    [FirstSource EXCEPT !.sec2.osData.size = 0] }

MCLaterSources ==
  { FirstSource,
    [FirstSource EXCEPT !.firmware = Bytes(8, 8)],
    [FirstSource EXCEPT !.pci = 2, !.vram = 24] }

MCKnownIdentities == {1, 2}
MCLiveIds == {1, 2}

=============================================================================
