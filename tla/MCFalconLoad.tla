---------------------------- MODULE MCFalconLoad ----------------------------
(***************************************************************************)
(* FalconLoad on words of 17 bits (DMA command needs bit 16) and blocks of *)
(* 4 bytes.  The images lie above 2^19, so that the high half of the DMA   *)
(* base is used.  The second job has no code offset in common with the     *)
(* first; the third has an image the base cannot reach and the fourth a    *)
(* LibOS page that is not aligned, which the planner refuses; the fifth    *)
(* has its LibOS page at zero and the last loads code where the memory     *)
(* offset is too narrow, which the planner accepts and the audit refuses.  *)
(* A page has 32 bytes.                                                    *)
(***************************************************************************)
EXTENDS FalconLoad

FirstJob ==
  [frtsImage |-> 2^19 + 64, sec2Image |-> 2^20 + 128, wprMetadata |-> 2^18 + 32,
   libos |-> 2^17 + 96, chip |-> 372, appVersion |-> 5,
   fwsec |-> [imemLoadSize |-> 12, dmemLoadSize |-> 4, imemPhysBase |-> 0,
              imemVirtBase |-> 0, dmemPhysBase |-> 4, pkcDataOffset |-> 12,
              engineIdMask |-> 4, ucodeId |-> 9],
   sec2 |-> [codeOffset |-> 8, codeSize |-> 8, dataOffset |-> 16, dataSize |-> 8]]

MCJobs ==
  { FirstJob,
    [FirstJob EXCEPT !.fwsec.dmemLoadSize = 8, !.sec2.codeOffset = 16,
                     !.sec2.codeSize = 4, !.sec2.dataOffset = 0],
    [FirstJob EXCEPT !.sec2Image = 2^21],
    [FirstJob EXCEPT !.libos = 2^17 + 100],
    [FirstJob EXCEPT !.libos = 0],
    [FirstJob EXCEPT !.fwsec.imemPhysBase = 64] }

MCResetValues == {{11}}

=============================================================================
