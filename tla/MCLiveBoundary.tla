--------------------------- MODULE MCLiveBoundary ---------------------------
(***************************************************************************)
(* LiveBoundary for TLC.  The unit is half a page; the MiB is 8 pages.     *)
(* The packages have images of every alignment, a card size that is not a  *)
(* multiple of the region's alignment, one too small, and images too large *)
(* for the room below the region.                                          *)
(***************************************************************************)
EXTENDS LiveBoundary

Package(vram, bootloader, firmware, fwsec, sec2) ==
  [vram |-> vram, bootloader |-> bootloader, firmware |-> firmware,
   fwsec |-> fwsec, sec2 |-> sec2]

MCPackages ==
  { Package(160, 3, 9, 5, 3), Package(160, 4, 8, 2, 2),
    Package(168, 1, 12, 7, 1), Package(164, 1, 9, 1, 1),
    Package(160, 3, 60, 5, 3), Package(160, 3, 9, 60, 3),
    Package(100, 1, 1, 1, 1) }

\* Addresses 0, 60, 118, 142, 144, 152 and 158, two of them with flag bits.
MCLockRegs == {0, 16 * 30, 16 * 59 + 15, 16 * 71, 16 * 72 + 1, 16 * 76, 16 * 79}

=============================================================================
