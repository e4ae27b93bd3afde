CONSTANTS
  Page = 2
  KiB64 = 4
  KiB128 = 8
  MiB = 16
  kVgaWorkspaceBytes = 16
  kFrtsBytes = 16
  kNonWprHeapBytes = 16
  kRequestedWprHeapBytes = 32
  kWprEndMarginBytes = 0
  kFrtsReserveFromVramEnd = 32
  VramSlack = 24
  Packages <- MCPackages
  LockRegs <- MCLockRegs
  MaxMoves = 1
SPECIFICATION BoundarySpec
INVARIANT
  RebuiltLayoutIsUsed
