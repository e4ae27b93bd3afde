CONSTANTS
  Granule = 2
  LoSize = 4
  HiSize = 2
  PageBytes = 4
  Addresses = { 0, 2, 4, 12 }
  OwnerAddress = 8
  MaxPlans = 2
  MaxOwnerWrites = 1
SPECIFICATION Spec
INVARIANTS
  SuccessMeansSwitched
  TornStateIsReported
