\* Every field of a plan but status is altered (see SuccessMeansSwitched).
SPECIFICATION GateSpec
CONSTANTS
  AlteredFields = { "newValue", "requestedSetMask", "changedMask", "rollbackValue" }
  MaxCalls = 2
  MaxPlatformWrites = 1
  PageBytes = 2
  PhaseCount = 12
  Digests = {0, 1, 2}
  Identities = {0, 1, 2}
  Addresses = {0, 2, 3, 4}
  Nonces = {0, 1, 2}
  MaxChanges = 2
  HeldChanges = 0
INVARIANTS
  UnrelatedBitsPreserved
  ResultIsTrue
  ArmedExactlyWhenAnswered
CHECK_DEADLOCK FALSE
