CONSTANTS
  PageBytes = 8
  PteBytes = 1
  kRadixEntriesPerPage = 2
  kProtocolOverheadBytes = 2
  MaxElements = 4
  SystemInfoBytes = 3
  LogPages = 2
  MaxFrame = 46
  Inputs <- MCInputs
SPECIFICATION Spec
INVARIANTS
  PaddedImageIsPopulated
CHECK_DEADLOCK FALSE
