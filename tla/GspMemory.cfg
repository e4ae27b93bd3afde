CONSTANTS
  PageBytes = 8
  PteBytes = 1
  kRadixEntriesPerPage = 2
  kProtocolOverheadBytes = 2
  MaxElements = 4
  SystemInfoBytes = 3
  LogPages = 2
  MaxFrame = 46
  Inputs <- MCInputs
SPECIFICATION Spec
INVARIANTS
  FirmwareReachable
  RegionsAreMapped
  PayloadsAreCarried
  RefusalsAreKnown
\* A session that is refused stays so; GSP-RM stops at an empty ring.
CHECK_DEADLOCK FALSE
