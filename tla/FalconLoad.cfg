SPECIFICATION FairSpec
CONSTANTS
  WordBits = 17
  Base1Bits = 2
  MemOffsetBits = 6
  kTransferBytes = 4
  kPageBytes = 32
  QueueDepth = 2
  Jobs <- MCJobs
  ResetValues <- MCResetValues
INVARIANTS
  StartedImageIsComplete
  AuditedSequenceIsNeverDenied
  Sec2ResumesReadyGsp
  DoneMeansBothRan
PROPERTIES
  PlansEnd
CHECK_DEADLOCK FALSE
