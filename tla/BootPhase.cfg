CONSTANTS
  TransferBlocks = 1
  MaxPhaseWait = 3
  PollTimeout = 2
  ResetDelay = 1
SPECIFICATION FairSpec
INVARIANTS
  TypeOK
  LandedWritesAreOnRecord
  DrivenGpuKeepsDmaPinned
  RunnableOnlyOnQuietGpu
PROPERTIES
  ExecutedPhaseIsRecorded
  
  PhaseTerminates
