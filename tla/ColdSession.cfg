\* Two sections and two generated buffers, one linear and one not in each, of
\* two chunks.  As many memory objects as buffers, so that all can be held.
CONSTANTS
  Packages = {p1, p2}
  Memories = {m1, m2, m3, m4}
  None = None
  Zero = Zero
  SectionCount = 2
  GeneratedCount = 2
  ArtifactCount = 1
  ChunkCount = 2
  LinearSections = {2}
  LinearGenerated = {1}
  Reused = {2}
SPECIFICATION Spec
INVARIANTS
  EveryObjectOwnedOnce
  ReadyPackageIsVisible
  ReadySessionIsConsistent
  NotReadyHoldsNothing
PROPERTIES
  ImplementsColdClient
