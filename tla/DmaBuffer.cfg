SPECIFICATION Spec
CONSTANTS
  PageBytes = 4
  WordBytes = 2
  MaxDmaSegments = 2
  BusPages = 4
  Lengths = {4, 6, 12}
  SourceBytes = {6, 12}
  ReadOffsets = {1, 6, 10}
  Alignments = {4, 8}
  MaxDeviceWrites = 1
INVARIANTS
  PagesAreTheBuffer
  ResolversAgree
  DeviceSeesSource
  ReadSeesDevice
