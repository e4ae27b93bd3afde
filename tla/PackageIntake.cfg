SPECIFICATION Spec
CONSTANTS
  kPayloadAlignment = 8
  kTableEnd = 5
  KnownIdentities <- MCKnownIdentities
  kFrtsReserve = 8
  MaxRegionPages = 10
  kImageRound = 8
  kMapperBytes = 4
  kInitCommandField = 2
  kFrtsCommandBytes = 2
  kRsa3072SignatureBytes = 2
  kGspSignatureBytes = 8
  Sources <- MCSources
  LaterSources <- MCLaterSources
  LiveIds <- MCLiveIds
  MaxBuilds = 2
  MaxChanges = 3
INVARIANTS
  BuiltIsAccepted
  AcceptedIsSound
  SessionMatchesStaged
