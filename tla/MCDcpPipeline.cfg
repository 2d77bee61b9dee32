SPECIFICATION LoadSpec
CONSTANTS
  cpl = cpl
  supp = supp
  a1 = a1
  a2 = a2
  x = x
  p1 = p1
  p2 = p2
  p3 = p3
  r1 = r1
  r2 = r2
  file1 = file1
  file2 = file2
  Empty = Empty
  None = None
  Uuid <- MCUuid
  UuidRank <- MCUuidRank
  PklId <- MCPklId
  ReelId <- MCReelId
  Rate <- MCRate
  Path <- MCPath
  PolicyId <- MCPolicyId
  Shows <- MCShows
  Dcps <- MCDcps
  MaxUint32 <- MCMaxUint32
  MaxUint64 <- MCMaxUint64
INVARIANTS
  TypeOK
  OnlyRatesFailTheTimeline
  TimelineLanesAreBacked
  TimelineFollowsTheCpl
  LoadedIffLegal
  DiagnosticsPointIntoTheDocument
  CheckedPackagesAreBacked
  ReaderAcceptsTheMarkup
CHECK_DEADLOCK FALSE
