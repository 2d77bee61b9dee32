SPECIFICATION Spec
CONSTANTS
  ov = ov
  supp1 = supp1
  supp2 = supp2
  a1 = a1
  a2 = a2
  x = x
  p1 = p1
  p2 = p2
  p3 = p3
  r1 = r1
  r2 = r2
  path = path
  film = film
  fast = fast
  None = None
  Uuid <- MCUuid
  UuidRank <- MCUuidRank
  PklId <- MCPklId
  ReelId <- MCReelId
  Rate <- MCRate
  Path <- MCPath
  PolicyId <- MCPolicyId
  Requests <- MCRequests
INVARIANTS
  TypeOK
  MergedMetadataAgrees
  ConflictIsReported
PROPERTY ImplementsOverlay
CHECK_DEADLOCK FALSE
