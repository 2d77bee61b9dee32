\* docs/IMPLEMENT.md:159 against two packages that share a pkl_id.
SPECIFICATION Spec
CONSTANTS
  cpl = cpl
  a1 = a1
  a2 = a2
  p1 = p1
  p2 = p2
  p3 = p3
  r1 = r1
  r2 = r2
  path = path
  rate = rate
  None = None
  Uuid <- MCUuid
  PklId <- MCPklId
  ReelId <- MCReelId
  Rate <- MCRate
  Path <- MCPath
  Requests <- MCRequests
INVARIANT MissingAssetIsListedNowhere
CHECK_DEADLOCK FALSE
