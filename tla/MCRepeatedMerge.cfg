\* docs/IMPLEMENT.md:186 against policies that share their sort key.
SPECIFICATION NewSpec
CONSTANTS
  ov = ov
  supp = supp
  a1 = a1
  p1 = p1
  p2 = p2
  r1 = r1
  path = path
  film = film
  None = None
  Uuid <- MCUuid
  UuidRank <- MCUuidRank
  PklId = {p1, p2}
  ReelId = {r1}
  Rate = {film}
  Path = {path}
  PolicyId <- MCPolicyId
  Requests <- MCRequests
INVARIANT OrderDoesNotMatter
CHECK_DEADLOCK FALSE
