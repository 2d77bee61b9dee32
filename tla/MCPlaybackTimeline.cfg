SPECIFICATION Spec
CONSTANTS
  cpl = cpl
  a1 = a1
  p1 = p1
  p2 = p2
  r1 = r1
  r2 = r2
  path = path
  Empty = Empty
  None = None
  Uuid <- MCUuid
  PklId <- MCPklId
  ReelId <- MCReelId
  Rate <- MCRate
  Path <- MCPath
  Graphs <- MCGraphs
INVARIANTS
  TypeOK
  BuiltIffShowReady
  TimelineIsTheGraph
  SpecificDiagnosticWins
CHECK_DEADLOCK FALSE
