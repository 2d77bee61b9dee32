SPECIFICATION Spec
CONSTANTS
  None = None
  WrongType = WrongType
  Identifier <- MCIdentifier
  Uuid <- MCUuid
  LowerCopy <- MCLowerCopy
  Instant <- MCInstant
  UtcTimestamp <- MCUtcTimestamp
  Documents <- MCDocuments
INVARIANTS
  TypeOK
  AcceptedIffLegal
  TamperStateIsLastAccepted
  NestedMissingMeansAbsent
CHECK_DEADLOCK FALSE
