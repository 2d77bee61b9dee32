\* specs/objects/SecurityEvent.md:78 against an event with one malformed member.
SPECIFICATION Spec
CONSTANTS
  None = None
  WrongType = WrongType
  Identifier <- MCIdentifier
  Uuid <- MCUuid
  LowerCopy <- MCLowerCopy
  Instant <- MCInstant
  UtcTimestamp <- MCUtcTimestamp
  Documents <- MCDocuments
INVARIANT ParsingReportsWhatValidationDoes
CHECK_DEADLOCK FALSE
