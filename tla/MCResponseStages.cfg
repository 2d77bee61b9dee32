SPECIFICATION Spec
CONSTANTS
  None = None
  WrongType = WrongType
  Empty = ""
  Text <- MCText
  Hex <- MCHex
  Uuid <- MCUuid
  UtcTimestamp <- MCTime
  LowerCopy <- MCLowerCopy
  FieldName <- MCFieldName
  TextList <- MCTextList
  EntryList <- MCEntryList
  Sessions <- MCSessions
INVARIANTS
  RefusedForMoreThanDiagnostics
CHECK_DEADLOCK FALSE
