SPECIFICATION TextSpec
CONSTANTS
  None = None
  Requests <- MCRequests
  MaxInt <- MCMaxInt
  Runs <- MCRuns
  Texts <- MCTexts
  Times <- MCTimes
INVARIANTS
  TypeOK
  GateIsTheDocs
  BlockIsAnError
  PrimaryCauseStandsAlone
  TextIsAcceptedIffLegal
  WrittenTextReadsBack
  ReadIffGrammar
CHECK_DEADLOCK FALSE
