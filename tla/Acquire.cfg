SPECIFICATION Spec
CONSTANTS
  PageSize = 2
  Reports <- MCReports
  NewRows <- MCNewRows
  Endpoints <- MCEndpoints
  MaxEdits = 2
  MaxJobs = 1
  Files <- MCFiles
  InvalidSelectors <- MCInvalidSelectors
  Seeded <- MCSeeded
  Proposals <- MCProposals
  CommCells <- MCCommCells
INVARIANTS TypeOK RowsAreTheNamedDatasets ParametersBite StoredIsWhole OnlyUnreadRaises NoRawCode RecognitionAgrees
PROPERTIES AcquisitionEnds
CHECK_DEADLOCK FALSE
