SPECIFICATION Spec
CONSTANTS
  CommCells <- MCCommCells
  SampleLimit = 2
  MaxEdits = 1
  MaxJobs = 2
INVARIANTS LicensesOfOneOrganisation
CHECK_DEADLOCK FALSE
