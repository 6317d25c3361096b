\* One file of every kind, deployed in any order, and two jobs.
CONSTANTS
  Files <- MCFiles
  Kind <- MCKind
  Jobs = {j1, j2}
SPECIFICATION Spec
INVARIANTS
  TypeOK
  RecordedIsApplied
  NothingRunsPastAFailure
  ReportedOnce
PROPERTIES
  RerunnableFilesAreRecorded
CHECK_DEADLOCK FALSE
