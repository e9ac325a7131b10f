CONSTANTS
  Threads = {t1, t2}
  ExceptionThreads = {t1}
  NCols = 2
  StringColumns = {2}
  BufSize = 2
  Failures = {"query", "before", "after", "memory", "alloc", "close"}
  MaxFailures = 2
  MaxShells = 1
  MaxRows = 3
  NoThread = NoThread
  Fill = Fill
SPECIFICATION Spec
INVARIANTS Aligned HolesOnlyShift FileConsistent NothingLeftBehind CapacityUntilFailure
PROPERTIES ImplementsTable FlushSurvived MutexReleased DestructorEnds
CHECK_DEADLOCK FALSE
