SPECIFICATION Spec
CONSTANTS
  Callers <- MCFlows
  MaxRestarts = 3
  p = p
  q = q
  Projects = {p, q}
  NoProject = NoProject
  Packaged <- MCPackaged
  Constrained <- MCHosts
  Overlaps = FALSE
  Parts = 2
  MaxOperations = 2
INVARIANTS OneWorker LoadedIsCommitted SuccessIsLoaded UploadIsOwn
PROPERTIES ImplementsCalls OperationsEnd
CHECK_DEADLOCK FALSE
