SPECIFICATION Spec
CONSTANTS
  vans = vans
  shifts = shifts
  nobody = nobody
  Files = {vans, shifts}
  Unserializable = {shifts}
  Nobody = nobody
  MaxRequests = 4
  MaxCrashes = 1
CHECK_DEADLOCK FALSE
INVARIANTS
  TypeOK
  PersistedStageHasResult
  PersistedTablesHaveRows
  QuietStoreIsCurrent
  AckedUploadsSurvive
