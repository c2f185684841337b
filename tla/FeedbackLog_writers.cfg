SPECIFICATION Spec
CONSTANTS
  t1 = t1 t2 = t2 e1 = e1 e2 = e2 e3 = e3 e4 = e4 idle = idle
  assignment = assignment scheduling = scheduling
  p1 = p1 p2 = p2 p3 = p3 p4 = p4
  Threads = {t1, t2}
  Entries = {e1, e2, e3, e4}
  Idle = idle
  ProblemType <- TypeOfEntry
  Preferences <- PreferencesOfEntry
  Limit = 2
  MaxCrashes = 1
INVARIANTS TypeOK QuietLogIsComplete NothingInvented PreferencesAreTheNewest
CHECK_DEADLOCK FALSE
