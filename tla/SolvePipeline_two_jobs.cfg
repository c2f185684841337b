SPECIFICATION Spec
CONSTANTS
  t1 = t1
  t2 = t2
  j1 = j1
  j2 = j2
  s1 = s1
  s2 = s2
  vans = vans
  costs = costs
  q1 = q1
  none = none
  Threads = {t1}
  Jobs = {j1, j2}
  Specs = {s1}
  Mappings = {vans}
  PairwiseTables = {costs}
  Ambiguities = {q1}
  NoSpec = none
  MaxRev = 1
SYMMETRY JobSymmetry
INVARIANTS
  StageTellsTheTruth
CHECK_DEADLOCK FALSE
