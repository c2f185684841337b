SPECIFICATION Spec
CONSTANTS
  absent = absent
  Absent = absent
  Most = 0
  Specs <- RoleSpecs
CHECK_DEADLOCK FALSE
INVARIANTS CapacitiesHold
