SPECIFICATION Spec
CONSTANTS
  absent = absent
  text = text
  m1 = m1
  m2 = m2
  Absent = absent
  Text = text
  Specs <- ModelSpecs
  Latest = 6
CHECK_DEADLOCK FALSE
INVARIANTS TypeOK SchedulesKeepConstraints HorizonSuffices
