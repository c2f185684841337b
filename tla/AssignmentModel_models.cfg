SPECIFICATION AllocationSpec
CONSTANTS
  absent = absent
  Absent = absent
  Most = 4
  Specs <- ModelSpecs
CHECK_DEADLOCK FALSE
INVARIANTS
  AllocationTypeOK
  PlansKeepConstraints PlansAreBest InfeasibleMeansNoPlan RejectionsAreSound
  ExplanationsMatchTheModel
  AmountsKeepConstraints AmountsAreBest
