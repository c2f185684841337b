SPECIFICATION Spec
CONSTANTS
    j1 = j1
    j2 = j2
    none = none
    Jobs = {j1, j2}
    None = none
    MaxFaults = 1
INVARIANTS TypeOK QuietTabIsCurrent OneSolveAtATime TransientStageHasAJob CancelReachesItsJob
PROPERTIES SolveReturns
CHECK_DEADLOCK FALSE
