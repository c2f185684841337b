SPECIFICATION Spec
CONSTANTS
    f1 = f1
    f2 = f2
    fine = fine
    dup = dup
    blank = blank
    broken = broken
    a = a
    b = b
    noCell = noCell
    van = van
    box = box
    limit = limit
    none = none
    Files = {f1, f2}
    Contents = {fine, dup, blank, broken}
    Cells <- MCCells
    NoCell = noCell
    Categories = {van, box}
    Fields = {limit}
    ProblemTypes = {"assignment", "allocation"}
    Supported <- MCSupported
    Constraints <- MCConstraints
    Ambiguities <- MCAmbiguities
    Routing <- MCRouting
    Worlds <- MCWorlds
    Answers = {"once", "other", "cancel"}
    None = none
PROPERTIES EditsAreApplied
CHECK_DEADLOCK FALSE
