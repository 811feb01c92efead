\* Two processors, one or both started; handlers two deep and a fault on top.
SPECIFICATION Spec
CONSTANTS
    CPU = {c1, c2}
    MaxFrames = 2
    Misuse <- MCMisuseNone
INVARIANTS
    TypeOK
    LogLinesInOrder
    ForcedLockStaysFree
    FatalStaysMasked
PROPERTIES
    FatalReports
    CallsReturn
CHECK_DEADLOCK FALSE
