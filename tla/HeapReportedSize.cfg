SPECIFICATION Spec
CONSTANTS
    cpu0 = cpu0
    cpu1 = cpu1
    NoThread = NoThread
    NULL = NULL
    Thread <- MCThread
    Pages = 3
    Objects <- MCObjects
    MaxRun = 2
SYMMETRY ThreadSymmetry
INVARIANT
    ReportedSizeIsOwn
