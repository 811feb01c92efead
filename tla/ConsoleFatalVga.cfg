\* One processor; exceptions also while it holds the VGA lock.
SPECIFICATION Spec
CONSTANTS
    CPU = {c1}
    MaxFrames = 2
    Misuse <- MCMisuseFault
PROPERTY
    FatalReports
CHECK_DEADLOCK FALSE
