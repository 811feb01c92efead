\* One processor; sections between serial_lock and serial_unlock that write.
SPECIFICATION Spec
CONSTANTS
    CPU = {c1}
    MaxFrames = 1
    Misuse <- MCMisuseNested
PROPERTY
    CallsReturn
CHECK_DEADLOCK FALSE
