SPECIFICATION Spec
CONSTANTS
    cpu0 = cpu0
    cpu1 = cpu1
    NoClient = NoClient
    Client <- MCClient
    WordBits = 3
    Words = 2
    KernelPages = 1
    Counts = {2, 3}
    StaleFrees = TRUE
SYMMETRY ClientSymmetry
INVARIANT
    ExclusiveOwnership
