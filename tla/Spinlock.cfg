\* Two processors, interrupts on the first, one level of lock nesting; fair
\* scheduling and a fair bus, which the last two properties need.
SPECIFICATION FairSpec
CONSTANTS
    bsp = bsp
    ap = ap
    outer = outer
    inner = inner
    NoLock = NoLock
    CPU <- MCCPU
    IrqCPU <- MCIrqCPU
    Lock <- MCLock
    MayNest <- MCMayNest
INVARIANTS
    TypeOK
    MutualExclusion
    NotPreempted
    FlagRestored
    SavedFlagOfOwner
    NoSelfDeadlock
PROPERTIES
    ImplementsLockSpec
    WaiterServed
    InterruptsComeBack
