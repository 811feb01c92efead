\* Fair scheduling only: what the compare-and-swap loop itself guarantees.
SPECIFICATION ScheduledSpec
CONSTANTS
    bsp = bsp
    ap = ap
    outer = outer
    inner = inner
    NoLock = NoLock
    CPU <- MCCPU
    IrqCPU <- MCIrqCPU
    Lock <- MCLock
    MayNest <- MCMayNest
PROPERTY
    WaiterServed
