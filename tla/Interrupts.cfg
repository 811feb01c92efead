\* Every order of three requests on two lines, whatever the handlers do.
SPECIFICATION FairSpec
CONSTANTS
    Irq <- MCIrq
    MAX_IRQ_DEPTH = 2
    MaxRaised = 3
INVARIANTS
    TypeOK
    InServiceMatchesFrames
    DepthBounded
    MaskAgrees
PROPERTY
    PendingServed
