\* Every order of short calls and of lines printed by handlers.
SPECIFICATION Spec
CHECK_DEADLOCK FALSE
CONSTANTS
    Ten = 3
    Nibble = 4
    Word32 = 16
    Word64 = 64
    DECIMAL_UINT32_MAX_DIGITS = 3
    DECIMAL_UINT64_MAX_DIGITS = 4
    HexDigits32 = 2
    HexDigits64 = 3
    LOG_BUFFER_SIZE = 6
    Margin = 8
    VGA_ROWS = 3
    VGA_COLS = 4
    TabStop = 2
    SizeWord = 64
    PoolBase = 35
    EARLY_ALLOC_POOL_SIZE = 15
    EARLY_ALLOC_ALIGNMENT = 4
    Texts <- MCTexts
    Values32 <- MCValues32
    Values64 <- MCValues64
    Signed32 <- MCSigned32
    Signed64 <- MCSigned64
    Formats <- MCFormats
    Requests <- MCRequests
    SlabPoolSize = 3
    MaxCalls = 2
    MaxPrints = 1
    MaxTimeouts = 1
INVARIANTS
    WireShowsReports
    ScreenShowsPage
    EarlyBlocksDisjoint
