\* Every interleaving of ticks with the stores and polls of the main line.
SPECIFICATION FairSpec
CONSTANTS
    PIT_BASE_FREQUENCY = 240
    PIT_MIN_HZ = 1
    PIT_MAX_HZ = 20
    PIT_DEFAULT_HZ = 8
    LegacyHz = 3
    Thousand = 20
    Byte = 8
    Word = 32
    Argument = 128
    Frequencies <- MCFrequencies
    MsDelays <- MCMsDelays
    UsDelays <- MCUsDelays
    MaxTorn = 1
INVARIANTS
    TypeOK
    ClockAgrees
    RateAsReported
PROPERTIES
    WaitInTime
    WaitEnds
