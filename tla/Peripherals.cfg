SPECIFICATION Spec
CONSTANTS
    Cycles = 7
    Base = 2
    Offset = 2
    MaxGap = 6
    SpiBits = 2
    Delay = 2
    UartBits = 3
    baudclocks = 24
    MaxGlitch = 3
INVARIANTS
    ResultCorrect
    TimeIsRight
    BytesExchanged
PROPERTIES
    InterruptMeansDue
    NothingWaitsForever
