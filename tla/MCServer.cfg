\* A turn of the loop takes up to 3 ms against limits of 2, 3 and 4 ms; the
\* clock wraps every 8 ms.
CONSTANTS
    ClockMod = 8
    DebounceMs = 2
    MaxSessionMs = 4
    SilenceMs = 3
    RecvTimeout = 1
    BusyMax = 2
    Buffers <- SomeBuffers
    MaxCommands = 2
SPECIFICATION FairSpec
INVARIANTS CountsAgree AnsweredIffCut
PROPERTIES RefinesTimer EventuallyClosed
