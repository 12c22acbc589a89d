\* A recognition takes longer than the debounce window, the buffers hold an
\* utterance in front of the final chunk, and a device blocks while it waits in
\* the backlog; the drain budget is below and at what CommandIsCut asks for.
CONSTANTS
    Devices = {1, 2}
    None = None
    Sounds <- TalkerAndOthers
    Backlog = 1
    Window = 3
    HangFrames = 2
    MaxFrames = 4
    Drains = {1, 7}
    SegHang = 1
    Recogs = {0, 3}
    RecvTimeout = 1
    DebounceMs = 2
    MaxSessionMs = 8
    SilenceMs = 6
SPECIFICATION FairSpec
INVARIANTS CommandIsCut SilenceEndsUtterance
PROPERTIES  EverySessionEnds
