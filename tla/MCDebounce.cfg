\* All three timers on; 12 clock values, so that most sessions cross a wrap.
CONSTANTS
    ClockMod = 12
    DebounceMs = 3
    MaxSessionMs = 8
    SilenceMs = 5
    MaxGap = 3
    MaxCommands = 3
SPECIFICATION FairSpec
INVARIANTS TypeOK StampsTrue Punctual CutJustified
PROPERTIES RefinesPolicy EventuallyCut
