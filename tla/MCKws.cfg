\* Words of six bits and "bytes" of four; three overlapping frames at most.
CONSTANTS
    Half = 32
    Models <- AllModels
    FrameLen = 3
    FrameStep = 2
    MaxFrames = 3
    MaxMels = 3
    MaxClasses = 2
    Scratch = 12
    Block = 2
    B = 4
SPECIFICATION Spec
INVARIANTS ReadsFresh  LogitsAccurate OrderKept Parity
