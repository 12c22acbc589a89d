\* The server cuts while the device is still streaming; the kindest TCP stack.
CONSTANTS
    FrameBytes = 18
    ScratchLens = {42}
    FrameSizes = {18}
    HeaderLen = 30
    MaxChunks = 4
    HangFrames = 2
    FrameCaps = {4}
    KindStack = TRUE
    Response = 3
SPECIFICATION Spec
INVARIANTS MidStreamCutIsClosed
