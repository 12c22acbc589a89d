\* The microphone's cap is below the chunk budget, as on the device, or above
\* it.  Frames of 18 bytes need 2 hex digits, frames of 14 one; the scratch
\* lengths are one below what the guard asks for, and exactly that.
CONSTANTS
    FrameBytes = 18
    ScratchLens = {41, 42}
    FrameSizes = {14, 18}
    HeaderLen = 30
    MaxChunks = 3
    HangFrames = 2
    FrameCaps = {3, 5}
    KindStack = FALSE
    Response = 2
SPECIFICATION FairSpec
INVARIANTS EncodeFits WireFormat CapBeforeBudget CleanCutNoError ResultTrue
PROPERTIES Terminates
