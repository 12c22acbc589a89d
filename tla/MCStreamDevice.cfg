\* The sizes app_main.c uses: 640-byte frames and its scratch buffer.
CONSTANTS
    FrameBytes = 640
    ScratchLens <- DeviceScratch
    FrameSizes = {640}
    HeaderLen = 180
    MaxChunks = 4
    HangFrames = 2
    FrameCaps = {4}
    KindStack = TRUE
    Response = 3
SPECIFICATION Spec
INVARIANTS SessionStreams
