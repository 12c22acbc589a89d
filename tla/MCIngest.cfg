\* Every way to cut each stream into buffers of 1 to 7 bytes.
CONSTANTS
    Bytes <- AllBytes
    Cfg <- SmallCfg
    Sessions <- Frames
    Inputs <- AllInputs
    BufMax = 7
    LineMax = 9
    MethodMax = 3
    PathMax = 3
    SessionMax = 3
    SizeMod = 256
    U32Mod = 100
SPECIFICATION IngestSpec
INVARIANTS RoundTrip SegmentationFree
