\* A buffer may end between the two bytes of a sample.
CONSTANTS
    Bytes <- AllBytes
    Cfg <- SmallCfg
    Sessions <- Frames
    Inputs <- DeviceInputs
    BufMax = 7
    LineMax = 9
    MethodMax = 3
    PathMax = 3
    SessionMax = 3
    SizeMod = 256
    U32Mod = 100
SPECIFICATION IngestSpec
INVARIANTS SamplesIntact
