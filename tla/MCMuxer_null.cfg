CONSTANTS
    t1 = t1
    t2 = t2
    NoThread = NoThread
    Threads <- OneThread
    MuxType = "segmentType"
    PmtPid = 100
    PcrPid = 500
    Streams <- MCStreams
    FrameShapes <- InterleavedShapes
    RandomAccessArgs = {TRUE, FALSE}
    Ops = {"encode", "null"}
    PatInterval = 20
    MaxPesLength = 65535
    MaxCalls = 2
SPECIFICATION Spec
INVARIANTS PacketsFit
CHECK_DEADLOCK FALSE
