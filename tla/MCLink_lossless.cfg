CONSTANTS
    t1 = t1
    NoThread = NoThread
    Threads <- MCThreads
    MuxType = "segmentType"
    PmtPid = 100
    PcrPid = 256
    Streams <- MCStreams
    FrameShapes <- MCShapes
    RandomAccessArgs = {TRUE, FALSE}
    Ops = {"encode"}
    PatInterval = 20
    MaxPesLength = 300
    MaxCalls = 3
    LossSizes = {}
    MaxFaults = 0
SPECIFICATION LinkSpec
INVARIANTS LittleHeldBack NoFalseAlarm
PROPERTIES ChannelSpec
CHECK_DEADLOCK FALSE
