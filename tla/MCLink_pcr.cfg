CONSTANTS
    t1 = t1
    NoThread = NoThread
    Threads <- MCThreads
    MuxType = "h222Type"
    PmtPid = 100
    PcrPid = 500
    Streams <- MCStreams
    FrameShapes <- MCShapes
    RandomAccessArgs = {FALSE}
    Ops = {"encode", "pcr"}
    PatInterval = 20
    MaxPesLength = 300
    MaxCalls = 3
    LossSizes = {}
    MaxFaults = 0
SPECIFICATION LinkSpec
INVARIANTS PcrsReachReceiver
CHECK_DEADLOCK FALSE
