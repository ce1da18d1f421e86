CONSTANTS
    t1 = t1
    NoThread = NoThread
    Threads <- MCThreads
    MuxType = "h222Type"
    PmtPid = 100
    PcrPid = 256
    Streams <- MCStreams
    FrameShapes <- MCLossyShapes
    RandomAccessArgs = {FALSE}
    Ops = {"encode"}
    PatInterval = 2
    MaxPesLength = 360
    MaxCalls = 3
    LossSizes = {1, 2, 3}
    MaxFaults = 2
SPECIFICATION LinkSpec
INVARIANTS NoSilentCorruption GenuineInOrder BrokenMeansLoss
CHECK_DEADLOCK FALSE
