CONSTANTS
    t1 = t1
    t2 = t2
    NoThread = NoThread
    Threads <- MCThreads
    MuxType = "segmentType"
    PmtPid = 100
    PcrPid = 500
    Streams <- MCStreams
    FrameShapes <- InterleavedShapes
    RandomAccessArgs = {TRUE, FALSE}
    Ops = {"encode", "pcr", "null"}
    PatInterval = 20
    MaxPesLength = 65535
    MaxCalls = 2
SPECIFICATION FairSpec
INVARIANTS CcContinuity FramesWhole SegmentsSelfContained TableBytesRight
PROPERTIES LockReleased
CHECK_DEADLOCK FALSE
