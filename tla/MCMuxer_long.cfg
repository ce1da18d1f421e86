CONSTANTS
    t1 = t1
    t2 = t2
    NoThread = NoThread
    Threads <- OneThread
    MuxType = "h222Type"
    PmtPid = 100
    PcrPid = 256
    Streams <- MCStreams
    FrameShapes <- LongShapes
    RandomAccessArgs = {FALSE}
    Ops = {"encode"}
    PatInterval = 20
    MaxPesLength = 65535
    MaxCalls = 45
SPECIFICATION Spec
INVARIANTS CcContinuity PatCadence
CHECK_DEADLOCK FALSE
