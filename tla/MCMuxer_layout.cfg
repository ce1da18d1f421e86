CONSTANTS
    t1 = t1
    t2 = t2
    NoThread = NoThread
    Threads <- OneThread
    MuxType = "dvbType"
    PmtPid = 100
    PcrPid = 256
    Streams <- MCStreams
    FrameShapes <- LayoutShapes
    RandomAccessArgs = {FALSE}
    Ops = {"encode"}
    PatInterval = 20
    MaxPesLength = 300
    MaxCalls = 1
SPECIFICATION Spec
INVARIANTS TypeOK PacketsFit FramesWhole PesBytesRight
CHECK_DEADLOCK FALSE
