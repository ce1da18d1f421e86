CONSTANTS
    PacketSize = 4
    BrokenBytes = 2
    Streams <- MCStreams
    ChunkSizes = {1, 3, 4, 5, 9}
SPECIFICATION FairSpec
INVARIANTS TypeOK BytesConserved LossReported CleanStreamExact PacketsRecovered
PROPERTIES DecodeReturns
CHECK_DEADLOCK FALSE
