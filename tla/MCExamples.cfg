CONSTANTS
    BarsTs <- MCBarsTs
    Adts <- MCAdts
    Idr <- MCIdr
    Distance <- MCDistance
    LoopFrames <- MCLoopFrames
    Packets <- MCPackets
    AudioPts = 4
    SECOND_SLEEP = 4
    SAVED_TS_NUM_SECONDS = 0
    MaxNow = 9
SPECIFICATION Spec
INVARIANTS AudioFilesRight VideoFilesRight RecordingIsPrefix RecordsLongEnough LoopsInStep DtsIncreasing
CHECK_DEADLOCK FALSE
