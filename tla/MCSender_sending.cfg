SPECIFICATION FairSpec
CONSTANTS
    ChunkLen <- LensTwo
    Window = 2
    Retries = 1
    Runs = 1
    Expires = TRUE
    NoSession = NoSession
INVARIANTS TypeOK AnsweredIsRecorded NeverPastTotal DoneIsStored
PROPERTIES NotRevived SenderEnds
CHECK_DEADLOCK FALSE
