SPECIFICATION Spec
CONSTANTS
    ChunkLen <- LensTwo
    Window = 1
    Retries = 0
    Runs = 2
    Expires = FALSE
    NoSession = NoSession
PROPERTIES InterruptedKeepsChunks
CHECK_DEADLOCK FALSE
