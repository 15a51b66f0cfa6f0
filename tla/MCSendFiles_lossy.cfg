SPECIFICATION FairSpec
CONSTANTS
    p1 = p1  p2 = p2  p3 = p3
    f1 = f1  f2 = f2
    Tasks = 2
    Concurrency = 1
    Retries = 1
    Lossy = TRUE
    Uploads <- Requests
    Paths = {p1, p2, p3}
    Contents = {f1, f2}
    Candidates <- Colliding
    Content <- Bytes
    Fails = {"reserve", "open", "body", "rename", "remove", "form", "drop"}
    Absent = Absent
    Empty = Empty
INVARIANTS TypeOK OwnPlaceholder NoLitter AllSentAllStored
PROPERTIES SendEnds DirectoryKept
CHECK_DEADLOCK FALSE
