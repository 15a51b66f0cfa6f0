SPECIFICATION FairSpec
CONSTANTS
    r1 = r1  r2 = r2  u1 = u1  u2 = u2  a = a  p0 = p0  p1 = p1  f = f  g = g
    Req = {r1, r2}
    Ids = {u1, u2}
    Names = {a}
    Paths = {p0}
    Files = {f}
    Candidates <- CandidatesOne
    ChunkLens <- LensNone
    MaxCrashes = 0
    IoErrors = TRUE
    FreshInit = FALSE
    Absent = Absent  Empty = Empty  Mixed = Mixed  NoDir = NoDir  Hole = Hole
PROPERTIES RequestServed 
