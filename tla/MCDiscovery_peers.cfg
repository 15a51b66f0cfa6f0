SPECIFICATION RSpec
CONSTANTS
    n1 = n1  n2 = n2  a = a  far = far  slow = slow  name = name
    Nodes = {n1, n2}
    Beat = 1
    SweepEvery = 2
    Timeout = 5
    MaxDelay = 1
    MaxLoss = 2
    Names = {name}
    Name <- MCName
    Addr <- MCAddr
    Reachable = {slow, a}
    Slow = {slow}
    ScanTime = 2
    ListenTime = 1
    ProbeTime = 1
    Everyone = Everyone
    Fallback = Fallback
    Nobody = Nobody
INVARIANTS RTypeOK LiveIsListed GoneIsForgotten
PROPERTIES ResolvedFresh MissedOnlySilent
