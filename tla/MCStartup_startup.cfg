CONSTANTS
    on = on
    Fields = {"port", "progress"}
    Form = {"port"}
    Values <- MCValues
    Default <- MCDefault
    Running <- MCRunning
    Tabs = {a}
    Writers = {w}
    Unset = Unset  Missing = Missing  Broken = Broken
    Serves = {serve}
    Webs = {web}
    MinPort = 2  MaxPort = 3
    Contested = {2}
    Invalid = Invalid  Free = Free  Other = Other
SPECIFICATION FairSpec
INVARIANTS TypeOK ExitJustified
PROPERTIES SaveChangesForm SavedApplies StartEnds
