CONSTANTS
    here = here  one = one  two = two
    page = page  tab = tab
    r1 = r1  e1 = e1  e2 = e2  e2old = e2old
    Nodes = {here, one, two}
    Pages = {page, tab}
    Home <- MCHome
    Messages <- MCMessages
    Capacity = 1
    Closed = Closed
    Here = here
    Requests = {r1}
    From <- MCFrom
    Local = {}
    SameOrigin = {page}
    Watched = {tab}
    Entries = {e1, e2, e2old}
    Host <- MCHost
    Retries = 1
    MaxRuns = 2
    MaxFields = 2
    NoFile = NoFile
    NoEntry = NoEntry
SPECIFICATION FairSpec
INVARIANTS TypeOK GuardsApart AnswerHonest CopiesBounded SpoolLifetime StreamFaithful
PROPERTIES NewestShown
