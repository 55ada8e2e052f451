SPECIFICATION RemoteSpec
CONSTANTS
    c1 = c1
    c2 = c2
    Clients = {c1, c2}
    None = None
    MaxReports = 3
    MaxDeaths = 1
    MaxSema = 1
INVARIANTS
    AttentionCovers
    AllProcessed
PROPERTIES
    InformEnds
CHECK_DEADLOCK FALSE
