CONSTANTS
    Accounts = {a, b}
    Requesters = {r}
    Main = Main
    Status = Status
    Listener = Listener
    None = None
    Nobody = Nobody
SPECIFICATION FairSpec
INVARIANTS
    TypeOK
    ClosedIsQuiet
    OneRefresh
    
    UsedIsStored
PROPERTY
    CloseEnds
CHECK_DEADLOCK FALSE
