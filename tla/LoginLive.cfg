CONSTANTS
    Decoders = {}
    StatusThread = StatusThread
    MainThread = MainThread
    Nobody = Nobody
    Stored = {TRUE}
    MaxEvents = 2
SPECIFICATION FairSpec
PROPERTIES
    AbortedReloginReturns
    MainThreadReturns
CHECK_DEADLOCK FALSE
