CONSTANTS
    Decoders = {d}
    StatusThread = StatusThread
    MainThread = MainThread
    Nobody = Nobody
    Stored = {TRUE, FALSE}
    MaxEvents = 2
SPECIFICATION Spec
INVARIANTS
    TypeOK
    LoggedInMeansSession
    InProcessIsPending
    LoginWakesAll
    NoLostEvent
CHECK_DEADLOCK FALSE
