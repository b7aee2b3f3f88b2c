CONSTANTS
    Decoders = {}
    StatusThread = StatusThread
    MainThread = MainThread
    Nobody = Nobody
    Stored = {TRUE, FALSE}
    MaxEvents = 2
SPECIFICATION Spec
PROPERTY LoginStartsLoggedOut
CHECK_DEADLOCK FALSE
