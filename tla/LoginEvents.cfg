CONSTANTS
    Decoders = {}
    StatusThread = StatusThread
    MainThread = MainThread
    Nobody = Nobody
    Stored = {TRUE, FALSE}
    MaxEvents = 2
SPECIFICATION FairSpec
PROPERTY NotifiedIsProcessed
CHECK_DEADLOCK FALSE
