SPECIFICATION BridgeWithReadingWorkers
CONSTANTS
    Inst = {i1, i2}
    Caller = {c1, c2}
    NoCaller = none
    Handle = {h1, h2, h3}
    PipeSize = 1
    MaxRequest = 2
INVARIANT
    BridgeTypeOK
PROPERTIES
    
    SuccessIsOwnReply
    OneHandshakeFirst
CHECK_DEADLOCK FALSE
