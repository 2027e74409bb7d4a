CONSTANTS
    MaxId = 3
    HistoryLimit = 1
    Timed = {1, 2}
    RemoteIds = {}
    MaxInbound = 2
    MaxExtra = 0
    Strays = {}
SPECIFICATION Spec
PROPERTIES LateResponseIsHarmless
CHECK_DEADLOCK FALSE
