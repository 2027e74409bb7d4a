CONSTANTS
    None = None
    Tasks = {t1, t2}
    Defaults <- MCDefaults
    Layers <- MCLayers
    MaxClients = 2
    MaxThreads = 2
    MaxTurns = 2
    MaxCalls = 3
SPECIFICATION Spec
INVARIANTS EveryProcessIsOwned OptionsFollowTheThread
CHECK_DEADLOCK FALSE
