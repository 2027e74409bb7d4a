CONSTANTS
    MaxId = 2
    HistoryLimit = 1
    Timed = {1}
    RemoteIds = {1}
    MaxInbound = 2
    MaxExtra = 1
    Strays = {2}
SPECIFICATION FairSpec
INVARIANTS NoOrphanWaiter HistoryIsTrue ClosedReleasesAll OutcomeIsTrue NextIdIsFree
PROPERTIES KeepsPromise RememberedIsHarmless  ClosingIsNoticed TimedRequestsReturn
CHECK_DEADLOCK FALSE
