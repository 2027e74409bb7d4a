CONSTANTS
    all = all
    filtered = filtered
    a = a
    b = b
    Subs = {all, filtered}
    Topics = {a, b}
    Wants <- MCWants
    Limit <- MCLimit
    MaxPublished = 3
SPECIFICATION FairSpec
INVARIANTS TypeOK GapFree EndedIsComplete
PROPERTIES ClosedStreamsEnd OwedIsDelivered
CHECK_DEADLOCK FALSE
