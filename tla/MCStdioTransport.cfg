CONSTANTS
    Closers = {c1, c2, c3}
    NoCloser = NoCloser
    MaxLaunches = 2
    Overlap = FALSE
SPECIFICATION FairSpec
INVARIANTS ClosedMeansGone NoLostProcess ClosesOnce
PROPERTIES CloseEnds
CHECK_DEADLOCK FALSE
