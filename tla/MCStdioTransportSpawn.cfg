CONSTANTS
    Closers = {c1, c2, c3}
    NoCloser = NoCloser
    MaxLaunches = 2
    Overlap = TRUE
SPECIFICATION Spec
INVARIANTS ClosedMeansGone
CHECK_DEADLOCK FALSE
