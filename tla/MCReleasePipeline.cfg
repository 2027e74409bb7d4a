SPECIFICATION FairSpec
CONSTANTS
    None = None
    Styles = {"", "rust-v"}
    MaxReleases = 2
    MaxByHand = 2
    MaxFailures = 1
INVARIANTS ReleasesAgree TagIsBranchHead
PROPERTY CatchesUp
CHECK_DEADLOCK FALSE
