\* An account that has already sent three extrinsics before this run.
CONSTANTS
    InitNonce = 3
    NumPayloads = 1
    MaxWatched = 1
    MaxDrops = 1

SPECIFICATION FairSpec

INVARIANT RetryDelayBounded

CHECK_DEADLOCK FALSE
