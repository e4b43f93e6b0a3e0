CONSTANTS
    InitNonce <- MCInitNonce
    NumPayloads <- MCNumPayloads
    MaxWatched <- MCMaxWatched
    MaxDrops <- MCMaxDrops

SPECIFICATION FairSpec

INVARIANT TypeOK
INVARIANT WatchedAccounting
INVARIANT CapacityBound
INVARIANT NoFalseSuccess
INVARIANT RetryDelayBounded
PROPERTY EventuallyConsumed

\* The writer blocks on the payloads channel once the listener's payloads
\* are written: a final state with every watcher returned is not a deadlock.
CHECK_DEADLOCK FALSE
