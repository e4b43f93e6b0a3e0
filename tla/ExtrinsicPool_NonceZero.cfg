\* A relayer account that has never sent an extrinsic: account nonce 0.
CONSTANTS
    InitNonce = 0
    NumPayloads = 2
    MaxWatched = 2
    MaxDrops = 1

SPECIFICATION FairSpec

INVARIANT NoFalseSuccess

CHECK_DEADLOCK FALSE
