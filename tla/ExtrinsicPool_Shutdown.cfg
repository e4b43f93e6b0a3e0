\* A full pool (capacity one) and a second payload waiting for capacity.
CONSTANTS
    InitNonce = 1
    NumPayloads = 2
    MaxWatched = 1
    MaxDrops = 0

SPECIFICATION FairSpec

PROPERTY ShutdownCompletes

CHECK_DEADLOCK FALSE
