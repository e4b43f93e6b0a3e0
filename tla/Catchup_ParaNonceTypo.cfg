\* Every parachain history, including those whose incentivized channel has
\* not committed anything yet.
CONSTANTS
    NumParaBlocks = 2
    NumRelayBlocks = 3
    MaxMessages = 1
    ChannelCap = 2
    MaxFailures = 0

SPECIFICATION FairSpec

INVARIANT CatchupComplete
