CONSTANTS
    NumParaBlocks <- MCNumParaBlocks
    NumRelayBlocks <- MCNumRelayBlocks
    MaxMessages <- MCMaxMessages
    ChannelCap <- MCChannelCap
    MaxFailures <- MCMaxFailures
    NonceHistories <- MCNonceHistories

SPECIFICATION FairSpec

PROPERTY ListenerStopsOnCancel

\* The relayer stops once its context is cancelled: the goroutines return
\* (or, in Catchup_StuckSend, the listener stays blocked in a send).
CHECK_DEADLOCK FALSE
