\* A database that never fails; a channel of two commands.
CONSTANTS
    Items <- MCItems
    ChanCap = 2
    MaxFailures = 0

SPECIFICATION Spec

INVARIANT RowTracksProducer
PROPERTY StatusNeverRegresses

\* Once every item has reached its last status and the loop has returned,
\* nothing is left to do.
CHECK_DEADLOCK FALSE
