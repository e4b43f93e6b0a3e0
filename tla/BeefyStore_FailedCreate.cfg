\* One database failure: a Create that is rolled back and logged.
CONSTANTS
    Items <- MCItems
    ChanCap = 2
    MaxFailures = 1

SPECIFICATION Spec

INVARIANT RowStatusIssued

CHECK_DEADLOCK FALSE
