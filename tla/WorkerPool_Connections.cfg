\* Connections left open once Run has returned.
CONSTANTS
    Factories <- MCFactories

SPECIFICATION FairSpec

PROPERTY ShutdownReleasesConnections

CHECK_DEADLOCK FALSE
