CONSTANTS
    Factories <- MCFactories

SPECIFICATION FairSpec

INVARIANT NoSilentWorkerExit
INVARIANT RunErrorCause
PROPERTY SignalTerminates
PROPERTY WorkerFailureStopsAll

\* Once Run has returned the process exits; a final state in which every
\* goroutine has returned is not a deadlock.
CHECK_DEADLOCK FALSE
