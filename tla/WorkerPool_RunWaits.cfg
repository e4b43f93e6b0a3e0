\* Two factories; a Start error after the cleanup goroutine is registered.
CONSTANTS
    Factories <- MCFactories

SPECIFICATION Spec

INVARIANT RunWaitsForTasks

CHECK_DEADLOCK FALSE
