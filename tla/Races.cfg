CONSTANTS
    Thread = {"event", "auth", "file", "test", "sched"}
    AutoSequester = TRUE
    None = None
SPECIFICATION Spec
INVARIANTS Inv
