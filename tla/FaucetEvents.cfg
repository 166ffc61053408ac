CONSTANTS
    Port = {p1}
    Other = {h1}
    Timer = {t1, t2}
    MaxEvents = 3
    MaxFaults = 2
    None = None
SPECIFICATION Spec
SYMMETRY Symmetry
CHECK_DEADLOCK FALSE
INVARIANTS Inv OthersInOrder
PROPERTIES ImplementsReplica
