CONSTANTS
    Documents = {d1}
    Indexed = {d1}
    MaxSegments = 1
    Workers = {w1, w2}
    Requests = {r1}
    Processes = {w1, w2, r1}
    None = None
    MaxRetries = 1
    MaxRedeliveries = 0
    Faults = {"table"}
    Operations = {"toggle"}
SPECIFICATION Spec
INVARIANTS
    QuietIsConsistent
SYMMETRY Symmetry
CHECK_DEADLOCK FALSE
