CONSTANTS
    Documents = {d1, d2}
    Indexed = {d1, d2}
    MaxSegments = 1
    Workers = {w1, w2}
    Requests = {r1}
    Processes = {w1, w2, r1}
    None = None
    MaxRetries = 1
    MaxRedeliveries = 0
    Faults = {"vector", "unsent"}
    Operations = {"toggle", "delete"}
SPECIFICATION Spec
INVARIANTS
    QuietIsConsistent
SYMMETRY Symmetry
CHECK_DEADLOCK FALSE
