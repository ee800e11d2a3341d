CONSTANTS
    Documents = {d1}
    Indexed = {d1}
    MaxSegments = 2
    Workers = {w1}
    Requests = {r1, r2, r3}
    Processes = {w1, r1, r2, r3}
    None = None
    MaxRetries = 1
    MaxRedeliveries = 0
    Faults = {"vector", "table"}
    Operations = {"segment"}
SPECIFICATION Spec
INVARIANTS
    InServiceIsFound
SYMMETRY Symmetry
CHECK_DEADLOCK FALSE
