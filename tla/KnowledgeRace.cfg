CONSTANTS
    Documents = {d1}
    Indexed = {d1}
    MaxSegments = 1
    Workers = {w1, w2}
    Requests = {r1, r2}
    Processes = {w1, w2, r1, r2}
    None = None
    MaxRetries = 1
    MaxRedeliveries = 0
    Faults = {}
    Operations = {"toggle"}
SPECIFICATION Spec
INVARIANTS
    TogglesOneAtATime
SYMMETRY Symmetry
CHECK_DEADLOCK FALSE
