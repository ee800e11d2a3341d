CONSTANTS
    Documents = {d1}
    Indexed = {}
    MaxSegments = 1
    Workers = {w1, w2}
    Requests = {r1}
    Processes = {w1, w2, r1}
    None = None
    MaxRetries = 1
    MaxRedeliveries = 0
    Faults = {"request_crash"}
    Operations = {"create"}
SPECIFICATION Spec
INVARIANTS
    QuietIsSettled
SYMMETRY Symmetry
CHECK_DEADLOCK FALSE
