CONSTANTS
    Documents = {d1}
    Indexed = {}
    MaxSegments = 2
    Workers = {w1, w2}
    Requests = {r1, r2}
    Processes = {w1, w2, r1, r2}
    None = None
    MaxRetries = 0
    MaxRedeliveries = 1
    Faults = {"build", "vector", "table", "unsent", "sent", "worker_crash", "request_crash"}
    Operations = {"create", "delete"}
SPECIFICATION Spec
INVARIANTS
    TypeOK
    BuildOwnsDocument
PROPERTIES
    CreatedIsSettled
    ImplementsDocumentContract
CHECK_DEADLOCK FALSE
