CONSTANTS
    Users = {u1, u2}
    None = None
    Origins = {"web_app", "service_api"}
    MaxIteration = 1
    MaxChunks = 1
    MaxTools = 1
    ListenTimeout = 1
SPECIFICATION Spec
INVARIANTS
    TypeOK
    EndsOnce
    FramesContract
    SavedOnceWhole
    CompleteBillIsWhole
    StoppedByOperator
PROPERTIES
    ImplementsContract
SYMMETRY Symmetry
