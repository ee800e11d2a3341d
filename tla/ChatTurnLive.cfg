CONSTANTS
    Users = {u1}
    None = None
    Origins = {"web_app"}
    MaxIteration = 0
    MaxChunks = 0
    MaxTools = 1
    ListenTimeout = 2
SPECIFICATION Spec
PROPERTIES
    StreamIsSaved
    StopEndsTurn
