CONSTANTS
    Graphs = {g1, g2, g3}
    Complete = {g1, g2}
    Requests = {r1, r2}
    Debugs = {b1, b2}
    EditWhileDebugging = TRUE
    None = None
SPECIFICATION Spec
INVARIANTS
    PublishedWasDebugged
SYMMETRY Symmetry
CHECK_DEADLOCK FALSE
