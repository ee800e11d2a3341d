CONSTANTS
    Datasets = {d1}
    Workflows = {f1}
    Writers = {k1, k2}
    Turns = {t1}
    Readers = {r1}
    MaxVersions = 2
    References = {a, b}
    MaxReferences = 2
    Malformed = Malformed
    Callers <- TheCallers
    Exchanges = {k1, k2}
    DialogRound = 1
    TokenLimit = 1
    Sizes = {1}
    Outcomes <- TheOutcomes
    Pasts <- ThePasts
    MaxConversations = 2
    LastSecond = 2
    MaxActs = 1
    NodeLists <- TheNodeLists
    CandidateEdges <- TheEdges
    Identities = {"i1", "i2"}
    Emails = {"e1", "e2", "e3"}
    KeyOf <- TheKeys
    LargestKey = 3
    Logins = {k1, k2}
    MaxAccounts = 2
    Providers = {p1, p2}
    ProviderNames = {n1, n2}
    Schemas <- TheSchemas
    Catalogers = {k1, k2}
    MaxEdits = 3
    BaseSegments = {s1, s2}
    Deleters = {r2}
    Searches = {q1}
    Uploads = {k1, k2}
    Analysers = {y1}
    WindowDays = 2
    Kinds <- TheKinds
    MaxMessages = 2
    MaxTime = 4
    Threads = {h1, h2, h3}
    Counts = {0, 2}
    Pricings <- ThePricings
    MaxCalls = 2
    Unknown = Unknown
    PageSize = 2
    MaxPosts = 4
    MaxSecond = 5
    Graphs = {g1, g2, g3}
    Complete = {g1, g2}
    Requests = {k1, k2}
    Debugs = {k1, k2}
    EditWhileDebugging = FALSE
    None = None
SPECIFICATION ServicesSpec
INVARIANTS
    ServicesTypeOK
    PublishedIsLatest
    PagesShowOnce
    PublishedWasDebugged
    TurnIsNotOlder
    SavedIsPublishable
    ResolvedRuns
    SummaryLosesOnlyOverlaps
    FirstAnswerNames
    AcceptsExactly
    ReferencesResolve
    LoginsAgree
    NoCircularWait
    ProviderNamesUnique
    ToolsMatchProvider
    ToolsCanBeCalled
    DeleteLeavesOnlyLateWrites
    ResultsWereVisible
    FilesAreAccountedFor
    ServedIsOfToday
    LoadedOnceForAll
    PriceIsCertain
    BillIsWholeOrOpen
PROPERTIES
    HistoryIsRecent
    LoginsAreAtomic
SYMMETRY Interchangeable
CHECK_DEADLOCK FALSE
