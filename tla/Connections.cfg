CONSTANTS
    s1 = s1  s2 = s2  s3 = s3  s4 = s4  v1 = v1  v2 = v2  q1 = q1  q2 = q2  r1 = r1  r2 = r2
    None = None
    Sockets = {s1, s2, s3, s4}
    Servers = {v1, v2}
    Limit = 2
    PoolSize = 2
    MaxFailures = 1
    Probes = {q1, q2}
    Kinds = {"readyz", "detail"}
    CacheTTL = 1
    ComponentTimeout = 1
    GlobalTimeout = 2
    MaxStalled = 1
    Scenarios <- Parties
    Requests = {r1, r2}
    Calls = {"create_server", "start_server", "restore_version"}
    Faults = {"late"}
SPECIFICATION TrailSpec
INVARIANTS ResourcesOwned BooksMatch ServicesAccounted AnswersFresh AnsweredInTime LogTellsTruth AnswersAreLogged
CHECK_DEADLOCK FALSE
SYMMETRY ClientSymmetry
