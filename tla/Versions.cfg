CONSTANTS
    v1 = v1  v2 = v2  sched = sched  trigger = trigger
    q1 = q1  q2 = q2
    None = None
    MaxBuild = 2
    JarRequests = {q1, q2}
    Chunks = 2
    Inodes = {1, 2, 3, 4}
    Versions = {v1, v2}
    Key = v1
    Callers = {sched, trigger}
    Scheduler = sched
    MaxAttempts = 2
    KeepLatest = 1
    Scenarios <- UpdatesAndDownloads
SPECIFICATION Spec
INVARIANT ActiveRowsAreOneList
INVARIANT DeliveredWhole
PROPERTY BuildsRise
SYMMETRY Symmetry
