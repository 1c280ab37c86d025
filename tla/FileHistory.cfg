CONSTANTS
    o1 = o1  o2 = o2  o3 = o3  c1 = c1  c2 = c2
    Requests = {o1, o2}
    Contents = {c1, c2}
    MaxKept = 1
    Retries = 2
    Faults = {"backup", "removal", "crash", "toolarge"}
    LastSecond = 1
    LastVersion = 3
    Cuts = 1
SPECIFICATION Spec
SYMMETRY HistorySymmetry
INVARIANTS HistoryKept HistoryBounded
PROPERTIES NoStrayFiles RestoresTheVersion
CHECK_DEADLOCK FALSE
