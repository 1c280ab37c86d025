CONSTANTS
    g1 = g1  g2 = g2  s1 = s1  s2 = s2  p1 = p1  p2 = p2
    n1 = n1  n2 = n2  o1 = o1  o2 = o2
    None = None
    GroupIds = {g1, g2}
    Servers = {s1, s2}
    Players = {p1}
    Names = {n1}
    TypeOf <- OneOfEach
    Requests = {o1, o2}
    Retries = 2
    Faults = {"io", "rcon"}
    Launched = {s2}
SPECIFICATION Spec
INVARIANTS FilesFollow WhitelistTold
SYMMETRY GroupSymmetry
CHECK_DEADLOCK FALSE
