CONSTANTS
    s1 = s1  s2 = s2  p1 = p1  p2 = p2  p3 = p3  r1 = r1  r2 = r2  r3 = r3
    None = None
    Boot = Boot
    Servers = {s1}
    Pids = {p1, p2}
    Requests = {r1, r2}
    Allowed <- RestarterAndStopper
    MaxBoots = 0
    Faults = {"pidwrite"}
    KeepServers = FALSE
    AutoSync = TRUE
SPECIFICATION FairSpec
PROPERTY RequestsReturn
PROPERTY ShutdownStopsServers
CHECK_DEADLOCK FALSE
