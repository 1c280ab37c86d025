CONSTANTS
    n1 = n1  n2 = n2  i1 = i1  i2 = i2  q1 = q1  q2 = q2  t1 = t1  t2 = t2
    None = None
    Names = {n1, n2}
    Ips = {i1, i2}
    NameThreshold = 2
    NameWindow = 2
    IpThreshold = 3
    IpWindow = 3
    LockoutBase = 2
    LockoutMax = 3
    MaxLockouts = 2
    MaxId = 2
    Roles = {"user", "admin"}
    Requests = {q1, q2}
    RefreshTokens = {t1, t2}
    MaxVersion = 1
SPECIFICATION Spec
INVARIANTS OneSession RetryHonest
PROPERTIES DeactivationRevokes AnAdminRemains OnlyFailuresLock
SYMMETRY AccountSymmetry
CHECK_DEADLOCK FALSE
