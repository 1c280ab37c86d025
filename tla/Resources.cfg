CONSTANTS
    UserIds = {1, 2, 3}
    ServerIds = {1}
    GroupIds = {1, 2}
    Scopes <- Parts
    None = None
    MaxInterval = 2
SPECIFICATION Spec
INVARIANT ScheduleCacheCurrent
PROPERTY AccessGainedByRight
