CONSTANTS
    s1 = s1  o1 = o1  o2 = o2  o3 = o3  a1 = a1  a2 = a2
    None = None
    Servers = {s1}
    Slots = {o1, o2, o3}
    Archives = {a1, a2}
    Uploads = {a2}
    MaxNow = 1
    Limit <- OneEach
    Faults = {"tar", "upload", "replace", "move", "extract", "delete", "crash", "sweep"}
SPECIFICATION FairSpec
INVARIANTS NoOrphanArchive SemaphoresAccounted
PROPERTIES ArchiveKept RestoresItsBackup RequestsEnd
