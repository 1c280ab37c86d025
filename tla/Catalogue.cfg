CONSTANTS
    i1 = i1  i2 = i2  i3 = i3  n1 = n1  n2 = n2  n3 = n3  d1 = d1  d2 = d2
    a1 = a1  a2 = a2  a3 = a3  o1 = o1  o2 = o2
    Absent = Absent
    Ids = {i1, i2, i3}
    Names = {n1, n2, n3}
    Dirs = {d1, d2}
    DirOf <- TwoAlike
    Archives = {a1, a2}
    Requests = {o1, o2}
    Faults = {"rollback", "attach", "delete", "move", "rmtree", "crash"}
    MaxMishaps = 1
SPECIFICATION CatalogueSpec
INVARIANTS DirectoryPerServer NoStrayDirectory
SYMMETRY CatalogueSymmetry
