SPECIFICATION Spec
CONSTANTS
    Absent = Absent
    Unsigned = Unsigned
    keyA = keyA
    oldCode = oldCode
    newCode = newCode
    t1 = t1
    t2 = t2
    p1 = p1
    p2 = p2
    Threads = {t1, t2}
    Profiles = {p1}
    Folders = {"folder"}
    Packages <- Builds
    Pages = 2
SYMMETRY Interchangeable
INVARIANTS
    GrantNamesAFolder
