SPECIFICATION LibrarySpec
CONSTANTS
    Absent = Absent
    None = None
    Unsigned = Unsigned
    keyA = keyA
    oldCode = oldCode
    newCode = newCode
    w1 = w1
    w2 = w2
SYMMETRY Interchangeable
CONSTRAINT ProfileNotRemoved
INVARIANTS
    LibraryTypeOK
    GrantsFollowConsent
    ImportsGoOn
    SignInsHold
    DownloadsHold
    NothingOrphaned
    EveryWayHasEntry
PROPERTIES
    ReadsWithConsent
    RecordedIsComplete
    NothingTakenAway
    ImportFilesEachGame
CHECK_DEADLOCK FALSE
