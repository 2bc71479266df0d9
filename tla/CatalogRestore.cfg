SPECIFICATION Spec
CONSTANTS
    None = None
    OldId = "path"
    NewId = "digest"
    Media <- OneImport
    MaxBackups = 2
    MaxEdits = 1
    ReadBackFails = TRUE
INVARIANTS
    NothingOrphaned
