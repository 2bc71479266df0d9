SPECIFICATION PluginsSpec
CONSTANTS
    Absent = Absent
    None = None
    Unsigned = Unsigned
    Torn = Torn
    keyA = keyA
    oldCode = oldCode
    newCode = newCode
    w1 = w1
    w2 = w2
SYMMETRY Interchangeable
INVARIANTS
    PluginsTypeOK
    CeilingsHold
    ReadyHasTarget
    ReviewHolds
PROPERTIES
    LoneRefreshNeverFallsBack
    OnlyRemovalUninstalls
    UndoKeepsInstalled
    ManualChoiceStands
    ImportsFollowUser
CHECK_DEADLOCK FALSE
