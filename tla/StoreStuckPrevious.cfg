SPECIFICATION Spec
CONSTANTS
    Unsigned = Unsigned
    Absent = Absent
    Torn = Torn
    keyA = keyA
    oldCode = oldCode
    newCode = newCode
    Signers = {keyA}
    Components = {oldCode, newCode}
    Packages <- TwoReleases
    FaultSites = {"clear_previous"}
PROPERTIES
    UndoKeepsInstalled
