SPECIFICATION OfferedSpec
CONSTANTS
    Unsigned = Unsigned
    Absent = Absent
    Torn = Torn
    keyA = keyA
    oldCode = oldCode
    newCode = newCode
    Signers = {keyA}
    Components = {oldCode, newCode}
    Packages <- AllPackages
    FaultSites = {}
INVARIANTS
    StoreInv
    TypeOK
    CutLeavesProvedVersion
    IdleServesInstalled
    KeptDescribesPrevious
    TrustFollowsLive
PROPERTIES
    GuardedInstallGoesForward
    UnsignedOnlyByReturning
    ImplementsVersionSwap
