SPECIFICATION FairSpec
CONSTANTS
    Absent = Absent
    Unsigned = Unsigned
    Torn = Torn
    keyA = keyA
    oldCode = oldCode
    w1 = w1
    w2 = w2
PROPERTIES
    CallsEnd
    EveryOperationSettles
CHECK_DEADLOCK FALSE
