SPECIFICATION Spec
CONSTANTS
    Absent = Absent
    Corrupt = Corrupt
    a = a
    b = b
    c = c
    d = d
    Callers = {g1, g2, g3}
    Calls <- MCCalls
    InitialData <- MCInitialData
    Limits = {1, 2}
    MaxRetries = 2
    KVMayFail = TRUE
INVARIANTS
    TypeOK
    NoDuplicates
    LosesOnlyToChanges
    PrunedLeftTheIndex
PROPERTIES
    ImplementsAtomicIndex
