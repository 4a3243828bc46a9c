SPECIFICATION Spec
CONSTANTS
    Missing = Missing
    Original = Original
    u1 = u1
    u2 = u2
    u3 = u3
    l1 = l1
    l2 = l2
    l3 = l3
    Users = {u1, u2, u3}
    Links = {l1, l2, l3}
    Requests = {r1, r2}
    Ops <- AddAndMerge
    InitialRecords <- Fresh
    MaxRetries = 3
    KVMayFail = FALSE
INVARIANTS
    ReactionSurvives
