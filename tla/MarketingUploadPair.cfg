SPECIFICATION Spec
CONSTANTS
    r1 = r1  r2 = r2  r3 = r3
    j1 = j1  j2 = j2
    a1 = a1  a2 = a2
    n1 = n1  n2 = n2
    None = None
    Runs = {r1, r2}
    Jobs = {j1, j2}
    Advertisers = {a1, a2}
    Names = {n1, n2}
    AdvertiserOf <- OneAdvertiser
    NameOf <- OwnName
    Rank <- InOrder
    MaxConcurrency = 2
    ScopeLocked = TRUE
SYMMETRY RunSymmetry
INVARIANTS ObjectsStayWithTheirJobs NoDuplicateObjects
PROPERTY LedgerSpec
