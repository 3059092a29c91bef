SPECIFICATION FairSpec
CONSTANTS
    v1 = v1  v2 = v2  v3 = v3
    p1 = p1  e1 = e1
    m1 = m1  c1 = c1  x1 = x1  run1 = run1
    None = None
    Bundles = {v1, v2, v3}
    Version <- Versions
    Catalog <- Catalogs
    Procs = {p1, e1}
    Threads = {m1, c1, x1, run1}
    ProcOf <- ThreadProcs
    Kind <- ThreadKinds
    Home <- AllFromFirst
    Frail = {v1, v2}
    MaxInstalls = 1
    MaxCrashes = 1
    Leftover = {v2}
INVARIANTS NamedSlotsExist RetiredSessionsDrain
PROPERTIES EveryCallEnds
CHECK_DEADLOCK FALSE
