SPECIFICATION Spec
CONSTANTS
    r1 = r1  r2 = r2  r3 = r3
    a1 = a1  a2 = a2
    v1 = v1  v2 = v2  v3 = v3  v4 = v4
    c1 = c1  c2 = c2
    None = None
    Runs = {r1, r2, r3}
    Accounts = {a1, a2}
    VideosOf <- Library
    Configs = {c1, c2}
    Incomplete = {c2}
    VideosPerUnit = 1
    MaxVideos = 2
    SkipMissingCover = FALSE
    ValidateAdGet = TRUE
    MaxRows = 3
    MaxBatches = 2
SYMMETRY UploadSymmetry
INVARIANTS OneOpenBatch UnitsAsFrozen NothingTwiceNorMissing
CHECK_DEADLOCK FALSE
