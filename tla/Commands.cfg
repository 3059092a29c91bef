SPECIFICATION Spec
CONSTANTS
    None = None
    Ids = {1, 2, 3}
    Attributes <- SomeAttributes
    Selections <- SomeSelections
    Top = 1
    PageSize = 1
    MaxPages = {2, 3}
    MaxChanges = 1
    Accounts = {1, 2, 3}
    Marketing = {1}
    Enabled = {1, 2}
    Spend <- SomeSpend
    Concurrency = 2
    Objects = {1, 2}
    SettingCommands = {c1, c2}
    Amounts = {m1, m2}
    MaxConsoleChanges = 1
    Nothing = Nothing
    Works = {1, 2}
    k1 = k1
    k2 = k2
    n1 = n1
    n2 = n2
    Creators = {k1, k2}
    Names = {n1, n2, n3}
    Batches = {b1, b2}
    OwnerOf <- SomeOwners
    FirstName <- SomeNames
    PublicHints <- SomeHints
    ShowsUnder <- SomeProducts
    CacheMax = 1
    MaxTurns = 1
    Nobody = Nobody
    Readers = {1, 2, 3}
    PlanOf <- SomePlans
    PageCount = 2
    Slots = 1
    MaxWrites = 1
    Unset = Unset
    StoreUsers = {1, 2, 3}
    Contents = {x1, x2}
    MaxGeneration = 3
    Absent = Absent
    Corrupt = Corrupt
    Unread = Unread
INVARIANTS CompleteOrRefused AnswersAreTrue ReportIsHonest ReportedSettingHolds
           WorksAreJudgedOfficially CacheIsVerified RefreshSeesWrite NobodyWaitsForAWaiter
PROPERTY StateIsAtomic
CHECK_DEADLOCK FALSE
SYMMETRY Interchangeable
