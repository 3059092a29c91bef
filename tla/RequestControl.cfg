SPECIFICATION FairSpec
CONSTANTS
    read1 = read1  read2 = read2  other1 = other1  plain1 = plain1
    cmd1 = cmd1  cmd2 = cmd2
    scope1 = scope1  scope2 = scope2  scope3 = scope3
    fam1 = fam1  fam2 = fam2  fam3 = fam3
    adv1 = adv1
    None = None
    Calls = {read1, read2, other1, plain1}
    Commands = {cmd1, cmd2}
    Scopes = {scope1, scope2, scope3}
    Families = {fam1, fam2, fam3}
    Advertisers = {adv1}
    CommandOf <- Commanded
    ScopeOf <- Scoped
    FamilyOf <- Grouped
    AdvertiserOf <- OneAdvertiser
    Paced = {read1, read2, other1}
    Attempts <- Sends
    ScopeSlots = 2
    FamilySlots = 1
    Limit <- Budgets
    Interval = 1
    DefaultCooldown = 2
    RetryAfters = {0, 3}
INVARIANTS HoldersAreCounted BudgetIsKept
PROPERTIES GateIsPaced CooldownIsKept EveryCallEnds
CHECK_DEADLOCK FALSE
