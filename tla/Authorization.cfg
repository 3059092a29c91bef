SPECIFICATION Spec
CONSTANTS
    auth1 = auth1  auth2 = auth2  ensure1 = ensure1  refresh1 = refresh1  sync1 = sync1
    acc1 = acc1  acc2 = acc2  adv1 = adv1  adv2 = adv2
    None = None
    Runs = {auth1, auth2, ensure1, refresh1, sync1}
    Command <- CommandsOfRuns
    Rebind = {auth2}
    Accounts = {acc1}
    Advertisers = {adv1}
    AdvertisersOf <- Reach
    MaxTokens = 2
INVARIANTS ActiveTokenIsCurrent IndexesAgree
PROPERTIES RefreshIsSingleFlight NothingIsUndone
CHECK_DEADLOCK FALSE
