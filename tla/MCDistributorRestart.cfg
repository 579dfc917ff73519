SPECIFICATION DSpec
CONSTANTS
    d1 = d1
    d2 = d2
    o = o
    a = a
    b = b
    c = c
    vendor = vendor
    f1 = f1
    NoAccount = NoAccount
    NoDigest = NoDigest
    REVEALED = REVEALED
    Account <- MCAccountOthers
    Device = {a, b, c}
    Registered = {a, b}
    Key <- MCKeyOthers
    FileHash = {f1}
    Signature <- MCOthers
    Uid = f1
    Owner = vendor
    N = 2
    Value = 7
    StartTime = 1
    Day = 1
    DaysTillExpiration = 1
    DeltaToReveal = 0
    Deposit = {}
    MaxBalance = 7
    MaxTime = 3
    Distributor = {d1}
    LowerCase = {a, b}
    rOf <- MCr
    Faults = {"timeout", "later", "restart"}
    Prompt = FALSE
INVARIANTS
    DTypeOK
    RevealSucceedsInTime
CHECK_DEADLOCK FALSE
