SPECIFICATION DFairSpec
CONSTANTS
    d1 = d1
    d2 = d2
    o = o
    a = a
    b = b
    c = c
    vendor = vendor
    f1 = f1
    NoAccount = NoAccount
    NoDigest = NoDigest
    REVEALED = REVEALED
    Account <- MCAccount
    Device = {a, b}
    Registered = {a, b}
    Key <- MCKey
    FileHash = {f1}
    Signature <- MCRivals
    Uid = f1
    Owner = vendor
    N = 2
    Value = 7
    StartTime = 1
    Day = 1
    DaysTillExpiration = 2
    DeltaToReveal = 1
    Deposit = {1}
    MaxBalance = 8
    MaxTime = 1
    Distributor = {d1, d2}
    LowerCase = {a, b}
    rOf <- MCr
    Faults = {}
    Prompt = TRUE
PROPERTIES
    ProofIsPaid
CHECK_DEADLOCK FALSE
