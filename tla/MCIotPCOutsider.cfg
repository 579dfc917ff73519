SPECIFICATION Spec
CONSTANTS
    d1 = d1
    d2 = d2
    a = a
    b = b
    x = x
    vendor = vendor
    f1 = f1
    f2 = f2
    NoAccount = NoAccount
    NoDigest = NoDigest
    REVEALED = REVEALED
    Account <- MCAccount
    Device = {a, b, x}
    Registered = {a, b}
    Key <- MCKey
    FileHash = {f1, f2}
    Signature <- OutsiderSignature
    Uid = f1
    Owner = vendor
    N = 2
    Value = 7
    StartTime = 1
    Day = 1
    DaysTillExpiration = 4
    DeltaToReveal = 2
    Deposit = {1}
    MaxBalance = 8
    MaxTime = 6
INVARIANT
    OnlyRegisteredCommitted
CHECK_DEADLOCK FALSE
