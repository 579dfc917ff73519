SPECIFICATION VSpec
CONSTANTS
    u1 = u1
    u2 = u2
    f0 = f0
    f1 = f1
    f2 = f2
    text1 = text1
    i1 = i1
    i2 = i2
    NoPackage = NoPackage
    NoDeployment = NoDeployment
    IoT = {i1, i2}
    File = {f0, f1, f2, text1}
    Upload = {u1, u2}
    contentOf <- MCContent
    OldFile = f0
    Partial = f0
    utf8 <- MCutf8
    Long = {f2}
    OldDevices = {i1}
    Register = FALSE
    Meanwhile = {"idle", "read", "gen", "torrent", "package", "seed", "ready", "done", "failed"}
    MaxRestarts = 0
INVARIANTS
    OneContractPerUpload
CHECK_DEADLOCK FALSE
