SPECIFICATION PSpec
CONSTANTS
    d1 = d1
    d2 = d2
    i1 = i1
    u1 = u1
    u2 = u2
    HASH_BYTES = 2
    Byte = {0, 1, 2, 3}
    Zero = 0
    Key <- MCKey
    KeyPartial <- MCKeyPartial
    Xor <- MCXor
    Utf8 <- MCUtf8
    file <- MCFile
    Prompt = TRUE
    Distributor = {d1, d2}
    IoT = {i1}
    Update = {u1, u2}
    packageAddresses <- MCFirst
    contractAddresses <- MCFirst
    Faults = {"drop", "loss", "crash", "disk", "process", "package", "restart"}
INVARIANTS
    ZTypeOK
    PTypeOK
    OneKeyPerDevice
    OneProofPerUpdate
    ProofHasFile
    FairExchange
    KeyMeetsFile
    PlaintextIsUpdate
PROPERTIES
    ImplementsFairTrade
CHECK_DEADLOCK FALSE
