SPECIFICATION PFairSpec
CONSTANTS
    d1 = d1
    d2 = d2
    i1 = i1
    u1 = u1
    u2 = u2
    HASH_BYTES = 2
    Byte = {0, 1, 2, 3}
    Zero = 0
    Key <- MCKey
    KeyPartial <- MCKeyPartial
    Xor <- MCXor
    Utf8 <- MCUtf8
    file <- MCFile
    Prompt = TRUE
    Distributor = {d1}
    IoT = {i1}
    Update = {u1, u2}
    packageAddresses <- MCAll
    contractAddresses <- MCAll
    Faults = {}
PROPERTIES
    LastUpdateDelivered
CHECK_DEADLOCK FALSE
