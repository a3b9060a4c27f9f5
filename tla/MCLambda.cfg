SPECIFICATION LSpec
CONSTANTS
    a = a
    b = b
    Wallet = {a, b}
    Request = {r1, r2}
    Bodies <- MCBodies
    GasNeeded = {2}
    MaxNonce = 1
    Instance = {i1, i2}
    Secrets = {"password", "badChain", "badKey", "good"}
    MaxChanges = 1
INVARIANTS
    LTypeOK
    OneOpPerWallet
    NoNonceGap
    
    VouchedConfigsWork
    BadConfigIsDropped
    OnlyGoodConfigsSend
PROPERTY
    EveryInvocationIsAnswered
CHECK_DEADLOCK FALSE
