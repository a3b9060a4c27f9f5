SPECIFICATION LSpec
CONSTANTS
    a = a
    b = b
    Wallet = {a, b}
    Request = {r1, r2}
    Bodies <- OneOp
    GasNeeded = {2, 3}
    MaxNonce = 1
    Instance = {i1, i2}
    Secrets = {"good"}
    MaxChanges = 0
INVARIANT
    MarginCoversGas
CHECK_DEADLOCK FALSE
