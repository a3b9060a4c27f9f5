SPECIFICATION TxSpec
CONSTANTS
    w = w
    p = p
    none = none
    NoPaymaster = none
    Account <- MCAccount
    Amount = {4}
    Delay = {1}
    paymasterStake = 1
    unstakeDelaySec = 1
    MaxUint112 = 5
    MaxTime = 1
    Batches <- ShortBatches
    BaseFees = {1}
    GasUsed = {1}
    Overhead = {0, 1}
    MaxUint120 = 3
    MaxCalls = 2
    MaxDepth = 1
INVARIANT
    PrefundCoversCost
CHECK_DEADLOCK FALSE
