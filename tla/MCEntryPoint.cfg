SPECIFICATION TxSpec
CONSTANTS
    w = w
    p = p
    none = none
    NoPaymaster = none
    Account <- MCAccount
    Amount = {4}
    Delay = {1}
    paymasterStake = 1
    unstakeDelaySec = 1
    MaxUint112 = 5
    MaxTime = 2
    Batches <- MCBatches
    BaseFees = {1}
    GasUsed = {1}
    Overhead = {0}
    MaxUint120 = 3
    MaxCalls = 2
    MaxDepth = 2
INVARIANTS
    EPTypeOK
    FundsAccounted
    ChargedExactly
    AcceptedPaymasterHasStake
PROPERTIES
    LockedStakeStays
    
CHECK_DEADLOCK FALSE
