SPECIFICATION Spec
CONSTANTS
    a1 = a1
    a2 = a2
    Account <- MCAccount
    Amount <- MCAmount
    Delay <- MCDelay
    paymasterStake = 1
    unstakeDelaySec = 1
    MaxUint112 = 2
    MaxTime = 4

INVARIANT WithdrawableAnytime
