SPECIFICATION PGSpec
CONSTANTS
    w1 = w1
    w2 = w2
    p = p
    np = np
    vp = vp
    none = none
    NoPaymaster = none
    Account <- OneAccount
    Wallet <- OneWallet
    depositPaymaster = p
    nativePaymaster = np
    verifyingPaymaster = vp
    entryPoint = entryPoint
    Blockable = {}
    NATIVE_COST_OF_POST = 1
    presetFactory = presetFactory
    shop = shop
    treasury = treasury
    COST_OF_POST = 1
    maskToGive = 16
    initialMaskCredit = 16
    Approvals = {16}
    initialNativeCredit = 0
    EtherSpendings = {}
    Trusted = {none}
    Spendings = {6}
    Ratios <- FlatRatio
    Endowment = 16
    WalletEther = 8
    Deployed = {p}
    PaymasterDeposit = 16
    MaxGranted = 0
    MaxNativeGranted = 0
    Amount = {4}
    Delay = {1}
    paymasterStake = 1
    unstakeDelaySec = 1
    MaxUint112 = 20
    MaxTime = 1
    Batches <- DearOp
    BaseFees = {0}
    GasUsed = {0, 1}
    Overhead = {0}
    MaxUint120 = 3
    MaxCalls = 2
    MaxDepth = 1
INVARIANT
    PostOpCostIsCharged
CHECK_DEADLOCK FALSE
