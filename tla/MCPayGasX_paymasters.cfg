SPECIFICATION MixedSpec
CONSTANTS
    w1 = w1
    w2 = w2
    p = p
    np = np
    vp = vp
    none = none
    NoPaymaster = none
    Account <- MCAccounts
    Wallet <- BothWallets
    depositPaymaster = p
    nativePaymaster = np
    verifyingPaymaster = vp
    entryPoint = entryPoint
    Blockable = {w1}
    NATIVE_COST_OF_POST = 1
    presetFactory = presetFactory
    shop = shop
    treasury = treasury
    COST_OF_POST = 1
    maskToGive = 6
    initialMaskCredit = 8
    Approvals = {0, 8}
    initialNativeCredit = 8
    EtherSpendings = {4}
    Trusted = {none, np}
    Spendings = {}
    Ratios <- HalfRatio
    Endowment = 6
    WalletEther = 12
    Deployed = {p, np, vp}
    PaymasterDeposit = 12
    MaxGranted = 0
    MaxNativeGranted = 8
    Amount = {8}
    Delay = {1}
    paymasterStake = 1
    unstakeDelaySec = 1
    MaxUint112 = 12
    MaxTime = 1
    Batches <- MixedBatches
    BaseFees = {0}
    GasUsed = {0, 2}
    Overhead = {0}
    MaxUint120 = 3
    MaxCalls = 2
    MaxDepth = 1
INVARIANTS
    NonceCountsOperations
    SponsoredOpsPayOnce
    CreditCoversCharge
    ChargeIsBounded
CHECK_DEADLOCK FALSE
