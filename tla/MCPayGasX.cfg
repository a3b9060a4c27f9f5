SPECIFICATION PGSpec
CONSTANTS
    w1 = w1
    w2 = w2
    p = p
    np = np
    vp = vp
    none = none
    NoPaymaster = none
    Account <- OneAccount
    Wallet <- OneWallet
    depositPaymaster = p
    nativePaymaster = np
    verifyingPaymaster = vp
    entryPoint = entryPoint
    Blockable = {}
    NATIVE_COST_OF_POST = 1
    presetFactory = presetFactory
    shop = shop
    treasury = treasury
    COST_OF_POST = 1
    maskToGive = 6
    initialMaskCredit = 8
    Approvals = {8}
    initialNativeCredit = 0
    EtherSpendings = {}
    Trusted = {none}
    Spendings = {6}
    Ratios <- MCRatios
    Endowment = 6
    WalletEther = 8
    Deployed = {p}
    PaymasterDeposit = 12
    MaxGranted = 8
    MaxNativeGranted = 0
    Amount = {8}
    Delay = {1}
    paymasterStake = 1
    unstakeDelaySec = 1
    MaxUint112 = 16
    MaxTime = 1
    Batches <- ReplayBatches
    BaseFees = {0}
    GasUsed = {0, 2}
    Overhead = {0}
    MaxUint120 = 3
    MaxCalls = 2
    MaxDepth = 1
INVARIANTS
    PGTypeOK
    NonceCountsOperations
    NoReplay
    SponsoredOpsPayOnce
    CreditCoversCharge
    ChargeIsBounded
CHECK_DEADLOCK FALSE
