------------------------------ MODULE PayGasX ------------------------------
(***************************************************************************)
(* The EntryPoint with the wallets and the paymasters of PayGasX in place  *)
(* of the unknown code it calls.  A step of handleOps that runs the        *)
(* EntryPoint's code and another contract's is a step of both modules.     *)
(*                                                                         *)
(* handleOps is not called from inside itself here (MaxDepth is 1), so the *)
(* state of the other contracts needs one saved copy for each of its two   *)
(* call contexts, handleOps and innerHandleOp.                             *)
(***************************************************************************)
EXTENDS EntryPoint

CONSTANTS
    Wallet,            \* addresses of wallets
    depositPaymaster,  \* address of the DepositPaymaster
    COST_OF_POST,      \* see DepositPaymaster
    nativePaymaster,   \* address of the NativeTokenPaymaster
    NATIVE_COST_OF_POST,  \* its COST_OF_POST
    verifyingPaymaster,   \* address of the VerifyingPaymaster
    entryPoint,        \* address of the EntryPoint
    Blockable,         \* whom the VerifyingPaymaster's owner may block
    presetFactory,     \* address of the PresetFactory, which hands out tokens
    shop,              \* whom wallets pay with tokens
    treasury,          \* where the paymaster's owner sends the tokens earned
    maskToGive,        \* immutables of the PresetFactory
    initialMaskCredit,
    initialNativeCredit,
    Approvals,         \* allowances a wallet may set
    Spendings,         \* token amounts a wallet may spend
    EtherSpendings,    \* ether amounts a wallet may spend
    Trusted,           \* what a wallet may have as its nativeTokenPaymaster
    Ratios,            \* rates the paymaster's owner may set
    Endowment,         \* tokens the PresetFactory holds at first
    WalletEther,       \* ether sent to a wallet's address before it is used
    Deployed,          \* those of the paymasters that are deployed
    PaymasterDeposit,  \* deposit of each of them at first
    MaxGranted,        \* bound: credit given by hand only up to this total,
    MaxNativeGranted   \* for each of the paymasters that give it

Operation == UNION {ToSet(ops) : ops \in Batches}

\* Each role has an address of its own.  The fields of an operation have fixed
\* widths, so the operations are finitely many.
ASSUME PayGasXAssumption ==
    /\ MaxDepth = 1
    /\ IsFiniteSet(Operation)
    /\ Wallet \subseteq Account
    /\ depositPaymaster \in Account \ Wallet
    /\ nativePaymaster \in Account \ (Wallet \cup {depositPaymaster})
    /\ verifyingPaymaster \in Account \ (Wallet \cup {depositPaymaster, nativePaymaster})
    /\ entryPoint \notin Account
    /\ presetFactory \notin Account
    /\ shop \notin Account \cup {presetFactory}
    /\ treasury \notin Account \cup {presetFactory, shop}
    /\ Deployed \subseteq {depositPaymaster, nativePaymaster, verifyingPaymaster}
    /\ {PaymasterDeposit, paymasterStake} \subseteq 0 .. MaxUint112
    /\ COST_OF_POST \in Nat \ {0}
    /\ NATIVE_COST_OF_POST \in Nat \ {0}
    /\ \A v \in {maskToGive, initialMaskCredit, initialNativeCredit, Endowment,
                 WalletEther, MaxGranted, MaxNativeGranted} : v \in Nat
    /\ Approvals \subseteq Nat
    /\ Spendings \subseteq Nat
    /\ EtherSpendings \subseteq Nat
    /\ \A op \in Operation :
          /\ op.sender \in Wallet
          /\ op.paymaster \in {NoPaymaster, depositPaymaster, nativePaymaster,
                               verifyingPaymaster}
    /\ Ratios \subseteq (Nat \ {0}) \X (Nat \ {0})

VARIABLES
    nonce, eth, nativeTokenPaymaster,   \* of SimpleWallet
    credits, ratio, tokens, allowance,  \* of DepositPaymaster
    nativeCredits,                      \* credits of the NativeTokenPaymaster
    blockLists,                         \* of VerifyingPaymaster
    isSetUp,     \* of PresetFactory: the accounts that were set up
    validated,   \* validateUserOp of the operation being validated has run
    contexts,    \* the highest charge in the context of each validated operation
    bill,        \* what the last postOp charged
    handled,     \* history: how often each operation was charged
    billed,      \* history: the total charged in tokens, ether and credit
    granted,     \* history: the credit given
    refilled,    \* history: ether the native paymaster moved to its deposit
    saved,       \* App when handleOps was called
    inner        \* App when innerHandleOp was called

Holder == Account \cup {presetFactory, shop, treasury}

SW == INSTANCE SimpleWallet
DP == INSTANCE DepositPaymaster
NP == INSTANCE NativeTokenPaymaster WITH credits <- nativeCredits,
                                         COST_OF_POST <- NATIVE_COST_OF_POST
VP == INSTANCE VerifyingPaymaster

walletVars    == <<nonce, eth, nativeTokenPaymaster>>
paymasterVars == <<credits, ratio, tokens, allowance>>
history       == <<handled, billed, granted, refilled>>

appVars == <<walletVars, paymasterVars, nativeCredits, blockLists, isSetUp, history>>
txVars  == <<validated, contexts, bill, saved, inner>>
pgVars  == <<vars, appVars, txVars>>

\* The state of the other contracts, which a revert brings back too.
App == [nonce |-> nonce, eth |-> eth,
        nativeTokenPaymaster |-> nativeTokenPaymaster,
        credits |-> credits, ratio |-> ratio, tokens |-> tokens,
        allowance |-> allowance, nativeCredits |-> nativeCredits,
        blockLists |-> blockLists,
        isSetUp |-> isSetUp, handled |-> handled, billed |-> billed,
        granted |-> granted, refilled |-> refilled]

RestoreApp(app) ==
    /\ nonce' = app.nonce
    /\ eth' = app.eth
    /\ nativeTokenPaymaster' = app.nativeTokenPaymaster
    /\ credits' = app.credits
    /\ ratio' = app.ratio
    /\ tokens' = app.tokens
    /\ allowance' = app.allowance
    /\ nativeCredits' = app.nativeCredits
    /\ blockLists' = app.blockLists
    /\ isSetUp' = app.isSetUp
    /\ handled' = app.handled
    /\ billed' = app.billed
    /\ granted' = app.granted
    /\ refilled' = app.refilled

\* After deployment: the paymasters are staked and have a deposit, the
\* PresetFactory has tokens and is an admin of both.
PGInit ==
    /\ deposits = [a \in Account |->
          IF a \in Deployed
          THEN [deposit |-> PaymasterDeposit, staked |-> TRUE,
                stake |-> paymasterStake, unstakeDelaySec |-> unstakeDelaySec,
                withdrawTime |-> 0]
          ELSE NoDepositInfo]
    /\ balance = Cardinality(Deployed) * (PaymasterDeposit + paymasterStake)
    /\ withdrawn = 0
    /\ timestamp = 1
    /\ code = Deployed
    /\ frames = <<>>
    /\ nonce = [v \in Wallet |-> 0]
    /\ eth = [a \in Holder |-> IF a \in Wallet THEN WalletEther ELSE 0]
    /\ nativeTokenPaymaster = [v \in Wallet |-> NoPaymaster]
    /\ credits = [a \in Holder |-> 0]
    /\ ratio \in Ratios
    /\ tokens = [a \in Holder |-> IF a = presetFactory THEN Endowment ELSE 0]
    /\ allowance = [a \in Holder |-> 0]
    /\ nativeCredits = [a \in Holder |-> 0]
    /\ blockLists = {}
    /\ isSetUp = {}
    /\ validated = FALSE
    /\ contexts = <<>>
    /\ bill = 0
    /\ handled = [op \in Operation |-> 0]
    /\ billed = [tokens |-> 0, credit |-> 0, ether |-> 0, nativeCredit |-> 0]
    /\ granted = [mask |-> 0, native |-> 0]
    /\ refilled = 0
    /\ saved = App
    /\ inner = App

-----------------------------------------------------------------------------
(* Transactions that are not handleOps. *)

Idle == frames = <<>> /\ UNCHANGED <<code, frames, txVars>>

\* The admin gives a new account tokens and credit: all of it or nothing.
setUpForAccount(a) ==
    /\ Idle
    /\ a \notin isSetUp
    /\ isSetUp' = isSetUp \cup {a}
    /\ maskToGive <= tokens[presetFactory]
    /\ tokens' = [tokens EXCEPT ![presetFactory] = @ - maskToGive,
                                ![a] = @ + maskToGive]
    /\ credits' = [credits EXCEPT ![a] = @ + initialMaskCredit]
    /\ nativeCredits' = [nativeCredits EXCEPT ![a] = @ + initialNativeCredit]
    /\ granted' = [mask   |-> granted.mask + initialMaskCredit,
                   native |-> granted.native + initialNativeCredit]
    /\ UNCHANGED <<stakeVars, walletVars, ratio, allowance, blockLists, handled,
                   billed, refilled>>

\* An admin gives credit by hand.
addDepositFor(a, v) ==
    /\ Idle
    /\ granted.mask + v <= MaxGranted
    /\ DP!addDepositFor(a, v)
    /\ granted' = [granted EXCEPT !.mask = @ + v]
    /\ UNCHANGED <<stakeVars, walletVars, nativeCredits, blockLists, isSetUp,
                   handled, billed, refilled>>

addNativeDepositFor(a, v) ==
    /\ Idle
    /\ granted.native + v <= MaxNativeGranted
    /\ NP!addDepositFor(a, v)
    /\ granted' = [granted EXCEPT !.native = @ + v]
    /\ UNCHANGED <<stakeVars, paymasterVars, blockLists, isSetUp, handled, billed,
                   refilled>>

setMaskToMaticRatio(r) ==
    /\ Idle
    /\ DP!setMaskToMaticRatio(r)
    /\ UNCHANGED <<stakeVars, walletVars, nativeCredits, blockLists, isSetUp, history>>

withdraw(v) ==
    /\ Idle
    /\ DP!withdraw(treasury, v)
    /\ UNCHANGED <<stakeVars, walletVars, nativeCredits, blockLists, isSetUp, history>>

depositToEP(v) ==
    /\ Idle
    /\ NP!depositToEP(v)
    /\ depositTo(nativePaymaster, NP!AtMostBalance(v))
    /\ refilled' = refilled + NP!AtMostBalance(v)
    /\ UNCHANGED <<paymasterVars, blockLists, isSetUp, handled, billed, granted>>

withdrawBalance(v) ==
    /\ Idle
    /\ NP!withdrawBalance(treasury, v)
    /\ UNCHANGED <<stakeVars, paymasterVars, blockLists, isSetUp, history>>

addBlockList(a) ==
    /\ Idle
    /\ VP!addBlockList(a)
    /\ UNCHANGED <<stakeVars, walletVars, paymasterVars, nativeCredits, isSetUp,
                   history>>

\* What a wallet does, told by its owner or by an operation.
WalletActs(a) ==
    \/ /\ \/ \E v \in Spendings : DP!transferTokens(a, shop, v)
          \/ \E v \in Approvals : DP!approve(a, v)
       /\ UNCHANGED walletVars
    \/ /\ \/ \E v \in EtherSpendings : SW!transfer(a, shop, v)
          \/ \E b \in Trusted : SW!changePaymaster(a, b)
       /\ UNCHANGED paymasterVars

\* Called by the owner: exec, transfer or changePaymaster.
exec(a) ==
    /\ Idle
    /\ a \in code
    /\ WalletActs(a)
    /\ UNCHANGED <<stakeVars, nativeCredits, blockLists, isSetUp, history>>

\* Anybody sends the wallet ether for its deposit, which it passes on.
addDeposit(a, v) ==
    /\ Idle
    /\ a \in code
    /\ depositTo(a, v)
    /\ UNCHANGED appVars

\* The owner takes ether out of the wallet's deposit.
withdrawDepositTo(a, v) ==
    /\ Idle
    /\ a \in code
    /\ withdrawTo(a, v)
    /\ UNCHANGED appVars

\* The constructor of a wallet approves the paymaster of its choice to take
\* tokens, and names the paymaster that may take ether.
constructor(a) ==
    /\ \E v \in Approvals : DP!approve(a, v)
    /\ \E b \in Trusted : SW!changePaymaster(a, b)

\* Somebody creates a wallet with the factory, without an operation.
PGDeploy(a) ==
    /\ frames = <<>>
    /\ deploy(a)
    /\ constructor(a)
    /\ UNCHANGED <<nativeCredits, blockLists, isSetUp, history, txVars>>

-----------------------------------------------------------------------------
(* handleOps. *)

PGHandleOps(ops, fee) ==
    /\ handleOps(ops, fee)
    /\ saved' = App
    /\ validated' = FALSE
    /\ contexts' = <<>>
    /\ UNCHANGED <<appVars, bill, inner>>

PGCallValidateUserOp ==
    /\ CallValidateUserOp
    /\ IF TopOp.initCode
       THEN constructor(TopOp.sender)
       ELSE UNCHANGED <<walletVars, paymasterVars>>
    /\ UNCHANGED <<nativeCredits, blockLists, isSetUp, history, txVars>>

\* validateUserOp of the wallet: signature, nonce, and the missing funds sent
\* to the EntryPoint, which credits them to the wallet's deposit.
WalletValidates ==
    LET a       == TopOp.sender
        missing == missingWalletFunds(TopOp, Top.basefee)
        pays    == /\ SW!CanPay(a, missing)
                   /\ deposits[a].deposit + missing <= MaxUint112
    IN  /\ InPhase("validateUserOp")
        /\ ~validated
        /\ SW!_validateSignature(TopOp)
        /\ SW!_validateAndUpdateNonce(TopOp)
        /\ IF pays
           THEN /\ CanCall
                /\ SW!_payPrefund(a, missing)
                /\ depositTo(a, missing)
                /\ frames' = Counted
           ELSE UNCHANGED <<eth, stakeVars, frames>>
        /\ validated' = TRUE
        /\ UNCHANGED <<code, nativeTokenPaymaster, paymasterVars, nativeCredits,
                       blockLists, isSetUp, history, contexts, bill, saved, inner>>

ByNative(op)    == op.paymaster = nativePaymaster
ByVerifying(op) == op.paymaster = verifyingPaymaster

\* The paymaster agrees: two of them when the wallet has credit for the highest
\* cost, which they put into the context of the postOp.
PGValidationEnds(used, over) ==
    LET sponsored == UO!hasPaymaster(TopOp)
        maxCost   == UO!requiredPreFund(TopOp, Top.basefee)
    IN  /\ validated
        /\ ValidationEnds(used, over, sponsored /\ ~ByVerifying(TopOp))
        /\ sponsored => CASE ByNative(TopOp) -> NP!validatePaymasterUserOp(TopOp, maxCost)
                          [] ByVerifying(TopOp) -> VP!validatePaymasterUserOp(TopOp)
                          [] OTHER -> DP!validatePaymasterUserOp(TopOp, maxCost)
        /\ contexts' = Append(contexts,
                              CASE ~sponsored \/ ByVerifying(TopOp) -> 0
                                [] ByNative(TopOp) -> maxCost
                                [] OTHER -> DP!getTokenValueOfMatic(maxCost))
        /\ validated' = FALSE
        /\ UNCHANGED <<appVars, bill, saved, inner>>

PGInnerHandleOp(over) ==
    /\ innerHandleOp(over)
    /\ inner' = App
    /\ UNCHANGED <<appVars, validated, contexts, bill, saved>>

\* What the operation's call does: if the VerifyingPaymaster sponsors it, an
\* approval, else anything the wallet can do, or something with other contracts.
OperationActs ==
    IF ByVerifying(TopOp)
    THEN (\E v \in Approvals : DP!approve(TopOp.sender, v)) /\ UNCHANGED walletVars
    ELSE WalletActs(TopOp.sender) \/ UNCHANGED <<walletVars, paymasterVars>>

PGCallReturns(success, used) ==
    /\ CallReturns(success, used)
    /\ IF success THEN OperationActs ELSE UNCHANGED <<walletVars, paymasterVars>>
    /\ UNCHANGED <<nativeCredits, blockLists, isSetUp, history, txVars>>

\* What the postOp of the operation being executed charges; the division fails
\* for a maximum cost of zero.
Charge == IF ByNative(TopOp)
          THEN NP!actualTotalCost(ActualGasCost(Top))
          ELSE DP!tokenCost(contexts[Top.i], TopInfo.prefund, ActualGasCost(Top))

CanCompute == ByNative(TopOp) \/ TopInfo.prefund # 0

\* postOp takes tokens or ether first, and credit after a revert.
postOp(used) ==
    /\ PostOpReturns(used)
    /\ CanCompute
    /\ IF ByNative(TopOp)
       THEN /\ IF Top.mode = "postOpReverted"
               THEN NP!PayWithCredit(TopOp.sender, Charge)
               ELSE NP!PayWithEther(TopOp.sender, Charge)
            /\ UNCHANGED paymasterVars
       ELSE /\ IF Top.mode = "postOpReverted"
               THEN DP!PayWithCredit(TopOp.sender, Charge)
               ELSE DP!PayWithTokens(TopOp.sender, Charge)
            /\ UNCHANGED <<walletVars, nativeCredits>>
    /\ bill' = Charge
    /\ UNCHANGED <<blockLists, isSetUp, history, validated, contexts, saved, inner>>

\* A wrong catch that undoes the EntryPoint's own state only.
UndoOperation_notTokens == UNCHANGED appVars

UndoOperation == RestoreApp(inner)

PGInnerReverts(used, over) ==
    /\ InnerReverts(used, over)
    /\ UndoOperation
    /\ UNCHANGED txVars

\* Which of the totals billed the operation being settled adds to.
Means(op) ==
    IF Top.mode = "postOpReverted"
    THEN IF ByNative(op) THEN "nativeCredit" ELSE "credit"
    ELSE IF ByNative(op) THEN "ether" ELSE "tokens"

PGSettle ==
    /\ Settle
    /\ handled' = [handled EXCEPT ![TopOp] = @ + 1]
    /\ billed' = IF TopInfo.context THEN [billed EXCEPT ![Means(TopOp)] = @ + bill]
                 ELSE billed
    /\ UNCHANGED <<walletVars, paymasterVars, nativeCredits, blockLists, isSetUp,
                   granted, refilled, txVars>>

PGCompensate == _compensate /\ UNCHANGED <<appVars, txVars>>

PGHandleOpsReverts ==
    /\ HandleOpsReverts
    /\ RestoreApp(saved)
    /\ UNCHANGED txVars

PGHandleOpsStep ==
    \/ PGCallValidateUserOp
    \/ WalletValidates
    \/ \E used \in GasUsed, over \in Overhead : PGValidationEnds(used, over)
    \/ \E over \in Overhead : PGInnerHandleOp(over)
    \/ \E success \in BOOLEAN, used \in GasUsed : PGCallReturns(success, used)
    \/ \E used \in GasUsed : postOp(used)
    \/ \E used \in GasUsed, over \in Overhead : PGInnerReverts(used, over)
    \/ PGSettle
    \/ PGCompensate
    \/ PGHandleOpsReverts

PGNext ==
    \/ \E ops \in Batches, fee \in BaseFees : PGHandleOps(ops, fee)
    \/ PGHandleOpsStep
    \/ \E a \in Wallet : setUpForAccount(a) \/ exec(a) \/ PGDeploy(a)
    \/ \E a \in Wallet, v \in Amount : addDeposit(a, v) \/ withdrawDepositTo(a, v)
                                   \/ addDepositFor(a, v)
                                   \/ addNativeDepositFor(a, v)
    \/ \E v \in Amount : depositToEP(v) \/ withdrawBalance(v)
    \/ \E r \in Ratios : setMaskToMaticRatio(r)
    \/ \E a \in Blockable : addBlockList(a)
    \/ \E v \in Spendings : withdraw(v)

PGSpec == PGInit /\ [][PGNext]_pgVars

-----------------------------------------------------------------------------
(* Properties. *)

PGTypeOK ==
    /\ EPTypeOK
    /\ nonce \in [Wallet -> Nat]
    /\ eth \in [Holder -> Nat]
    /\ nativeTokenPaymaster \in [Wallet -> {NoPaymaster} \cup Trusted]
    /\ credits \in [Holder -> Nat]
    /\ ratio \in Ratios
    /\ tokens \in [Holder -> Nat]
    /\ allowance \in [Holder -> Nat]
    /\ nativeCredits \in [Holder -> Nat]
    /\ blockLists \subseteq Blockable
    /\ isSetUp \subseteq Account
    /\ validated \in BOOLEAN
    /\ bill \in Nat
    /\ handled \in [Operation -> Nat]
    /\ billed \in [tokens : Nat, credit : Nat, ether : Nat, nativeCredit : Nat]
    /\ granted \in [mask : Nat, native : Nat]
    /\ refilled \in Nat

\* The operations of wallet a that used up a nonce and are not charged yet.
InFlight(a) ==
    IF frames = <<>> THEN 0
    ELSE Cardinality({j \in Held(Top) :
                         Top.ops[j].sender = a /\ ~Top.ops[j].initCode})
         + (IF validated /\ TopOp.sender = a /\ ~TopOp.initCode THEN 1 ELSE 0)

\* A wallet's nonce counts the operations it was charged for and those about to
\* be: no operation that failed loses a nonce without being charged, and none
\* is charged without a nonce.
NonceCountsOperations ==
    \A a \in Wallet :
        nonce[a] = InFlight(a) +
            MapThenSumSet(LAMBDA op : handled[op],
                          {op \in Operation : op.sender = a /\ ~op.initCode})

\* Two charged operations of a wallet never have the same nonce, and none is
\* charged twice, be it sent again in the same batch or a later one; for an
\* operation that creates its wallet, which uses no nonce, because there is
\* only one creation.
NoReplay ==
    \A op1, op2 \in Operation :
        /\ handled[op1] <= 1
        /\ (/\ op1 # op2
            /\ op1.sender = op2.sender
            /\ op1.initCode = op2.initCode
            /\ op1.initCode \/ op1.nonce = op2.nonce) => handled[op1] + handled[op2] <= 1

Total(f) == MapThenSumSet(LAMBDA a : f[a], Wallet)

\* Each sponsored operation is paid for once, in tokens or ether or in credit:
\* between transactions, what reached the paymasters and the credit used up are
\* what the completed operations were billed, although a postOp that failed or
\* was undone may have charged before.
SponsoredOpsPayOnce ==
    frames = <<>> =>
        /\ tokens[depositPaymaster] + tokens[treasury] = billed.tokens
        /\ eth[nativePaymaster] + eth[treasury] + refilled = billed.ether
        /\ granted.mask = billed.credit + Total(credits)
        /\ granted.native = billed.nativeCredit + Total(nativeCredits)

\* "In this mode, we use the deposit to pay (which we validated to be large
\* enough)" (DepositPaymaster.sol:128, NativeTokenPaymaster.sol:74): when the
\* postOp is called again after a revert, the credit covers the charge.
CreditCoversCharge ==
    InPhase("postOp") /\ Top.mode = "postOpReverted" /\ TopInfo.prefund # 0 =>
        Charge <= (IF ByNative(TopOp) THEN nativeCredits ELSE credits)[TopOp.sender]

\* A wallet never pays more than the maximum the paymaster checked its credit
\* for.
ChargeIsBounded ==
    InPhase("settle") /\ TopInfo.context => bill <= contexts[Top.i]

\* COST_OF_POST is the "calculated cost of the postOp" (DepositPaymaster.sol:27):
\* what a wallet is charged covers the operation and its postOp, at the rate of
\* its validation, when the postOp uses no more gas than COST_OF_POST.
PostOpCostIsCharged ==
    InPhase("settle") /\ TopInfo.context /\ ~ByNative(TopOp) =>
        bill * TopInfo.prefund >= ActualGasCost(Top) * contexts[Top.i]

\* "This wallet is blocked" (VerifyingPaymaster.sol:85): the paymaster sponsors
\* no operation of a wallet on its block list.
BlockedIsRefused ==
    frames # <<>> => \A j \in Held(Top) :
        ByVerifying(Top.ops[j]) => Top.ops[j].sender \notin blockLists
=============================================================================
