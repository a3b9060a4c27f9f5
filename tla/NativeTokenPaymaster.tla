------------------------ MODULE NativeTokenPaymaster ------------------------
(***************************************************************************)
(* The paymaster that is paid back in ether                                *)
(* (contracts/NativeTokenPaymaster.sol): it takes the ether out of the     *)
(* wallet, which must have named it; if that fails, the credit an admin    *)
(* gave is used up.                                                        *)
(***************************************************************************)
EXTENDS Integers

CONSTANTS
    nativePaymaster,  \* the paymaster itself
    COST_OF_POST      \* added to the cost of an operation for the postOp call

VARIABLES
    credits,                          \* credits[a]: the credit of account a
    nonce, eth, nativeTokenPaymaster  \* of SimpleWallet

SW == INSTANCE SimpleWallet

\* A wrong validation that looks at the ether, which the call can spend, only.
validatePaymasterUserOp_etherOnly(op, maxCost) ==
    /\ op.verificationGas > COST_OF_POST
    /\ nativeTokenPaymaster[op.sender] = nativePaymaster
    /\ eth[op.sender] >= maxCost

\* A wrong validation that does not mind the gas left for the postOp.
validatePaymasterUserOp_anyGas(op, maxCost) ==
    /\ nativeTokenPaymaster[op.sender] = nativePaymaster
    /\ eth[op.sender] >= maxCost
    /\ credits[op.sender] >= maxCost

\* The wallet must have both ether and credit for the highest cost.
validatePaymasterUserOp(op, maxCost) ==
    /\ op.verificationGas > COST_OF_POST
    /\ nativeTokenPaymaster[op.sender] = nativePaymaster
    /\ eth[op.sender] >= maxCost
    /\ credits[op.sender] >= maxCost

actualTotalCost(actualGasCost) == actualGasCost + COST_OF_POST

\* A wrong payment that charges the credit as well.
PayWithEther_both(a, v) ==
    /\ nativeTokenPaymaster[a] = nativePaymaster
    /\ v <= credits[a]
    /\ SW!transfer(a, nativePaymaster, v)
    /\ credits' = [credits EXCEPT ![a] = @ - v]

\* transfer of the wallet, which refuses a caller that is not its paymaster.
PayWithEther(a, v) ==
    /\ nativeTokenPaymaster[a] = nativePaymaster
    /\ SW!transfer(a, nativePaymaster, v)
    /\ UNCHANGED credits

PayWithCredit(a, v) ==
    /\ v <= credits[a]
    /\ credits' = [credits EXCEPT ![a] = @ - v]
    /\ UNCHANGED <<nonce, eth, nativeTokenPaymaster>>

addDepositFor(a, v) ==
    /\ credits' = [credits EXCEPT ![a] = @ + v]
    /\ UNCHANGED <<nonce, eth, nativeTokenPaymaster>>

\* The owner can move as much ether as there is.
AtMostBalance(v) == IF v >= eth[nativePaymaster] THEN eth[nativePaymaster] ELSE v

\* The ether that depositToEP sends to the EntryPoint.
depositToEP(v) ==
    /\ eth' = [eth EXCEPT ![nativePaymaster] = @ - AtMostBalance(v)]
    /\ UNCHANGED <<credits, nonce, nativeTokenPaymaster>>

withdrawBalance(target, v) ==
    /\ eth' = [eth EXCEPT ![nativePaymaster] = @ - AtMostBalance(v),
                          ![target] = @ + AtMostBalance(v)]
    /\ UNCHANGED <<credits, nonce, nativeTokenPaymaster>>
=============================================================================
