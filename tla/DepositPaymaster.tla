-------------------------- MODULE DepositPaymaster --------------------------
(***************************************************************************)
(* The paymaster that sponsors gas against MASK tokens                     *)
(* (contracts/DepositPaymaster.sol).  A wallet pays with its tokens; if    *)
(* the transfer fails, with the credit an admin gave it.                   *)
(*                                                                         *)
(* Amounts are far from 2^256, where the code's checked arithmetic would   *)
(* revert.  The token (an OpenZeppelin ERC20) is modelled by its balances  *)
(* and by what each wallet allows the paymaster to take.                   *)
(***************************************************************************)
EXTENDS Integers

CONSTANTS
    Holder,        \* the accounts that hold tokens or credit
    depositPaymaster,  \* the paymaster itself, a holder of tokens
    COST_OF_POST   \* added to the cost of an operation for the postOp call

VARIABLES
    credits,    \* credits[a]: the credit of account a
    ratio,      \* PAYTOKEN_TO_MATIC_RATIO: <<tokens, matic>>
    tokens,     \* tokens[a]: MASK balance of account a
    allowance   \* allowance[a]: what a allows the paymaster to transfer

paymasterVars == <<credits, ratio, tokens, allowance>>

\* The division comes first: a value below ratio[2] costs nothing.
getTokenValueOfMatic(maticBought) == (maticBought \div ratio[2]) * ratio[1]

\* A wrong validation that gives credit to everybody.
validatePaymasterUserOp_anyCredit(op, maxCost) ==
    /\ op.verificationGas > COST_OF_POST
    /\ op.paymasterData

\* The requirements of validatePaymasterUserOp; credit is only looked at.
validatePaymasterUserOp(op, maxCost) ==
    /\ op.verificationGas > COST_OF_POST
    /\ op.paymasterData
    /\ credits[op.sender] >= getTokenValueOfMatic(maxCost)

\* A wrong charge that skips the conversion to tokens.
tokenCost_unconverted(maxTokenCost, maxCost, actualGasCost) ==
    actualGasCost + COST_OF_POST

\* What the postOp charges: the rate is the one of the validation, which the
\* context carries as maxTokenCost and maxCost.
tokenCost(maxTokenCost, maxCost, actualGasCost) ==
    ((actualGasCost + COST_OF_POST) * maxTokenCost) \div maxCost

\* A wrong payment that ignores a transfer that fails.
PayWithTokens_unchecked(a, v) ==
    /\ tokens' = [tokens EXCEPT ![a] = @ - v, ![depositPaymaster] = @ + v]
    /\ UNCHANGED <<credits, ratio, allowance>>

\* safeTransferFrom(a, paymaster, v).
PayWithTokens(a, v) ==
    /\ v <= tokens[a]
    /\ v <= allowance[a]
    /\ tokens' = [tokens EXCEPT ![a] = @ - v, ![depositPaymaster] = @ + v]
    /\ allowance' = [allowance EXCEPT ![a] = @ - v]
    /\ UNCHANGED <<credits, ratio>>

\* A wrong postOp that never uses the credit up.
PayWithCredit_kept(a, v) ==
    /\ v <= credits[a]
    /\ UNCHANGED <<credits, ratio, tokens, allowance>>

\* credits[a] -= v, which reverts below zero.
PayWithCredit(a, v) ==
    /\ v <= credits[a]
    /\ credits' = [credits EXCEPT ![a] = @ - v]
    /\ UNCHANGED <<ratio, tokens, allowance>>

\* An admin gives credit to an account.
addDepositFor(a, v) ==
    /\ credits' = [credits EXCEPT ![a] = @ + v]
    /\ UNCHANGED <<ratio, tokens, allowance>>

\* The owner sets the rate.
setMaskToMaticRatio(r) ==
    /\ r[1] # 0 /\ r[2] # 0
    /\ ratio' = r
    /\ UNCHANGED <<credits, tokens, allowance>>

\* The owner takes tokens out, at most what there is.
withdraw(target, v) ==
    LET amount == IF v >= tokens[depositPaymaster] THEN tokens[depositPaymaster] ELSE v
    IN  /\ tokens' = [tokens EXCEPT ![depositPaymaster] = @ - amount,
                                    ![target] = @ + amount]
        /\ UNCHANGED <<credits, ratio, allowance>>

-----------------------------------------------------------------------------
(* What the wallets themselves do with their tokens. *)

transferTokens(a, b, v) ==
    /\ v <= tokens[a]
    /\ tokens' = [tokens EXCEPT ![a] = @ - v, ![b] = @ + v]
    /\ UNCHANGED <<credits, ratio, allowance>>

approve(a, v) ==
    /\ allowance' = [allowance EXCEPT ![a] = v]
    /\ UNCHANGED <<credits, ratio, tokens>>
=============================================================================
