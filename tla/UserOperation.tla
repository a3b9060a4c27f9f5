--------------------------- MODULE UserOperation ---------------------------
(***************************************************************************)
(* A user operation and what it may cost (contracts/lib/UserOperation.sol).*)
(* Of the bytes fields only what the contracts tell apart is kept: whether *)
(* there is init code, whether there is call data, whether the paymaster   *)
(* data names the paymaster's token, whether the signature is the owner's. *)
(* The EntryPoint refuses gas values that do not fit in 120 bits, and      *)
(* PayGasX_proofs shows that the `unchecked' arithmetic of these           *)
(* formulas is exact below that.                                           *)
(***************************************************************************)
EXTENDS Integers

CONSTANTS
    Account,     \* the addresses
    NoPaymaster  \* address(0) in the paymaster field

UserOperationOf(Gas) ==
    [sender : Account, nonce : Nat, initCode : BOOLEAN, callData : BOOLEAN,
     callGas : Gas, verificationGas : Gas, preVerificationGas : Gas,
     maxFeePerGas : Gas, maxPriorityFeePerGas : Gas,
     paymaster : Account \cup {NoPaymaster},
     paymasterData : BOOLEAN, signature : BOOLEAN]

hasPaymaster(op) == op.paymaster # NoPaymaster

\* The price of a unit of gas in a block with this base fee.
gasPrice(op, basefee) ==
    LET tip == op.maxPriorityFeePerGas + basefee
    IN  IF op.maxFeePerGas = op.maxPriorityFeePerGas \/ op.maxFeePerGas < tip
        THEN op.maxFeePerGas
        ELSE tip

\* With a paymaster the verification gas also covers two calls of postOp.
requiredGas(op) ==
    op.callGas + op.verificationGas * (IF hasPaymaster(op) THEN 3 ELSE 1)
               + op.preVerificationGas

requiredPreFund(op, basefee) == requiredGas(op) * gasPrice(op, basefee)

\* The account whose deposit pays for the operation and gets the refund.
payer(op) == IF hasPaymaster(op) THEN op.paymaster ELSE op.sender
=============================================================================
