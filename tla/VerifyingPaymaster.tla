------------------------- MODULE VerifyingPaymaster -------------------------
(***************************************************************************)
(* The paymaster that pays for operations its signer agreed to             *)
(* (contracts/VerifyingPaymaster.sol), so that a wallet without ether can  *)
(* approve the DepositPaymaster to take its tokens.  It gives no context:  *)
(* the EntryPoint does not call its postOp, and nobody pays it back.       *)
(***************************************************************************)

CONSTANT entryPoint  \* the only caller of validatePaymasterUserOp in a batch

VARIABLE blockLists  \* the blocked addresses

\* The call data are one call of the token's approve, for the DepositPaymaster.
\* What else call data can be is the same to the model as a refusal.
_validateCallData(op) == op.callData

\* The block list is asked for msg.sender, which is the EntryPoint.
validatePaymasterUserOp(op) ==
    /\ entryPoint \notin blockLists
    /\ op.paymasterData
    /\ _validateCallData(op)

\* The owner blocks an address, for good.
addBlockList(blockAddress) == blockLists' = blockLists \cup {blockAddress}
=============================================================================
