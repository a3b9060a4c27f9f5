---------------------------- MODULE SimpleWallet ----------------------------
(***************************************************************************)
(* The wallet contract (contracts/BaseWallet.sol, SimpleWallet.sol): the   *)
(* nonce that makes each signed operation good for one use, the ether from *)
(* which the prefund is paid, and the paymaster that may take ether.       *)
(***************************************************************************)
EXTENDS Integers

VARIABLES
    nonce,               \* nonce[w]: the nonce of the next operation of w
    eth,                 \* eth[a]: the ether account a holds
    nativeTokenPaymaster \* nativeTokenPaymaster[w]: whom w lets take its ether

walletVars == <<nonce, eth, nativeTokenPaymaster>>

\* _validateSignature: the operation is signed by the owner of the wallet.
_validateSignature(op) == op.signature

\* A wrong check that accepts a nonce that was used.
_validateAndUpdateNonce_old(op) ==
    IF op.initCode THEN UNCHANGED nonce
    ELSE /\ op.nonce <= nonce[op.sender]
         /\ nonce' = [nonce EXCEPT ![op.sender] = @ + 1]

\* A wrong validation that checks the nonce and does not use it up.
_validateAndUpdateNonce_kept(op) ==
    /\ op.initCode \/ op.nonce = nonce[op.sender]
    /\ UNCHANGED nonce

\* The nonce must be the wallet's and is used up; an operation that creates
\* the wallet has its salt in the nonce field, and no nonce is checked.
_validateAndUpdateNonce(op) ==
    IF op.initCode THEN UNCHANGED nonce
    ELSE /\ op.nonce = nonce[op.sender]
         /\ nonce' = [nonce EXCEPT ![op.sender] = @ + 1]

\* The wallet can send the missing funds; when it cannot, the failure is
\* ignored and the EntryPoint finds the deposit too low.
CanPay(w, missing) == missing # 0 /\ missing <= eth[w]

_payPrefund(w, missing) == eth' = [eth EXCEPT ![w] = @ - missing]

\* The owner, the wallet itself or its paymaster moves ether out of the wallet.
transfer(w, dest, v) ==
    /\ v <= eth[w]
    /\ eth' = [eth EXCEPT ![w] = @ - v, ![dest] = @ + v]
    /\ UNCHANGED <<nonce, nativeTokenPaymaster>>

changePaymaster(w, newPaymaster) ==
    /\ nativeTokenPaymaster' = [nativeTokenPaymaster EXCEPT ![w] = newPaymaster]
    /\ UNCHANGED <<nonce, eth>>
=============================================================================
