---------------------------- MODULE MCEntryPoint ----------------------------
(***************************************************************************)
(* EntryPoint on a wallet and a paymaster, for TLC.  Each operation uses   *)
(* the smallest gas values that keep the cases apart.                      *)
(***************************************************************************)
EXTENDS EntryPoint

CONSTANTS w, p, none

MCAccount == {w, p}

\* An operation of wallet w; the price of its gas is its maxFeePerGas, or less
\* when the base fee is low.
Op(nonce, new, data, vgas, pm) ==
    [sender |-> w, nonce |-> nonce, initCode |-> new, callData |-> data,
     callGas |-> 1, verificationGas |-> vgas, preVerificationGas |-> 0,
     maxFeePerGas |-> 1, maxPriorityFeePerGas |-> 0, paymaster |-> pm,
     paymasterData |-> TRUE, signature |-> TRUE]

selfPaid  == Op(0, FALSE, TRUE, 1, none)
creation  == Op(0, TRUE, FALSE, 1, none)
sponsored == Op(1, FALSE, TRUE, 1, p)

MCBatches == {<<selfPaid>>, <<sponsored>>, <<creation, sponsored>>,
              <<sponsored, selfPaid>>}
ShortBatches == {<<sponsored>>, <<selfPaid>>}

-----------------------------------------------------------------------------
(***************************************************************************)
(* One transaction, with all the calls and the nested handleOps it may     *)
(* make, from each of several states.                                      *)
(***************************************************************************)

WorldOf(records, accounts) ==
    [deposits |-> records, withdrawn |-> 0, code |-> accounts,
     balance |-> Deposited(records) + Staked(records)]

Records(walletDeposit, deposit, staked, withdrawTime) ==
    (w :> [NoDepositInfo EXCEPT !.deposit = walletDeposit]) @@
    (p :> [deposit |-> deposit, staked |-> staked, stake |-> paymasterStake,
           unstakeDelaySec |-> unstakeDelaySec, withdrawTime |-> withdrawTime])

\* A wallet and a staked paymaster with deposits; the paymaster only, with the
\* wallet still to be created; the paymaster's stake unlocked and due at time 2.
Funded   == WorldOf(Records(4, 4, TRUE, 0), {w, p})
NoWallet == WorldOf(Records(0, 5, TRUE, 0), {p})
Leaving  == WorldOf(Records(4, 4, FALSE, 2), {w, p})

Worlds == {Funded, NoWallet, Leaving}

TxInit ==
    /\ \E v \in Worlds : /\ deposits = v.deposits
                         /\ balance = v.balance
                         /\ withdrawn = v.withdrawn
                         /\ code = v.code
    /\ timestamp = 1
    /\ frames = <<>>

\* A transaction, or a block before it that may change what is due.
TxNext ==
    /\ EPNext
    /\ frames = <<>> =>
          /\ World \in Worlds
          /\ frames' # <<>> \/ (EPNextBlock /\ World = Leaving)

TxSpec == TxInit /\ [][TxNext]_vars /\ WF_vars(HandleOpsStep)
=============================================================================
