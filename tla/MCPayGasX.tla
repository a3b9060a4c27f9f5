----------------------------- MODULE MCPayGasX -----------------------------
(* PayGasX with one or two wallets, for TLC. *)
EXTENDS PayGasX

CONSTANTS w1, w2, p, np, vp, none

\* An operation; with gas limits of 2 and a price of 1 it costs at most 4, or 8
\* with the paymaster.
Op(sender, n, new, price, pm) ==
    [sender |-> sender, nonce |-> n, initCode |-> new, callData |-> ~new,
     callGas |-> 2, verificationGas |-> 2, preVerificationGas |-> 0,
     maxFeePerGas |-> price, maxPriorityFeePerGas |-> price, paymaster |-> pm,
     paymasterData |-> TRUE, signature |-> TRUE]

creation  == Op(w1, 0, TRUE, 1, none)
creation2 == Op(w1, 1, TRUE, 1, none)
selfPaid  == Op(w1, 0, FALSE, 1, none)
first     == Op(w1, 0, FALSE, 1, p)
second    == Op(w1, 1, FALSE, 1, p)
new2      == Op(w2, 0, TRUE, 1, none)
forged    == [selfPaid EXCEPT !.signature = FALSE]

\* Each batch has at most one sponsored operation of a wallet.
ReplayBatches == {<<creation, first>>, <<first>>, <<creation2>>,
                  <<selfPaid, second>>, <<forged>>}
\* A batch with two.
SameWallet    == {<<creation>>, <<first, second>>}

\* The paymaster that takes ether; one operation leaves no gas for the postOp.
native0 == Op(w2, 0, FALSE, 1, np)
native1 == Op(w2, 1, FALSE, 1, np)
starved == [native0 EXCEPT !.verificationGas = 0]

\* The paymaster that asks for nothing creates a wallet that approves p.
approval == [creation EXCEPT !.callData = TRUE, !.paymaster = vp]

\* Two wallets and three paymasters, in each batch two of each.
MixedBatches == {<<approval, new2>>, <<first, native0>>, <<native1>>,
                  <<starved>>}

\* The same with fewer transactions between the batches: what the wallets'
\* owners do there on their own is in the other instances.
MixedNext ==
    \/ \E ops \in Batches, fee \in BaseFees : PGHandleOps(ops, fee)
    \/ PGHandleOpsStep
    \/ setUpForAccount(w1)
    \/ \E r \in Ratios : setMaskToMaticRatio(r)
    \/ \E v \in Amount :
          addNativeDepositFor(w2, v) \/ depositToEP(v) \/ withdrawBalance(v)
    \/ \E a \in Blockable : addBlockList(a)

MixedSpec == PGInit /\ [][MixedNext]_pgVars

BlockedBatch == {<<approval>>}

\* An operation at a price of 2.
DearOp == {<<creation>>, <<Op(w1, 0, FALSE, 2, p)>>}

OneWallet   == {w1}
BothWallets == {w1, w2}
OneAccount  == {w1, p, np, vp}
MCAccounts  == {w1, w2, p, np, vp}
FlatRatio   == {<<1, 1>>}
HalfRatio   == {<<1, 2>>}
MCRatios    == {<<1, 1>>, <<1, 2>>}
=============================================================================
