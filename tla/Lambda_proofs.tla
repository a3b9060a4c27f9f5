--------------------------- MODULE Lambda_proofs ---------------------------
(***************************************************************************)
(* For any requests, wallets, operations, instances and secrets: the       *)
(* bundler never sends two operations of one wallet in one transaction,    *)
(* its pending transactions have consecutive nonces, and no operation is   *)
(* executed twice; instances, secrets and panics add no behaviour to it,   *)
(* so all this holds of it as it is deployed; and a configuration that was *)
(* checked works, one that does not is dropped.  The steps of a request    *)
(* (module Bundler) come first, the instances after them.                  *)
(***************************************************************************)
EXTENDS Lambda, FiniteSetTheorems, SequenceTheorems, TLAPS

-----------------------------------------------------------------------------
(***************************************************************************)
(* Requests.  An operation was in turn when it was simulated, and the      *)
(* nonce of a wallet only grows, so at the time of the estimate no nonce   *)
(* in the batch is ahead of its wallet's; a second operation of a wallet   *)
(* would have to be.  The nonce after the pending transactions only grows, *)
(* so one that was asked for is at most that when it is used, and either   *)
(* adds to the pending ones or replaces one of them.  An operation that    *)
(* was executed is behind its wallet, and one that runs is in turn.        *)
(***************************************************************************)

\* The operations of request r that were simulated.
Simulated(r) ==
    IF pc[r] = "simulate" THEN 1 .. at[r] - 1
    ELSE IF pc[r] = "estimate" THEN DOMAIN body[r]
    ELSE {}

Fresh == \A r \in Request : pc[r] \in {"idle", "parse"} => at[r] = 1

NotAheadOf(r) ==
    \A k \in Simulated(r) \cap DOMAIN body[r] :
        body[r][k].nonce <= nonce[body[r][k].sender]

NotAhead == \A r \in Request : NotAheadOf(r)

Prepared == \A r \in Request : DistinctSenders(tx[r].ops)

\* A pending transaction is known by its nonce, and a nonce that was asked for
\* still fits behind the pending ones.
KnownByNonce == \A s, t \in mempool : s.nonce = t.nonce => s = t

Fits == \A r \in Request :
            pc[r] = "send" => tx[r].nonce <= account + Cardinality(mempool)

GapInv ==
    /\ KnownByNonce
    /\ Fits
    /\ NoNonceGap

\* An operation that was executed is behind its wallet.
ExecutedIsBehind ==
    \A op \in Operations : executed[op] > 0 => op.nonce < nonce[op.sender]

OnceInv == ExecutedIsBehind /\ ExecutedAtMostOnce

BundlerInv ==
    /\ TypeOK
    /\ IsFiniteSet(mempool)
    /\ Fresh
    /\ NotAhead
    /\ Prepared
    /\ OneOpPerWallet

-----------------------------------------------------------------------------
\* A subset of the indices of a sequence is finite.
LEMMA IndicesAreFinite ==
    ASSUME NEW n \in Nat, NEW S \in SUBSET (1 .. n)
    PROVE  IsFiniteSet(S) /\ Cardinality(S) \in Nat
<1>1. IsFiniteSet(1 .. n)
  BY FS_Interval, 1 \in Int, n \in Int
<1>2. IsFiniteSet(S)
  BY <1>1, FS_Subset
<1> QED
  BY <1>2, FS_CardinalityType

\* The bodies of requests are sequences of operations.
LEMMA BodiesAreSequences ==
    ASSUME NEW ops \in Bodies \cup {<<>>}
    PROVE  /\ ops \in Seq(Operation)
           /\ Len(ops) \in Nat
           /\ DOMAIN ops = 1 .. Len(ops)
           /\ \A k \in DOMAIN ops : /\ ops[k] \in Operation
                                    /\ ops[k].nonce \in Nat
                                    /\ ops[k].sender \in Wallet
<1>1. ops \in Seq(Operation)
  <2>1. CASE ops = <<>>
    BY <2>1, EmptySeq
  <2>2. CASE ops \in Bodies
    BY <2>2, BundlerAssumption
  <2> QED
    BY <2>1, <2>2
<1>2. /\ Len(ops) \in Nat
      /\ DOMAIN ops = 1 .. Len(ops)
      /\ \A k \in DOMAIN ops : ops[k] \in Operation
  BY <1>1
<1> QED
  BY <1>1, <1>2 DEF Operation

\* So is what they contain.
LEMMA OperationsAreTyped ==
    ASSUME NEW op \in Operations
    PROVE  op.sender \in Wallet /\ op.nonce \in Nat
<1>1. PICK ops \in Bodies : op \in ToSet(ops)
  BY DEF Operations
<1>2. PICK k \in DOMAIN ops : op = ops[k]
  BY <1>1 DEF ToSet
<1> QED
  BY <1>2, BodiesAreSequences

\* simulateValidation accepts an operation that is in turn.
LEMMA SimulatedIsInTurn ==
    ASSUME NEW op \in Operation, nonce \in [Wallet -> Nat], CanRun(<<op>>)
    PROVE  op.nonce = nonce[op.sender]
<1> DEFINE earlier == {j \in 1 .. 1 - 1 : <<op>>[j].sender = <<op>>[1].sender}
<1>1. op.nonce = nonce[op.sender] + Cardinality(earlier)
  BY 1 \in DOMAIN <<op>>, <<op>>[1] = op DEF CanRun
<1>2. earlier = {}
  BY 1 .. 1 - 1 = {}
<1>3. Cardinality(earlier) = 0
  BY <1>2, FS_EmptySet
<1>4. nonce[op.sender] \in Nat
  BY DEF Operation
<1> QED
  BY <1>1, <1>3, <1>4

\* In a batch that can run, the second operation of a wallet is ahead of it.
LEMMA SecondIsAhead ==
    ASSUME NEW ops \in Bodies \cup {<<>>}, nonce \in [Wallet -> Nat], CanRun(ops),
           NEW i \in DOMAIN ops, NEW j \in DOMAIN ops, i < j,
           ops[i].sender = ops[j].sender
    PROVE  ops[j].nonce > nonce[ops[j].sender]
<1> DEFINE earlier == {k \in 1 .. j - 1 : ops[k].sender = ops[j].sender}
<1>1. /\ DOMAIN ops = 1 .. Len(ops)
      /\ Len(ops) \in Nat
      /\ ops[j].sender \in Wallet
  BY BodiesAreSequences
<1>2. ops[j].nonce = nonce[ops[j].sender] + Cardinality(earlier)
  BY DEF CanRun
<1>3. i \in earlier
  BY <1>1
<1>4. j - 1 \in Nat
  BY <1>1
<1>5. IsFiniteSet(earlier) /\ Cardinality(earlier) \in Nat
  BY <1>4, IndicesAreFinite
<1>6. Cardinality(earlier) # 0
  BY <1>3, <1>5, FS_EmptySet
<1>7. nonce[ops[j].sender] \in Nat
  BY <1>1
<1> QED
  BY <1>2, <1>5, <1>6, <1>7

\* Hence a batch whose operations were all in turn once, and that can run, has
\* one operation of each wallet.
LEMMA RunnableIsDistinct ==
    ASSUME NEW ops \in Bodies \cup {<<>>}, nonce \in [Wallet -> Nat], CanRun(ops),
           \A k \in DOMAIN ops : ops[k].nonce <= nonce[ops[k].sender]
    PROVE  DistinctSenders(ops)
<1> SUFFICES ASSUME NEW i \in DOMAIN ops, NEW j \in DOMAIN ops, i # j,
                    ops[i].sender = ops[j].sender
             PROVE  FALSE
  BY DEF DistinctSenders
<1>1. /\ DOMAIN ops = 1 .. Len(ops)
      /\ Len(ops) \in Nat
      /\ \A k \in DOMAIN ops : ops[k].nonce \in Nat /\ ops[k].sender \in Wallet
  BY BodiesAreSequences
<1>2. CASE i < j
  <2>1. ops[j].nonce > nonce[ops[j].sender]
    BY <1>2, SecondIsAhead
  <2> QED
    BY <1>1, <2>1
<1>3. CASE j < i
  <2>1. ops[i].nonce > nonce[ops[i].sender]
    BY <1>3, SecondIsAhead
  <2> QED
    BY <1>1, <2>1
<1> QED
  BY <1>1, <1>2, <1>3

-----------------------------------------------------------------------------
\* A step of a request leaves the chain alone, but for the mempool.
LEMMA RequestStepsKeepNonces ==
    ASSUME NEW r \in Request, RequestStep(r)
    PROVE  UNCHANGED <<nonce, account, executed>>
BY DEF RequestStep, Parse, Simulate, Misconfigured, EstimateGas, PendingNonce,
       SendTransaction, TimesOut, chainVars

\* The nonce of a wallet only grows.
LEMMA NoncesGrow ==
    ASSUME TypeOK, [Next]_vars
    PROVE  /\ nonce' \in [Wallet -> Nat]
           /\ \A w \in Wallet : nonce[w] <= nonce'[w]
<1>1. nonce \in [Wallet -> Nat]
  BY DEF TypeOK
<1>2. CASE UNCHANGED nonce
  BY <1>1, <1>2
<1>3. ASSUME NEW t \in mempool, NEW need \in GasNeeded, Mine(t, need)
      PROVE  /\ nonce' \in [Wallet -> Nat]
             /\ \A w \in Wallet : nonce[w] <= nonce'[w]
  <2> DEFINE own(w) == {i \in DOMAIN t.ops : t.ops[i].sender = w}
  <2>1. t.ops \in Bodies \cup {<<>>}
    BY DEF TypeOK, Tx
  <2>2. DOMAIN t.ops = 1 .. Len(t.ops) /\ Len(t.ops) \in Nat
    BY <2>1, BodiesAreSequences
  <2>3. \A w \in Wallet : Cardinality(own(w)) \in Nat
    BY <2>2, IndicesAreFinite
  <2>4. \/ nonce' = nonce
        \/ nonce' = [w \in Wallet |-> nonce[w] + Cardinality(own(w))]
    BY <1>3 DEF Mine
  <2> HIDE DEF own
  <2> QED
    BY <1>1, <2>3, <2>4
<1>4. ASSUME NEW w \in Wallet, HandledElsewhere(w)
      PROVE  /\ nonce' \in [Wallet -> Nat]
             /\ \A v \in Wallet : nonce[v] <= nonce'[v]
  BY <1>1, <1>4 DEF HandledElsewhere
<1>5. CASE UNCHANGED vars
  BY <1>2, <1>5 DEF vars, chainVars
<1>6. ASSUME NEW r \in Request, NEW ops \in Bodies, Receive(r, ops)
      PROVE  UNCHANGED nonce
  BY <1>6 DEF Receive, chainVars
<1> QED
  BY <1>2, <1>3, <1>4, <1>5, <1>6, RequestStepsKeepNonces DEF Next

\* What a request simulated stays in turn or behind while others act.
LEMMA StaysNotAhead ==
    ASSUME TypeOK, [Next]_vars, NEW q \in Request, NotAheadOf(q),
           pc'[q] = pc[q], at'[q] = at[q], body'[q] = body[q]
    PROVE  NotAheadOf(q)'
<1> SUFFICES ASSUME NEW k \in Simulated(q) \cap DOMAIN body[q]
             PROVE  body[q][k].nonce <= nonce'[body[q][k].sender]
  BY DEF NotAheadOf, Simulated
<1>1. body[q] \in Bodies \cup {<<>>}
  BY DEF TypeOK
<1>2. body[q][k].nonce \in Nat /\ body[q][k].sender \in Wallet
  BY <1>1, BodiesAreSequences
<1>3. body[q][k].nonce <= nonce[body[q][k].sender]
  BY DEF NotAheadOf
<1>4. /\ nonce \in [Wallet -> Nat]
      /\ nonce' \in [Wallet -> Nat]
      /\ nonce[body[q][k].sender] <= nonce'[body[q][k].sender]
  BY <1>2, NoncesGrow DEF TypeOK
<1> QED
  BY <1>2, <1>3, <1>4

\* Nothing is simulated, prepared or pending at first.
LEMMA InitEstablishesInv == Init => BundlerInv
<1> SUFFICES ASSUME Init PROVE BundlerInv
  OBVIOUS
<1>1. NoTx \in Tx
  BY DEF NoTx, Tx
<1>2. TypeOK
  BY <1>1 DEF Init, TypeOK, Status
<1>3. IsFiniteSet(mempool)
  BY FS_EmptySet DEF Init
<1>4. Fresh /\ NotAhead /\ OneOpPerWallet
  BY DEF Init, Fresh, NotAhead, NotAheadOf, Simulated, OneOpPerWallet
<1>5. Prepared
  BY DEF Init, Prepared, NoTx, DistinctSenders
<1> QED
  BY <1>2, <1>3, <1>4, <1>5 DEF BundlerInv

\* A step that only moves a request on, and answers it perhaps.
LEMMA AnswersPreserveInv ==
    ASSUME BundlerInv, [Next]_vars, NEW r \in Request, NEW code \in Status,
           Answer(r, code), UNCHANGED <<body, at, tx, chainVars>>
    PROVE  BundlerInv'
<1> USE DEF BundlerInv
<1>1. pc' = [pc EXCEPT ![r] = "done"]
  BY DEF Answer, Go
<1>2. TypeOK'
  BY <1>1 DEF TypeOK, Answer, chainVars
<1>3. Fresh'
  BY <1>1 DEF Fresh, TypeOK
<1>4. NotAhead'
  <2> SUFFICES ASSUME NEW q \in Request PROVE NotAheadOf(q)'
    BY DEF NotAhead
  <2>1. CASE q = r
    BY <1>1, <2>1 DEF NotAheadOf, Simulated, TypeOK
  <2>2. CASE q # r
    BY <1>1, <2>2, StaysNotAhead DEF NotAhead, TypeOK
  <2> QED
    BY <2>1, <2>2
<1>5. Prepared' /\ OneOpPerWallet' /\ IsFiniteSet(mempool)'
  BY DEF Prepared, OneOpPerWallet, chainVars
<1> QED
  BY <1>2, <1>3, <1>4, <1>5

\* A new request starts with its first operation.
LEMMA ReceivePreservesInv ==
    ASSUME BundlerInv, [Next]_vars, NEW r \in Request, NEW ops \in Bodies,
           Receive(r, ops)
    PROVE  BundlerInv'
<1> USE DEF BundlerInv
<1>1. /\ pc' = [pc EXCEPT ![r] = "parse"]
      /\ body' = [body EXCEPT ![r] = ops]
      /\ UNCHANGED <<at, tx, response, chainVars>>
      /\ at[r] = 1
  BY DEF Receive, Go, Fresh
<1>2. TypeOK'
  BY <1>1 DEF TypeOK, chainVars
<1>3. Fresh'
  BY <1>1 DEF Fresh, TypeOK
<1>4. NotAhead'
  <2> SUFFICES ASSUME NEW q \in Request PROVE NotAheadOf(q)'
    BY DEF NotAhead
  <2>1. CASE q = r
    BY <1>1, <2>1 DEF NotAheadOf, Simulated, TypeOK
  <2>2. CASE q # r
    BY <1>1, <2>2, StaysNotAhead DEF NotAhead, TypeOK
  <2> QED
    BY <2>1, <2>2
<1>5. Prepared' /\ OneOpPerWallet' /\ IsFiniteSet(mempool)'
  BY <1>1 DEF Prepared, OneOpPerWallet, chainVars
<1> QED
  BY <1>2, <1>3, <1>4, <1>5

\* A request that parses has an operation to simulate.
LEMMA ParsePreservesInv ==
    ASSUME BundlerInv, [Next]_vars, NEW r \in Request, Parse(r)
    PROVE  BundlerInv'
<1>1. CASE \E code \in Status : Answer(r, code)
  BY <1>1, AnswersPreserveInv DEF Parse
<1>2. CASE /\ pc' = [pc EXCEPT ![r] = "simulate"]
           /\ body[r] # <<>>
           /\ pc[r] = "parse"
           /\ UNCHANGED <<response, body, at, tx, chainVars>>
  <2> USE DEF BundlerInv
  <2>1. at[r] = 1 /\ body[r] \in Bodies \cup {<<>>}
    BY <1>2 DEF Fresh, TypeOK
  <2>2. at[r] \in DOMAIN body[r]
    BY <1>2, <2>1, BodiesAreSequences, EmptySeq
  <2>3. TypeOK'
    BY <1>2, <2>2 DEF TypeOK, chainVars
  <2>4. Fresh'
    BY <1>2 DEF Fresh, TypeOK
  <2>5. NotAhead'
    <3> SUFFICES ASSUME NEW q \in Request PROVE NotAheadOf(q)'
      BY DEF NotAhead
    <3>1. CASE q = r
      BY <1>2, <2>1, <3>1 DEF NotAheadOf, Simulated, TypeOK
    <3>2. CASE q # r
      BY <1>2, <3>2, StaysNotAhead DEF NotAhead, TypeOK
    <3> QED
      BY <3>1, <3>2
  <2>6. Prepared' /\ OneOpPerWallet' /\ IsFiniteSet(mempool)'
    BY <1>2 DEF Prepared, OneOpPerWallet, chainVars
  <2> QED
    BY <2>3, <2>4, <2>5, <2>6
<1> QED
  BY <1>1, <1>2 DEF Parse, Go, Status

\* The operation at hand was in turn, and joins those simulated.
LEMMA SimulatePreservesInv ==
    ASSUME BundlerInv, [Next]_vars, NEW r \in Request, Simulate(r)
    PROVE  BundlerInv'
<1> DEFINE op   == body[r][at[r]]
           last == at[r] = Len(body[r])
<1>1. CASE /\ \E code \in Status : Answer(r, code)
           /\ UNCHANGED <<body, at, tx, chainVars>>
  BY <1>1, AnswersPreserveInv
<1>2. CASE /\ CanRun(<<op>>)
           /\ pc[r] = "simulate"
           /\ pc' = [pc EXCEPT ![r] = IF last THEN "estimate" ELSE "simulate"]
           /\ at' = [at EXCEPT ![r] = IF last THEN @ ELSE @ + 1]
           /\ UNCHANGED <<response, body, tx, chainVars>>
  <2> USE DEF BundlerInv
  <2>1. body[r] \in Bodies \cup {<<>>} /\ at[r] \in DOMAIN body[r]
    BY <1>2 DEF TypeOK
  <2>2. /\ Len(body[r]) \in Nat
        /\ DOMAIN body[r] = 1 .. Len(body[r])
        /\ op \in Operation
    BY <2>1, BodiesAreSequences
  <2>3. op.nonce = nonce[op.sender]
    BY <1>2, <2>2, SimulatedIsInTurn DEF TypeOK
  <2>4. TypeOK'
    BY <1>2, <2>1, <2>2 DEF TypeOK, chainVars
  <2>5. Fresh'
    BY <1>2 DEF Fresh, TypeOK
  <2>6. NotAheadOf(r)'
    <3> SUFFICES ASSUME NEW k \in Simulated(r)' \cap DOMAIN body[r]
                 PROVE  body[r][k].nonce <= nonce[body[r][k].sender]
      BY <1>2 DEF NotAheadOf, chainVars
    <3>1. k \in 1 .. at[r]
      BY <1>2, <2>1, <2>2 DEF Simulated, TypeOK
    <3>2. CASE k = at[r]
      BY <2>2, <2>3, <3>2 DEF TypeOK, Operation
    <3>3. CASE k \in 1 .. at[r] - 1
      BY <1>2, <3>3 DEF NotAhead, NotAheadOf, Simulated
    <3> QED
      BY <2>1, <2>2, <3>1, <3>2, <3>3
  <2>7. NotAhead'
    <3> SUFFICES ASSUME NEW q \in Request, q # r PROVE NotAheadOf(q)'
      BY <2>6 DEF NotAhead
    <3> QED
      BY <1>2, StaysNotAhead DEF NotAhead, TypeOK
  <2>8. Prepared' /\ OneOpPerWallet' /\ IsFiniteSet(mempool)'
    BY <1>2 DEF Prepared, OneOpPerWallet, chainVars
  <2> QED
    BY <2>4, <2>5, <2>7, <2>8
<1> QED
  BY <1>1, <1>2 DEF Simulate, Go, Status

\* The batch was simulated as a whole and can run now, so its senders differ.
LEMMA EstimateGasPreservesInv ==
    ASSUME BundlerInv, [Next]_vars, NEW r \in Request, EstimateGas(r)
    PROVE  BundlerInv'
<1>1. CASE /\ \E code \in Status : Answer(r, code)
           /\ UNCHANGED <<body, at, tx, chainVars>>
  BY <1>1, AnswersPreserveInv
<1>2. ASSUME NEW gas \in GasNeeded,
             pc[r] = "estimate",
             CanRun(body[r]),
             tx' = [tx EXCEPT ![r] = [NoTx EXCEPT !.ops = body[r],
                                                  !.gas = GasLimit(gas),
                                                  !.estimate = gas]],
             pc' = [pc EXCEPT ![r] = "nonce"],
             UNCHANGED <<response, body, at, chainVars>>
      PROVE  BundlerInv'
  <2> USE DEF BundlerInv
  <2>1. body[r] \in Bodies \cup {<<>>}
    BY DEF TypeOK
  <2>2. gas \in Nat /\ GasLimit(gas) = gas
    BY BundlerAssumption DEF GasLimit
  <2>3. tx'[r] = [nonce |-> 0, ops |-> body[r], gas |-> gas, estimate |-> gas]
    BY <1>2, <2>2 DEF TypeOK, NoTx
  <2>4. tx' \in [Request -> Tx]
    <3>1. tx'[r] \in Tx
      BY <2>1, <2>2, <2>3 DEF Tx
    <3> QED
      BY <1>2, <2>3, <3>1 DEF TypeOK
  <2>5. TypeOK'
    BY <1>2, <2>4 DEF TypeOK, chainVars
  <2>6. Fresh'
    BY <1>2 DEF Fresh, TypeOK
  <2>7. NotAhead'
    <3> SUFFICES ASSUME NEW q \in Request PROVE NotAheadOf(q)'
      BY DEF NotAhead
    <3>1. CASE q = r
      BY <1>2, <3>1 DEF NotAheadOf, Simulated, TypeOK
    <3>2. CASE q # r
      BY <1>2, <3>2, StaysNotAhead DEF NotAhead, TypeOK
    <3> QED
      BY <3>1, <3>2
  <2>8. DistinctSenders(body[r])
    <3>1. \A k \in DOMAIN body[r] : body[r][k].nonce <= nonce[body[r][k].sender]
      BY <1>2 DEF NotAhead, NotAheadOf, Simulated
    <3> QED
      BY <1>2, <2>1, <3>1, RunnableIsDistinct DEF TypeOK
  <2>9. Prepared'
    <3> SUFFICES ASSUME NEW q \in Request PROVE DistinctSenders(tx'[q].ops)
      BY DEF Prepared, DistinctSenders
    <3>1. CASE q = r
      BY <2>3, <2>8, <3>1
    <3>2. CASE q # r
      BY <1>2, <3>2 DEF Prepared, TypeOK
    <3> QED
      BY <3>1, <3>2
  <2>10. OneOpPerWallet' /\ IsFiniteSet(mempool)'
    BY <1>2 DEF OneOpPerWallet, chainVars
  <2> QED
    BY <2>5, <2>6, <2>7, <2>9, <2>10
<1> QED
  BY <1>1, <1>2 DEF EstimateGas, Go, Status

\* Giving a transaction its nonce leaves its operations alone.
LEMMA PendingNoncePreservesInv ==
    ASSUME BundlerInv, [Next]_vars, NEW r \in Request, PendingNonce(r)
    PROVE  BundlerInv'
<1>1. CASE /\ \E code \in Status : Answer(r, code)
           /\ UNCHANGED <<body, at, tx, chainVars>>
  BY <1>1, AnswersPreserveInv
<1>2. CASE /\ pc[r] = "nonce"
           /\ tx' = [tx EXCEPT ![r].nonce = account + Cardinality(mempool)]
           /\ pc' = [pc EXCEPT ![r] = "send"]
           /\ UNCHANGED <<response, body, at, chainVars>>
  <2> USE DEF BundlerInv
  <2>1. account + Cardinality(mempool) \in Nat
    BY FS_CardinalityType DEF TypeOK
  <2>2. tx' \in [Request -> Tx]
    BY <1>2, <2>1 DEF TypeOK, Tx
  <2>3. TypeOK'
    BY <1>2, <2>2 DEF TypeOK, chainVars
  <2>4. Fresh'
    BY <1>2 DEF Fresh, TypeOK
  <2>5. NotAhead'
    <3> SUFFICES ASSUME NEW q \in Request PROVE NotAheadOf(q)'
      BY DEF NotAhead
    <3>1. CASE q = r
      BY <1>2, <3>1 DEF NotAheadOf, Simulated, TypeOK
    <3>2. CASE q # r
      BY <1>2, <3>2, StaysNotAhead DEF NotAhead, TypeOK
    <3> QED
      BY <3>1, <3>2
  <2>6. Prepared'
    <3> SUFFICES ASSUME NEW q \in Request PROVE tx'[q].ops = tx[q].ops
      BY DEF Prepared, DistinctSenders
    <3> QED
      BY <1>2 DEF TypeOK, Tx
  <2>7. OneOpPerWallet' /\ IsFiniteSet(mempool)'
    BY <1>2 DEF OneOpPerWallet, chainVars
  <2> QED
    BY <2>3, <2>4, <2>5, <2>6, <2>7
<1> QED
  BY <1>1, <1>2 DEF PendingNonce, Go, Status

\* The node takes a transaction that was prepared, or nothing.
LEMMA SendTransactionPreservesInv ==
    ASSUME BundlerInv, [Next]_vars, NEW r \in Request, SendTransaction(r)
    PROVE  BundlerInv'
<1> USE DEF BundlerInv
<1> DEFINE others == {t \in mempool : t.nonce # tx[r].nonce}
<1>1. /\ pc' = [pc EXCEPT ![r] = "done"]
      /\ \E code \in Status : response' = [response EXCEPT ![r] = code]
      /\ mempool' = others \cup {tx[r]} \/ mempool' = mempool
      /\ UNCHANGED <<body, at, tx, nonce, account, executed, outOfGas>>
  BY DEF SendTransaction, Answer, Go, Status
<1>2. tx[r] \in Tx
  BY DEF TypeOK
<1>3. mempool' \subseteq mempool \cup {tx[r]}
  BY <1>1
<1>4. mempool' \subseteq Tx
  BY <1>2, <1>3 DEF TypeOK
<1>5. TypeOK'
  BY <1>1, <1>4 DEF TypeOK
<1>6. IsFiniteSet(mempool)'
  <2>1. IsFiniteSet(mempool \cup {tx[r]})
    BY FS_AddElement
  <2> QED
    BY <1>3, <2>1, FS_Subset
<1>7. Fresh'
  BY <1>1 DEF Fresh, TypeOK
<1>8. NotAhead'
  <2> SUFFICES ASSUME NEW q \in Request PROVE NotAheadOf(q)'
    BY DEF NotAhead
  <2>1. CASE q = r
    BY <1>1, <2>1 DEF NotAheadOf, Simulated, TypeOK
  <2>2. CASE q # r
    BY <1>1, <2>2, StaysNotAhead DEF NotAhead, TypeOK
  <2> QED
    BY <2>1, <2>2
<1>9. Prepared'
  BY <1>1 DEF Prepared, DistinctSenders
<1>10. OneOpPerWallet'
  <2>1. \A t \in mempool \cup {tx[r]} : DistinctSenders(t.ops)
    BY DEF OneOpPerWallet, Prepared
  <2> QED
    BY <1>3, <2>1 DEF OneOpPerWallet, DistinctSenders
<1> QED
  BY <1>5, <1>6, <1>7, <1>8, <1>9, <1>10

\* A step that leaves the requests alone and adds nothing to the mempool.
LEMMA ChainPreservesInv ==
    ASSUME BundlerInv, [Next]_vars, UNCHANGED requestVars,
           mempool' \subseteq mempool, account' \in Nat,
           executed' \in [Operations -> Nat]
    PROVE  BundlerInv'
<1> USE DEF BundlerInv
<1>1. TypeOK'
  BY NoncesGrow DEF TypeOK, requestVars
<1>2. IsFiniteSet(mempool)'
  BY FS_Subset
<1>3. Fresh' /\ Prepared'
  BY DEF Fresh, Prepared, DistinctSenders, requestVars
<1>4. NotAhead'
  BY StaysNotAhead DEF NotAhead, requestVars
<1>5. OneOpPerWallet'
  BY DEF OneOpPerWallet, DistinctSenders
<1> QED
  BY <1>1, <1>2, <1>3, <1>4, <1>5

\* A block takes a transaction away and moves nonces on.
LEMMA MinePreservesInv ==
    ASSUME BundlerInv, [Next]_vars, NEW t \in mempool, NEW need \in GasNeeded,
           Mine(t, need)
    PROVE  BundlerInv'
<1> USE DEF BundlerInv
<1> DEFINE times(op) == {i \in DOMAIN t.ops : t.ops[i] = op}
<1>1. t.ops \in Bodies \cup {<<>>}
  BY DEF TypeOK, Tx
<1>2. DOMAIN t.ops = 1 .. Len(t.ops) /\ Len(t.ops) \in Nat
  BY <1>1, BodiesAreSequences
<1>3. \A op \in Operations : Cardinality(times(op)) \in Nat
  BY <1>2, IndicesAreFinite
<1>4. \/ executed' = executed
      \/ executed' = [op \in Operations |-> executed[op] + Cardinality(times(op))]
  BY DEF Mine
<1> HIDE DEF times
<1>5. executed \in [Operations -> Nat] /\ account \in Nat
  BY DEF TypeOK
<1>6. executed' \in [Operations -> Nat]
  BY <1>3, <1>4, <1>5
<1>7. /\ UNCHANGED requestVars
      /\ mempool' \subseteq mempool
      /\ account' \in Nat
  BY <1>5 DEF Mine
<1> QED
  BY <1>6, <1>7, ChainPreservesInv

\* Every step preserves the invariant.
LEMMA NextPreservesInv == BundlerInv /\ [Next]_vars => BundlerInv'
<1> SUFFICES ASSUME BundlerInv, [Next]_vars PROVE BundlerInv'
  OBVIOUS
<1>1. ASSUME NEW r \in Request, RequestStep(r) PROVE BundlerInv'
  <2>1. CASE TimesOut(r)
    BY <2>1, AnswersPreserveInv DEF TimesOut, Status
  <2>2. CASE Misconfigured(r)
    BY <2>2, AnswersPreserveInv DEF Misconfigured, Status
  <2> QED
    BY <1>1, <2>1, <2>2, ParsePreservesInv, SimulatePreservesInv,
       EstimateGasPreservesInv, PendingNoncePreservesInv,
       SendTransactionPreservesInv DEF RequestStep
<1>2. ASSUME NEW w \in Wallet, HandledElsewhere(w) PROVE BundlerInv'
  BY <1>2, ChainPreservesInv DEF HandledElsewhere, BundlerInv, TypeOK
<1>3. CASE UNCHANGED vars
  BY <1>3, ChainPreservesInv DEF vars, chainVars, BundlerInv, TypeOK
<1> QED
  BY <1>1, <1>2, <1>3, ReceivePreservesInv, MinePreservesInv DEF Next

-----------------------------------------------------------------------------
(* The account's nonces. *)

\* A step that keeps the mempool and the account, and asks for no nonce.
LEMMA QuietKeepsGapInv ==
    ASSUME GapInv, mempool' = mempool, account' = account,
           \A q \in Request : pc'[q] = "send" => pc[q] = "send" /\ tx'[q] = tx[q]
    PROVE  GapInv'
BY DEF GapInv, KnownByNonce, Fits, NoNonceGap

\* A transaction is sent with a nonce behind the pending ones, or with that of
\* one of them.
LEMMA SendingKeepsGapInv ==
    ASSUME BundlerInv, GapInv, NEW r \in Request,
           pc[r] = "send", tx[r].nonce >= account,
           mempool' = {t \in mempool : t.nonce # tx[r].nonce} \cup {tx[r]},
           account' = account, tx' = tx,
           \A q \in Request : pc'[q] = "send" => pc[q] = "send"
    PROVE  GapInv'
<1> DEFINE n      == tx[r].nonce
           others == {t \in mempool : t.nonce # n}
           end    == account + Cardinality(mempool)
<1>1. /\ account \in Nat /\ n \in Nat
      /\ \A t \in mempool : t.nonce \in Nat
      /\ \A q \in Request : tx[q].nonce \in Nat
  BY DEF BundlerInv, TypeOK, Tx
<1>2. IsFiniteSet(mempool) /\ Cardinality(mempool) \in Nat
  BY FS_CardinalityType DEF BundlerInv
<1>3. n <= end
  BY DEF GapInv, Fits
<1>4. {t.nonce : t \in mempool} = account .. end - 1
  <2>1. {t.nonce : t \in mempool} = account .. account + Cardinality(mempool) - 1
    BY DEF GapInv, NoNonceGap
  <2>2. account + Cardinality(mempool) - 1 = end - 1
    BY <1>1, <1>2
  <2> QED
    BY <2>1, <2>2
<1>5. tx[r] \notin others
  OBVIOUS
<1>6. KnownByNonce'
  BY DEF GapInv, KnownByNonce
<1>7. {t.nonce : t \in mempool'} = {t.nonce : t \in mempool} \cup {n}
  BY DEF GapInv, KnownByNonce
<1>8. CASE n = end
  <2>1. others = mempool
    BY <1>1, <1>2, <1>8, <1>4
  <2>2. Cardinality(mempool') = Cardinality(mempool) + 1
    BY <1>2, <1>5, <2>1, FS_AddElement
  <2>3. {t.nonce : t \in mempool'} = account .. account + Cardinality(mempool') - 1
    <3>1. (account .. end - 1) \cup {end} = account .. account + Cardinality(mempool)
      BY <1>1, <1>2
    <3>2. account + Cardinality(mempool') - 1 = account + Cardinality(mempool)
      BY <1>1, <1>2, <2>2
    <3> QED
      BY <1>7, <1>8, <1>4, <3>1, <3>2
  <2>4. Fits'
    BY <1>1, <1>2, <2>2 DEF GapInv, Fits
  <2> QED
    BY <1>6, <2>3, <2>4 DEF GapInv, NoNonceGap
<1>9. CASE n # end
  <2>1. n \in {t.nonce : t \in mempool}
    BY <1>1, <1>2, <1>3, <1>9, <1>4
  <2>2. PICK s \in mempool : s.nonce = n
    BY <2>1
  <2>3. others = mempool \ {s}
    BY <2>2 DEF GapInv, KnownByNonce
  <2>4. IsFiniteSet(others) /\ Cardinality(others) = Cardinality(mempool) - 1
    BY <1>2, <2>2, <2>3, FS_RemoveElement
  <2>5. Cardinality(mempool') = Cardinality(others) + 1
    BY <1>5, <2>4, FS_AddElement
  <2>6. Cardinality(mempool') = Cardinality(mempool)
    BY <1>2, <2>4, <2>5
  <2>7. {t.nonce : t \in mempool'} = {t.nonce : t \in mempool}
    BY <1>7, <2>1
  <2> QED
    BY <1>6, <2>6, <2>7 DEF GapInv, Fits, NoNonceGap
<1> QED
  BY <1>8, <1>9

\* The pending transaction that is mined is the first.
LEMMA MiningKeepsGapInv ==
    ASSUME BundlerInv, GapInv, NEW t \in mempool, t.nonce = account,
           mempool' = mempool \ {t}, account' = account + 1,
           UNCHANGED requestVars
    PROVE  GapInv'
<1>1. account \in Nat /\ IsFiniteSet(mempool) /\ Cardinality(mempool) \in Nat
  BY FS_CardinalityType DEF BundlerInv, TypeOK
<1>2. Cardinality(mempool') = Cardinality(mempool) - 1
  BY <1>1, FS_RemoveElement
<1>3. {s.nonce : s \in mempool'} = {s.nonce : s \in mempool} \ {account}
  BY DEF GapInv, KnownByNonce
<1>4. {s.nonce : s \in mempool'} = account' .. account' + Cardinality(mempool') - 1
  <2>1. {s.nonce : s \in mempool} = account .. account + Cardinality(mempool) - 1
    BY DEF GapInv, NoNonceGap
  <2>2. account' + Cardinality(mempool') - 1 = account + Cardinality(mempool) - 1
    BY <1>1, <1>2
  <2>3. \A m \in Nat : (account .. m) \ {account} = account + 1 .. m
    BY <1>1
  <2>4. account + Cardinality(mempool) - 1 \in Nat
    BY <1>1, FS_EmptySet
  <2> QED
    BY <1>3, <2>1, <2>2, <2>3, <2>4
<1>5. account' + Cardinality(mempool') = account + Cardinality(mempool)
  BY <1>1, <1>2
<1> QED
  BY <1>4, <1>5 DEF GapInv, KnownByNonce, Fits, NoNonceGap, requestVars

\* Requests that run at once keep the order of the account's nonces.
LEMMA NextPreservesGapInv ==
    ASSUME BundlerInv, GapInv, [Next]_vars
    PROVE  GapInv'
<1>1. ASSUME NEW r \in Request, RequestStep(r) PROVE GapInv'
  <2>1. CASE Parse(r) \/ Simulate(r) \/ Misconfigured(r) \/ TimesOut(r)
    BY <2>1, QuietKeepsGapInv
       DEF Parse, Simulate, Misconfigured, TimesOut, Answer, Go, chainVars,
           BundlerInv, TypeOK
  <2>2. CASE EstimateGas(r)
    BY <2>2, QuietKeepsGapInv DEF EstimateGas, Answer, Go, chainVars, BundlerInv, TypeOK
  <2>3. CASE PendingNonce(r)
    <3>1. UNCHANGED <<account, mempool>>
      BY <2>3 DEF PendingNonce, chainVars
    <3>2. ASSUME NEW q \in Request, pc'[q] = "send"
          PROVE  tx'[q].nonce <= account + Cardinality(mempool)
      <4>1. CASE q = r
        <5>1. tx'[r].nonce = account + Cardinality(mempool)
          BY <2>3, <3>2, <4>1 DEF PendingNonce, Answer, Go, BundlerInv, TypeOK, Tx
        <5>2. account + Cardinality(mempool) \in Nat
          BY FS_CardinalityType DEF BundlerInv, TypeOK
        <5> QED
          BY <4>1, <5>1, <5>2
      <4>2. CASE q # r
        <5>1. pc[q] = "send" /\ tx'[q] = tx[q]
          BY <2>3, <3>2, <4>2 DEF PendingNonce, Answer, Go, BundlerInv, TypeOK
        <5> QED
          BY <5>1 DEF GapInv, Fits
      <4> QED
        BY <4>1, <4>2
    <3> QED
      BY <3>1, <3>2 DEF GapInv, KnownByNonce, Fits, NoNonceGap
  <2>4. CASE SendTransaction(r)
    <3>1. /\ pc[r] = "send"
          /\ pc' = [pc EXCEPT ![r] = "done"]
          /\ UNCHANGED <<tx, account>>
          /\ \/ /\ tx[r].nonce >= account
                /\ mempool' = {t \in mempool : t.nonce # tx[r].nonce} \cup {tx[r]}
             \/ UNCHANGED mempool
      BY <2>4 DEF SendTransaction, Answer, Go
    <3>2. \A q \in Request : pc'[q] = "send" => pc[q] = "send"
      BY <3>1 DEF BundlerInv, TypeOK
    <3> QED
      BY <3>1, <3>2, QuietKeepsGapInv, SendingKeepsGapInv
  <2> QED
    BY <1>1, <2>1, <2>2, <2>3, <2>4 DEF RequestStep
<1>2. ASSUME NEW r \in Request, NEW ops \in Bodies, Receive(r, ops) PROVE GapInv'
  BY <1>2, QuietKeepsGapInv DEF Receive, Go, chainVars, BundlerInv, TypeOK
<1>3. ASSUME NEW t \in mempool, NEW need \in GasNeeded, Mine(t, need) PROVE GapInv'
  BY <1>3, MiningKeepsGapInv DEF Mine
<1>4. ASSUME NEW w \in Wallet, HandledElsewhere(w) PROVE GapInv'
  BY <1>4, QuietKeepsGapInv DEF HandledElsewhere, requestVars
<1>5. CASE UNCHANGED vars
  BY <1>5, QuietKeepsGapInv DEF vars, requestVars, chainVars
<1> QED
  BY <1>1, <1>2, <1>3, <1>4, <1>5 DEF Next

-----------------------------------------------------------------------------
(* Executions. *)

\* A batch with one operation of each wallet runs each of them in turn, once,
\* and moves its wallet on.
LEMMA MiningKeepsOnceInv ==
    ASSUME BundlerInv, OnceInv, NEW t \in mempool, CanRun(t.ops),
           nonce' = [w \in Wallet |->
                        nonce[w] + Cardinality({i \in DOMAIN t.ops :
                                                   t.ops[i].sender = w})],
           executed' = [op \in Operations |->
                           executed[op] + Cardinality({i \in DOMAIN t.ops :
                                                          t.ops[i] = op})]
    PROVE  OnceInv'
<1> DEFINE own(w)    == {i \in DOMAIN t.ops : t.ops[i].sender = w}
           times(op) == {i \in DOMAIN t.ops : t.ops[i] = op}
<1>1. /\ t.ops \in Bodies \cup {<<>>}
      /\ nonce \in [Wallet -> Nat]
      /\ executed \in [Operations -> Nat]
      /\ DistinctSenders(t.ops)
  BY DEF BundlerInv, TypeOK, Tx, OneOpPerWallet
<1>2. /\ DOMAIN t.ops = 1 .. Len(t.ops) /\ Len(t.ops) \in Nat
      /\ \A k \in DOMAIN t.ops : t.ops[k].nonce \in Nat /\ t.ops[k].sender \in Wallet
  BY <1>1, BodiesAreSequences
<1>3. \A w \in Wallet : IsFiniteSet(own(w)) /\ Cardinality(own(w)) \in Nat
  BY <1>2, IndicesAreFinite
<1> SUFFICES ASSUME NEW op \in Operations
             PROVE  /\ executed'[op] <= 1
                    /\ executed'[op] > 0 => op.nonce < nonce'[op.sender]
  BY DEF OnceInv, ExecutedIsBehind, ExecutedAtMostOnce
<1>4. op.sender \in Wallet /\ op.nonce \in Nat
  BY OperationsAreTyped
<1>5. /\ executed'[op] = executed[op] + Cardinality(times(op))
      /\ nonce'[op.sender] = nonce[op.sender] + Cardinality(own(op.sender))
  BY <1>4
<1>6. /\ executed[op] \in Nat
      /\ nonce[op.sender] \in Nat
      /\ Cardinality(own(op.sender)) \in Nat
  BY <1>1, <1>3, <1>4
<1>7. CASE times(op) = {}
  <2>1. Cardinality(times(op)) = 0
    BY <1>7, FS_EmptySet
  <2>2. executed'[op] = executed[op] /\ nonce[op.sender] <= nonce'[op.sender]
    <3> HIDE DEF own, times
    <3> QED
      BY <1>5, <1>6, <2>1
  <2> HIDE DEF own, times
  <2> QED
    BY <1>4, <1>5, <1>6, <2>2 DEF OnceInv, ExecutedIsBehind, ExecutedAtMostOnce
<1>8. ASSUME NEW k \in DOMAIN t.ops, t.ops[k] = op
      PROVE  /\ executed'[op] <= 1
             /\ op.nonce < nonce'[op.sender]
  <2> DEFINE earlier == {j \in 1 .. k - 1 : t.ops[j].sender = t.ops[k].sender}
  <2>1. times(op) = {k} /\ own(op.sender) = {k}
    BY <1>8, <1>1 DEF DistinctSenders
  <2>2. Cardinality(times(op)) = 1 /\ Cardinality(own(op.sender)) = 1
    BY <2>1, FS_Singleton
  <2>3. earlier = {}
    <3> SUFFICES ASSUME NEW j \in 1 .. k - 1, t.ops[j].sender = t.ops[k].sender
                 PROVE  FALSE
      OBVIOUS
    <3>1. j \in DOMAIN t.ops /\ j # k
      BY <1>2
    <3> QED
      BY <1>1, <3>1 DEF DistinctSenders
  <2>4. Cardinality(earlier) = 0
    BY <2>3, FS_EmptySet
  <2>5. op.nonce = nonce[op.sender] + Cardinality(earlier)
    BY <1>8 DEF CanRun
  <2> HIDE DEF earlier
  <2>6. nonce[op.sender] \in Nat /\ executed[op] \in Nat
    BY <1>1, <1>4
  <2>7. executed[op] = 0
    BY <2>4, <2>5, <2>6 DEF OnceInv, ExecutedIsBehind
  <2> QED
    BY <1>5, <2>2, <2>4, <2>5, <2>6, <2>7
<1> QED
  BY <1>7, <1>8

\* A step that executes nothing.
LEMMA QuietKeepsOnceInv ==
    ASSUME BundlerInv, OnceInv, [Next]_vars, UNCHANGED executed
    PROVE  OnceInv'
<1> SUFFICES ASSUME NEW op \in Operations, executed[op] > 0
             PROVE  op.nonce < nonce'[op.sender]
  BY DEF OnceInv, ExecutedIsBehind, ExecutedAtMostOnce
<1>1. op.sender \in Wallet /\ op.nonce \in Nat
  BY OperationsAreTyped
<1>2. op.nonce < nonce[op.sender]
  BY DEF OnceInv, ExecutedIsBehind
<1>3. /\ nonce[op.sender] \in Nat
      /\ nonce'[op.sender] \in Nat
      /\ nonce[op.sender] <= nonce'[op.sender]
  BY <1>1, NoncesGrow DEF BundlerInv, TypeOK
<1> QED
  BY <1>1, <1>2, <1>3

\* Blocks execute an operation once.
LEMMA NextPreservesOnceInv ==
    ASSUME BundlerInv, OnceInv, [Next]_vars
    PROVE  OnceInv'
<1>1. ASSUME NEW t \in mempool, NEW need \in GasNeeded, Mine(t, need) PROVE OnceInv'
  BY <1>1, MiningKeepsOnceInv, QuietKeepsOnceInv DEF Mine
<1>2. ASSUME NEW r \in Request, NEW ops \in Bodies, Receive(r, ops)
      PROVE  UNCHANGED executed
  BY <1>2 DEF Receive, chainVars
<1>3. ASSUME NEW w \in Wallet, HandledElsewhere(w) PROVE UNCHANGED executed
  BY <1>3 DEF HandledElsewhere
<1>4. CASE UNCHANGED vars
  BY <1>4, QuietKeepsOnceInv DEF vars, chainVars
<1> QED
  BY <1>1, <1>2, <1>3, <1>4, QuietKeepsOnceInv, RequestStepsKeepNonces DEF Next

-----------------------------------------------------------------------------
\* The three invariants hold at first and are preserved together.
LEMMA InitEstablishesAll == Init => BundlerInv /\ GapInv /\ OnceInv
<1> SUFFICES ASSUME Init PROVE BundlerInv /\ GapInv /\ OnceInv
  OBVIOUS
<1>1. BundlerInv
  BY InitEstablishesInv
<1>2. Cardinality(mempool) = 0 /\ account = 0 /\ mempool = {}
  BY FS_EmptySet DEF Init
<1>3. {t.nonce : t \in mempool} = account .. account + Cardinality(mempool) - 1
  BY <1>2
<1>4. GapInv
  BY <1>2, <1>3 DEF Init, GapInv, KnownByNonce, Fits, NoNonceGap
<1>5. OnceInv
  BY DEF Init, OnceInv, ExecutedIsBehind, ExecutedAtMostOnce
<1> QED
  BY <1>1, <1>4, <1>5

LEMMA NextPreservesAll ==
    BundlerInv /\ GapInv /\ OnceInv /\ [Next]_vars => (BundlerInv /\ GapInv /\ OnceInv)'
BY NextPreservesInv, NextPreservesGapInv, NextPreservesOnceInv

\* The inductive invariant, and with it the properties, for any requests.
THEOREM BundlerInvariant == Spec => [](BundlerInv /\ GapInv /\ OnceInv)
BY InitEstablishesAll, NextPreservesAll, PTL DEF Spec

\* Requests, transactions and the chain keep their types: no request simulates
\* an operation beyond the last one of its body.
THEOREM BundlerTypeCorrect == Spec => []TypeOK
<1>1. BundlerInv => TypeOK
  BY DEF BundlerInv
<1> QED
  BY <1>1, BundlerInvariant, PTL

\* No transaction of the bundler holds two operations of one wallet, however
\* many requests run at once and whatever else happens on the chain.
THEOREM AtMostOneOpPerWallet == Spec => []OneOpPerWallet
<1>1. BundlerInv => OneOpPerWallet
  BY DEF BundlerInv
<1> QED
  BY <1>1, BundlerInvariant, PTL

\* No pending transaction waits for a nonce that nobody has, however many requests
\* asked for a nonce at the same time.
THEOREM NoncesHaveNoGap == Spec => []NoNonceGap
<1>1. GapInv => NoNonceGap
  BY DEF GapInv
<1> QED
  BY <1>1, BundlerInvariant, PTL

\* No operation is executed twice, however often it is sent.
THEOREM OperationsExecuteOnce == Spec => []ExecutedAtMostOnce
<1>1. OnceInv => ExecutedAtMostOnce
  BY DEF OnceInv
<1> QED
  BY <1>1, BundlerInvariant, PTL

-----------------------------------------------------------------------------
(***************************************************************************)
(* Instances.  Of the configurations: the health check and the handler of  *)
(* operations ask for the same two parts, so only "good" is vouched for,   *)
(* and only others make an instance panic; an instance that panics forgets *)
(* what it has read, so the next it reads is the secret of now.            *)
(***************************************************************************)

\* Configurations that were checked are good, those that made an instance panic
\* are not.
Judged ==
    /\ vouched \subseteq {"good"}
    /\ \A i \in Instance : \A k \in DOMAIN crashed[i] : crashed[i][k] # "good"

\* While the secret is good, an instance with another configuration has it from
\* before, and has not panicked since.
Dropped ==
    secret = "good" =>
        \A i \in Instance : /\ Len(crashed[i]) <= 1
                            /\ C[i] \notin {None, "good"} => crashed[i] = <<>>

Unanswered == \A r \in Request : pc[r] = "done" \/ response[r] = "none"

\* An instance handles operations after it has read a configuration.
Started == \A i \in Instance : serving[i] # None /\ C[i] = None => pc[serving[i]] = "idle"

LambdaInv ==
    /\ LTypeOK
    /\ Judged
    /\ Dropped
    /\ Unanswered
    /\ Started
    /\ OnlyGoodConfigsSend

-----------------------------------------------------------------------------
\* An instance serves a request, when it serves one, and no other instance does.
LEMMA ServingIsRequest ==
    ASSUME LTypeOK, NEW i \in Instance, serving[i] # None
    PROVE  /\ serving[i] \in Request
           /\ status[serving[i]] = "waiting"
           /\ \A j \in Instance : serving[j] = serving[i] => j = i
BY DEF LTypeOK

\* What an instance does to its request, and what happens on the chain, is a step
\* of the bundler; the rest leaves the bundler alone.
LEMMA LambdaStepsAreBundlerSteps ==
    ASSUME LTypeOK, [LNext]_allVars
    PROVE  [Next]_vars
<1>1. ASSUME NEW i \in Instance, InstanceStep(i) PROVE [Next]_vars
  <2>1. CASE ColdStart(i) \/ BadPath(i) \/ Healthz(i)
    BY <2>1 DEF ColdStart, BadPath, Healthz
  <2>2. CASE HandleOps(i)
    BY <2>2, ServingIsRequest DEF HandleOps, Arrived, Next
  <2>3. CASE BadConfig(i)
    BY <2>3, ServingIsRequest DEF BadConfig, Next, RequestStep
  <2>4. CASE Serve(i)
    BY <2>4, ServingIsRequest DEF Serve, SimulateWith, Next, RequestStep
  <2> QED
    BY <1>1, <2>1, <2>2, <2>3, <2>4 DEF InstanceStep
<1>2. ASSUME NEW i \in Instance, NEW r \in Request, Recycle(i) \/ Invoke(i, r)
      PROVE  UNCHANGED vars
  BY <1>2 DEF Recycle, Invoke
<1>3. ASSUME NEW i \in Instance, Recycle(i) PROVE UNCHANGED vars
  BY <1>3 DEF Recycle
<1>4. ASSUME NEW s \in Secrets, SetSecret(s) \/ Standalone(s) PROVE UNCHANGED vars
  BY <1>4 DEF SetSecret, Standalone
<1>5. CASE UNCHANGED allVars
  BY <1>5 DEF allVars
<1>6. CASE \/ \E t \in mempool, need \in GasNeeded : Mine(t, need)
           \/ \E w \in Wallet : HandledElsewhere(w)
  BY <1>6 DEF Next
<1> QED
  BY <1>1, <1>2, <1>3, <1>4, <1>5, <1>6 DEF LNext

\* No request is answered and no instance has read anything at first.
LEMMA LInitEstablishesInv == LInit => LambdaInv
<1> SUFFICES ASSUME LInit PROVE LambdaInv
  OBVIOUS
<1>1. TypeOK
  BY InitEstablishesInv DEF LInit, BundlerInv
<1>2. LTypeOK
  <2>1. /\ secret \in Secrets /\ changes \in 0 .. MaxChanges
        /\ vouched \subseteq Secrets
        /\ crashed \in [Instance -> Seq(Secrets)]
    BY LambdaAssumption, EmptySeq DEF LInit
  <2>2. /\ C \in [Instance -> (Secrets \ {"password"}) \cup {None}]
        /\ serving \in [Instance -> Request \cup {None}]
        /\ status \in [Request -> Status \cup {"404", "crash", "waiting"}]
    BY DEF LInit, Status
  <2>3. \A i \in Instance : serving[i] = None
    BY DEF LInit
  <2>4. \A r \in Request : status[r] = "none" /\ pc[r] = "idle" /\ r # None
    BY LambdaAssumption DEF LInit, Init
  <2> QED
    BY <1>1, <2>1, <2>2, <2>3, <2>4 DEF LTypeOK
<1>3. Judged /\ Dropped
  BY DEF LInit, Judged, Dropped
<1>4. Unanswered /\ Started /\ OnlyGoodConfigsSend
  BY LambdaAssumption DEF LInit, Init, Unanswered, Started, OnlyGoodConfigsSend
<1> QED
  BY <1>2, <1>3, <1>4 DEF LambdaInv

-----------------------------------------------------------------------------
(* The steps of an instance. *)

\* An answer frees the instance, whether its process ends or not.
LEMMA EndingKeepsTypes ==
    ASSUME LTypeOK, TypeOK', NEW i \in Instance, serving[i] # None,
           NEW code \in Status \cup {"404", "crash"}, code # "none",
           Ends(i, code),
           \A r \in Request : pc[r] = "idle" /\ r # serving[i] => pc'[r] = "idle",
           UNCHANGED <<secret, changes>>,
           C' = C \/ C' = [C EXCEPT ![i] = None],
           vouched' \subseteq Secrets,
           crashed' \in [Instance -> Seq(Secrets)]
    PROVE  LTypeOK'
<1> DEFINE r == serving[i]
<1>1. r \in Request /\ \A j \in Instance : serving[j] = r => j = i
  BY ServingIsRequest
<1>2. /\ status' = [status EXCEPT ![r] = code]
      /\ serving' = [serving EXCEPT ![i] = None]
  BY DEF Ends
<1>3. code # "waiting"
  BY DEF Status
<1>4. /\ serving' \in [Instance -> Request \cup {None}]
      /\ C' \in [Instance -> (Secrets \ {"password"}) \cup {None}]
      /\ status' \in [Request -> Status \cup {"404", "crash", "waiting"}]
  <2>1. serving' \in [Instance -> Request \cup {None}]
    BY <1>2 DEF LTypeOK
  <2>2. C' \in [Instance -> (Secrets \ {"password"}) \cup {None}]
    BY DEF LTypeOK
  <2>3. status' \in [Request -> Status \cup {"404", "crash", "waiting"}]
    BY <1>1, <1>2 DEF LTypeOK
  <2> QED
    BY <2>1, <2>2, <2>3
<1>5. \A j, k \in Instance : serving'[j] = serving'[k] /\ serving'[j] # None => j = k
  BY <1>2 DEF LTypeOK
<1>6. ASSUME NEW q \in Request
      PROVE  /\ status'[q] = "waiting" <=> \E j \in Instance : serving'[j] = q
             /\ status'[q] = "none" => pc'[q] = "idle"
  <2>1. q # None
    BY LambdaAssumption
  <2>2. CASE q = r
    BY <1>1, <1>2, <1>3, <2>1, <2>2 DEF LTypeOK
  <2>3. CASE q # r
    BY <1>1, <1>2, <2>1, <2>3 DEF LTypeOK
  <2> QED
    BY <2>2, <2>3
<1> QED
  BY <1>4, <1>5, <1>6 DEF LTypeOK

\* While nothing is told apart by what the configurations did, and no request gets
\* further than it was, the invariant stays.
LEMMA QuietKeepsInv ==
    ASSUME LambdaInv, LTypeOK', UNCHANGED <<vars, vouched, crashed, secret>>,
           C' = C \/ \E i \in Instance : C' = [C EXCEPT ![i] = None],
           \A i \in Instance :
               serving'[i] # None /\ serving'[i] # serving[i] => pc[serving'[i]] = "idle",
           \A i \in Instance : serving[i] # None /\ serving'[i] = serving[i] => C'[i] = C[i]
    PROVE  LambdaInv'
<1>1. Judged' /\ Unanswered'
  BY DEF LambdaInv, Judged, Unanswered, vars, requestVars
<1>2. Dropped'
  BY DEF LambdaInv, Dropped, LTypeOK
<1>3. Started' /\ OnlyGoodConfigsSend'
  BY DEF LambdaInv, Started, OnlyGoodConfigsSend, vars, requestVars
<1> QED
  BY <1>1, <1>2, <1>3 DEF LambdaInv

\* A process that panics forgets a configuration that was not good.
LEMMA PanicsKeepInv ==
    ASSUME LambdaInv, LTypeOK', NEW i \in Instance, serving[i] # None,
           C[i] \in Secrets \ {"good"}, C[i] # None,
           Panics(i),
           UNCHANGED <<secret, vouched>>,
           \A r \in Request : r # serving[i] => pc'[r] = pc[r],
           Unanswered'
    PROVE  LambdaInv'
<1>1. /\ crashed' = [crashed EXCEPT ![i] = Append(@, C[i])]
      /\ C' = [C EXCEPT ![i] = None]
      /\ serving' = [serving EXCEPT ![i] = None]
  BY DEF Panics, Exit, Ends
<1>2. crashed \in [Instance -> Seq(Secrets)] /\ C \in [Instance -> Secrets \cup {None}]
  BY DEF LambdaInv, LTypeOK
<1>3. Judged'
  <2> SUFFICES ASSUME NEW j \in Instance, NEW k \in DOMAIN crashed'[j]
               PROVE  crashed'[j][k] # "good"
    BY DEF LambdaInv, Judged
  <2>1. CASE j = i
    BY <1>1, <1>2, <2>1, AppendProperties DEF LambdaInv, Judged
  <2>2. CASE j # i
    BY <1>1, <1>2, <2>2 DEF LambdaInv, Judged
  <2> QED
    BY <2>1, <2>2
<1>4. Dropped'
  <2> SUFFICES ASSUME secret = "good", NEW j \in Instance
               PROVE  /\ Len(crashed'[j]) <= 1
                      /\ C'[j] \notin {None, "good"} => crashed'[j] = <<>>
    BY DEF Dropped
  <2>1. CASE j = i
    <3>1. crashed[i] = <<>>
      BY DEF LambdaInv, Dropped
    <3>2. crashed'[i] = <<C[i]>> /\ C'[i] = None
      BY <1>1, <1>2, <3>1
    <3> QED
      BY <2>1, <3>2
  <2>2. CASE j # i
    BY <1>1, <1>2, <2>2 DEF LambdaInv, Dropped
  <2> QED
    BY <2>1, <2>2
<1>5. ASSUME NEW j \in Instance, serving'[j] # None
      PROVE  /\ serving'[j] = serving[j] /\ C'[j] = C[j]
             /\ pc'[serving[j]] = pc[serving[j]]
  <2>1. j # i /\ serving'[j] = serving[j] /\ C'[j] = C[j]
    BY <1>1, <1>2, <1>5 DEF LambdaInv, LTypeOK
  <2>2. serving[j] \in Request /\ serving[j] # serving[i]
    BY <1>5, <2>1, ServingIsRequest DEF LambdaInv
  <2> QED
    BY <2>1, <2>2
<1>6. Started' /\ OnlyGoodConfigsSend'
  BY <1>5 DEF LambdaInv, Started, OnlyGoodConfigsSend
<1> QED
  BY <1>3, <1>4, <1>6 DEF LambdaInv

\* A new process has read the secret of now.
LEMMA ColdStartKeepsInv ==
    ASSUME LambdaInv, TypeOK', NEW i \in Instance, ColdStart(i)
    PROVE  LambdaInv'
<1>1. CASE Exit(i, "crash")
  <2>1. LTypeOK'
    BY <1>1, EndingKeepsTypes DEF ColdStart, Exit, LambdaInv, LTypeOK, vars, requestVars
  <2> QED
    BY <1>1, <2>1, QuietKeepsInv DEF ColdStart, Exit, Ends, LambdaInv, LTypeOK
<1>2. CASE /\ InitFromAWSSecret(secret)
           /\ C' = [C EXCEPT ![i] = secret]
           /\ UNCHANGED <<serving, status>>
  <2>1. UNCHANGED <<vars, secret, changes, vouched, crashed>> /\ C[i] = None
    BY DEF ColdStart
  <2>2. LTypeOK'
    BY <1>2, <2>1 DEF LambdaInv, LTypeOK, InitFromAWSSecret, vars, requestVars
  <2>3. Judged' /\ Unanswered'
    BY <2>1 DEF LambdaInv, Judged, Unanswered, vars, requestVars
  <2>4. Dropped'
    BY <1>2, <2>1 DEF LambdaInv, LTypeOK, Dropped
  <2>5. Started' /\ OnlyGoodConfigsSend'
    BY <1>2, <2>1
       DEF LambdaInv, LTypeOK, Started, OnlyGoodConfigsSend, vars, requestVars, None
  <2> QED
    BY <2>2, <2>3, <2>4, <2>5 DEF LambdaInv
<1> QED
  BY <1>1, <1>2 DEF ColdStart

LEMMA BadPathKeepsInv ==
    ASSUME LambdaInv, TypeOK', NEW i \in Instance, BadPath(i)
    PROVE  LambdaInv'
<1>1. PICK code \in {"400", "404"} : Ends(i, code)
  BY DEF BadPath
<1>2. LTypeOK'
  BY <1>1, EndingKeepsTypes
     DEF BadPath, Arrived, Status, LambdaInv, LTypeOK, vars, requestVars
<1> QED
  BY <1>1, <1>2, QuietKeepsInv DEF BadPath, Ends, LambdaInv, LTypeOK

\* The health check vouches for a good configuration, or panics.
LEMMA HealthzKeepsInv ==
    ASSUME LambdaInv, TypeOK', NEW i \in Instance, Healthz(i)
    PROVE  LambdaInv'
<1>1. /\ serving[i] # None /\ C[i] # None /\ C[i] \in Secrets \ {"password"}
      /\ UNCHANGED <<vars, secret, changes>>
  BY DEF Healthz, Arrived, LambdaInv, LTypeOK
<1>2. CASE GetBundler(C[i]) /\ GetChainID(C[i])
  <2>1. C[i] = "good"
    BY <1>1, <1>2, LambdaAssumption DEF GetBundler, GetChainID, ConfigKind
  <2>2. /\ Ends(i, "200")
        /\ vouched' = vouched \cup {C[i]}
        /\ UNCHANGED <<C, crashed>>
    BY <1>2 DEF Healthz
  <2>3. LTypeOK'
    BY <1>1, <2>2, EndingKeepsTypes DEF Status, LambdaInv, LTypeOK, vars, requestVars
  <2>4. Judged' /\ Dropped' /\ Unanswered'
    BY <1>1, <2>1, <2>2
       DEF LambdaInv, Judged, Dropped, Unanswered, vars, requestVars
  <2>5. Started' /\ OnlyGoodConfigsSend'
    BY <1>1, <2>2
       DEF LambdaInv, LTypeOK, Started, OnlyGoodConfigsSend, Ends, vars, requestVars
  <2> QED
    BY <2>3, <2>4, <2>5 DEF LambdaInv
<1>3. CASE ~(GetBundler(C[i]) /\ GetChainID(C[i]))
  <2>1. C[i] # "good"
    BY <1>3 DEF GetBundler, GetChainID
  <2>2. Panics(i) /\ UNCHANGED vouched
    BY <1>3 DEF Healthz
  <2>3. crashed' \in [Instance -> Seq(Secrets)]
    BY <1>1, <2>2, AppendProperties DEF Panics, LambdaInv, LTypeOK
  <2>4. LTypeOK'
    BY <1>1, <2>2, <2>3, EndingKeepsTypes
       DEF Panics, Exit, Status, LambdaInv, LTypeOK, vars, requestVars
  <2>5. Unanswered' /\ pc' = pc
    BY <1>1 DEF LambdaInv, Unanswered, vars, requestVars
  <2> QED
    BY <1>1, <2>1, <2>2, <2>4, <2>5, PanicsKeepInv
<1> QED
  BY <1>2, <1>3

\* The request begins, and is not answered.
LEMMA HandleOpsKeepsInv ==
    ASSUME LambdaInv, TypeOK', NEW i \in Instance, HandleOps(i)
    PROVE  LambdaInv'
<1> DEFINE r == serving[i]
<1>1. /\ r \in Request /\ status[r] = "waiting" /\ pc[r] = "idle" /\ C[i] # None
      /\ pc' = [pc EXCEPT ![r] = "parse"]
      /\ UNCHANGED <<response, lambdaVars>>
  BY ServingIsRequest DEF HandleOps, Arrived, Receive, Go, LambdaInv
<1>2. UNCHANGED <<secret, changes, vouched, C, serving, status, crashed>>
  BY <1>1 DEF lambdaVars, instanceVars
<1>3. pc \in [Request -> {"idle", "parse", "simulate", "estimate", "nonce", "send", "done"}]
  BY DEF LambdaInv, LTypeOK, TypeOK
<1>4. LTypeOK'
  BY <1>1, <1>2, <1>3 DEF LambdaInv, LTypeOK
<1>5. Judged' /\ Dropped'
  BY <1>2 DEF LambdaInv, Judged, Dropped
<1>6. Unanswered'
  BY <1>1, <1>3 DEF LambdaInv, Unanswered
<1>7. Started' /\ OnlyGoodConfigsSend'
  BY <1>1, <1>2, <1>3 DEF LambdaInv, LTypeOK, Started, OnlyGoodConfigsSend
<1> QED
  BY <1>4, <1>5, <1>6, <1>7 DEF LambdaInv

\* What a step of the handler may do to its request.
LEMMA RequestStepEffect ==
    ASSUME TypeOK, Unanswered, NEW r \in Request, RequestStep(r)
    PROVE  /\ pc[r] # "idle" /\ pc'[r] # "idle"
           /\ \A q \in Request : q # r => pc'[q] = pc[q] /\ response'[q] = response[q]
           /\ response'[r] \in Status
           /\ response'[r] # "none" => pc'[r] = "done"
           /\ pc'[r] \in {"estimate", "nonce", "send"}
                 => pc[r] \in {"estimate", "nonce"} \/ Simulate(r)
<1> USE DEF TypeOK, Unanswered, Status, Answer, Go
<1>1. CASE Parse(r)
  BY <1>1 DEF Parse
<1>2. CASE Simulate(r)
  BY <1>2 DEF Simulate
<1>3. CASE Misconfigured(r)
  BY <1>3 DEF Misconfigured
<1>4. CASE EstimateGas(r)
  BY <1>4 DEF EstimateGas
<1>5. CASE PendingNonce(r)
  BY <1>5 DEF PendingNonce
<1>6. CASE SendTransaction(r)
  BY <1>6 DEF SendTransaction
<1>7. CASE TimesOut(r)
  BY <1>7 DEF TimesOut
<1> QED
  BY <1>1, <1>2, <1>3, <1>4, <1>5, <1>6, <1>7 DEF RequestStep

LEMMA BadConfigKeepsInv ==
    ASSUME LambdaInv, TypeOK', NEW i \in Instance, BadConfig(i)
    PROVE  LambdaInv'
<1> DEFINE r == serving[i]
<1>1. /\ r \in Request /\ r # None
      /\ Misconfigured(r) /\ Panics(i)
      /\ UNCHANGED <<secret, changes, vouched>>
  BY ServingIsRequest DEF BadConfig, LambdaInv
<1>2. C[i] \in Secrets \ {"good"} /\ C[i] # None
  BY DEF BadConfig, GetChainID, GetBundler, LambdaInv, LTypeOK, None
<1>3. RequestStep(r)
  BY <1>1 DEF RequestStep
<1>4. /\ \A q \in Request : q # r => pc'[q] = pc[q] /\ response'[q] = response[q]
      /\ pc'[r] = "done"
  BY <1>1, <1>3, RequestStepEffect DEF LambdaInv, LTypeOK, TypeOK, Misconfigured, Answer, Go
<1>5. Unanswered'
  BY <1>4 DEF LambdaInv, Unanswered
<1>6. crashed' \in [Instance -> Seq(Secrets)]
  BY <1>1, <1>2, AppendProperties DEF Panics, LambdaInv, LTypeOK
<1>7. LTypeOK'
  <2>1. LTypeOK /\ vouched' \subseteq Secrets
    BY <1>1 DEF LambdaInv, LTypeOK
  <2>2. Ends(i, "panic") /\ C' = [C EXCEPT ![i] = None]
    BY <1>1 DEF Panics, Exit
  <2>3. \A q \in Request : pc[q] = "idle" /\ q # r => pc'[q] = "idle"
    BY <1>4
  <2> HIDE DEF r
  <2> QED
    BY <1>1, <1>6, <2>1, <2>2, <2>3, EndingKeepsTypes DEF r, Status
<1> QED
  BY <1>1, <1>2, <1>4, <1>5, <1>7, PanicsKeepInv

\* A step of the handler that sends has been simulated with a good configuration.
LEMMA ServeKeepsInv ==
    ASSUME LambdaInv, TypeOK', NEW i \in Instance, Serve(i)
    PROVE  LambdaInv'
<1> DEFINE r       == serving[i]
           sending == {"estimate", "nonce", "send"}
<1>1. /\ r \in Request /\ r # None
      /\ status[r] = "waiting"
      /\ \A j \in Instance : serving[j] = r => j = i
      /\ UNCHANGED <<secret, changes, vouched, crashed>>
  BY ServingIsRequest DEF Serve, LambdaInv
<1>2. RequestStep(r)
  BY DEF Serve, SimulateWith, RequestStep
<1>3. /\ pc[r] # "idle" /\ pc'[r] # "idle"
      /\ \A q \in Request : q # r => pc'[q] = pc[q] /\ response'[q] = response[q]
      /\ response'[r] \in Status
      /\ response'[r] # "none" => pc'[r] = "done"
      /\ pc'[r] \in sending => pc[r] \in {"estimate", "nonce"} \/ Simulate(r)
  BY <1>1, <1>2, RequestStepEffect DEF LambdaInv, LTypeOK
<1>4. Unanswered'
  BY <1>3 DEF LambdaInv, Unanswered
<1>5. Judged'
  BY <1>1 DEF LambdaInv, Judged
<1>6. CASE response'[r] = "none"
  <2>1. UNCHANGED <<C, serving, status>>
    BY <1>6 DEF Serve
  <2>2. LTypeOK'
    BY <1>1, <1>3, <2>1 DEF LambdaInv, LTypeOK
  <2>3. Dropped'
    BY <1>1, <2>1 DEF LambdaInv, Dropped
  <2>4. ASSUME pc'[r] \in sending PROVE C[i] = "good"
    <3>1. CASE pc[r] \in {"estimate", "nonce"}
      BY <1>1, <3>1 DEF LambdaInv, OnlyGoodConfigsSend
    <3>2. CASE pc[r] \notin {"estimate", "nonce"}
      <4>1. pc[r] = "simulate"
        BY <1>3, <2>4, <3>2 DEF Simulate
      <4>2. GetChainID(C[i]) /\ GetBundler(C[i])
        <5>1. ~TimesOut(r)
          BY <1>1, <2>4 DEF TimesOut, Answer, Go, LambdaInv, LTypeOK, TypeOK
        <5>2. ~Parse(r) /\ ~EstimateGas(r) /\ ~PendingNonce(r) /\ ~SendTransaction(r)
          BY <4>1 DEF Parse, EstimateGas, PendingNonce, SendTransaction
        <5> QED
          BY <1>6, <5>1, <5>2 DEF Serve, SimulateWith
      <4>3. C[i] \in Secrets \ {"password"}
        BY <1>1, <4>1 DEF LambdaInv, LTypeOK, Started
      <4> QED
        BY <4>2, <4>3, LambdaAssumption DEF GetChainID, GetBundler, ConfigKind
    <3> QED
      BY <3>1, <3>2
  <2>5. Started' /\ OnlyGoodConfigsSend'
    <3> SUFFICES ASSUME NEW j \in Instance, serving[j] # None
                 PROVE  /\ C[j] = None => pc'[serving[j]] = "idle"
                        /\ pc'[serving[j]] \in sending => C[j] = "good"
      BY <2>1 DEF Started, OnlyGoodConfigsSend
    <3>1. CASE j = i
      BY <1>1, <1>3, <2>4, <3>1 DEF LambdaInv, Started
    <3>2. CASE j # i
      BY <1>1, <1>3, <3>2, ServingIsRequest DEF LambdaInv, Started, OnlyGoodConfigsSend
    <3> QED
      BY <3>1, <3>2
  <2> QED
    BY <1>4, <1>5, <2>2, <2>3, <2>5 DEF LambdaInv
<1>7. CASE response'[r] # "none"
  <2>1. /\ Ends(i, response'[r])
        /\ C' = C \/ C' = [C EXCEPT ![i] = None]
    BY <1>7 DEF Serve, Exit
  <2>2. LTypeOK'
    <3>1. LTypeOK /\ vouched' \subseteq Secrets
          /\ crashed' \in [Instance -> Seq(Secrets)]
      BY <1>1 DEF LambdaInv, LTypeOK
    <3>2. \A q \in Request : pc[q] = "idle" /\ q # r => pc'[q] = "idle"
      BY <1>3
    <3>3. response'[r] \in Status \cup {"404", "crash"}
      BY <1>3
    <3> HIDE DEF r
    <3> QED
      BY <1>1, <1>7, <2>1, <3>1, <3>2, <3>3, EndingKeepsTypes DEF r
  <2>3. Dropped'
    BY <1>1, <2>1 DEF LambdaInv, LTypeOK, Dropped
  <2>4. ASSUME NEW j \in Instance, serving'[j] # None
        PROVE  /\ serving'[j] = serving[j] /\ C'[j] = C[j]
               /\ pc'[serving[j]] = pc[serving[j]]
    <3>1. j # i /\ serving'[j] = serving[j] /\ C'[j] = C[j]
      BY <2>1, <2>4 DEF Ends, LambdaInv, LTypeOK
    <3>2. serving[j] \in Request /\ serving[j] # r
      BY <1>1, <2>4, <3>1, ServingIsRequest DEF LambdaInv
    <3> QED
      BY <1>3, <3>1, <3>2
  <2>5. Started' /\ OnlyGoodConfigsSend'
    BY <2>4 DEF LambdaInv, Started, OnlyGoodConfigsSend
  <2> QED
    BY <1>4, <1>5, <2>2, <2>3, <2>5 DEF LambdaInv
<1> QED
  BY <1>6, <1>7

-----------------------------------------------------------------------------
(* The other steps. *)

\* A request goes to an instance that is free, and has not been handled.
LEMMA InvokeKeepsInv ==
    ASSUME LambdaInv, TypeOK', NEW i \in Instance, NEW r \in Request, Invoke(i, r)
    PROVE  LambdaInv'
<1>1. /\ serving[i] = None /\ status[r] = "none" /\ pc[r] = "idle"
      /\ serving' = [serving EXCEPT ![i] = r]
      /\ status' = [status EXCEPT ![r] = "waiting"]
      /\ UNCHANGED <<vars, secret, changes, vouched, C, crashed>>
  BY DEF Invoke, LambdaInv, LTypeOK
<1>2. r # None /\ \A j \in Instance : serving[j] # r
  BY <1>1, LambdaAssumption DEF LambdaInv, LTypeOK
<1>3. LTypeOK'
  <2>1. /\ serving' \in [Instance -> Request \cup {None}]
        /\ status' \in [Request -> Status \cup {"404", "crash", "waiting"}]
        /\ UNCHANGED <<secret, changes, vouched, C, crashed, pc>>
    BY <1>1 DEF LambdaInv, LTypeOK, vars, requestVars
  <2>2. \A j, k \in Instance : serving'[j] = serving'[k] /\ serving'[j] # None => j = k
    BY <1>1, <1>2 DEF LambdaInv, LTypeOK
  <2>3. ASSUME NEW q \in Request
        PROVE  /\ status'[q] = "waiting" <=> \E j \in Instance : serving'[j] = q
               /\ status'[q] = "none" => pc[q] = "idle"
    <3>1. q # None
      BY LambdaAssumption
    <3>2. CASE q = r
      BY <1>1, <3>2 DEF LambdaInv, LTypeOK
    <3>3. CASE q # r
      BY <1>1, <3>1, <3>3 DEF LambdaInv, LTypeOK
    <3> QED
      BY <3>2, <3>3
  <2> QED
    BY <2>1, <2>2, <2>3 DEF LambdaInv, LTypeOK
<1>4. \A j \in Instance :
          serving'[j] # None /\ serving'[j] # serving[j] => pc[serving'[j]] = "idle"
  BY <1>1 DEF LambdaInv, LTypeOK
<1> QED
  BY <1>1, <1>3, <1>4, QuietKeepsInv

\* A process that serves nothing is forgotten.
LEMMA RecycleKeepsInv ==
    ASSUME LambdaInv, TypeOK', NEW i \in Instance, Recycle(i)
    PROVE  LambdaInv'
<1>1. /\ serving[i] = None
      /\ C' = [C EXCEPT ![i] = None]
      /\ UNCHANGED <<vars, secret, changes, vouched, serving, status, crashed>>
  BY DEF Recycle
<1>2. LTypeOK'
  <2>1. C' \in [Instance -> (Secrets \ {"password"}) \cup {None}]
    BY <1>1 DEF LambdaInv, LTypeOK
  <2>2. UNCHANGED <<pc, secret, changes, vouched, serving, status, crashed>>
    BY <1>1 DEF vars, requestVars
  <2> QED
    BY <2>1, <2>2 DEF LambdaInv, LTypeOK
<1>3. \A j \in Instance : serving[j] # None => C'[j] = C[j]
  BY <1>1 DEF LambdaInv, LTypeOK
<1> QED
  BY <1>1, <1>2, <1>3, QuietKeepsInv

\* The secret changes, or a configuration is checked.
LEMMA ConfigurationKeepsInv ==
    ASSUME LambdaInv, TypeOK', NEW s \in Secrets, SetSecret(s) \/ Standalone(s)
    PROVE  LambdaInv'
<1>1. UNCHANGED <<pc, response, C, serving, status>>
  BY DEF SetSecret, Standalone, vars, requestVars, instanceVars
<1>2. Unanswered' /\ Started' /\ OnlyGoodConfigsSend'
  BY <1>1 DEF LambdaInv, Unanswered, Started, OnlyGoodConfigsSend
<1>3. CASE SetSecret(s)
  <2>1. /\ secret' = s /\ vouched' = vouched
        /\ changes' \in 0 .. MaxChanges
        /\ crashed' = [i \in Instance |-> <<>>]
    BY <1>3, LambdaAssumption DEF SetSecret, LambdaInv, LTypeOK
  <2>2. crashed' \in [Instance -> Seq(Secrets)]
    BY <2>1, EmptySeq
  <2>3. LTypeOK'
    BY <1>1, <2>1, <2>2 DEF LambdaInv, LTypeOK
  <2>4. Judged' /\ Dropped'
    BY <2>1 DEF LambdaInv, Judged, Dropped
  <2> QED
    BY <1>2, <2>3, <2>4 DEF LambdaInv
<1>4. CASE Standalone(s)
  <2>1. s = "good"
    BY <1>4, LambdaAssumption
       DEF Standalone, InitFromFile, GetChainID, GetBundler, ConfigKind
  <2>2. /\ vouched' = vouched \cup {"good"} /\ "good" \in Secrets
        /\ UNCHANGED <<secret, changes, crashed>>
    BY <1>4, <2>1 DEF Standalone, instanceVars
  <2>3. LTypeOK'
    BY <1>1, <2>2 DEF LambdaInv, LTypeOK
  <2>4. Judged' /\ Dropped'
    BY <1>1, <2>2 DEF LambdaInv, Judged, Dropped
  <2> QED
    BY <1>2, <2>3, <2>4 DEF LambdaInv
<1> QED
  BY <1>3, <1>4

\* A block, or nothing, concerns no request and no instance.
LEMMA ChainKeepsInv ==
    ASSUME LambdaInv, TypeOK', UNCHANGED <<requestVars, lambdaVars>>
    PROVE  LambdaInv'
<1>1. UNCHANGED <<pc, response, secret, changes, vouched, C, serving, status, crashed>>
  BY DEF requestVars, lambdaVars, instanceVars
<1>2. LTypeOK'
  BY <1>1 DEF LambdaInv, LTypeOK
<1> QED
  BY <1>1, <1>2 DEF LambdaInv, Judged, Dropped, Unanswered, Started, OnlyGoodConfigsSend

\* Every step keeps the invariant.
LEMMA LNextKeepsInv ==
    ASSUME LambdaInv, TypeOK', [LNext]_allVars
    PROVE  LambdaInv'
<1>1. ASSUME NEW i \in Instance, InstanceStep(i) PROVE LambdaInv'
  BY <1>1, ColdStartKeepsInv, BadPathKeepsInv, HealthzKeepsInv, HandleOpsKeepsInv,
     BadConfigKeepsInv, ServeKeepsInv DEF InstanceStep
<1>2. ASSUME NEW t \in mempool, NEW need \in GasNeeded,
             Mine(t, need), UNCHANGED lambdaVars
      PROVE  LambdaInv'
  BY <1>2, ChainKeepsInv DEF Mine
<1>3. ASSUME NEW w \in Wallet, HandledElsewhere(w), UNCHANGED lambdaVars
      PROVE  LambdaInv'
  BY <1>3, ChainKeepsInv DEF HandledElsewhere
<1>4. CASE UNCHANGED allVars
  BY <1>4, ChainKeepsInv DEF allVars, vars
<1> QED
  BY <1>1, <1>2, <1>3, <1>4, InvokeKeepsInv, RecycleKeepsInv, ConfigurationKeepsInv
     DEF LNext

-----------------------------------------------------------------------------
\* All that is known of the bundler, and of its instances.
DeployedInv == LambdaInv /\ BundlerInv /\ GapInv /\ OnceInv

LEMMA DeployedStep ==
    DeployedInv /\ [LNext]_allVars => DeployedInv' /\ [Next]_vars
<1> SUFFICES ASSUME DeployedInv, [LNext]_allVars
             PROVE  DeployedInv' /\ [Next]_vars
  OBVIOUS
<1>1. [Next]_vars
  BY LambdaStepsAreBundlerSteps DEF DeployedInv, LambdaInv
<1>2. (BundlerInv /\ GapInv /\ OnceInv)'
  BY <1>1, NextPreservesAll DEF DeployedInv
<1>3. LambdaInv'
  BY <1>2, LNextKeepsInv DEF DeployedInv, BundlerInv
<1> QED
  BY <1>1, <1>2, <1>3 DEF DeployedInv

LEMMA DeployedInit == LInit => DeployedInv /\ Init
BY LInitEstablishesInv, InitEstablishesAll DEF LInit, DeployedInv

THEOREM DeployedInvariant == LSpec => []DeployedInv
BY DeployedInit, DeployedStep, PTL DEF LSpec

\* What is deployed is the bundler: instances, their configurations and the end
\* of their processes add no behaviour to that of module Bundler.
THEOREM LambdaImplementsBundler == LSpec => Init /\ [][Next]_vars
BY DeployedInit, DeployedStep, PTL DEF LSpec

\* Every instance serves a request of its own with a configuration it has read.
THEOREM LambdaTypeCorrect == LSpec => []LTypeOK
<1>1. DeployedInv => LTypeOK
  BY DEF DeployedInv, LambdaInv
<1> QED
  BY <1>1, DeployedInvariant, PTL

\* No configuration that was checked makes an instance panic.
THEOREM VouchedIsSafe == LSpec => []VouchedConfigsWork
<1>1. DeployedInv => VouchedConfigsWork
  <2> SUFFICES ASSUME LambdaInv, NEW i \in Instance,
                      NEW c \in ToSet(crashed[i]) \cap vouched
               PROVE  FALSE
    BY DEF VouchedConfigsWork, DeployedInv
  <2>1. PICK k \in DOMAIN crashed[i] : crashed[i][k] = c
    BY DEF ToSet
  <2> QED
    BY <2>1 DEF LambdaInv, Judged
<1> QED
  BY <1>1, DeployedInvariant, PTL

\* Once the secret is good, no instance panics twice for what it had read before.
THEOREM BadConfigsAreDropped == LSpec => []BadConfigIsDropped
<1>1. DeployedInv => BadConfigIsDropped
  BY DEF DeployedInv, LambdaInv, Dropped, BadConfigIsDropped
<1> QED
  BY <1>1, DeployedInvariant, PTL

\* Only an instance with a good configuration gets as far as sending.
THEOREM SendersAreGood == LSpec => []OnlyGoodConfigsSend
<1>1. DeployedInv => OnlyGoodConfigsSend
  BY DEF DeployedInv, LambdaInv
<1> QED
  BY <1>1, DeployedInvariant, PTL

\* The deployed bundler never sends two operations of one wallet in one
\* transaction, however many instances serve requests at once.
THEOREM DeployedOneOpPerWallet == LSpec => []OneOpPerWallet
<1>1. DeployedInv => OneOpPerWallet
  BY DEF DeployedInv, BundlerInv
<1> QED
  BY <1>1, DeployedInvariant, PTL

\* No pending transaction waits for a nonce that nobody has, although instances ask
\* for nonces at the same time and share none of what they know.
THEOREM DeployedNoNonceGap == LSpec => []NoNonceGap
<1>1. DeployedInv => NoNonceGap
  BY DEF DeployedInv, GapInv
<1> QED
  BY <1>1, DeployedInvariant, PTL

\* No operation is executed twice, although an instance that panicked or ran out
\* of time may have sent it, and its client sends it again to another one.
THEOREM DeployedExecutesOnce == LSpec => []ExecutedAtMostOnce
<1>1. DeployedInv => ExecutedAtMostOnce
  BY DEF DeployedInv, OnceInv
<1> QED
  BY <1>1, DeployedInvariant, PTL
=============================================================================
