------------------------------ MODULE Bundler ------------------------------
(***************************************************************************)
(* The bundler (bundler/src): an AWS Lambda function that parses the user  *)
(* operations of an HTTP request, simulates each one and submits them in a *)
(* handleOps transaction of its own account.                               *)
(*                                                                         *)
(* It keeps no state and no lock, so requests run concurrently and meet at *)
(* the node: between two of its RPC calls other requests, other bundlers   *)
(* and blocks go by.  An RPC call may fail, also after it took effect, and *)
(* the Lambda may time out anywhere.                                       *)
(*                                                                         *)
(* The chain is kept to what the bundler depends on.  A wallet uses up one *)
(* nonce per operation (its creation counts as one here), a batch with an  *)
(* operation out of turn reverts as a whole, and the node simulates on the *)
(* latest block, runs an account's transactions in the order of their      *)
(* nonces and keeps one transaction per nonce.                             *)
(***************************************************************************)
EXTENDS Integers, Sequences, FiniteSetsExt, SequencesExt

CONSTANTS
    Wallet,
    Request,    \* the HTTP requests
    Bodies,     \* what they may contain: sequences of operations
    GasNeeded,  \* gas a batch may need, when it is estimated and when it runs
    MaxNonce    \* bound: operations of a wallet that are handled elsewhere

\* How the fields of an operation can be wrong: base64 that does not decode, a
\* field left out, a number that is none.
Form == {"ok", "badBase64", "missing", "badNumber"}

Operation == [sender : Wallet, nonce : Nat, form : Form, signed : BOOLEAN]

ASSUME BundlerAssumption ==
    /\ Bodies \subseteq Seq(Operation)
    /\ GasNeeded \subseteq Nat \ {0}
    /\ MaxNonce \in Nat

VARIABLES
    pc,        \* pc[r]: where request r is
    body,      \* body[r]: its operations
    at,        \* at[r]: the operation being simulated
    tx,        \* tx[r]: the transaction being prepared
    response,  \* response[r]: the status of the answer
    nonce,     \* nonce[w]: what wallet w expects next
    account,   \* nonce of the bundler's account in the latest block
    mempool,   \* its pending transactions
    executed,  \* history: how often each operation was executed by the bundler
    outOfGas   \* history: what transactions that ran out of gas needed

requestVars == <<pc, body, at, tx, response>>
chainVars   == <<nonce, account, mempool, executed, outOfGas>>
vars == <<requestVars, chainVars>>

Operations == UNION {ToSet(ops) : ops \in Bodies}
NoTx == [nonce |-> 0, ops |-> <<>>, gas |-> 0, estimate |-> 0]

Init ==
    /\ pc = [r \in Request |-> "idle"]
    /\ body = [r \in Request |-> <<>>]
    /\ at = [r \in Request |-> 1]
    /\ tx = [r \in Request |-> NoTx]
    /\ response = [r \in Request |-> "none"]
    /\ nonce = [w \in Wallet |-> 0]
    /\ account = 0
    /\ mempool = {}
    /\ executed = [op \in Operations |-> 0]
    /\ outOfGas = {}

-----------------------------------------------------------------------------
Go(r, label) == pc' = [pc EXCEPT ![r] = label]

Answer(r, status) ==
    /\ Go(r, "done")
    /\ response' = [response EXCEPT ![r] = status]

Receive(r, ops) ==
    /\ pc[r] = "idle"
    /\ Go(r, "parse")
    /\ body' = [body EXCEPT ![r] = ops]
    /\ UNCHANGED <<at, tx, response, chainVars>>

\* The first operation that does not parse decides: an error is answered, a
\* field left out is a nil pointer that panics.  ParseBigIntString turns what is
\* no number into nil, which goes on.
Unparsed(ops) == {i \in DOMAIN ops : ops[i].form \in {"badBase64", "missing"}}

Parse(r) ==
    LET wrong == Unparsed(body[r])
    IN  /\ pc[r] = "parse"
        /\ CASE body[r] = <<>> -> Answer(r, "400")
             [] wrong # {} ->
                  Answer(r, IF body[r][Min(wrong)].form = "missing"
                            THEN "panic" ELSE "400")
             [] OTHER -> Go(r, "simulate") /\ UNCHANGED response
        /\ UNCHANGED <<body, at, tx, chainVars>>

\* A wrong check that accepts a nonce that was used.
CanRun_old(ops) ==
    \A i \in DOMAIN ops : ops[i].signed /\ ops[i].nonce <= nonce[ops[i].sender]

\* The contracts accept the operations, run one after the other.
CanRun(ops) ==
    \A i \in DOMAIN ops :
        LET earlier == {j \in 1 .. i - 1 : ops[j].sender = ops[i].sender}
        IN  /\ ops[i].signed
            /\ ops[i].nonce = nonce[ops[i].sender] + Cardinality(earlier)

\* A wrong loop that simulates the first operation only.
Simulate_first(r) ==
    LET op == body[r][1]
    IN  /\ pc[r] = "simulate"
        /\ \/ CanRun(<<op>>) /\ Go(r, "estimate") /\ UNCHANGED response
           \/ Answer(r, "400")
        /\ UNCHANGED <<at, body, tx, chainVars>>

\* A wrong loop that goes one past the last operation.
Simulate_past(r) ==
    LET op == body[r][at[r]]
    IN  /\ pc[r] = "simulate"
        /\ \/ /\ CanRun(<<op>>)
              /\ Go(r, IF at[r] > Len(body[r]) THEN "estimate" ELSE "simulate")
              /\ at' = [at EXCEPT ![r] = @ + 1]
              /\ UNCHANGED response
           \/ Answer(r, "400") /\ UNCHANGED at
        /\ UNCHANGED <<body, tx, chainVars>>

\* One call of simulateValidation per operation, each on its own; packing a nil
\* number panics.
Simulate(r) ==
    LET op == body[r][at[r]]
    IN  /\ pc[r] = "simulate"
        /\ \/ /\ op.form = "badNumber"
              /\ Answer(r, "panic")
              /\ UNCHANGED at
           \/ /\ op.form = "ok"
              /\ CanRun(<<op>>)
              /\ Go(r, IF at[r] = Len(body[r]) THEN "estimate" ELSE "simulate")
              /\ at' = [at EXCEPT ![r] = IF @ = Len(body[r]) THEN @ ELSE @ + 1]
              /\ UNCHANGED response
           \/ /\ op.form = "ok"  \* it reverts, or the call fails
              /\ Answer(r, "400")
              /\ UNCHANGED at
        /\ UNCHANGED <<body, tx, chainVars>>

\* The process has a chain id or a key that does not parse, which panics where
\* it is used: before the call, or when its result is signed (see Lambda).
Misconfigured(r) ==
    /\ pc[r] = "simulate"
    /\ Answer(r, "panic")
    /\ UNCHANGED <<body, at, tx, chainVars>>

\* A transaction without a gas limit gets the estimate.  The limit is doubled
\* when it still is zero.
GasLimit(estimate) ==
    LET limit == 2 * 0
    IN  IF limit # 0 THEN limit ELSE estimate

\* eth.HandleOps: the gas of the whole batch is estimated, which fails when the
\* batch reverts.
EstimateGas(r) ==
    /\ pc[r] = "estimate"
    /\ \/ \E gas \in GasNeeded :
             /\ CanRun(body[r])
             /\ tx' = [tx EXCEPT ![r] =
                          [NoTx EXCEPT !.ops = body[r], !.gas = GasLimit(gas),
                                       !.estimate = gas]]
             /\ Go(r, "nonce")
             /\ UNCHANGED response
       \/ Answer(r, "500") /\ UNCHANGED tx
    /\ UNCHANGED <<body, at, chainVars>>

\* A wrong nonce that counts the transactions other requests are about to send.
PendingNonce_reserved(r) ==
    /\ pc[r] = "nonce"
    /\ tx' = [tx EXCEPT ![r].nonce = account + Cardinality(mempool)
                          + Cardinality({q \in Request : pc[q] = "send"})]
    /\ Go(r, "send")
    /\ UNCHANGED <<response, body, at, chainVars>>

\* The nonce after the account's pending transactions.
PendingNonce(r) ==
    /\ pc[r] = "nonce"
    /\ \/ /\ tx' = [tx EXCEPT ![r].nonce = account + Cardinality(mempool)]
          /\ Go(r, "send")
          /\ UNCHANGED response
       \/ Answer(r, "500") /\ UNCHANGED tx
    /\ UNCHANGED <<body, at, chainVars>>

\* The node takes the transaction, in place of one with the same nonce if the
\* fees have risen, or refuses it.  The answer may be an error all the same.
SendTransaction(r) ==
    /\ pc[r] = "send"
    /\ \/ /\ tx[r].nonce >= account
          /\ mempool' = {t \in mempool : t.nonce # tx[r].nonce} \cup {tx[r]}
          /\ Answer(r, "200") \/ Answer(r, "500")
       \/ Answer(r, "500") /\ UNCHANGED mempool
    /\ UNCHANGED <<body, at, tx, nonce, account, executed, outOfGas>>

\* A wrong set-up that starts a stopped invocation again.
TimesOut_restarts(r) ==
    /\ pc[r] \notin {"idle", "done"}
    /\ Go(r, "parse")
    /\ at' = [at EXCEPT ![r] = 1]
    /\ tx' = [tx EXCEPT ![r] = NoTx]
    /\ UNCHANGED <<body, response, chainVars>>

\* The Lambda is stopped and the gateway answers.
TimesOut(r) ==
    /\ pc[r] \notin {"idle", "done"}
    /\ Answer(r, "timeout")
    /\ UNCHANGED <<body, at, tx, chainVars>>

RequestStep(r) ==
    \/ Parse(r)
    \/ Simulate(r)
    \/ Misconfigured(r)
    \/ EstimateGas(r)
    \/ PendingNonce(r)
    \/ SendTransaction(r)
    \/ TimesOut(r)

-----------------------------------------------------------------------------
(* The chain. *)

\* The next transaction of the bundler's account is in a block.
Mine(t, need) ==
    LET runs == CanRun(t.ops) /\ need <= t.gas
    IN  /\ t \in mempool
        /\ t.nonce = account
        /\ mempool' = mempool \ {t}
        /\ account' = account + 1
        /\ nonce' = IF ~runs THEN nonce
                    ELSE [w \in Wallet |->
                             nonce[w] + Cardinality({i \in DOMAIN t.ops :
                                                        t.ops[i].sender = w})]
        /\ executed' = IF ~runs THEN executed
                       ELSE [op \in Operations |->
                                executed[op] + Cardinality({i \in DOMAIN t.ops :
                                                               t.ops[i] = op})]
        /\ outOfGas' = IF CanRun(t.ops) /\ need > t.gas
                       THEN outOfGas \cup {[estimate |-> t.estimate, need |-> need]}
                       ELSE outOfGas
        /\ UNCHANGED requestVars

\* Another bundler has an operation of wallet w handled.
HandledElsewhere(w) ==
    /\ nonce[w] < MaxNonce
    /\ nonce' = [nonce EXCEPT ![w] = @ + 1]
    /\ UNCHANGED <<requestVars, account, mempool, executed, outOfGas>>

Next ==
    \/ \E r \in Request : RequestStep(r) \/ (\E ops \in Bodies : Receive(r, ops))
    \/ \E t \in mempool, need \in GasNeeded : Mine(t, need)
    \/ \E w \in Wallet : HandledElsewhere(w)

\* Every RPC call returns or fails, or the Lambda times out.
Spec == Init /\ [][Next]_vars /\ \A r \in Request : WF_vars(RequestStep(r))

-----------------------------------------------------------------------------
(* Properties. *)

Status == {"none", "200", "400", "500", "panic", "timeout"}
Tx == [nonce : Nat, ops : Bodies \cup {<<>>}, gas : Nat, estimate : Nat]

TypeOK ==
    /\ pc \in [Request -> {"idle", "parse", "simulate", "estimate", "nonce",
                           "send", "done"}]
    /\ body \in [Request -> Bodies \cup {<<>>}]
    /\ at \in [Request -> Nat \ {0}]
    /\ \A r \in Request : pc[r] = "simulate" => at[r] \in DOMAIN body[r]
    /\ tx \in [Request -> Tx]
    /\ response \in [Request -> Status]
    /\ nonce \in [Wallet -> Nat]
    /\ account \in Nat
    /\ mempool \subseteq Tx
    /\ executed \in [Operations -> Nat]

DistinctSenders(ops) ==
    \A i, j \in DOMAIN ops : i # j => ops[i].sender # ops[j].sender

\* The bundler never sends two operations of one wallet in one transaction,
\* although each request may contain them and the chain may move on between
\* their simulations: the first is out of turn once the second is in turn.  It
\* is what the paymasters' look at the credit relies on.
OneOpPerWallet == \A t \in mempool : DistinctSenders(t.ops)

\* The account's pending transactions have the nonces after the last one mined,
\* whatever requests do between asking for a nonce and using it: none waits for
\* a nonce that nobody has.
NoNonceGap ==
    {t.nonce : t \in mempool} = account .. account + Cardinality(mempool) - 1

\* An operation is executed once at most, however many requests contain it or
\* are sent again after an error.
ExecutedAtMostOnce == \A op \in Operations : executed[op] <= 1

\* "FIXME: sometimes estimated gas is wrong" (bundler/src/eth/main.go:87): with
\* a limit of twice the estimate a transaction does not run out of gas, unless
\* it needs more than that.
MarginCoversGas == \A f \in outOfGas : f.need > 2 * f.estimate
=============================================================================
