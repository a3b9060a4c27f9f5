----------------------------- MODULE EntryPoint -----------------------------
(***************************************************************************)
(* The EntryPoint contract (contracts/EntryPoint.sol): batches of user     *)
(* operations are validated, executed and paid for.                        *)
(*                                                                         *)
(* Inside handleOps the contract calls code it does not know: the wallet's *)
(* validateUserOp, the operation's call data, the paymaster's postOp.  Any *)
(* of them may call the EntryPoint again, so handleOps is a sequence of    *)
(* steps, and the calls in progress are a stack of frames: the last frame  *)
(* runs, a nested handleOps is pushed on top of its caller's frame.  A     *)
(* revert is atomic in the EVM: it brings back the state of the contracts  *)
(* at the start of the call that reverts.                                  *)
(*                                                                         *)
(* validatePaymasterUserOp is a view function, called by STATICCALL: it    *)
(* cannot change state, so it is part of the step that ends a validation.  *)
(* simulateValidation ends in a revert on chain: it changes nothing.       *)
(***************************************************************************)
EXTENDS StakeManager, SequencesExt

CONSTANTS
    NoPaymaster,  \* address(0) in the paymaster field of an operation
    Batches,      \* the arguments of handleOps: non-empty sequences of operations
    BaseFees,     \* values of block.basefee
    GasUsed,      \* gas a call may be measured to use
    Overhead,     \* gas the EntryPoint's own code around a call may be measured to use
    MaxUint120,   \* type(uint120).max, small in the checked instances
    MaxCalls,     \* bound: calls that unknown code makes during one handleOps
    MaxDepth      \* bound: handleOps calls in progress at a time

UO == INSTANCE UserOperation

ASSUME EntryPointAssumption ==
    /\ NoPaymaster \notin Account
    /\ MaxUint120 \in Nat
    /\ Batches \subseteq Seq(UO!UserOperationOf(Nat)) \ {<<>>}
    /\ BaseFees \subseteq Nat
    /\ GasUsed \subseteq Nat
    /\ Overhead \subseteq Nat
    /\ MaxCalls \in Nat
    /\ MaxDepth \in Nat

VARIABLES
    code,    \* the accounts that have a contract
    frames   \* the stack of handleOps calls in progress

vars == <<stakeVars, code, frames>>

-----------------------------------------------------------------------------
\* What a revert brings back.
World == [deposits |-> deposits, balance |-> balance, withdrawn |-> withdrawn,
          code |-> code]

Restore(w) ==
    /\ deposits' = w.deposits
    /\ balance' = w.balance
    /\ withdrawn' = w.withdrawn
    /\ code' = w.code

worldVars == <<deposits, balance, withdrawn, code>>

-----------------------------------------------------------------------------
(* Frames. *)

PostOpMode == {"opSucceeded", "opReverted", "postOpReverted"}

\* In which part of handleOps a frame is.  In the phases of External, code the
\* EntryPoint does not know is running.
External == {"validateUserOp", "call", "postOp"}
Phase == External \cup {"validate", "execute", "settle", "compensate"}

NewFrame(ops, fee) ==
    [phase     |-> "validate",
     ops       |-> ops,
     basefee   |-> fee,
     i         |-> 1,               \* the operation being handled
     opInfos   |-> <<>>,            \* UserOpInfo of the validated operations
     mode      |-> "opSucceeded",   \* PostOpMode of operation i
     actualGas |-> 0,               \* gas operation i has used so far
     collected |-> 0,
     saved     |-> World,           \* state when handleOps was called
     inner     |-> World,           \* state when innerHandleOp was called
     calls     |-> 0]               \* calls made by unknown code

Top     == Last(frames)
TopOp   == Top.ops[Top.i]
TopInfo == Top.opInfos[Top.i]

SetTop(f) == frames' = Append(Front(frames), f)
Pop       == frames' = Front(frames)

\* Code that is not the EntryPoint's can run: a transaction starts, or the
\* frame on top has called a wallet or a paymaster.
CanCall ==
    frames # <<>> => Top.phase \in External /\ Top.calls < MaxCalls

\* The stack after unknown code made a call.
Counted ==
    IF frames = <<>> THEN <<>>
    ELSE Append(Front(frames), [Top EXCEPT !.calls = @ + 1])

-----------------------------------------------------------------------------
(* handleOps, first loop: validation. *)

handleOps(ops, fee) ==
    /\ CanCall
    /\ Len(frames) < MaxDepth
    /\ frames' = Append(Counted, NewFrame(ops, fee))
    /\ UNCHANGED <<worldVars, timestamp>>

InPhase(p) == frames # <<>> /\ Top.phase = p

\* create2 deploys the sender, which fails if it is there already.
_createSenderIfNeeded(op) ==
    IF op.initCode
    THEN op.sender \notin code /\ code' = code \cup {op.sender}
    ELSE UNCHANGED code

\* _validatePrepayment up to the call of the wallet's validateUserOp.
CallValidateUserOp ==
    /\ InPhase("validate")
    /\ {TopOp.preVerificationGas, TopOp.verificationGas, TopOp.callGas,
        TopOp.maxFeePerGas, TopOp.maxPriorityFeePerGas} \subseteq 0 .. MaxUint120
    /\ _createSenderIfNeeded(TopOp)
    /\ TopOp.sender \in code'
    /\ SetTop([Top EXCEPT !.phase = "validateUserOp"])
    /\ UNCHANGED <<deposits, balance, withdrawn, timestamp>>

\* What validateUserOp is told the sender must add to its deposit.
missingWalletFunds(op, fee) ==
    LET required == UO!requiredPreFund(op, fee)
        bal      == deposits[op.sender].deposit
    IN  IF UO!hasPaymaster(op) \/ bal > required THEN 0 ELSE required - bal

\* A wrong check that takes the paymaster's word for its stake.
PaymasterIsStaked_always(op) == TRUE

PaymasterIsStaked(op) == UO!hasPaymaster(op) => deposits[op.paymaster].staked

\* A wrong TakePrefund that writes the deposit it read before the calls.
TakePrefund_stale(a, prefund) ==
    /\ Top.saved.deposits[a].deposit >= prefund
    /\ deposits' = [deposits EXCEPT ![a].deposit =
                       Top.saved.deposits[a].deposit - prefund]

\* A wrong TakePrefund that trusts the wallet to have paid.
TakePrefund_unchecked(a, prefund) ==
    deposits' = [deposits EXCEPT ![a].deposit = @ - prefund]

\* A wrong TakePrefund that looks at the deposit and does not debit it.
TakePrefund_looksOnly(a, prefund) ==
    /\ deposits[a].deposit >= prefund
    /\ UNCHANGED deposits

\* The deposit is read after the wallet's code ran, and must cover the prefund.
TakePrefund(a, prefund) ==
    /\ deposits[a].deposit >= prefund
    /\ deposits' = [deposits EXCEPT ![a].deposit = @ - prefund]

\* validateUserOp returned: the deposit is read again, the prefund is taken
\* from the wallet or from a staked paymaster, whose validation agrees and
\* returns a context or none; the validation used no more than its gas.
ValidationEnds(used, over, context) ==
    LET op      == TopOp
        prefund == UO!requiredPreFund(op, Top.basefee)
        info    == [prefund |-> prefund, context |-> context, cost |-> 0,
                    preOpGas |-> used + over + op.preVerificationGas]
        done    == Top.i = Len(Top.ops)
    IN  /\ InPhase("validateUserOp")
        /\ context => UO!hasPaymaster(op)
        /\ PaymasterIsStaked(op)
        /\ TakePrefund(UO!payer(op), prefund)
        /\ used <= op.verificationGas
        /\ SetTop([Top EXCEPT !.opInfos = Append(@, info),
                              !.i = IF done THEN 1 ELSE @ + 1,
                              !.phase = IF done THEN "execute" ELSE "validate"])
        /\ UNCHANGED <<balance, withdrawn, code, timestamp>>

-----------------------------------------------------------------------------
(* handleOps, second loop: execution. *)

\* Where operation i goes on when its call has ended: only a paymaster that
\* returned a context has its postOp called.
AfterCall(f) == IF f.opInfos[f.i].context THEN "postOp" ELSE "settle"

\* innerHandleOp opens a call context; an operation without call data calls
\* nothing and has succeeded.
innerHandleOp(over) ==
    LET begun == [Top EXCEPT !.inner = World, !.mode = "opSucceeded",
                             !.actualGas = TopInfo.preOpGas + over]
    IN  /\ InPhase("execute")
        /\ SetTop([begun EXCEPT !.phase =
                      IF TopOp.callData THEN "call" ELSE AfterCall(begun)])
        /\ UNCHANGED <<worldVars, timestamp>>

\* The call of the sender with the operation's data succeeds, or fails and
\* takes its effects back.
CallReturns(success, used) ==
    /\ InPhase("call")
    /\ used <= TopOp.callGas
    /\ SetTop([Top EXCEPT !.mode = IF success THEN "opSucceeded" ELSE "opReverted",
                          !.actualGas = @ + used, !.phase = AfterCall(Top)])
    /\ IF success THEN UNCHANGED worldVars ELSE Restore(Top.inner)
    /\ UNCHANGED timestamp

PostOpReturns(used) ==
    /\ InPhase("postOp")
    /\ used <= TopOp.verificationGas
    /\ SetTop([Top EXCEPT !.actualGas = @ + used, !.phase = "settle"])
    /\ UNCHANGED <<worldVars, timestamp>>

\* What the call in progress inside innerHandleOp may use at most.
GasLimit ==
    CASE Top.phase = "call"   -> TopOp.callGas
      [] Top.phase = "postOp" -> TopOp.verificationGas
      [] Top.phase = "settle" -> 0

\* innerHandleOp reverts (postOp reverted, it ran out of gas, the prefund did
\* not cover the cost, a deposit overflowed): what the operation did is undone
\* and the paymaster's postOp is called in mode postOpReverted.
InnerReverts(used, over) ==
    /\ frames # <<>>
    /\ Top.phase \in {"call", "postOp", "settle"}
    /\ Top.mode # "postOpReverted"
    /\ used <= GasLimit
    /\ SetTop([Top EXCEPT !.mode = "postOpReverted", !.actualGas = @ + used + over,
                          !.phase = AfterCall(Top)])
    /\ Restore(Top.inner)
    /\ UNCHANGED timestamp

ActualGasCost(f) == f.actualGas * UO!gasPrice(f.ops[f.i], f.basefee)

\* A wrong refund that always goes to the sender.
refundAddress_sender(op) == op.sender

refundAddress(op) == UO!payer(op)

\* The end of _handlePostOp: the cost is collected, the rest of the prefund
\* goes back to the deposit it came from.
Settle ==
    LET cost == ActualGasCost(Top)
        done == Top.i = Len(Top.ops)
    IN  /\ InPhase("settle")
        /\ cost <= TopInfo.prefund
        /\ internalIncrementDeposit(refundAddress(TopOp), TopInfo.prefund - cost)
        /\ SetTop([Top EXCEPT !.collected = @ + cost,
                              !.opInfos[Top.i].cost = cost,
                              !.i = IF done THEN @ ELSE @ + 1,
                              !.phase = IF done THEN "compensate" ELSE "execute"])
        /\ UNCHANGED <<balance, withdrawn, code, timestamp>>

\* The beneficiary gets what was collected and handleOps returns.
_compensate ==
    /\ InPhase("compensate")
    /\ Pay(Top.collected)
    /\ Pop
    /\ UNCHANGED <<deposits, withdrawn, code, timestamp>>

\* A wrong failure that handles the batch again from its start.
HandleOpsReverts_retries ==
    /\ frames # <<>>
    /\ Restore(Top.saved)
    /\ SetTop([NewFrame(Top.ops, Top.basefee) EXCEPT !.saved = Top.saved,
                                                    !.inner = Top.saved])
    /\ UNCHANGED timestamp

\* handleOps reverts at any point: a FailedOp, a payment refused, no gas left.
HandleOpsReverts ==
    /\ frames # <<>>
    /\ Restore(Top.saved)
    /\ Pop
    /\ UNCHANGED timestamp

-----------------------------------------------------------------------------
\* Anybody calls the StakeManager's functions, or the SingletonFactory: a
\* transaction of its own, or a step of unknown code inside handleOps.
CallStakeManager(a) ==
    /\ CanCall
    /\ StakeCall(a)
    /\ frames' = Counted
    /\ UNCHANGED code

deploy(a) ==
    /\ CanCall
    /\ a \notin code
    /\ code' = code \cup {a}
    /\ frames' = Counted
    /\ UNCHANGED stakeVars

\* All of a transaction is in one block.
EPNextBlock ==
    /\ frames = <<>>
    /\ NextBlock
    /\ UNCHANGED <<code, frames>>

EPInit ==
    /\ Init
    /\ code = {}
    /\ frames = <<>>

\* The steps of the handleOps on top of the stack.
HandleOpsStep ==
    \/ CallValidateUserOp
    \/ \E used \in GasUsed, over \in Overhead, context \in BOOLEAN :
          ValidationEnds(used, over, context)
    \/ \E over \in Overhead : innerHandleOp(over)
    \/ \E success \in BOOLEAN, used \in GasUsed : CallReturns(success, used)
    \/ \E used \in GasUsed : PostOpReturns(used)
    \/ \E used \in GasUsed, over \in Overhead : InnerReverts(used, over)
    \/ Settle
    \/ _compensate
    \/ HandleOpsReverts

EPNext ==
    \/ \E ops \in Batches, fee \in BaseFees : handleOps(ops, fee)
    \/ HandleOpsStep
    \/ \E a \in Account : CallStakeManager(a) \/ deploy(a)
    \/ EPNextBlock

EPSpec == EPInit /\ [][EPNext]_vars

\* Gas is finite: a transaction that started ends, with or without effect.
EPFairSpec == EPSpec /\ WF_vars(HandleOpsStep)

-----------------------------------------------------------------------------
(* Properties. *)

UserOpInfo == [prefund : Nat, context : BOOLEAN, cost : Nat, preOpGas : Nat]

WorldType == [deposits : [Account -> DepositInfo], balance : Nat,
              withdrawn : Nat, code : SUBSET Account]

\* A frame is at an operation of its batch, and has validated the operations it
\* is about to execute.
FrameOK(f) ==
    /\ f.phase \in Phase
    /\ f.ops \in Batches
    /\ f.basefee \in BaseFees
    /\ f.i \in 1 .. Len(f.ops)
    /\ f.opInfos \in Seq(UserOpInfo)
    /\ Len(f.opInfos) = IF f.phase \in {"validate", "validateUserOp"}
                        THEN f.i - 1 ELSE Len(f.ops)
    /\ f.mode \in PostOpMode
    /\ f.actualGas \in Nat
    /\ f.collected \in Nat
    /\ f.saved \in WorldType
    /\ f.inner \in WorldType
    /\ f.calls \in 0 .. MaxCalls

EPTypeOK ==
    /\ TypeOK
    /\ code \subseteq Account
    /\ Len(frames) <= MaxDepth
    /\ \A k \in 1 .. Len(frames) : FrameOK(frames[k])

\* The operations of a frame whose prefund is held: validated, not settled.
Held(f) ==
    CASE f.phase \in {"validate", "validateUserOp"} -> 1 .. Len(f.opInfos)
      [] f.phase = "compensate" -> {}
      [] OTHER -> f.i .. Len(f.opInfos)

HeldPrefunds(f) == MapThenSumSet(LAMBDA j : f.opInfos[j].prefund, Held(f))

\* No ether appears or is lost inside handleOps, however calls nest and
\* whatever reverts: the contract holds the deposits and stakes on record, the
\* prefunds of the operations in progress and the fees not yet handed over
\* (less what withdrawTo paid without a debit).
FundsAccounted ==
    balance + withdrawn =
        Deposited(deposits) + Staked(deposits)
        + MapThenSumSet(LAMBDA k : HeldPrefunds(frames[k]) + frames[k].collected,
                        1 .. Len(frames))

\* What account a has paid, or has at stake, in a frame.
PaidBy(f, a) ==
    LET own == {j \in 1 .. Len(f.opInfos) : UO!payer(f.ops[j]) = a}
    IN  MapThenSumSet(LAMBDA j : IF j \in Held(f) THEN f.opInfos[j].prefund
                                 ELSE f.opInfos[j].cost, own)

\* As long as a handleOps made no call back into the contract, the deposit of
\* every account is what it was at the start less exactly the cost of its
\* settled operations and the prefund of its others: the batch charges nobody
\* else, and no failure on the way leaves a prefund behind.
ChargedExactly ==
    frames # <<>> /\ Top.calls = 0 =>
        \A a \in Account :
            Top.saved.deposits[a].deposit = deposits[a].deposit + PaidBy(Top, a)

\* A paymaster whose operation was accepted has its stake in the contract until
\* the transaction ends, although its own code, or its owner's in the same
\* transaction, may unlock it in the meantime.
AcceptedPaymasterHasStake ==
    \A k \in 1 .. Len(frames) : \A j \in 1 .. Len(frames[k].opInfos) :
        LET op == frames[k].ops[j]
        IN  UO!hasPaymaster(op) => deposits[op.paymaster].stake >= paymasterStake

\* The records as of the last transaction that ended.
CommittedDeposits ==
    IF frames = <<>> THEN deposits ELSE frames[1].saved.deposits

\* No transaction takes a stake out that was locked, or not yet due, when the
\* transaction began, whatever calls and nested calls it makes.
LockedStakeStays ==
    [][\A a \in Account :
          CommittedDeposits'[a].stake < CommittedDeposits[a].stake =>
              /\ ~CommittedDeposits[a].staked
              /\ CommittedDeposits[a].withdrawTime \in 1 .. timestamp]_vars

\* Every transaction ends: no sequence of failures makes handleOps handle an
\* operation for ever.
TransactionsEnd == frames # <<>> ~> frames = <<>>

\* "if simulateValidation passes successfully, there should be no reason for
\* handleOps to fail on it" (EntryPoint.sol:65): an operation that passed
\* validation can be paid from its prefund when it has been executed.
PrefundCoversCost ==
    InPhase("settle") => ActualGasCost(Top) <= TopInfo.prefund

=============================================================================
