--------------------------- MODULE PayGasX_proofs ---------------------------
(***************************************************************************)
(* Theorems about the EntryPoint with the wallets and paymasters of        *)
(* PayGasX, for every set of wallets, batches, gas values and amounts.     *)
(***************************************************************************)
EXTENDS PayGasX, EntryPoint_proofs

-----------------------------------------------------------------------------
(* Price and prefund of an operation. *)

\* Products of naturals grow with their factors.
LEMMA ProductMonotone ==
    ASSUME NEW a \in Nat, NEW b \in Nat, NEW x \in Nat, NEW y \in Nat,
           a <= x, b <= y
    PROVE  a * b <= x * y
<1>1. PICK d \in Nat : x = a + d
  <2>1. x - a \in Nat /\ x = a + (x - a)
    OBVIOUS
  <2> QED
    BY <2>1
<1>2. PICK e \in Nat : y = b + e
  <2>1. y - b \in Nat /\ y = b + (y - b)
    OBVIOUS
  <2> QED
    BY <2>1
<1>3. x * y = a * b + a * e + d * b + d * e
  BY <1>1, <1>2
<1>4. a * e \in Nat /\ d * b \in Nat /\ d * e \in Nat /\ a * b \in Nat
  BY <1>1, <1>2
<1> HIDE <1>1, <1>2
<1> QED
  BY <1>3, <1>4

\* "the user should not pay above what he signed for" (UserOperation.sol:46):
\* whatever the base fee, the price of gas is at most maxFeePerGas, and in
\* every block it is worth the block's base fee when the operation allows it.
THEOREM PriceIsSigned ==
    ASSUME NEW Gas \in SUBSET Nat, NEW op \in UO!UserOperationOf(Gas),
           NEW basefee \in Nat
    PROVE  /\ UO!gasPrice(op, basefee) \in Nat
           /\ UO!gasPrice(op, basefee) <= op.maxFeePerGas
           /\ op.maxFeePerGas >= basefee => UO!gasPrice(op, basefee) >= basefee
<1>1. op.maxFeePerGas \in Nat /\ op.maxPriorityFeePerGas \in Nat
  BY DEF UO!UserOperationOf
<1> QED
  BY <1>1 DEF UO!gasPrice

\* The arithmetic of the prefund is `unchecked': with gas values of at most U
\* the prefund is at most 5 * U^2, which for U = 2^120 - 1 is below 2^256, so
\* it is the exact product; and it covers every gas limit of the operation,
\* with a paymaster also a second and a third use of the verification gas.
THEOREM PrefundIsExact ==
    ASSUME NEW U \in Nat, NEW op \in UO!UserOperationOf(0 .. U), NEW basefee \in Nat
    PROVE  /\ UO!requiredPreFund(op, basefee) \in Nat
           /\ UO!requiredPreFund(op, basefee) <= (5 * U) * U
           /\ UO!requiredGas(op) >=
                 op.callGas + op.verificationGas + op.preVerificationGas
<1>1. /\ op.callGas \in 0 .. U
      /\ op.verificationGas \in 0 .. U
      /\ op.preVerificationGas \in 0 .. U
      /\ op.maxFeePerGas \in 0 .. U
  BY DEF UO!UserOperationOf
<1>2. /\ UO!requiredGas(op) \in Nat
      /\ UO!requiredGas(op) <= 5 * U
      /\ UO!requiredGas(op) >=
            op.callGas + op.verificationGas + op.preVerificationGas
  <2>1. CASE UO!hasPaymaster(op)
    <3>1. UO!requiredGas(op) =
             op.callGas + op.verificationGas * 3 + op.preVerificationGas
      BY <2>1 DEF UO!requiredGas
    <3> QED
      BY <1>1, <3>1
  <2>2. CASE ~UO!hasPaymaster(op)
    <3>1. UO!requiredGas(op) =
             op.callGas + op.verificationGas * 1 + op.preVerificationGas
      BY <2>2 DEF UO!requiredGas
    <3> QED
      BY <1>1, <3>1
  <2> QED
    BY <2>1, <2>2
<1>3. UO!gasPrice(op, basefee) \in Nat /\ UO!gasPrice(op, basefee) <= U
  <2>1. 0 .. U \in SUBSET Nat
    OBVIOUS
  <2> QED
    BY <1>1, <2>1, PriceIsSigned
<1>4. UO!requiredPreFund(op, basefee) <= (5 * U) * U
  <2>1. 5 * U \in Nat
    OBVIOUS
  <2> QED
    BY <1>2, <1>3, <2>1, ProductMonotone DEF UO!requiredPreFund
<1>5. UO!requiredPreFund(op, basefee) \in Nat
  BY <1>2, <1>3 DEF UO!requiredPreFund
<1> QED
  BY <1>2, <1>4, <1>5

-----------------------------------------------------------------------------
(* The charge against the credit that was checked. *)

\* A quotient whose dividend is small is small.
LEMMA QuotientBound ==
    ASSUME NEW a \in Nat, NEW m \in Nat, NEW c \in Nat \ {0}, a <= m * c
    PROVE  a \div c \in Nat /\ a \div c <= m
<1> DEFINE q == a \div c
<1>1. q \in Nat /\ c * q <= a
  OBVIOUS
<1>2. ASSUME q > m
      PROVE  FALSE
  <2>1. PICK d \in Nat : q = m + 1 + d
    <3>1. q - (m + 1) \in Nat /\ q = m + 1 + (q - (m + 1))
      BY <1>1, <1>2
    <3> QED
      BY <3>1
  <2>2. c * q = m * c + c + c * d
    BY <2>1
  <2>3. c * d \in Nat /\ m * c \in Nat
    BY <2>1
  <2> HIDE DEF q
  <2> QED
    BY <1>1, <2>2, <2>3
<1> QED
  BY <1>1, <1>2

\* The charge of a postOp is at most the maximum the context carries, as long
\* as the cost with the postOp's share is at most the maximum cost.
THEOREM ChargeWithinMaximum ==
    ASSUME NEW maxTokenCost \in Nat, NEW maxCost \in Nat \ {0},
           NEW actualGasCost \in Nat, COST_OF_POST \in Nat,
           actualGasCost + COST_OF_POST <= maxCost
    PROVE  /\ DP!tokenCost(maxTokenCost, maxCost, actualGasCost) \in Nat
           /\ DP!tokenCost(maxTokenCost, maxCost, actualGasCost) <= maxTokenCost
<1> DEFINE x == actualGasCost + COST_OF_POST
<1>1. x \in Nat /\ x <= maxCost
  OBVIOUS
<1>2. x * maxTokenCost \in Nat /\ x * maxTokenCost <= maxCost * maxTokenCost
  BY <1>1, ProductMonotone
<1>3. maxCost * maxTokenCost = maxTokenCost * maxCost
  OBVIOUS
<1> HIDE DEF x
<1>4. /\ (x * maxTokenCost) \div maxCost \in Nat
      /\ (x * maxTokenCost) \div maxCost <= maxTokenCost
  BY <1>2, <1>3, QuotientBound
<1> QED
  BY <1>4 DEF DP!tokenCost, x

\* The prefund covers the cost of gas within the required gas, and the share of
\* the postOp, when that fits into the gas too: at any price but zero.
LEMMA CostWithinPrefund ==
    ASSUME NEW op \in UO!UserOperationOf(Nat), NEW basefee \in Nat, NEW cost \in Nat,
           NEW actualGas \in Nat, UO!gasPrice(op, basefee) # 0,
           actualGas + cost <= UO!requiredGas(op), UO!requiredGas(op) # 0
    PROVE  /\ UO!requiredPreFund(op, basefee) \in Nat \ {0}
           /\ actualGas * UO!gasPrice(op, basefee) \in Nat
           /\ actualGas * UO!gasPrice(op, basefee) + cost
                 <= UO!requiredPreFund(op, basefee)
<1> DEFINE price == UO!gasPrice(op, basefee)
           gas   == UO!requiredGas(op)
<1>1. price \in Nat \ {0}
  BY PriceIsSigned, Nat \in SUBSET Nat
<1>2. gas \in Nat \ {0} /\ actualGas + cost <= gas
  <2>1. /\ op.callGas \in Nat
        /\ op.verificationGas \in Nat
        /\ op.preVerificationGas \in Nat
    BY DEF UO!UserOperationOf
  <2> QED
    BY <2>1 DEF UO!requiredGas
<1> HIDE DEF price, gas
<1>3. actualGas * price + cost * price <= gas * price
  <2>1. (actualGas + cost) * price <= gas * price
    BY <1>1, <1>2, ProductMonotone
  <2>2. (actualGas + cost) * price = actualGas * price + cost * price
    BY <1>1
  <2> QED
    BY <2>1, <2>2
<1>4. cost * 1 <= cost * price
  BY <1>1, ProductMonotone
<1>5. /\ actualGas * price \in Nat
      /\ cost * price \in Nat
      /\ gas * price \in Nat
  BY <1>1, <1>2
<1>6. actualGas * price + cost <= gas * price
  BY <1>3, <1>4, <1>5
<1>7. gas * price # 0
  <2>1. 1 * 1 <= gas * price
    BY <1>1, <1>2, ProductMonotone
  <2> QED
    BY <2>1, <1>5
<1> QED
  BY <1>5, <1>6, <1>7 DEF UO!requiredPreFund, price, gas

\* The third share of verification gas in the prefund, with the check that the
\* verification gas is above COST_OF_POST, is enough: at any price but zero,
\* when validation, call and first postOp used all they may, the second postOp
\* still charges no more than the credit that was checked.
THEOREM CheckedCreditIsEnough ==
    ASSUME NEW op \in UO!UserOperationOf(Nat), NEW basefee \in Nat,
           COST_OF_POST \in Nat, UO!hasPaymaster(op),
           op.verificationGas > COST_OF_POST, UO!gasPrice(op, basefee) # 0,
           NEW actualGas \in Nat,
           actualGas <= op.callGas + 2 * op.verificationGas + op.preVerificationGas,
           NEW maxTokenCost \in Nat
    PROVE  DP!tokenCost(maxTokenCost, UO!requiredPreFund(op, basefee),
                     actualGas * UO!gasPrice(op, basefee)) <= maxTokenCost
<1>1. /\ op.callGas \in Nat
      /\ op.verificationGas \in Nat
      /\ op.preVerificationGas \in Nat
  BY DEF UO!UserOperationOf
<1>2. UO!requiredGas(op) = op.callGas + op.verificationGas * 3 + op.preVerificationGas
  BY DEF UO!requiredGas
<1>3. actualGas + COST_OF_POST <= UO!requiredGas(op) /\ UO!requiredGas(op) # 0
  BY <1>1, <1>2
<1> QED
  BY <1>3, CostWithinPrefund, ChargeWithinMaximum

-----------------------------------------------------------------------------
(***************************************************************************)
(* The invariant of types: the state of the wallets and paymasters, and    *)
(* the copies of it that a revert brings back.                             *)
(***************************************************************************)

BilledType  == [tokens : Nat, credit : Nat, ether : Nat, nativeCredit : Nat]
GrantedType == [mask : Nat, native : Nat]

AppType ==
    [nonce : [Wallet -> Nat], eth : [Holder -> Nat],
     nativeTokenPaymaster : [Wallet -> {NoPaymaster} \cup Trusted],
     credits : [Holder -> Nat], ratio : Ratios, tokens : [Holder -> Nat],
     allowance : [Holder -> Nat], nativeCredits : [Holder -> Nat],
     blockLists : SUBSET Blockable, isSetUp : SUBSET Account,
     handled : [Operation -> Nat], billed : BilledType, granted : GrantedType,
     refilled : Nat]

\* Each validated operation has a context; validateUserOp has run only for the
\* operation being validated.
PGTyped ==
    /\ App \in AppType
    /\ saved \in AppType
    /\ inner \in AppType
    /\ validated \in BOOLEAN
    /\ bill \in Nat
    /\ contexts \in Seq(Nat)
    /\ frames # <<>> => /\ Len(contexts) = Len(Top.opInfos)
                        /\ validated => Top.phase = "validateUserOp"

PGInv == EPInv /\ PGTyped

LEMMA AppIsTyped ==
    App \in AppType <=>
        /\ nonce \in [Wallet -> Nat]
        /\ eth \in [Holder -> Nat]
        /\ nativeTokenPaymaster \in [Wallet -> {NoPaymaster} \cup Trusted]
        /\ credits \in [Holder -> Nat]
        /\ ratio \in Ratios
        /\ tokens \in [Holder -> Nat]
        /\ allowance \in [Holder -> Nat]
        /\ nativeCredits \in [Holder -> Nat]
        /\ blockLists \in SUBSET Blockable
        /\ isSetUp \in SUBSET Account
        /\ handled \in [Operation -> Nat]
        /\ billed \in BilledType
        /\ granted \in GrantedType
        /\ refilled \in Nat
BY DEF App, AppType

LEMMA AppIsTypedNext ==
    App' \in AppType <=>
        /\ nonce' \in [Wallet -> Nat]
        /\ eth' \in [Holder -> Nat]
        /\ nativeTokenPaymaster' \in [Wallet -> {NoPaymaster} \cup Trusted]
        /\ credits' \in [Holder -> Nat]
        /\ ratio' \in Ratios
        /\ tokens' \in [Holder -> Nat]
        /\ allowance' \in [Holder -> Nat]
        /\ nativeCredits' \in [Holder -> Nat]
        /\ blockLists' \in SUBSET Blockable
        /\ isSetUp' \in SUBSET Account
        /\ handled' \in [Operation -> Nat]
        /\ billed' \in BilledType
        /\ granted' \in GrantedType
        /\ refilled' \in Nat
BY DEF App, AppType

\* A revert brings back the whole copy.
LEMMA RestoresApp ==
    ASSUME NEW app \in AppType, RestoreApp(app)
    PROVE  App' = app
BY DEF RestoreApp, App, AppType

LEMMA SameApp == ASSUME UNCHANGED appVars PROVE App' = App
BY DEF appVars, walletVars, paymasterVars, history, App

\* The operations in a batch.
LEMMA OperationIn ==
    ASSUME EPInv, frames # <<>>, NEW j \in 1 .. Len(Top.ops)
    PROVE  /\ Top.ops[j] \in Operation
           /\ Top.ops[j] \in UO!UserOperationOf(Nat)
           /\ Top.ops[j].sender \in Wallet
<1>1. Top \in Frame
  BY TopFrame
<1>2. Top.ops \in Batches /\ Top.ops \in Seq(UO!UserOperationOf(Nat))
  BY <1>1, EntryPointAssumption DEF Frame
<1>3. Top.ops[j] \in Operation
  BY <1>2 DEF Operation, ToSet
<1> QED
  BY <1>2, <1>3, PayGasXAssumption

LEMMA OperationIsTyped ==
    ASSUME NEW op \in Operation
    PROVE  op \in UO!UserOperationOf(Nat)
<1>1. PICK ops \in Batches : op \in ToSet(ops)
  BY DEF Operation
<1>2. ops \in Seq(UO!UserOperationOf(Nat))
  BY EntryPointAssumption
<1> QED
  BY <1>1, <1>2 DEF ToSet

-----------------------------------------------------------------------------
(* What the steps of handleOps do to the frame that runs, the only one. *)

SameBatch ==
    /\ frames # <<>> /\ frames' # <<>>
    /\ Top'.ops = Top.ops
    /\ Top'.basefee = Top.basefee
    /\ Top'.saved = Top.saved

\* Nothing changes but where the frame is.
SameOperation ==
    /\ SameBatch
    /\ Top'.i = Top.i
    /\ Top'.opInfos = Top.opInfos

LEMMA SetTopIsTop ==
    ASSUME EPInv, frames # <<>>, NEW f, SetTop(f)
    PROVE  frames' # <<>> /\ Top' = f
<1>1. Front(frames) \in Seq(Frame \cup {f})
  BY StackTop DEF EPInv, StackInv
<1>2. frames' = Append(Front(frames), f)
  BY DEF SetTop
<1> DEFINE s == Front(frames)
<1> HIDE DEF s
<1>3. Len(s) \in Nat /\ frames' = Append(s, f) /\ s \in Seq(Frame \cup {f})
  BY <1>1, <1>2 DEF s
<1>4. Len(frames') = Len(s) + 1 /\ frames'[Len(s) + 1] = f
  BY <1>3
<1>5. frames' # <<>>
  BY <1>3, <1>4
<1> QED
  BY <1>4, <1>5 DEF Top, Last

\* handleOps is not called from inside itself.
LEMMA OnlyFrame ==
    ASSUME EPInv
    PROVE  /\ Len(frames) \in 0 .. 1
           /\ frames # <<>> => Front(frames) = <<>>
<1>1. frames \in Seq(Frame) /\ Len(frames) \in Nat /\ Len(frames) <= 1
  BY PayGasXAssumption DEF EPInv, StackInv
<1>2. CASE frames = <<>>
  BY <1>2
<1>3. CASE frames # <<>>
  <2>1. Front(frames) \in Seq(Frame) /\ Len(Front(frames)) = 0
    BY <1>1, <1>3, StackTop
  <2> QED
    BY <1>1, <2>1
<1> QED
  BY <1>2, <1>3

LEMMA PopEmpties ==
    ASSUME EPInv, frames # <<>>, Pop
    PROVE  frames' = <<>>
BY OnlyFrame DEF Pop

LEMMA StartTop ==
    ASSUME EPInv, NEW ops, NEW fee, handleOps(ops, fee)
    PROVE  /\ frames = <<>> /\ frames' # <<>>
           /\ Top' = NewFrame(ops, fee)
<1>1. frames = <<>>
  <2>1. Len(frames) < 1 /\ Len(frames) \in Nat
    BY PayGasXAssumption, OnlyFrame DEF handleOps
  <2>2. frames \in Seq(Frame)
    BY DEF EPInv, StackInv
  <2> QED
    BY <2>1, <2>2
<1>2. frames' = <<NewFrame(ops, fee)>>
  BY <1>1 DEF handleOps, Counted
<1> QED
  BY <1>1, <1>2 DEF Top, Last

LEMMA CreateTop ==
    ASSUME EPInv, CallValidateUserOp
    PROVE  /\ SameOperation
           /\ Top.phase = "validate" /\ Top'.phase = "validateUserOp"
           /\ Len(Top.opInfos) = Top.i - 1
           /\ Top.i \in 1 .. Len(Top.ops)
<1>1. frames # <<>> /\ SetTop([Top EXCEPT !.phase = "validateUserOp"]) /\ Top.phase = "validate"
  BY DEF CallValidateUserOp, InPhase
<1>2. frames' # <<>> /\ Top' = [Top EXCEPT !.phase = "validateUserOp"]
  BY <1>1, SetTopIsTop
<1>3. Top \in Frame /\ GoodFrame(Top)
  BY <1>1, TopFrame
<1> QED
  BY <1>1, <1>2, <1>3 DEF SameOperation, SameBatch, Frame, GoodFrame

LEMMA CountedTop ==
    ASSUME EPInv, frames # <<>>, frames' = Counted
    PROVE  /\ SameOperation
           /\ Top'.phase = Top.phase
<1>1. SetTop([Top EXCEPT !.calls = @ + 1])
  BY DEF SetTop, Counted
<1>2. frames' # <<>> /\ Top' = [Top EXCEPT !.calls = @ + 1]
  BY <1>1, SetTopIsTop
<1>3. Top \in Frame
  BY TopFrame
<1> QED
  BY <1>1, <1>2, <1>3 DEF SameOperation, SameBatch, Frame

LEMMA ValidatedTop ==
    ASSUME EPInv, NEW used \in GasUsed, NEW over \in Overhead, NEW context \in BOOLEAN,
           ValidationEnds(used, over, context)
    PROVE  /\ SameBatch
           /\ Top.phase = "validateUserOp"
           /\ Top.i \in 1 .. Len(Top.ops)
           /\ Len(Top.opInfos) = Top.i - 1
           /\ Top'.opInfos = Append(Top.opInfos,
                 [prefund |-> UO!requiredPreFund(TopOp, Top.basefee),
                  context |-> context, cost |-> 0,
                  preOpGas |-> used + over + TopOp.preVerificationGas])
           /\ \/ /\ Top.i = Len(Top.ops)
                 /\ Top'.i = 1 /\ Top'.phase = "execute"
              \/ /\ Top.i # Len(Top.ops)
                 /\ Top'.i = Top.i + 1 /\ Top'.phase = "validate"
           /\ used <= TopOp.verificationGas
           /\ context => UO!hasPaymaster(TopOp)
<1> DEFINE info == [prefund |-> UO!requiredPreFund(TopOp, Top.basefee),
                    context |-> context, cost |-> 0,
                    preOpGas |-> used + over + TopOp.preVerificationGas]
           done == Top.i = Len(Top.ops)
           infos == Append(Top.opInfos, info)
           f == [Top EXCEPT !.opInfos = infos,
                            !.i = IF done THEN 1 ELSE @ + 1,
                            !.phase = IF done THEN "execute" ELSE "validate"]
<1>1. /\ frames # <<>> /\ Top.phase = "validateUserOp"
      /\ SetTop(f)
      /\ used <= TopOp.verificationGas
      /\ context => UO!hasPaymaster(TopOp)
  BY DEF ValidationEnds, InPhase
<1>2. frames' # <<>> /\ Top' = f
  <2> HIDE DEF f
  <2> QED
    BY <1>1, SetTopIsTop
<1>3. Top \in Frame /\ GoodFrame(Top)
  BY <1>1, TopFrame
<1> HIDE DEF infos
<1>4. /\ Top'.ops = Top.ops /\ Top'.basefee = Top.basefee /\ Top'.saved = Top.saved
      /\ Top'.opInfos = infos
      /\ Top'.i = IF done THEN 1 ELSE Top.i + 1
      /\ Top'.phase = IF done THEN "execute" ELSE "validate"
  BY <1>2, <1>3 DEF Frame
<1>5. Top.i \in 1 .. Len(Top.ops) /\ Len(Top.opInfos) = Top.i - 1
  BY <1>1, <1>3 DEF GoodFrame
<1> QED
  BY <1>1, <1>2, <1>4, <1>5 DEF SameBatch, infos

LEMMA InnerTop ==
    ASSUME EPInv, NEW over \in Overhead, innerHandleOp(over)
    PROVE  /\ SameOperation
           /\ Top.phase = "execute"
           /\ Top.i \in 1 .. Len(Top.ops)
           /\ Len(Top.opInfos) = Len(Top.ops)
           /\ Top'.phase = IF TopOp.callData THEN "call"
                           ELSE IF TopInfo.context THEN "postOp" ELSE "settle"
           /\ Top'.mode = "opSucceeded"
           /\ Top'.actualGas = TopInfo.preOpGas + over
           /\ Top'.inner = World
<1> DEFINE gas   == TopInfo.preOpGas + over
           begun == [Top EXCEPT !.inner = World, !.mode = "opSucceeded",
                                !.actualGas = gas]
           phase == IF TopOp.callData THEN "call" ELSE AfterCall(begun)
           f     == [begun EXCEPT !.phase = phase]
<1>1. frames # <<>> /\ Top.phase = "execute" /\ SetTop(f)
  BY DEF innerHandleOp, InPhase
<1>2. frames' # <<>> /\ Top' = f
  <2> HIDE DEF f
  <2> QED
    BY <1>1, SetTopIsTop
<1>3. Top \in Frame /\ GoodFrame(Top)
  BY <1>1, TopFrame
<1>4. begun.opInfos = Top.opInfos /\ begun.i = Top.i
  BY <1>3 DEF Frame
<1>5. phase = IF TopOp.callData THEN "call"
              ELSE IF TopInfo.context THEN "postOp" ELSE "settle"
  BY <1>4 DEF AfterCall, TopInfo
<1> HIDE DEF gas, phase
<1>6. /\ Top'.ops = Top.ops /\ Top'.basefee = Top.basefee /\ Top'.saved = Top.saved
      /\ Top'.opInfos = Top.opInfos /\ Top'.i = Top.i
      /\ Top'.phase = phase /\ Top'.mode = "opSucceeded"
      /\ Top'.actualGas = gas /\ Top'.inner = World
  BY <1>2, <1>3 DEF Frame
<1>7. Top.i \in 1 .. Len(Top.ops) /\ Len(Top.opInfos) = Len(Top.ops)
  BY <1>1, <1>3 DEF GoodFrame
<1> QED
  BY <1>1, <1>2, <1>5, <1>6, <1>7 DEF SameOperation, SameBatch, gas

\* The calls inside innerHandleOp.
LEMMA InsideTop ==
    ASSUME EPInv, frames # <<>>, Top.phase \in InnerPhase, NEW mode, NEW gas, NEW phase,
           SetTop([Top EXCEPT !.mode = mode, !.actualGas = gas, !.phase = phase])
    PROVE  /\ SameOperation
           /\ Top.i \in 1 .. Len(Top.ops)
           /\ Len(Top.opInfos) = Len(Top.ops)
           /\ Top'.phase = phase
           /\ Top'.mode = mode
           /\ Top'.actualGas = gas
           /\ Top'.inner = Top.inner
<1> DEFINE f == [Top EXCEPT !.mode = mode, !.actualGas = gas, !.phase = phase]
<1>1. frames' # <<>> /\ Top' = f
  <2>1. SetTop(f)
    OBVIOUS
  <2> HIDE DEF f
  <2> QED
    BY <2>1, SetTopIsTop
<1>2. Top \in Frame /\ GoodFrame(Top)
  BY TopFrame
<1> QED
  BY <1>1, <1>2 DEF SameOperation, SameBatch, Frame, GoodFrame, InnerPhase

LEMMA CallReturnsTop ==
    ASSUME EPInv, NEW success, NEW used, CallReturns(success, used)
    PROVE  /\ SameOperation
           /\ Top.phase = "call"
           /\ Top.i \in 1 .. Len(Top.ops)
           /\ Len(Top.opInfos) = Len(Top.ops)
           /\ Top'.phase = IF TopInfo.context THEN "postOp" ELSE "settle"
           /\ Top'.mode \in {"opSucceeded", "opReverted"}
           /\ Top'.actualGas = Top.actualGas + used
           /\ Top'.inner = Top.inner
           /\ used <= TopOp.callGas
<1> DEFINE mode == IF success THEN "opSucceeded" ELSE "opReverted"
<1>1. /\ frames # <<>> /\ Top.phase = "call" /\ used <= TopOp.callGas
      /\ SetTop([Top EXCEPT !.mode = mode, !.actualGas = Top.actualGas + used,
                            !.phase = AfterCall(Top)])
  BY DEF CallReturns, InPhase
<1>2. Top.phase \in InnerPhase /\ mode \in {"opSucceeded", "opReverted"}
  BY <1>1 DEF InnerPhase
<1> HIDE DEF mode
<1>3. /\ SameOperation
      /\ Top.i \in 1 .. Len(Top.ops)
      /\ Len(Top.opInfos) = Len(Top.ops)
      /\ Top'.phase = AfterCall(Top)
      /\ Top'.mode = mode
      /\ Top'.actualGas = Top.actualGas + used
      /\ Top'.inner = Top.inner
  BY <1>1, <1>2, InsideTop
<1> QED
  BY <1>1, <1>2, <1>3 DEF AfterCall, TopInfo

LEMMA PostOpTop ==
    ASSUME EPInv, NEW used, PostOpReturns(used)
    PROVE  /\ SameOperation
           /\ Top.phase = "postOp" /\ Top'.phase = "settle"
           /\ Top.i \in 1 .. Len(Top.ops)
           /\ Len(Top.opInfos) = Len(Top.ops)
           /\ Top'.mode = Top.mode
           /\ Top'.actualGas = Top.actualGas + used
           /\ Top'.inner = Top.inner
           /\ used <= TopOp.verificationGas
<1>1. /\ frames # <<>> /\ Top.phase = "postOp" /\ used <= TopOp.verificationGas
      /\ SetTop([Top EXCEPT !.actualGas = Top.actualGas + used, !.phase = "settle"])
  BY DEF PostOpReturns, InPhase
<1>2. Top \in Frame /\ Top.phase \in InnerPhase
  BY <1>1, TopFrame DEF InnerPhase
<1>3. [Top EXCEPT !.actualGas = Top.actualGas + used, !.phase = "settle"]
         = [Top EXCEPT !.mode = Top.mode, !.actualGas = Top.actualGas + used,
                       !.phase = "settle"]
  BY <1>2 DEF Frame
<1>4. SetTop([Top EXCEPT !.mode = Top.mode, !.actualGas = Top.actualGas + used,
                         !.phase = "settle"])
  BY <1>1, <1>3 DEF SetTop
<1> QED
  BY <1>1, <1>2, <1>4, InsideTop

LEMMA RevertsTop ==
    ASSUME EPInv, NEW used, NEW over, InnerReverts(used, over)
    PROVE  /\ SameOperation
           /\ Top.phase \in InnerPhase
           /\ Top.i \in 1 .. Len(Top.ops)
           /\ Len(Top.opInfos) = Len(Top.ops)
           /\ Top.mode # "postOpReverted"
           /\ Top'.phase = IF TopInfo.context THEN "postOp" ELSE "settle"
           /\ Top'.mode = "postOpReverted"
           /\ Top'.actualGas = Top.actualGas + used + over
           /\ Top'.inner = Top.inner
           /\ used <= GasLimit
<1>1. /\ frames # <<>> /\ Top.phase \in InnerPhase /\ Top.mode # "postOpReverted"
      /\ used <= GasLimit
      /\ SetTop([Top EXCEPT !.mode = "postOpReverted",
                            !.actualGas = Top.actualGas + used + over,
                            !.phase = AfterCall(Top)])
  BY DEF InnerReverts, InnerPhase
<1>2. /\ SameOperation
      /\ Top.i \in 1 .. Len(Top.ops)
      /\ Len(Top.opInfos) = Len(Top.ops)
      /\ Top'.phase = AfterCall(Top)
      /\ Top'.mode = "postOpReverted"
      /\ Top'.actualGas = Top.actualGas + used + over
      /\ Top'.inner = Top.inner
  BY <1>1, InsideTop
<1> QED
  BY <1>1, <1>2 DEF AfterCall, TopInfo

LEMMA SettleTop ==
    ASSUME EPInv, Settle
    PROVE  /\ SameBatch
           /\ Top.phase = "settle"
           /\ Top.i \in 1 .. Len(Top.ops)
           /\ Len(Top.opInfos) = Len(Top.ops)
           /\ Len(Top'.opInfos) = Len(Top.opInfos)
           /\ \A j \in 1 .. Len(Top.ops) :
                 /\ Top'.opInfos[j].prefund = Top.opInfos[j].prefund
                 /\ Top'.opInfos[j].context = Top.opInfos[j].context
                 /\ Top'.opInfos[j].preOpGas = Top.opInfos[j].preOpGas
           /\ \/ /\ Top.i = Len(Top.ops)
                 /\ Top'.i = Top.i /\ Top'.phase = "compensate"
              \/ /\ Top.i # Len(Top.ops)
                 /\ Top'.i = Top.i + 1 /\ Top'.phase = "execute"
<1> DEFINE cost  == ActualGasCost(Top)
           done  == Top.i = Len(Top.ops)
           info  == [Top.opInfos[Top.i] EXCEPT !.cost = cost]
           infos == [Top.opInfos EXCEPT ![Top.i] = info]
           f     == [Top EXCEPT !.collected = @ + cost, !.opInfos = infos,
                                !.i = IF done THEN @ ELSE @ + 1,
                                !.phase = IF done THEN "compensate" ELSE "execute"]
<1>1. /\ frames # <<>> /\ Top.phase = "settle"
      /\ SetTop(f)
  BY DEF Settle, InPhase
<1>2. frames' # <<>> /\ Top' = f
  <2> HIDE DEF f
  <2> QED
    BY <1>1, SetTopIsTop
<1>3. Top \in Frame /\ GoodFrame(Top)
  BY <1>1, TopFrame
<1>4. /\ Top.i \in 1 .. Len(Top.ops) /\ Len(Top.opInfos) = Len(Top.ops)
      /\ Top.opInfos \in Seq(UserOpInfo)
  BY <1>1, <1>3 DEF GoodFrame, Frame
<1> HIDE DEF cost
<1>5. /\ Len(infos) = Len(Top.opInfos)
      /\ \A j \in 1 .. Len(Top.ops) :
            /\ infos[j].prefund = Top.opInfos[j].prefund
            /\ infos[j].context = Top.opInfos[j].context
            /\ infos[j].preOpGas = Top.opInfos[j].preOpGas
  <2>1. Top.opInfos[Top.i] \in UserOpInfo
    BY <1>4
  <2>2. /\ info.prefund = Top.opInfos[Top.i].prefund
        /\ info.context = Top.opInfos[Top.i].context
        /\ info.preOpGas = Top.opInfos[Top.i].preOpGas
    BY <2>1 DEF UserOpInfo
  <2> HIDE DEF info
  <2>3. /\ Len(infos) = Len(Top.opInfos)
        /\ \A j \in 1 .. Len(Top.ops) :
              infos[j] = IF j = Top.i THEN info ELSE Top.opInfos[j]
    BY <1>4
  <2> HIDE DEF infos
  <2> QED
    BY <2>2, <2>3
<1> HIDE DEF infos
<1>6. /\ Top'.ops = Top.ops /\ Top'.basefee = Top.basefee /\ Top'.saved = Top.saved
      /\ Top'.opInfos = infos
      /\ Top'.i = IF done THEN Top.i ELSE Top.i + 1
      /\ Top'.phase = IF done THEN "compensate" ELSE "execute"
  BY <1>2, <1>3 DEF Frame
<1> QED
  BY <1>1, <1>2, <1>4, <1>5, <1>6 DEF SameBatch

-----------------------------------------------------------------------------
(* The steps of PayGasX keep the invariant of the EntryPoint. *)

\* The roles and their addresses.
LEMMA Roles ==
    /\ \A a \in Wallet : a \in Account /\ a \in Holder
    /\ Account \subseteq Holder
    /\ {presetFactory, shop, treasury, depositPaymaster, nativePaymaster,
        verifyingPaymaster} \subseteq Holder
    /\ {depositPaymaster, nativePaymaster, verifyingPaymaster} \subseteq Account \ Wallet
    /\ {presetFactory, shop, treasury} \cap Account = {}
    /\ presetFactory # shop /\ presetFactory # treasury /\ shop # treasury
    /\ depositPaymaster # nativePaymaster
    /\ depositPaymaster # verifyingPaymaster
    /\ nativePaymaster # verifyingPaymaster
BY PayGasXAssumption DEF Holder

LEMMA InitPGEP == PGInit => EPInv
<1> SUFFICES ASSUME PGInit
             PROVE  EPInv
  OBVIOUS
<1> USE StakeManagerAssumption, EntryPointAssumption, PayGasXAssumption
<1>1. /\ deposits \in [Account -> DepositInfo]
      /\ \A a \in Account : deposits[a].staked => /\ deposits[a].stake >= paymasterStake
                                                  /\ deposits[a].withdrawTime = 0
  BY DEF PGInit, DepositInfo, NoDepositInfo
<1>2. balance \in Nat
  <2>1. Deployed \subseteq Account /\ IsFiniteSet(Deployed)
    BY FS_Subset
  <2>2. Cardinality(Deployed) \in Nat
    BY <2>1, FS_CardinalityType
  <2>3. PaymasterDeposit + paymasterStake \in Nat
    OBVIOUS
  <2>4. balance = Cardinality(Deployed) * (PaymasterDeposit + paymasterStake)
    BY DEF PGInit
  <2>5. \A m, n \in Nat : m * n \in Nat
    BY ONLY Z3
  <2> QED
    BY <2>2, <2>3, <2>4, <2>5, Zenon
<1>3. frames = <<>> /\ Len(frames) = 0
  BY DEF PGInit
<1>4. TypeOK
  BY <1>1, <1>2 DEF PGInit, TypeOK
<1>5. StackInv(frames, deposits, timestamp)
  BY <1>1, <1>3 DEF StackInv, GoodStakes
<1>6. code \subseteq Account
  BY DEF PGInit
<1> QED
  BY <1>3, <1>4, <1>5, <1>6 DEF EPInv

\* A multiple of a sum, on its own for the provers.
LEMMA TwoMultiples ==
    ASSUME NEW k \in Nat, NEW c \in Nat, NEW d \in Nat
    PROVE  k * (c + d) = k * c + k * d
OBVIOUS

\* At first the EntryPoint holds what is on record for the paymasters.
LEMMA InitPGBooks == PGInit => BooksInv
<1> SUFFICES ASSUME PGInit PROVE BooksInv
  OBVIOUS
<1> DEFINE n == Cardinality(Deployed)
<1>1. /\ IsFiniteSet(Deployed)
      /\ Account \cap Deployed = Deployed
      /\ n \in Nat
  BY PayGasXAssumption, StakeManagerAssumption, FS_Subset, FS_CardinalityType
<1>2. IsFiniteSet(Account)
  BY StakeManagerAssumption
<1>3. PaymasterDeposit \in Nat /\ paymasterStake \in Nat
  BY PayGasXAssumption
<1>4. /\ AreCopies(DepositOf(deposits), Account, Deployed, PaymasterDeposit)
      /\ AreCopies(StakeOf(deposits), Account, Deployed, paymasterStake)
  BY DEF PGInit, DepositOf, StakeOf, NoDepositInfo, AreCopies
<1>5. /\ SumOf(DepositOf(deposits), Account)
             = Copies(Cardinality(Account \cap Deployed), PaymasterDeposit)
      /\ SumOf(StakeOf(deposits), Account)
             = Copies(Cardinality(Account \cap Deployed), paymasterStake)
  BY <1>2, <1>3, <1>4, SumOfCopies
<1>6. Recorded(deposits) = Copies(n, PaymasterDeposit) + Copies(n, paymasterStake)
  BY <1>1, <1>5, DepositedIsSum, StakedIsSum, Zenon DEF Recorded
<1>7. n * (PaymasterDeposit + paymasterStake)
         = Copies(n, PaymasterDeposit) + Copies(n, paymasterStake)
  <2> HIDE DEF n
  <2> QED
    BY <1>1, <1>3, TwoMultiples DEF Copies
<1>8. balance = Recorded(deposits) /\ withdrawn = 0 /\ frames = <<>> /\ Len(frames) = 0
  <2>1. balance = n * (PaymasterDeposit + paymasterStake) /\ withdrawn = 0 /\ frames = <<>>
    BY DEF PGInit
  <2> QED
    BY <1>6, <1>7, <2>1
<1>9. balance \in Int
  BY InitPGEP DEF EPInv, TypeOK
<1>10. UnrecordedIn(World) = 0
  BY <1>8, <1>9 DEF World, UnrecordedIn
<1> QED
  BY <1>8, <1>10 DEF BooksInv, Books, Funds, SquareTop

\* What is missing is within what a deposit needs.
LEMMA MissingIsNat ==
    ASSUME EPInv, frames # <<>>
    PROVE  missingWalletFunds(TopOp, Top.basefee) \in Nat
<1>1. /\ UO!requiredPreFund(TopOp, Top.basefee) \in Nat
      /\ TopOp \in UO!UserOperationOf(Nat)
  BY TopFrame
<1>2. deposits[TopOp.sender].deposit \in Nat
  <2>1. TopOp.sender \in Account
    BY <1>1 DEF UO!UserOperationOf
  <2> QED
    BY <2>1, StakeManagerAssumption DEF EPInv, StackInv, GoodStakes, DepositInfo
<1> QED
  BY <1>1, <1>2 DEF missingWalletFunds

\* A deposit made by a call, of any amount that fits.
SendsDeposit ==
    \E a \in Account, v \in Nat :
        CanCall /\ depositTo(a, v) /\ frames' = Counted /\ UNCHANGED code

LEMMA DepositIsGood ==
    ASSUME EPInv, CanCall, NEW a \in Account, NEW v \in Nat, depositTo(a, v),
           frames' = Counted, UNCHANGED code
    PROVE  GoodStep
<1> USE StakeManagerAssumption
<1>1. GoodStakes(deposits) /\ deposits[a].deposit \in 0 .. MaxUint112
  BY DEF EPInv, StackInv, GoodStakes, DepositInfo
<1>2. /\ deposits[a].deposit + v \in 0 .. MaxUint112
      /\ deposits' = [deposits EXCEPT ![a].deposit = deposits[a].deposit + v]
      /\ balance' = balance + v /\ withdrawn' = withdrawn /\ timestamp' = timestamp
  BY <1>1 DEF depositTo, internalIncrementDeposit, GoodStakes
<1>3. GoodStakes(deposits') /\ Kept(deposits, deposits', timestamp)
  BY <1>1, <1>2, DepositsKeepStakes
<1>4. TypeOK'
  BY <1>2, <1>3 DEF TypeOK, GoodStakes, EPInv
<1>5. code' \subseteq Account
  BY DEF EPInv
<1> QED
  BY <1>2, <1>3, <1>4, <1>5, CalledStep

\* What the EntryPoint does in a step: its own steps, where unknown code sends
\* one of the amounts it enumerates, and deposits of the amounts that the
\* contracts of PayGasX work out.
EntryPointSteps == [EPNext]_vars \/ SendsDeposit

\* Both kinds keep what was proved of the EntryPoint.
LEMMA EntryPointStepsKeep ==
    ASSUME EPInv, EntryPointSteps
    PROVE  GoodStep /\ (BooksInv => BooksInv')
<1>1. CASE [EPNext]_vars
  BY <1>1, EveryStepIsGood, EveryStepKeepsBooks DEF GoodStep
<1>2. CASE SendsDeposit
  <2>1. PICK a \in Account, v \in Nat :
            CanCall /\ depositTo(a, v) /\ frames' = Counted /\ UNCHANGED code
    BY <1>2 DEF SendsDeposit
  <2>2. GoodStep
    BY <2>1, DepositIsGood
  <2>3. EPInv'
    BY <2>2 DEF GoodStep
  <2> QED
    BY <2>1, <2>2, <2>3, DepositBooks
<1> QED
  BY <1>1, <1>2 DEF EntryPointSteps

LEMMA WalletValidatesKeepsEP ==
    ASSUME EPInv, WalletValidates
    PROVE  EntryPointSteps
<1> DEFINE missing == missingWalletFunds(TopOp, Top.basefee)
<1>1. frames # <<>> /\ code' = code
  BY DEF WalletValidates, InPhase
<1>2. \/ CanCall /\ depositTo(TopOp.sender, missing) /\ frames' = Counted
      \/ UNCHANGED <<stakeVars, frames>>
  BY DEF WalletValidates
<1>3. missing \in Nat /\ TopOp.sender \in Account
  BY <1>1, MissingIsNat, TopFrame DEF UO!UserOperationOf
<1> HIDE DEF missing
<1>4. CASE CanCall /\ depositTo(TopOp.sender, missing) /\ frames' = Counted
  BY <1>1, <1>3, <1>4 DEF EntryPointSteps, SendsDeposit
<1>5. CASE UNCHANGED <<stakeVars, frames>>
  <2>1. UNCHANGED vars
    BY <1>1, <1>5 DEF vars
  <2> QED
    BY <2>1 DEF EntryPointSteps
<1> QED
  BY <1>2, <1>4, <1>5

\* Outside of handleOps calls are not counted.
LEMMA IdleCanCall ==
    ASSUME Idle
    PROVE  CanCall /\ frames' = Counted /\ frames = <<>> /\ frames' = <<>> /\ code' = code
BY DEF Idle, CanCall, Counted

LEMMA DepositToEPKeepsEP ==
    ASSUME PGInv, NEW v \in Amount, depositToEP(v)
    PROVE  EntryPointSteps
<1>1. NP!AtMostBalance(v) \in Nat
  BY Roles, AppIsTyped, StakeManagerAssumption DEF NP!AtMostBalance, PGInv, PGTyped
<1>2. nativePaymaster \in Account
  BY Roles
<1> QED
  BY <1>1, <1>2, IdleCanCall DEF depositToEP, EntryPointSteps, SendsDeposit

\* The other steps are steps of the EntryPoint, or leave it alone.
LEMMA StepsOfEntryPoint ==
    ASSUME PGInv, [PGNext]_pgVars
    PROVE  EntryPointSteps
<1>1. EPInv
  BY DEF PGInv
<1>2. ASSUME [EPNext]_vars
      PROVE  EntryPointSteps
  BY <1>2 DEF EntryPointSteps
<1>3. ASSUME Idle, UNCHANGED stakeVars
      PROVE  EntryPointSteps
  BY <1>2, <1>3 DEF Idle, vars
<1>4. ASSUME NEW ops \in Batches, NEW fee \in BaseFees, PGHandleOps(ops, fee)
      PROVE  EntryPointSteps
  BY <1>2, <1>4 DEF PGHandleOps, EPNext
<1>5. ASSUME PGHandleOpsStep
      PROVE  EntryPointSteps
  <2>1. CASE PGCallValidateUserOp
    BY <1>2, <2>1 DEF PGCallValidateUserOp, EPNext, HandleOpsStep
  <2>2. CASE WalletValidates
    BY <1>1, <2>2, WalletValidatesKeepsEP
  <2>3. ASSUME NEW used \in GasUsed, NEW over \in Overhead, PGValidationEnds(used, over)
        PROVE  EntryPointSteps
    <3> DEFINE c == UO!hasPaymaster(TopOp) /\ ~ByVerifying(TopOp)
    <3>1. ValidationEnds(used, over, c) /\ c \in BOOLEAN
      BY <2>3 DEF PGValidationEnds, UO!hasPaymaster, ByVerifying
    <3> HIDE DEF c
    <3> QED
      BY <1>2, <3>1 DEF EPNext, HandleOpsStep
  <2>4. ASSUME NEW over \in Overhead, PGInnerHandleOp(over)
        PROVE  EntryPointSteps
    BY <1>2, <2>4 DEF PGInnerHandleOp, EPNext, HandleOpsStep
  <2>5. ASSUME NEW success \in BOOLEAN, NEW used \in GasUsed, PGCallReturns(success, used)
        PROVE  EntryPointSteps
    BY <1>2, <2>5 DEF PGCallReturns, EPNext, HandleOpsStep
  <2>6. ASSUME NEW used \in GasUsed, postOp(used)
        PROVE  EntryPointSteps
    BY <1>2, <2>6 DEF postOp, EPNext, HandleOpsStep
  <2>7. ASSUME NEW used \in GasUsed, NEW over \in Overhead, PGInnerReverts(used, over)
        PROVE  EntryPointSteps
    BY <1>2, <2>7 DEF PGInnerReverts, EPNext, HandleOpsStep
  <2>8. CASE PGSettle
    BY <1>2, <2>8 DEF PGSettle, EPNext, HandleOpsStep
  <2>9. CASE PGCompensate
    BY <1>2, <2>9 DEF PGCompensate, EPNext, HandleOpsStep
  <2>10. CASE PGHandleOpsReverts
    BY <1>2, <2>10 DEF PGHandleOpsReverts, EPNext, HandleOpsStep
  <2> QED
    BY <1>5, <2>1, <2>2, <2>3, <2>4, <2>5, <2>6, <2>7, <2>8, <2>9, <2>10
    DEF PGHandleOpsStep
<1>6. ASSUME NEW a \in Wallet, setUpForAccount(a) \/ exec(a) \/ PGDeploy(a)
      PROVE  EntryPointSteps
  <2>1. CASE setUpForAccount(a)
    BY <1>3, <2>1 DEF setUpForAccount
  <2>2. CASE exec(a)
    BY <1>3, <2>2 DEF exec
  <2>3. CASE PGDeploy(a)
    BY <1>2, <2>3, Roles DEF PGDeploy, EPNext
  <2> QED
    BY <1>6, <2>1, <2>2, <2>3
<1>7. ASSUME NEW a \in Wallet, NEW v \in Amount,
             \/ addDeposit(a, v) \/ withdrawDepositTo(a, v)
             \/ addDepositFor(a, v) \/ addNativeDepositFor(a, v)
      PROVE  EntryPointSteps
  <2>1. a \in Account
    BY Roles
  <2>2. ASSUME Idle, StakeCall(a)
        PROVE  EntryPointSteps
    <3>1. CallStakeManager(a)
      BY <2>2, IdleCanCall DEF CallStakeManager
    <3> QED
      BY <1>2, <2>1, <3>1 DEF EPNext
  <2>3. CASE addDeposit(a, v)
    BY <2>1, <2>2, <2>3 DEF addDeposit, StakeCall
  <2>4. CASE withdrawDepositTo(a, v)
    BY <2>1, <2>2, <2>4 DEF withdrawDepositTo, StakeCall
  <2>5. CASE addDepositFor(a, v)
    BY <1>3, <2>5 DEF addDepositFor
  <2>6. CASE addNativeDepositFor(a, v)
    BY <1>3, <2>6 DEF addNativeDepositFor
  <2> QED
    BY <1>7, <2>3, <2>4, <2>5, <2>6
<1>8. ASSUME NEW v \in Amount, depositToEP(v) \/ withdrawBalance(v)
      PROVE  EntryPointSteps
  <2>1. CASE depositToEP(v)
    BY <2>1, DepositToEPKeepsEP
  <2>2. CASE withdrawBalance(v)
    BY <1>3, <2>2 DEF withdrawBalance
  <2> QED
    BY <1>8, <2>1, <2>2
<1>9. ASSUME NEW r \in Ratios, setMaskToMaticRatio(r)
      PROVE  EntryPointSteps
  BY <1>3, <1>9 DEF setMaskToMaticRatio
<1>10. ASSUME NEW a \in Blockable, addBlockList(a)
       PROVE  EntryPointSteps
  BY <1>3, <1>10 DEF addBlockList
<1>11. ASSUME NEW v \in Spendings, withdraw(v)
       PROVE  EntryPointSteps
  BY <1>3, <1>11 DEF withdraw
<1>12. CASE UNCHANGED pgVars
  BY <1>2, <1>12 DEF pgVars
<1> QED
  BY <1>4, <1>5, <1>6, <1>7, <1>8, <1>9, <1>10, <1>11, <1>12 DEF PGNext

LEMMA PGStepKeepsEP ==
    ASSUME PGInv, [PGNext]_pgVars
    PROVE  EPInv'
BY StepsOfEntryPoint, EntryPointStepsKeep DEF PGInv, GoodStep

-----------------------------------------------------------------------------
(* The steps keep the types. *)

\* Transactions that are not handleOps leave the frames and the copies alone.
LEMMA IdleTyped ==
    ASSUME PGTyped, Idle, App' \in AppType
    PROVE  PGTyped'
BY DEF PGTyped, Idle, txVars

LEMMA TransfersTyped ==
    ASSUME NEW t \in [Holder -> Nat], NEW a \in Holder, NEW b \in Holder,
           NEW v \in Nat, v <= t[a]
    PROVE  [t EXCEPT ![a] = @ - v, ![b] = @ + v] \in [Holder -> Nat]
<1> DEFINE u == [t EXCEPT ![a] = @ - v]
<1>1. t[a] - v \in Nat
  OBVIOUS
<1>2. u \in [Holder -> Nat]
  BY <1>1
<1> HIDE DEF u
<1>3. [u EXCEPT ![b] = @ + v] \in [Holder -> Nat]
  BY <1>2
<1> QED
  BY <1>3 DEF u

LEMMA SpendsTyped ==
    ASSUME NEW t \in [Holder -> Nat], NEW a \in Holder, NEW v \in Nat, v <= t[a]
    PROVE  [t EXCEPT ![a] = @ - v] \in [Holder -> Nat]
<1>1. t[a] - v \in Nat
  OBVIOUS
<1> QED
  BY <1>1

\* What a wallet does keeps the types of what it changes.
LEMMA WalletActsTyped ==
    ASSUME App \in AppType, NEW a \in Wallet, WalletActs(a)
    PROVE  /\ nonce' = nonce
           /\ eth' \in [Holder -> Nat]
           /\ nativeTokenPaymaster' \in [Wallet -> {NoPaymaster} \cup Trusted]
           /\ credits' = credits
           /\ ratio' = ratio
           /\ tokens' \in [Holder -> Nat]
           /\ allowance' \in [Holder -> Nat]
<1> USE PayGasXAssumption, AppIsTyped, Roles
<1>1. ASSUME NEW v \in Spendings, DP!transferTokens(a, shop, v), UNCHANGED walletVars
      PROVE  /\ nonce' = nonce /\ eth' = eth
             /\ nativeTokenPaymaster' = nativeTokenPaymaster
             /\ credits' = credits /\ ratio' = ratio /\ allowance' = allowance
             /\ tokens' \in [Holder -> Nat]
  BY <1>1, TransfersTyped DEF DP!transferTokens, walletVars
<1>2. ASSUME NEW v \in Approvals, DP!approve(a, v), UNCHANGED walletVars
      PROVE  /\ nonce' = nonce /\ eth' = eth
             /\ nativeTokenPaymaster' = nativeTokenPaymaster
             /\ credits' = credits /\ ratio' = ratio /\ tokens' = tokens
             /\ allowance' \in [Holder -> Nat]
  BY <1>2 DEF DP!approve, walletVars
<1>3. ASSUME NEW v \in EtherSpendings, SW!transfer(a, shop, v), UNCHANGED paymasterVars
      PROVE  /\ nonce' = nonce
             /\ nativeTokenPaymaster' = nativeTokenPaymaster
             /\ credits' = credits /\ ratio' = ratio /\ tokens' = tokens
             /\ allowance' = allowance
             /\ eth' \in [Holder -> Nat]
  BY <1>3, TransfersTyped DEF SW!transfer, paymasterVars
<1>4. ASSUME NEW b \in Trusted, SW!changePaymaster(a, b), UNCHANGED paymasterVars
      PROVE  /\ nonce' = nonce /\ eth' = eth
             /\ credits' = credits /\ ratio' = ratio /\ tokens' = tokens
             /\ allowance' = allowance
             /\ nativeTokenPaymaster' \in [Wallet -> {NoPaymaster} \cup Trusted]
  BY <1>4 DEF SW!changePaymaster, paymasterVars
<1> QED
  BY <1>1, <1>2, <1>3, <1>4 DEF WalletActs

LEMMA ConstructorTyped ==
    ASSUME App \in AppType, NEW a \in Wallet, constructor(a)
    PROVE  /\ nonce' = nonce /\ eth' = eth
           /\ nativeTokenPaymaster' \in [Wallet -> {NoPaymaster} \cup Trusted]
           /\ credits' = credits /\ ratio' = ratio /\ tokens' = tokens
           /\ allowance' \in [Holder -> Nat]
BY PayGasXAssumption, AppIsTyped, Roles DEF constructor, DP!approve, SW!changePaymaster

LEMMA IdleStepsTyped ==
    ASSUME PGInv,
           \/ \E a \in Wallet : setUpForAccount(a) \/ exec(a)
           \/ \E a \in Wallet, v \in Amount : \/ addDeposit(a, v)
                                              \/ withdrawDepositTo(a, v)
                                              \/ addDepositFor(a, v)
                                              \/ addNativeDepositFor(a, v)
           \/ \E v \in Amount : depositToEP(v) \/ withdrawBalance(v)
           \/ \E r \in Ratios : setMaskToMaticRatio(r)
           \/ \E a \in Blockable : addBlockList(a)
           \/ \E v \in Spendings : withdraw(v)
    PROVE  PGTyped' /\ Idle
<1> USE PayGasXAssumption, StakeManagerAssumption, Roles, AppIsTyped, AppIsTypedNext
<1>1. PGTyped /\ App \in AppType
  BY DEF PGInv, PGTyped
<1>2. ASSUME Idle, App' \in AppType
      PROVE  PGTyped' /\ Idle
  BY <1>1, <1>2, IdleTyped
<1>3. ASSUME NEW a \in Wallet, setUpForAccount(a)
      PROVE  PGTyped' /\ Idle
  <2>1. tokens' \in [Holder -> Nat]
    BY <1>1, <1>3, TransfersTyped DEF setUpForAccount
  <2>2. credits' \in [Holder -> Nat] /\ nativeCredits' \in [Holder -> Nat]
    BY <1>1, <1>3 DEF setUpForAccount
  <2>3. granted' \in GrantedType
    BY <1>1, <1>3 DEF setUpForAccount, GrantedType
  <2>4. App' \in AppType
    BY <1>1, <1>3, <2>1, <2>2, <2>3 DEF setUpForAccount, walletVars
  <2>5. Idle
    BY <1>3 DEF setUpForAccount
  <2> QED
    BY <1>2, <2>4, <2>5
<1>4. ASSUME NEW a \in Wallet, exec(a)
      PROVE  PGTyped' /\ Idle
  BY <1>1, <1>2, <1>4, WalletActsTyped DEF exec, history
<1>5. ASSUME NEW a \in Wallet, NEW v \in Amount,
             addDeposit(a, v) \/ withdrawDepositTo(a, v)
      PROVE  PGTyped' /\ Idle
  BY <1>1, <1>2, <1>5, SameApp DEF addDeposit, withdrawDepositTo
<1>6. ASSUME NEW a \in Wallet, NEW v \in Amount, addDepositFor(a, v)
      PROVE  PGTyped' /\ Idle
  <2>1. credits' \in [Holder -> Nat]
    BY <1>1, <1>6 DEF addDepositFor, DP!addDepositFor
  <2>2. granted' \in GrantedType
    BY <1>1, <1>6 DEF addDepositFor, GrantedType
  <2> QED
    BY <1>1, <1>2, <1>6, <2>1, <2>2 DEF addDepositFor, DP!addDepositFor, walletVars
<1>7. ASSUME NEW a \in Wallet, NEW v \in Amount, addNativeDepositFor(a, v)
      PROVE  PGTyped' /\ Idle
  <2>1. nativeCredits' \in [Holder -> Nat]
    BY <1>1, <1>7 DEF addNativeDepositFor, NP!addDepositFor
  <2>2. granted' \in GrantedType
    BY <1>1, <1>7 DEF addNativeDepositFor, GrantedType
  <2> QED
    BY <1>1, <1>2, <1>7, <2>1, <2>2
    DEF addNativeDepositFor, NP!addDepositFor, paymasterVars
<1>8. ASSUME NEW v \in Amount
      PROVE  /\ NP!AtMostBalance(v) \in Nat
             /\ NP!AtMostBalance(v) <= eth[nativePaymaster]
  BY <1>1 DEF NP!AtMostBalance
<1>9. ASSUME NEW v \in Amount, depositToEP(v)
      PROVE  PGTyped' /\ Idle
  <2>1. eth' \in [Holder -> Nat] /\ refilled' \in Nat
    BY <1>1, <1>8, <1>9, SpendsTyped DEF depositToEP, NP!depositToEP
  <2> QED
    BY <1>1, <1>2, <1>9, <2>1 DEF depositToEP, NP!depositToEP, paymasterVars
<1>10. ASSUME NEW v \in Amount, withdrawBalance(v)
       PROVE  PGTyped' /\ Idle
  <2>1. eth' \in [Holder -> Nat]
    BY <1>1, <1>8, <1>10, TransfersTyped DEF withdrawBalance, NP!withdrawBalance
  <2> QED
    BY <1>1, <1>2, <1>10, <2>1
    DEF withdrawBalance, NP!withdrawBalance, paymasterVars, history
<1>11. ASSUME NEW r \in Ratios, setMaskToMaticRatio(r)
       PROVE  PGTyped' /\ Idle
  BY <1>1, <1>2, <1>11
  DEF setMaskToMaticRatio, DP!setMaskToMaticRatio, walletVars, history
<1>12. ASSUME NEW a \in Blockable, addBlockList(a)
       PROVE  PGTyped' /\ Idle
  BY <1>1, <1>2, <1>12
  DEF addBlockList, VP!addBlockList, walletVars, paymasterVars, history
<1>13. ASSUME NEW v \in Spendings, withdraw(v)
       PROVE  PGTyped' /\ Idle
  <2> DEFINE m == IF v >= tokens[depositPaymaster] THEN tokens[depositPaymaster] ELSE v
  <2>1. m \in Nat /\ m <= tokens[depositPaymaster]
    BY <1>1
  <2>2. tokens' = [tokens EXCEPT ![depositPaymaster] = @ - m, ![treasury] = @ + m]
    BY <1>13 DEF withdraw, DP!withdraw
  <2> HIDE DEF m
  <2>3. tokens' \in [Holder -> Nat]
    BY <1>1, <2>1, <2>2, TransfersTyped
  <2> QED
    BY <1>1, <1>2, <1>13, <2>3 DEF withdraw, DP!withdraw, walletVars, history
<1> QED
  BY <1>3, <1>4, <1>5, <1>6, <1>7, <1>9, <1>10, <1>11, <1>12, <1>13

\* A step inside handleOps that leaves the contexts and the copies alone.
LEMMA FrameTyped ==
    ASSUME PGTyped, App' \in AppType, SameOperation,
           contexts' = contexts, saved' = saved, inner' = inner,
           bill' \in Nat, validated' \in BOOLEAN,
           validated' => Top'.phase = "validateUserOp"
    PROVE  PGTyped'
BY DEF PGTyped, SameOperation, SameBatch

LEMMA DeployTyped ==
    ASSUME PGInv, NEW a \in Wallet, PGDeploy(a)
    PROVE  PGTyped' /\ frames = <<>> /\ frames' = <<>>
<1>1. PGTyped /\ frames = <<>> /\ frames' = <<>> /\ UNCHANGED txVars
  BY DEF PGInv, PGDeploy, deploy, Counted
<1>2. App' \in AppType
  BY <1>1, ConstructorTyped, AppIsTyped, AppIsTypedNext DEF PGTyped, PGDeploy, history
<1> QED
  BY <1>1, <1>2 DEF PGTyped, txVars

LEMMA StartTyped ==
    ASSUME PGInv, NEW ops, NEW fee, PGHandleOps(ops, fee)
    PROVE  PGTyped'
<1>1. frames' # <<>> /\ Top' = NewFrame(ops, fee)
  BY StartTop DEF PGHandleOps, PGInv
<1>2. Len(Top'.opInfos) = 0
  BY <1>1 DEF NewFrame
<1>3. App' = App
  BY SameApp DEF PGHandleOps
<1>4. /\ PGTyped /\ contexts' = <<>> /\ validated' = FALSE /\ saved' = App
      /\ bill' = bill /\ inner' = inner
  BY DEF PGInv, PGHandleOps
<1>5. contexts' \in Seq(Nat) /\ Len(contexts') = 0
  BY <1>4
<1>6. App' \in AppType /\ saved' \in AppType /\ inner' \in AppType /\ bill' \in Nat
  BY <1>3, <1>4 DEF PGTyped
<1> QED
  BY <1>1, <1>2, <1>4, <1>5, <1>6 DEF PGTyped

LEMMA CreateTyped ==
    ASSUME PGInv, PGCallValidateUserOp
    PROVE  PGTyped'
<1>1. EPInv /\ PGTyped /\ App \in AppType
  BY DEF PGInv, PGTyped
<1>2. SameOperation /\ Top'.phase = "validateUserOp"
  BY <1>1, CreateTop DEF PGCallValidateUserOp
<1>3. TopOp.sender \in Wallet
  BY <1>1, CreateTop, OperationIn DEF PGCallValidateUserOp, TopOp, SameOperation, SameBatch
<1>4. App' \in AppType
  <2>1. CASE constructor(TopOp.sender)
    BY <1>1, <1>3, <2>1, ConstructorTyped, AppIsTyped, AppIsTypedNext
    DEF PGCallValidateUserOp, history
  <2>2. CASE UNCHANGED <<walletVars, paymasterVars>>
    BY <1>1, <2>2, SameApp DEF PGCallValidateUserOp, appVars
  <2> QED
    BY <2>1, <2>2 DEF PGCallValidateUserOp
<1> QED
  BY <1>1, <1>2, <1>4, FrameTyped DEF PGCallValidateUserOp, txVars, PGTyped

\* What validateUserOp changes, apart from the records of the EntryPoint.
LEMMA WalletValidatesMoves ==
    ASSUME PGInv, WalletValidates
    PROVE  /\ SameOperation
           /\ Top.phase = "validateUserOp" /\ Top'.phase = "validateUserOp"
           /\ Top.i \in 1 .. Len(Top.ops)
           /\ Len(Top.opInfos) = Top.i - 1
           /\ TopOp.sender \in Wallet
           /\ TopOp \in Operation
           /\ ~validated /\ validated'
           /\ IF TopOp.initCode THEN nonce' = nonce
              ELSE /\ TopOp.nonce = nonce[TopOp.sender]
                   /\ nonce' = [nonce EXCEPT ![TopOp.sender] = @ + 1]
           /\ \/ eth' = eth
              \/ \E v \in Nat : /\ v <= eth[TopOp.sender]
                                /\ eth' = [eth EXCEPT ![TopOp.sender] = @ - v]
<1>1. /\ EPInv /\ frames # <<>> /\ Top.phase = "validateUserOp"
      /\ ~validated /\ validated'
  BY DEF PGInv, WalletValidates, InPhase
<1>2. Top.i \in 1 .. Len(Top.ops) /\ Len(Top.opInfos) = Top.i - 1
  BY <1>1, TopFrame DEF GoodFrame
<1>3. SameOperation /\ Top'.phase = Top.phase
  <2>1. CASE frames' = Counted
    BY <1>1, <2>1, CountedTop
  <2>2. CASE frames' = frames
    BY <1>1, <2>2 DEF SameOperation, SameBatch, Top
  <2> QED
    BY <2>1, <2>2 DEF WalletValidates
<1>4. TopOp.sender \in Wallet /\ TopOp \in Operation
  BY <1>1, <1>2, OperationIn DEF TopOp
<1>5. \/ eth' = eth
      \/ \E v \in Nat : /\ v <= eth[TopOp.sender]
                        /\ eth' = [eth EXCEPT ![TopOp.sender] = @ - v]
  BY <1>1, MissingIsNat DEF WalletValidates, SW!CanPay, SW!_payPrefund
<1> QED
  BY <1>1, <1>2, <1>3, <1>4, <1>5 DEF WalletValidates, SW!_validateAndUpdateNonce

LEMMA WalletValidatesTyped ==
    ASSUME PGInv, WalletValidates
    PROVE  PGTyped'
<1>1. PGTyped /\ App \in AppType
  BY DEF PGInv, PGTyped
<1>2. nonce' \in [Wallet -> Nat]
  BY <1>1, WalletValidatesMoves, AppIsTyped
<1>3. eth' \in [Holder -> Nat]
  <2>1. eth \in [Holder -> Nat] /\ TopOp.sender \in Holder
    BY <1>1, WalletValidatesMoves, AppIsTyped, Roles
  <2>2. CASE eth' = eth
    BY <2>1, <2>2
  <2>3. ASSUME NEW v \in Nat, v <= eth[TopOp.sender],
               eth' = [eth EXCEPT ![TopOp.sender] = @ - v]
        PROVE  eth' \in [Holder -> Nat]
    BY <2>1, <2>3, SpendsTyped
  <2> QED
    BY <2>2, <2>3, WalletValidatesMoves
<1>4. App' \in AppType
  BY <1>1, <1>2, <1>3, AppIsTyped, AppIsTypedNext
  DEF WalletValidates, paymasterVars, history
<1> QED
  BY <1>1, <1>4, WalletValidatesMoves, FrameTyped DEF WalletValidates, PGTyped

\* The context of an operation: the most its paymaster can charge for it.
ContextOf(op, fee) ==
    LET maxCost == UO!requiredPreFund(op, fee)
    IN  CASE ~UO!hasPaymaster(op) \/ ByVerifying(op) -> 0
          [] ByNative(op) -> maxCost
          [] OTHER -> DP!getTokenValueOfMatic(maxCost)

\* The token value of an amount of ether is a natural number.
LEMMA TokenValueIsNat ==
    ASSUME App \in AppType, NEW v \in Nat
    PROVE  DP!getTokenValueOfMatic(v) \in Nat
<1>1. ratio[1] \in Nat /\ ratio[2] \in Nat \ {0}
  BY AppIsTyped, PayGasXAssumption
<1> DEFINE q == v \div ratio[2]
<1>2. q \in Nat
  BY <1>1, v \in Nat
<1> HIDE DEF q
<1>3. q * ratio[1] \in Nat
  BY <1>1, <1>2
<1> QED
  BY <1>3 DEF DP!getTokenValueOfMatic, q

LEMMA ContextIsNat ==
    ASSUME PGInv, frames # <<>>
    PROVE  ContextOf(TopOp, Top.basefee) \in Nat
<1>1. UO!requiredPreFund(TopOp, Top.basefee) \in Nat
  BY TopFrame DEF PGInv
<1>2. DP!getTokenValueOfMatic(UO!requiredPreFund(TopOp, Top.basefee)) \in Nat
  BY <1>1, TokenValueIsNat DEF PGInv, PGTyped
<1> QED
  BY <1>1, <1>2 DEF ContextOf

LEMMA ValidatedMoves ==
    ASSUME PGInv, NEW used \in GasUsed, NEW over \in Overhead,
           PGValidationEnds(used, over)
    PROVE  LET context == UO!hasPaymaster(TopOp) /\ ~ByVerifying(TopOp)
           IN  /\ ValidationEnds(used, over, context)
               /\ context \in BOOLEAN
               /\ validated /\ ~validated'
               /\ App' = App /\ saved' = saved /\ inner' = inner /\ bill' = bill
               /\ contexts' = Append(contexts, ContextOf(TopOp, Top.basefee))
BY SameApp DEF PGValidationEnds, ContextOf, UO!hasPaymaster, ByVerifying

LEMMA ValidatedTyped ==
    ASSUME PGInv, NEW used \in GasUsed, NEW over \in Overhead,
           PGValidationEnds(used, over)
    PROVE  PGTyped'
<1> DEFINE context == UO!hasPaymaster(TopOp) /\ ~ByVerifying(TopOp)
<1>1. /\ ValidationEnds(used, over, context)
      /\ context \in BOOLEAN
      /\ validated' = FALSE
      /\ App' = App /\ saved' = saved /\ inner' = inner /\ bill' = bill
      /\ contexts' = Append(contexts, ContextOf(TopOp, Top.basefee))
  BY ValidatedMoves DEF PGValidationEnds
<1>2. PGTyped /\ EPInv
  BY DEF PGInv
<1> HIDE DEF context
<1> DEFINE info == [prefund |-> UO!requiredPreFund(TopOp, Top.basefee),
                    context |-> context, cost |-> 0,
                    preOpGas |-> used + over + TopOp.preVerificationGas]
<1>3. /\ frames # <<>> /\ frames' # <<>>
      /\ Top'.opInfos = Append(Top.opInfos, info)
  BY <1>1, <1>2, ValidatedTop DEF SameBatch
<1> HIDE DEF info
<1>4. Top.opInfos \in Seq(UserOpInfo)
  BY <1>2, <1>3, TopFrame DEF Frame
<1>5. Len(Top'.opInfos) = Len(Top.opInfos) + 1
  <2>1. Top.opInfos \in Seq(UserOpInfo \cup {info})
    BY <1>4
  <2> QED
    BY <1>3, <2>1
<1>6. contexts' \in Seq(Nat) /\ Len(contexts') = Len(contexts) + 1
  BY <1>1, <1>2, <1>3, ContextIsNat DEF PGTyped
<1> QED
  BY <1>1, <1>2, <1>3, <1>5, <1>6 DEF PGTyped

LEMMA InnerHandleOpTyped ==
    ASSUME PGInv, NEW over \in Overhead, PGInnerHandleOp(over)
    PROVE  PGTyped'
<1>1. /\ PGTyped /\ App' = App /\ inner' = App /\ saved' = saved
      /\ contexts' = contexts /\ bill' = bill /\ validated' = validated
  BY SameApp DEF PGInv, PGInnerHandleOp
<1>2. SameOperation /\ Top.phase = "execute"
  BY InnerTop DEF PGInv, PGInnerHandleOp
<1> QED
  BY <1>1, <1>2 DEF PGTyped, SameOperation, SameBatch

\* What the operation's own call does to the wallet and its tokens.
LEMMA ActsTyped ==
    ASSUME App \in AppType, TopOp.sender \in Wallet,
           OperationActs \/ UNCHANGED <<walletVars, paymasterVars>>
    PROVE  /\ nonce' = nonce
           /\ eth' \in [Holder -> Nat]
           /\ nativeTokenPaymaster' \in [Wallet -> {NoPaymaster} \cup Trusted]
           /\ credits' = credits
           /\ ratio' = ratio
           /\ tokens' \in [Holder -> Nat]
           /\ allowance' \in [Holder -> Nat]
<1>1. CASE UNCHANGED <<walletVars, paymasterVars>>
  BY <1>1, AppIsTyped DEF walletVars, paymasterVars
<1>2. CASE WalletActs(TopOp.sender)
  BY <1>2, WalletActsTyped
<1>3. CASE (\E v \in Approvals : DP!approve(TopOp.sender, v)) /\ UNCHANGED walletVars
  BY <1>3, AppIsTyped, Roles, PayGasXAssumption DEF walletVars, DP!approve
<1> QED
  BY <1>1, <1>2, <1>3 DEF OperationActs

LEMMA CallReturnsTyped ==
    ASSUME PGInv, NEW success, NEW used, PGCallReturns(success, used)
    PROVE  PGTyped' /\ nonce' = nonce
<1>1. PGTyped /\ App \in AppType /\ EPInv
  BY DEF PGInv, PGTyped
<1>2. /\ SameOperation /\ Top.phase = "call"
      /\ Top.i \in 1 .. Len(Top.ops)
  BY <1>1, CallReturnsTop DEF PGCallReturns
<1>3. TopOp.sender \in Wallet
  BY <1>1, <1>2, OperationIn DEF TopOp, SameOperation, SameBatch
<1>4. App' \in AppType /\ nonce' = nonce
  BY <1>1, <1>3, ActsTyped, AppIsTyped, AppIsTypedNext DEF PGCallReturns, history
<1>5. ~validated
  BY <1>1, <1>2 DEF PGTyped, SameOperation, SameBatch
<1> QED
  BY <1>1, <1>2, <1>4, <1>5, FrameTyped DEF PGCallReturns, txVars, PGTyped

\* What a postOp charges is a natural number.
LEMMA ChargeIsNat ==
    ASSUME PGInv, InPhase("postOp"), CanCompute
    PROVE  Charge \in Nat
<1>1. /\ EPInv /\ PGTyped /\ frames # <<>>
      /\ Top.i \in 1 .. Len(Top.ops) /\ Len(Top.opInfos) = Len(Top.ops)
  BY TopFrame DEF PGInv, InPhase, GoodFrame
<1>2. /\ Top.opInfos \in Seq(UserOpInfo) /\ Top.actualGas \in Nat
      /\ UO!gasPrice(TopOp, Top.basefee) \in Nat
  BY <1>1, TopFrame DEF Frame
<1>3. TopInfo.prefund \in Nat
  <2>1. Top.opInfos[Top.i] \in UserOpInfo
    BY <1>1, <1>2
  <2> QED
    BY <2>1 DEF TopInfo, UserOpInfo
<1>4. contexts[Top.i] \in Nat
  BY <1>1 DEF PGTyped
<1>5. ActualGasCost(Top) \in Nat
  BY <1>2 DEF ActualGasCost, TopOp
<1>6. CASE ByNative(TopOp)
  BY <1>5, <1>6, PayGasXAssumption DEF Charge, NP!actualTotalCost
<1>7. CASE ~ByNative(TopOp)
  <2>1. TopInfo.prefund \in Nat \ {0}
    BY <1>3, <1>7 DEF CanCompute
  <2> DEFINE x == (ActualGasCost(Top) + COST_OF_POST) * contexts[Top.i]
  <2>2. x \in Nat
    BY <1>4, <1>5, PayGasXAssumption
  <2> HIDE DEF x
  <2>3. x \div TopInfo.prefund \in Nat
    BY <2>1, <2>2
  <2> QED
    BY <1>7, <2>3 DEF Charge, DP!tokenCost, x
<1> QED
  BY <1>6, <1>7

\* What a postOp changes: tokens, ether or credit, by the charge.
LEMMA PostOpMoves ==
    ASSUME PGInv, NEW used, postOp(used)
    PROVE  /\ SameOperation
           /\ Top.phase = "postOp" /\ Top'.phase = "settle" /\ Top'.mode = Top.mode
           /\ Top.i \in 1 .. Len(Top.ops) /\ Len(Top.opInfos) = Len(Top.ops)
           /\ TopOp.sender \in Wallet
           /\ bill' = Charge /\ Charge \in Nat
           /\ UNCHANGED <<nonce, nativeTokenPaymaster, ratio, blockLists, isSetUp,
                          history, validated, contexts, saved, inner>>
           /\ \/ /\ ~ByNative(TopOp) /\ Top.mode # "postOpReverted"
                 /\ Charge <= tokens[TopOp.sender] /\ Charge <= allowance[TopOp.sender]
                 /\ tokens' = [tokens EXCEPT ![TopOp.sender] = @ - Charge,
                                             ![depositPaymaster] = @ + Charge]
                 /\ allowance' = [allowance EXCEPT ![TopOp.sender] = @ - Charge]
                 /\ UNCHANGED <<eth, credits, nativeCredits>>
              \/ /\ ~ByNative(TopOp) /\ Top.mode = "postOpReverted"
                 /\ Charge <= credits[TopOp.sender]
                 /\ credits' = [credits EXCEPT ![TopOp.sender] = @ - Charge]
                 /\ UNCHANGED <<eth, tokens, allowance, nativeCredits>>
              \/ /\ ByNative(TopOp) /\ Top.mode # "postOpReverted"
                 /\ Charge <= eth[TopOp.sender]
                 /\ eth' = [eth EXCEPT ![TopOp.sender] = @ - Charge,
                                       ![nativePaymaster] = @ + Charge]
                 /\ UNCHANGED <<tokens, allowance, credits, nativeCredits>>
              \/ /\ ByNative(TopOp) /\ Top.mode = "postOpReverted"
                 /\ Charge <= nativeCredits[TopOp.sender]
                 /\ nativeCredits' = [nativeCredits EXCEPT ![TopOp.sender] = @ - Charge]
                 /\ UNCHANGED <<eth, tokens, allowance, credits>>
<1>1. PostOpReturns(used) /\ CanCompute
  BY DEF postOp
<1>2. /\ SameOperation
      /\ Top.phase = "postOp" /\ Top'.phase = "settle" /\ Top'.mode = Top.mode
      /\ Top.i \in 1 .. Len(Top.ops) /\ Len(Top.opInfos) = Len(Top.ops)
  BY <1>1, PostOpTop DEF PGInv
<1>3. TopOp.sender \in Wallet
  BY <1>2, OperationIn DEF TopOp, SameOperation, SameBatch, PGInv
<1>4. Charge \in Nat /\ bill' = Charge
  BY <1>1, ChargeIsNat DEF postOp, PostOpReturns
<1> DEFINE c == Charge
<1> HIDE DEF c
<1>5. CASE ~ByNative(TopOp) /\ Top.mode # "postOpReverted"
  BY <1>2, <1>3, <1>4, <1>5 DEF postOp, DP!PayWithTokens, walletVars, history
<1>6. CASE ~ByNative(TopOp) /\ Top.mode = "postOpReverted"
  BY <1>2, <1>3, <1>4, <1>6 DEF postOp, DP!PayWithCredit, walletVars, history
<1>7. CASE ByNative(TopOp) /\ Top.mode # "postOpReverted"
  BY <1>2, <1>3, <1>4, <1>7
  DEF postOp, NP!PayWithEther, NP!SW!transfer, paymasterVars, history
<1>8. CASE ByNative(TopOp) /\ Top.mode = "postOpReverted"
  BY <1>2, <1>3, <1>4, <1>8 DEF postOp, NP!PayWithCredit, paymasterVars, history
<1> QED
  BY <1>5, <1>6, <1>7, <1>8

LEMMA PostOpTyped ==
    ASSUME PGInv, NEW used, postOp(used)
    PROVE  PGTyped'
<1> USE Roles
<1>1. PGTyped /\ App \in AppType
  BY DEF PGInv, PGTyped
<1> DEFINE c == Charge
           a == TopOp.sender
<1>2. /\ SameOperation
      /\ Top.phase = "postOp"
      /\ a \in Wallet
      /\ bill' = c /\ c \in Nat
      /\ UNCHANGED <<nonce, nativeTokenPaymaster, ratio, blockLists, isSetUp,
                     history, validated, contexts, saved, inner>>
  BY PostOpMoves
<1>3. /\ eth \in [Holder -> Nat] /\ tokens \in [Holder -> Nat]
      /\ allowance \in [Holder -> Nat] /\ credits \in [Holder -> Nat]
      /\ nativeCredits \in [Holder -> Nat]
  BY <1>1, AppIsTyped
<1>4. \/ /\ c <= tokens[a] /\ c <= allowance[a]
         /\ tokens' = [tokens EXCEPT ![a] = @ - c, ![depositPaymaster] = @ + c]
         /\ allowance' = [allowance EXCEPT ![a] = @ - c]
         /\ UNCHANGED <<eth, credits, nativeCredits>>
      \/ /\ c <= credits[a]
         /\ credits' = [credits EXCEPT ![a] = @ - c]
         /\ UNCHANGED <<eth, tokens, allowance, nativeCredits>>
      \/ /\ c <= eth[a]
         /\ eth' = [eth EXCEPT ![a] = @ - c, ![nativePaymaster] = @ + c]
         /\ UNCHANGED <<tokens, allowance, credits, nativeCredits>>
      \/ /\ c <= nativeCredits[a]
         /\ nativeCredits' = [nativeCredits EXCEPT ![a] = @ - c]
         /\ UNCHANGED <<eth, tokens, allowance, credits>>
  BY PostOpMoves
<1> HIDE DEF c, a
<1>5. /\ eth' \in [Holder -> Nat] /\ tokens' \in [Holder -> Nat]
      /\ allowance' \in [Holder -> Nat] /\ credits' \in [Holder -> Nat]
      /\ nativeCredits' \in [Holder -> Nat]
  <2> USE <1>2, <1>3
  <2>1. CASE /\ c <= tokens[a] /\ c <= allowance[a]
             /\ tokens' = [tokens EXCEPT ![a] = @ - c, ![depositPaymaster] = @ + c]
             /\ allowance' = [allowance EXCEPT ![a] = @ - c]
             /\ UNCHANGED <<eth, credits, nativeCredits>>
    BY <2>1, TransfersTyped, SpendsTyped
  <2>2. CASE /\ c <= credits[a]
             /\ credits' = [credits EXCEPT ![a] = @ - c]
             /\ UNCHANGED <<eth, tokens, allowance, nativeCredits>>
    BY <2>2, SpendsTyped
  <2>3. CASE /\ c <= eth[a]
             /\ eth' = [eth EXCEPT ![a] = @ - c, ![nativePaymaster] = @ + c]
             /\ UNCHANGED <<tokens, allowance, credits, nativeCredits>>
    BY <2>3, TransfersTyped
  <2>4. CASE /\ c <= nativeCredits[a]
             /\ nativeCredits' = [nativeCredits EXCEPT ![a] = @ - c]
             /\ UNCHANGED <<eth, tokens, allowance, credits>>
    BY <2>4, SpendsTyped
  <2> QED
    BY <1>4, <2>1, <2>2, <2>3, <2>4
<1>6. App' \in AppType
  BY <1>1, <1>2, <1>5, AppIsTyped, AppIsTypedNext DEF history
<1>7. ~validated
  BY <1>1, <1>2 DEF PGTyped, SameOperation, SameBatch
<1> QED
  BY <1>1, <1>2, <1>6, <1>7, FrameTyped DEF PGTyped

LEMMA RevertsTyped ==
    ASSUME PGInv, NEW used, NEW over, PGInnerReverts(used, over)
    PROVE  PGTyped' /\ App' = inner
<1>1. PGTyped /\ inner \in AppType /\ RestoreApp(inner) /\ UNCHANGED txVars
  BY DEF PGInv, PGTyped, PGInnerReverts, UndoOperation
<1>2. App' = inner
  BY <1>1, RestoresApp
<1>3. SameOperation /\ Top.phase \in InnerPhase
  BY RevertsTop DEF PGInv, PGInnerReverts
<1>4. ~validated
  BY <1>1, <1>3 DEF PGTyped, SameOperation, SameBatch, InnerPhase
<1> QED
  BY <1>1, <1>2, <1>3, <1>4, FrameTyped DEF txVars, PGTyped

LEMMA SettleTyped ==
    ASSUME PGInv, PGSettle
    PROVE  PGTyped'
<1>1. /\ PGTyped /\ App \in AppType /\ EPInv /\ bill \in Nat
      /\ UNCHANGED txVars
  BY DEF PGInv, PGTyped, PGSettle
<1>2. /\ SameBatch /\ Top.phase = "settle"
      /\ Top.i \in 1 .. Len(Top.ops)
      /\ Len(Top'.opInfos) = Len(Top.opInfos)
  BY <1>1, SettleTop DEF PGSettle
<1>3. TopOp \in Operation
  BY <1>1, <1>2, OperationIn DEF TopOp, SameBatch
<1>4. handled' \in [Operation -> Nat]
  BY <1>1, <1>3, AppIsTyped DEF PGSettle
<1>5. billed' \in BilledType
  <2>1. Means(TopOp) \in {"tokens", "credit", "ether", "nativeCredit"}
    BY DEF Means
  <2>2. billed \in BilledType
    BY <1>1, AppIsTyped
  <2> QED
    BY <1>1, <2>1, <2>2 DEF PGSettle, BilledType
<1>6. App' \in AppType
  BY <1>1, <1>4, <1>5, AppIsTyped, AppIsTypedNext DEF PGSettle, walletVars, paymasterVars
<1>7. ~validated
  BY <1>1, <1>2 DEF PGTyped, SameBatch
<1> QED
  BY <1>1, <1>2, <1>6, <1>7 DEF PGTyped, txVars, SameBatch

LEMMA CompensateTyped ==
    ASSUME PGInv, PGCompensate
    PROVE  PGTyped' /\ App' = App /\ frames' = <<>>
<1>1. PGTyped /\ EPInv /\ frames # <<>> /\ Pop /\ UNCHANGED <<appVars, txVars>>
  BY DEF PGInv, PGCompensate, _compensate, InPhase
<1>2. frames' = <<>> /\ App' = App
  BY <1>1, PopEmpties, SameApp
<1> QED
  BY <1>1, <1>2 DEF PGTyped, txVars

LEMMA HandleOpsRevertsTyped ==
    ASSUME PGInv, PGHandleOpsReverts
    PROVE  PGTyped' /\ App' = saved /\ frames' = <<>>
<1>1. PGTyped /\ EPInv /\ frames # <<>> /\ Pop /\ RestoreApp(saved) /\ UNCHANGED txVars
  BY DEF PGInv, PGHandleOpsReverts, HandleOpsReverts
<1>2. frames' = <<>> /\ App' = saved
  BY <1>1, PopEmpties, RestoresApp DEF PGTyped
<1> QED
  BY <1>1, <1>2 DEF PGTyped, txVars

LEMMA InitPGTyped == PGInit => PGTyped
<1> SUFFICES ASSUME PGInit
             PROVE  PGTyped
  OBVIOUS
<1>1. /\ nonce \in [Wallet -> Nat]
      /\ eth \in [Holder -> Nat]
      /\ nativeTokenPaymaster \in [Wallet -> {NoPaymaster} \cup Trusted]
      /\ credits \in [Holder -> Nat]
      /\ ratio \in Ratios
      /\ tokens \in [Holder -> Nat]
      /\ allowance \in [Holder -> Nat]
      /\ nativeCredits \in [Holder -> Nat]
      /\ blockLists \in SUBSET Blockable
      /\ isSetUp \in SUBSET Account
      /\ handled \in [Operation -> Nat]
      /\ refilled \in Nat
  BY PayGasXAssumption DEF PGInit
<1>2. billed \in BilledType /\ granted \in GrantedType
  BY DEF PGInit, BilledType, GrantedType
<1>3. App \in AppType
  BY <1>1, <1>2, AppIsTyped
<1>4. /\ saved = App /\ inner = App /\ validated = FALSE /\ bill = 0
      /\ contexts = <<>> /\ frames = <<>>
  BY DEF PGInit
<1>5. contexts \in Seq(Nat)
  BY <1>4
<1> QED
  BY <1>3, <1>4, <1>5 DEF PGTyped

\* The four kinds of steps: of handleOps, the creation of a wallet, of other
\* transactions, and none.
PGIdleStep ==
    \/ \E a \in Wallet : setUpForAccount(a) \/ exec(a)
    \/ \E a \in Wallet, v \in Amount : \/ addDeposit(a, v)
                                       \/ withdrawDepositTo(a, v)
                                       \/ addDepositFor(a, v)
                                       \/ addNativeDepositFor(a, v)
    \/ \E v \in Amount : depositToEP(v) \/ withdrawBalance(v)
    \/ \E r \in Ratios : setMaskToMaticRatio(r)
    \/ \E a \in Blockable : addBlockList(a)
    \/ \E v \in Spendings : withdraw(v)

LEMMA KindsOfSteps ==
    ASSUME [PGNext]_pgVars
    PROVE  \/ \E ops \in Batches, fee \in BaseFees : PGHandleOps(ops, fee)
           \/ PGHandleOpsStep
           \/ \E a \in Wallet : PGDeploy(a)
           \/ PGIdleStep
           \/ UNCHANGED pgVars
BY DEF PGNext, PGIdleStep

LEMMA StutterTyped ==
    ASSUME PGTyped, UNCHANGED pgVars
    PROVE  PGTyped'
<1>1. UNCHANGED <<frames, txVars>> /\ App' = App
  BY SameApp DEF pgVars, vars
<1>2. Top' = Top
  BY <1>1 DEF Top
<1> QED
  BY <1>1, <1>2 DEF PGTyped, txVars

LEMMA StepKeepsPGInv ==
    ASSUME PGInv, [PGNext]_pgVars
    PROVE  PGInv'
<1>1. EPInv'
  BY PGStepKeepsEP
<1>2. CASE \E ops \in Batches, fee \in BaseFees : PGHandleOps(ops, fee)
  BY <1>1, <1>2, StartTyped DEF PGInv
<1>3. CASE PGHandleOpsStep
  <2>1. PGTyped'
    BY <1>3, CreateTyped, WalletValidatesTyped, ValidatedTyped, InnerHandleOpTyped,
       CallReturnsTyped, PostOpTyped, RevertsTyped, SettleTyped, CompensateTyped,
       HandleOpsRevertsTyped DEF PGHandleOpsStep
  <2> QED
    BY <1>1, <2>1 DEF PGInv
<1>4. CASE \E a \in Wallet : PGDeploy(a)
  BY <1>1, <1>4, DeployTyped DEF PGInv
<1>5. CASE PGIdleStep
  BY <1>1, <1>5, IdleStepsTyped DEF PGInv, PGIdleStep
<1>6. CASE UNCHANGED pgVars
  BY <1>1, <1>6, StutterTyped DEF PGInv
<1> QED
  BY <1>2, <1>3, <1>4, <1>5, <1>6, KindsOfSteps

LEMMA AlwaysPGInv == PGSpec => []PGInv
<1>1. PGInit => PGInv
  BY InitPGEP, InitPGTyped DEF PGInv
<1>2. PGInv /\ [PGNext]_pgVars => PGInv'
  BY StepKeepsPGInv
<1> QED
  BY <1>1, <1>2, PTL DEF PGSpec

\* Balances, credits and allowances are never negative, whichever calls fail
\* and whatever is taken back, and nothing is charged that has no context.
THEOREM PGTypeCorrect == PGSpec => []PGTypeOK
<1>1. EPInv => EPTypeOK
  BY DEF EPInv, StackInv, GoodFrame, Frame, EPTypeOK, FrameOK
<1>2. PGTyped => /\ nonce \in [Wallet -> Nat]
                 /\ eth \in [Holder -> Nat]
                 /\ nativeTokenPaymaster \in [Wallet -> {NoPaymaster} \cup Trusted]
                 /\ credits \in [Holder -> Nat]
                 /\ ratio \in Ratios
                 /\ tokens \in [Holder -> Nat]
                 /\ allowance \in [Holder -> Nat]
                 /\ nativeCredits \in [Holder -> Nat]
                 /\ blockLists \subseteq Blockable
                 /\ isSetUp \subseteq Account
                 /\ validated \in BOOLEAN
                 /\ bill \in Nat
                 /\ handled \in [Operation -> Nat]
                 /\ billed \in BilledType
                 /\ granted \in GrantedType
                 /\ refilled \in Nat
  BY AppIsTyped DEF PGTyped
<1>3. PGInv => PGTypeOK
  BY <1>1, <1>2 DEF PGInv, PGTypeOK, BilledType, GrantedType
<1> QED
  BY <1>3, AlwaysPGInv, PTL

-----------------------------------------------------------------------------
(***************************************************************************)
(* The EntryPoint keeps its promises to the contracts of PayGasX: what was *)
(* proved of it with unknown code around it holds of the deployment, where *)
(* wallets and the paymaster's owner also send deposits of amounts that    *)
(* they work out from its state.                                           *)
(***************************************************************************)

\* The books of the EntryPoint are in order in the deployment.
LEMMA AlwaysPGBooks == PGSpec => []BooksInv
<1>1. PGInv /\ [PGNext]_pgVars /\ BooksInv => BooksInv'
  BY StepsOfEntryPoint, EntryPointStepsKeep DEF PGInv
<1> QED
  BY <1>1, InitPGBooks, AlwaysPGInv, PTL DEF PGSpec

\* With the wallets and the paymasters of PayGasX in place, the EntryPoint holds
\* exactly the deposits and stakes on record, the prefunds of the operations in
\* progress and the fees it has not handed over.
THEOREM DeploymentFundsAreAccounted == PGSpec => []FundsAccounted
<1>1. PGInv /\ BooksInv => FundsAccounted
  BY BooksAccount DEF PGInv
<1> QED
  BY <1>1, AlwaysPGInv, AlwaysPGBooks, PTL

\* A batch in which no wallet had to send a deposit has charged the payers of
\* its operations exactly, whatever their calls and the postOps did.
THEOREM DeploymentChargesExactly == PGSpec => []ChargedExactly
<1>1. PGInv /\ BooksInv => ChargedExactly
  BY BooksChargeExactly DEF PGInv
<1> QED
  BY <1>1, AlwaysPGInv, AlwaysPGBooks, PTL

-----------------------------------------------------------------------------
(***************************************************************************)
(* Nonces and charges.  Of all the steps, what counts here is how they     *)
(* change the nonces, the contracts created, the charges, and the          *)
(* operations in between: those that used up a nonce, or created a wallet, *)
(* and are not charged yet.                                                *)
(***************************************************************************)

\* The operations of the batch that were validated and are not charged yet;
\* those, and the one whose wallet was created for it.
FlyingIn(f, v)  == Held(f) \cup (IF v THEN {f.i} ELSE {})
ClaimedIn(f, v) ==
    FlyingIn(f, v) \cup
        (IF f.phase = "validateUserOp" /\ f.ops[f.i].initCode THEN {f.i} ELSE {})

Flying  == IF frames = <<>> THEN {} ELSE FlyingIn(Top, validated)
Claimed == IF frames = <<>> THEN {} ELSE ClaimedIn(Top, validated)

\* Until innerHandleOp returns, what its revert brings back differs neither in
\* nonces nor in charges nor in the contracts created.
InnerIsRecent ==
    frames # <<>> /\ Top.phase \in InnerPhase =>
        /\ inner.nonce = nonce
        /\ inner.handled = handled
        /\ inner.billed = billed
        /\ inner.granted = granted
        /\ inner.refilled = refilled
        /\ Top.inner.code = code

\* No transaction runs, before the step and after it.
Rests ==
    /\ frames = <<>> /\ frames' = <<>>
    /\ nonce' = nonce /\ handled' = handled
    /\ code \subseteq code'

\* handleOps begins.
Begins ==
    /\ frames = <<>> /\ frames' # <<>>
    /\ Flying' = {} /\ Claimed' = {}
    /\ nonce' = nonce /\ handled' = handled /\ code' = code
    /\ saved' = App /\ Top'.saved.code = code

\* The wallet of an operation is created or is there.
Creates ==
    /\ SameBatch /\ Top'.i = Top.i
    /\ Top.i \in 1 .. Len(Top.ops) /\ Top.i \notin Flying
    /\ Flying' = Flying /\ Claimed = Flying
    /\ nonce' = nonce /\ handled' = handled /\ saved' = saved
    /\ IF TopOp.initCode
       THEN /\ TopOp.sender \notin code /\ code' = code \cup {TopOp.sender}
            /\ Claimed' = Flying \cup {Top.i}
       ELSE code' = code /\ Claimed' = Flying

\* A wallet uses up the nonce of an operation.
UsesNonce ==
    /\ SameBatch /\ Top'.i = Top.i
    /\ Top.i \in 1 .. Len(Top.ops) /\ Top.i \notin Flying
    /\ Flying' = Flying \cup {Top.i} /\ Claimed' = Flying'
    /\ Claimed = IF TopOp.initCode THEN Flying \cup {Top.i} ELSE Flying
    /\ handled' = handled /\ code' = code /\ saved' = saved
    /\ IF TopOp.initCode THEN nonce' = nonce
       ELSE /\ TopOp.nonce = nonce[TopOp.sender]
            /\ nonce' = [nonce EXCEPT ![TopOp.sender] = @ + 1]

\* Another step of handleOps.
Proceeds ==
    /\ SameBatch
    /\ Flying' = Flying /\ Claimed' = Claimed
    /\ nonce' = nonce /\ handled' = handled /\ code' = code /\ saved' = saved

\* An operation is charged.
ChargesOne ==
    /\ SameBatch
    /\ Top.i \in Flying /\ Claimed = Flying
    /\ Flying' = Flying \ {Top.i} /\ Claimed' = Flying'
    /\ nonce' = nonce /\ code' = code /\ saved' = saved
    /\ handled' = [handled EXCEPT ![TopOp] = @ + 1]

\* handleOps returns.
Ends ==
    /\ frames # <<>> /\ frames' = <<>>
    /\ Flying = {}
    /\ nonce' = nonce /\ handled' = handled /\ code' = code

\* handleOps reverts.
GoesBack ==
    /\ frames # <<>> /\ frames' = <<>>
    /\ nonce' = saved.nonce /\ handled' = saved.handled
    /\ code' = Top.saved.code

\* The operations in flight by the place of the frame in its batch.
LEMMA FlyingByPhase ==
    ASSUME NEW f, NEW v \in BOOLEAN, NEW n \in Nat, Len(f.ops) = n, f.i \in 1 .. n,
           f.phase \in Phase,
           Len(f.opInfos) = IF f.phase \in {"validate", "validateUserOp"}
                            THEN f.i - 1 ELSE n,
           v => f.phase = "validateUserOp"
    PROVE  /\ f.phase = "validate" => FlyingIn(f, v) = 1 .. f.i - 1
           /\ f.phase = "validateUserOp" =>
                 FlyingIn(f, v) = IF v THEN 1 .. f.i ELSE 1 .. f.i - 1
           /\ f.phase = "compensate" => FlyingIn(f, v) = {}
           /\ f.phase \in InnerPhase \cup {"execute"} => FlyingIn(f, v) = f.i .. n
           /\ FlyingIn(f, v) \subseteq 1 .. n
           /\ f.phase # "validateUserOp" => ClaimedIn(f, v) = FlyingIn(f, v)
           /\ f.phase = "validateUserOp" =>
                 ClaimedIn(f, v) = IF v \/ f.ops[f.i].initCode
                                   THEN 1 .. f.i ELSE 1 .. f.i - 1
<1>1. CASE f.phase = "validate"
  BY <1>1 DEF FlyingIn, ClaimedIn, Held, InnerPhase
<1>2. CASE f.phase = "validateUserOp"
  <2>1. Held(f) = 1 .. f.i - 1
    BY <1>2 DEF Held
  <2>2. (1 .. f.i - 1) \cup {f.i} = 1 .. f.i
    OBVIOUS
  <2> QED
    BY <1>2, <2>1, <2>2 DEF FlyingIn, ClaimedIn, InnerPhase
<1>3. CASE f.phase = "compensate"
  BY <1>3 DEF FlyingIn, ClaimedIn, Held, InnerPhase
<1>4. CASE f.phase \in InnerPhase \cup {"execute"}
  BY <1>4 DEF FlyingIn, ClaimedIn, Held, InnerPhase
<1> QED
  BY <1>1, <1>2, <1>3, <1>4 DEF Phase, External, InnerPhase

FlyingFacts ==
    frames # <<>> =>
        /\ Len(Top.ops) \in Nat /\ Top.i \in 1 .. Len(Top.ops)
        /\ Top.phase = "validate" => Flying = 1 .. Top.i - 1
        /\ Top.phase = "validateUserOp" =>
              Flying = IF validated THEN 1 .. Top.i ELSE 1 .. Top.i - 1
        /\ Top.phase = "compensate" => Flying = {}
        /\ Top.phase \in InnerPhase \cup {"execute"} =>
              Flying = Top.i .. Len(Top.ops)
        /\ Flying \subseteq 1 .. Len(Top.ops)
        /\ Top.phase # "validateUserOp" => Claimed = Flying
        /\ Top.phase = "validateUserOp" =>
              Claimed = IF validated \/ TopOp.initCode
                        THEN 1 .. Top.i ELSE 1 .. Top.i - 1

LEMMA FlyingNow == PGInv => FlyingFacts
<1> SUFFICES ASSUME PGInv, frames # <<>>
             PROVE  FlyingFacts
  BY DEF FlyingFacts
<1>1. /\ GoodFrame(Top) /\ Top.phase \in Phase
      /\ Top.i \in 1 .. Len(Top.ops) /\ Len(Top.ops) \in Nat
      /\ validated \in BOOLEAN /\ (validated => Top.phase = "validateUserOp")
  BY TopFrame DEF PGInv, PGTyped, Frame
<1>2. Len(Top.opInfos) = IF Top.phase \in {"validate", "validateUserOp"}
                         THEN Top.i - 1 ELSE Len(Top.ops)
  BY <1>1 DEF GoodFrame
<1> QED
  BY <1>1, <1>2, FlyingByPhase DEF FlyingFacts, Flying, Claimed, TopOp

LEMMA FlyingNext == PGInv' => FlyingFacts'
BY FlyingNow, PTL

\* Which of these a step is.
LEMMA StartBegins ==
    ASSUME PGInv, PGInv', NEW ops \in Batches, NEW fee \in BaseFees, PGHandleOps(ops, fee)
    PROVE  Begins /\ InnerIsRecent'
<1>1. frames = <<>> /\ frames' # <<>> /\ Top' = NewFrame(ops, fee)
  BY StartTop DEF PGHandleOps, PGInv
<1>2. /\ Top'.phase = "validate" /\ Top'.i = 1 /\ Top'.saved = World
  BY <1>1 DEF NewFrame
<1>3. Flying' = {} /\ Claimed' = {}
  BY <1>1, <1>2, FlyingNext DEF FlyingFacts
<1>4. UNCHANGED <<nonce, handled, code>> /\ saved' = App
  BY DEF PGHandleOps, appVars, walletVars, history, handleOps, worldVars
<1>5. Top'.saved.code = code
  BY <1>2 DEF World
<1> QED
  BY <1>1, <1>2, <1>3, <1>4, <1>5 DEF Begins, InnerIsRecent, InnerPhase

LEMMA CallValidateCreates ==
    ASSUME PGInv, PGInv', PGCallValidateUserOp
    PROVE  Creates /\ InnerIsRecent'
<1>1. /\ SameOperation
      /\ Top.phase = "validate" /\ Top'.phase = "validateUserOp"
      /\ Top.i \in 1 .. Len(Top.ops)
  BY CreateTop DEF PGInv, PGCallValidateUserOp
<1>2. /\ SameBatch /\ Top'.i = Top.i /\ Top'.ops = Top.ops
      /\ frames # <<>> /\ frames' # <<>>
  BY <1>1 DEF SameOperation, SameBatch
<1>3. UNCHANGED <<handled, saved, validated>> /\ nonce' = nonce
  <2>1. CASE TopOp.initCode
    BY <2>1 DEF PGCallValidateUserOp, history, txVars, constructor, SW!changePaymaster
  <2>2. CASE ~TopOp.initCode
    BY <2>2 DEF PGCallValidateUserOp, history, txVars, walletVars
  <2> QED
    BY <2>1, <2>2
<1>4. ~validated
  BY <1>1, <1>2 DEF PGInv, PGTyped
<1>5. /\ Flying = 1 .. Top.i - 1 /\ Claimed = Flying
      /\ Flying' = 1 .. Top.i - 1
      /\ Claimed' = IF TopOp.initCode THEN 1 .. Top.i ELSE 1 .. Top.i - 1
  BY <1>1, <1>2, <1>3, <1>4, FlyingNow, FlyingNext DEF FlyingFacts, TopOp
<1>6. 1 .. Top.i = (1 .. Top.i - 1) \cup {Top.i} /\ Top.i \notin 1 .. Top.i - 1
  BY <1>1
<1>7. IF TopOp.initCode THEN TopOp.sender \notin code /\ code' = code \cup {TopOp.sender}
      ELSE code' = code
  BY DEF PGCallValidateUserOp, CallValidateUserOp, _createSenderIfNeeded
<1>8. Top'.phase \notin InnerPhase
  BY <1>1 DEF InnerPhase
<1> QED
  BY <1>1, <1>2, <1>3, <1>5, <1>6, <1>7, <1>8 DEF Creates, InnerIsRecent

LEMMA WalletUsesNonce ==
    ASSUME PGInv, PGInv', WalletValidates
    PROVE  UsesNonce /\ InnerIsRecent'
<1>1. /\ SameOperation
      /\ Top.phase = "validateUserOp" /\ Top'.phase = "validateUserOp"
      /\ Top.i \in 1 .. Len(Top.ops)
      /\ ~validated /\ validated'
      /\ IF TopOp.initCode THEN nonce' = nonce
         ELSE /\ TopOp.nonce = nonce[TopOp.sender]
              /\ nonce' = [nonce EXCEPT ![TopOp.sender] = @ + 1]
  BY WalletValidatesMoves
<1>2. /\ SameBatch /\ Top'.i = Top.i /\ Top'.ops = Top.ops
      /\ frames # <<>> /\ frames' # <<>>
  BY <1>1 DEF SameOperation, SameBatch
<1>3. UNCHANGED <<handled, code, saved>>
  BY DEF WalletValidates, history
<1>4. /\ Flying = 1 .. Top.i - 1 /\ Flying' = 1 .. Top.i
      /\ Claimed = IF TopOp.initCode THEN 1 .. Top.i ELSE 1 .. Top.i - 1
      /\ Claimed' = 1 .. Top.i
  BY <1>1, <1>2, FlyingNow, FlyingNext DEF FlyingFacts
<1>5. 1 .. Top.i = (1 .. Top.i - 1) \cup {Top.i} /\ Top.i \notin 1 .. Top.i - 1
  BY <1>1
<1>6. Top'.phase \notin InnerPhase
  BY <1>1 DEF InnerPhase
<1> QED
  BY <1>1, <1>2, <1>3, <1>4, <1>5, <1>6 DEF UsesNonce, InnerIsRecent

LEMMA ValidatedProceeds ==
    ASSUME PGInv, PGInv', NEW used \in GasUsed, NEW over \in Overhead,
           PGValidationEnds(used, over)
    PROVE  Proceeds /\ InnerIsRecent'
<1> DEFINE context == UO!hasPaymaster(TopOp) /\ ~ByVerifying(TopOp)
<1>1. /\ ValidationEnds(used, over, context) /\ context \in BOOLEAN
      /\ validated /\ ~validated'
  BY ValidatedMoves
<1>2. UNCHANGED <<nonce, handled, code, saved>>
  BY DEF PGValidationEnds, ValidationEnds, appVars, walletVars, history
<1> HIDE DEF context
<1>3. /\ SameBatch /\ Top'.ops = Top.ops
      /\ frames # <<>> /\ frames' # <<>>
      /\ Top.phase = "validateUserOp"
      /\ Top.i \in 1 .. Len(Top.ops)
      /\ \/ /\ Top.i = Len(Top.ops)
            /\ Top'.i = 1 /\ Top'.phase = "execute"
         \/ /\ Top.i # Len(Top.ops)
            /\ Top'.i = Top.i + 1 /\ Top'.phase = "validate"
  BY <1>1, ValidatedTop DEF PGInv, SameBatch
<1>4. Flying = 1 .. Top.i /\ Claimed = 1 .. Top.i
  BY <1>1, <1>3, FlyingNow DEF FlyingFacts
<1>5. Flying' = 1 .. Top.i /\ Claimed' = 1 .. Top.i
  BY <1>1, <1>3, FlyingNext DEF FlyingFacts
<1>6. Top'.phase \notin InnerPhase
  BY <1>3 DEF InnerPhase
<1> QED
  BY <1>2, <1>3, <1>4, <1>5, <1>6 DEF Proceeds, InnerIsRecent

\* The steps from the call of an operation to its charge.
LEMMA ExecutionProceeds ==
    ASSUME PGInv, PGInv', SameOperation,
           Top.phase \in InnerPhase \cup {"execute"}, Top'.phase \in InnerPhase,
           UNCHANGED <<nonce, handled, code, saved>>
    PROVE  Proceeds
<1>1. /\ SameBatch /\ Top'.ops = Top.ops /\ Top'.i = Top.i
      /\ frames # <<>> /\ frames' # <<>>
  BY DEF SameOperation, SameBatch
<1>2. Top.phase # "validateUserOp" /\ Top'.phase # "validateUserOp"
  BY DEF InnerPhase
<1>3. /\ Flying = Top.i .. Len(Top.ops) /\ Claimed = Flying
      /\ Flying' = Top.i .. Len(Top.ops) /\ Claimed' = Flying'
  BY <1>1, <1>2, FlyingNow, FlyingNext DEF FlyingFacts
<1> QED
  BY <1>1, <1>3 DEF Proceeds

LEMMA InnerProceeds ==
    ASSUME PGInv, PGInv', NEW over \in Overhead, PGInnerHandleOp(over)
    PROVE  Proceeds /\ InnerIsRecent'
<1>1. /\ SameOperation /\ Top.phase = "execute" /\ Top'.phase \in InnerPhase
      /\ Top'.inner = World
  BY InnerTop DEF PGInv, PGInnerHandleOp, InnerPhase
<1>2. UNCHANGED <<nonce, handled, billed, granted, refilled, code, saved>> /\ inner' = App
  BY DEF PGInnerHandleOp, innerHandleOp, appVars, walletVars, history, worldVars
<1>3. Proceeds
  BY <1>1, <1>2, ExecutionProceeds
<1>4. InnerIsRecent'
  BY <1>1, <1>2 DEF InnerIsRecent, App, World
<1> QED
  BY <1>3, <1>4

\* Inside innerHandleOp.
LEMMA InsideProceeds ==
    ASSUME PGInv, PGInv', InnerIsRecent, SameOperation,
           Top.phase \in InnerPhase, Top'.phase \in InnerPhase, Top'.inner = Top.inner,
           code' \in {code, Top.inner.code},
           nonce' \in {nonce, inner.nonce}, handled' \in {handled, inner.handled},
           billed' \in {billed, inner.billed}, granted' \in {granted, inner.granted},
           refilled' \in {refilled, inner.refilled},
           saved' = saved, inner' = inner
    PROVE  Proceeds /\ InnerIsRecent'
<1>1. frames # <<>> /\ frames' # <<>>
  BY DEF SameOperation, SameBatch
<1>2. /\ inner.nonce = nonce /\ inner.handled = handled /\ inner.billed = billed
      /\ inner.granted = granted /\ inner.refilled = refilled
      /\ Top.inner.code = code
  BY <1>1 DEF InnerIsRecent
<1>3. UNCHANGED <<nonce, handled, billed, granted, refilled, code>>
  BY <1>2
<1>4. Proceeds
  BY <1>3, ExecutionProceeds
<1> QED
  BY <1>1, <1>2, <1>3, <1>4 DEF InnerIsRecent

LEMMA CallReturnsProceeds ==
    ASSUME PGInv, PGInv', InnerIsRecent, NEW success, NEW used,
           PGCallReturns(success, used)
    PROVE  Proceeds /\ InnerIsRecent'
<1>1. /\ SameOperation /\ Top.phase \in InnerPhase /\ Top'.phase \in InnerPhase
      /\ Top'.inner = Top.inner
  BY CallReturnsTop DEF PGInv, PGCallReturns, InnerPhase
<1>2. code' \in {code, Top.inner.code}
  BY DEF PGCallReturns, CallReturns, worldVars, Restore
<1>3. nonce' = nonce
  BY CallReturnsTyped
<1>4. UNCHANGED <<handled, billed, granted, refilled, saved, inner>>
  BY DEF PGCallReturns, history, txVars
<1> QED
  BY <1>1, <1>2, <1>3, <1>4, InsideProceeds

LEMMA PostOpProceeds ==
    ASSUME PGInv, PGInv', InnerIsRecent, NEW used, postOp(used)
    PROVE  Proceeds /\ InnerIsRecent'
<1>1. /\ SameOperation /\ Top.phase \in InnerPhase /\ Top'.phase \in InnerPhase
      /\ Top'.inner = Top.inner
  BY PostOpTop DEF PGInv, postOp, InnerPhase
<1>2. code' = code
  BY DEF postOp, PostOpReturns, worldVars
<1>3. UNCHANGED <<nonce, handled, billed, granted, refilled, saved, inner>>
  BY PostOpMoves DEF history
<1> QED
  BY <1>1, <1>2, <1>3, InsideProceeds

LEMMA RevertsProceeds ==
    ASSUME PGInv, PGInv', InnerIsRecent, NEW used, NEW over, PGInnerReverts(used, over)
    PROVE  Proceeds /\ InnerIsRecent'
<1>1. /\ SameOperation /\ Top.phase \in InnerPhase /\ Top'.phase \in InnerPhase
      /\ Top'.inner = Top.inner
  BY RevertsTop DEF PGInv, PGInnerReverts, InnerPhase
<1>2. /\ code' = Top.inner.code
      /\ nonce' = inner.nonce /\ handled' = inner.handled /\ billed' = inner.billed
      /\ granted' = inner.granted /\ refilled' = inner.refilled
      /\ saved' = saved /\ inner' = inner
  BY DEF PGInnerReverts, InnerReverts, Restore, UndoOperation, RestoreApp, txVars
<1> QED
  BY <1>1, <1>2, InsideProceeds

LEMMA SettleCharges ==
    ASSUME PGInv, PGInv', PGSettle
    PROVE  ChargesOne /\ InnerIsRecent'
<1>1. /\ SameBatch /\ Top'.ops = Top.ops /\ frames # <<>> /\ frames' # <<>>
      /\ Top.phase = "settle" /\ Top.i \in 1 .. Len(Top.ops)
      /\ \/ /\ Top.i = Len(Top.ops)
            /\ Top'.i = Top.i /\ Top'.phase = "compensate"
         \/ /\ Top.i # Len(Top.ops)
            /\ Top'.i = Top.i + 1 /\ Top'.phase = "execute"
  BY SettleTop DEF PGInv, PGSettle, SameBatch
<1>2. /\ nonce' = nonce /\ code' = code /\ saved' = saved
      /\ handled' = [handled EXCEPT ![TopOp] = @ + 1]
  BY DEF PGSettle, Settle, walletVars, txVars
<1>3. Flying = Top.i .. Len(Top.ops) /\ Claimed = Flying /\ Len(Top.ops) \in Nat
  BY <1>1, FlyingNow DEF FlyingFacts, InnerPhase
<1>4. Flying' = Top.i + 1 .. Len(Top.ops) /\ Claimed' = Flying'
  <2>1. CASE Top.i = Len(Top.ops)
    <3>1. Flying' = {} /\ Claimed' = Flying'
      BY <1>1, <2>1, FlyingNext DEF FlyingFacts
    <3> QED
      BY <1>1, <1>3, <2>1, <3>1
  <2>2. CASE Top.i # Len(Top.ops)
    BY <1>1, <2>2, FlyingNext DEF FlyingFacts
  <2> QED
    BY <2>1, <2>2
<1>5. /\ Top.i \in Top.i .. Len(Top.ops)
      /\ Top.i + 1 .. Len(Top.ops) = (Top.i .. Len(Top.ops)) \ {Top.i}
  BY <1>1, <1>3
<1>6. Top'.phase \notin InnerPhase
  BY <1>1 DEF InnerPhase
<1> QED
  BY <1>1, <1>2, <1>3, <1>4, <1>5, <1>6 DEF ChargesOne, InnerIsRecent

LEMMA CompensateEnds ==
    ASSUME PGInv, PGCompensate
    PROVE  Ends /\ InnerIsRecent'
<1>1. frames # <<>> /\ Top.phase = "compensate"
  BY DEF PGCompensate, _compensate, InPhase
<1>2. Flying = {}
  BY <1>1, FlyingNow DEF FlyingFacts
<1>3. UNCHANGED <<nonce, handled, code>>
  BY DEF PGCompensate, _compensate, appVars, walletVars, history
<1> QED
  BY <1>1, <1>2, <1>3, CompensateTyped DEF Ends, InnerIsRecent

LEMMA HandleOpsRevertsGoesBack ==
    ASSUME PGInv, PGHandleOpsReverts
    PROVE  GoesBack /\ InnerIsRecent'
BY HandleOpsRevertsTyped
DEF GoesBack, InnerIsRecent, PGHandleOpsReverts, HandleOpsReverts, Restore, RestoreApp

LEMMA IdleRests ==
    ASSUME PGInv, PGIdleStep
    PROVE  Rests /\ InnerIsRecent'
<1>1. frames = <<>> /\ frames' = <<>> /\ code' = code
  <2>1. Idle
    BY IdleStepsTyped DEF PGIdleStep
  <2> QED
    BY <2>1 DEF Idle
<1>2. nonce' = nonce /\ handled' = handled
  <2>1. ASSUME NEW a \in Wallet, setUpForAccount(a) \/ exec(a)
        PROVE  nonce' = nonce /\ handled' = handled
    BY <2>1, WalletActsTyped DEF setUpForAccount, exec, walletVars, history, PGInv, PGTyped
  <2>2. ASSUME NEW a \in Wallet, NEW v \in Amount,
               \/ addDeposit(a, v)
               \/ withdrawDepositTo(a, v)
               \/ addDepositFor(a, v)
               \/ addNativeDepositFor(a, v)
        PROVE  nonce' = nonce /\ handled' = handled
    BY <2>2 DEF addDeposit, withdrawDepositTo, addDepositFor, addNativeDepositFor,
                NP!addDepositFor, appVars, walletVars, history
  <2>3. ASSUME NEW v \in Amount, depositToEP(v) \/ withdrawBalance(v)
        PROVE  nonce' = nonce /\ handled' = handled
    BY <2>3 DEF depositToEP, withdrawBalance, NP!depositToEP, NP!withdrawBalance, history
  <2>4. ASSUME NEW r \in Ratios, setMaskToMaticRatio(r)
        PROVE  nonce' = nonce /\ handled' = handled
    BY <2>4 DEF setMaskToMaticRatio, walletVars, history
  <2>5. ASSUME NEW a \in Blockable, addBlockList(a)
        PROVE  nonce' = nonce /\ handled' = handled
    BY <2>5 DEF addBlockList, walletVars, history
  <2>6. ASSUME NEW v \in Spendings, withdraw(v)
        PROVE  nonce' = nonce /\ handled' = handled
    BY <2>6 DEF withdraw, walletVars, history
  <2> QED
    BY <2>1, <2>2, <2>3, <2>4, <2>5, <2>6 DEF PGIdleStep
<1> QED
  BY <1>1, <1>2 DEF Rests, InnerIsRecent

LEMMA DeployRests ==
    ASSUME PGInv, NEW a \in Wallet, PGDeploy(a)
    PROVE  Rests /\ InnerIsRecent'
<1>1. frames = <<>> /\ frames' = <<>>
  BY DeployTyped
<1>2. nonce' = nonce
  BY ConstructorTyped DEF PGDeploy, PGInv, PGTyped
<1>3. handled' = handled /\ code \subseteq code'
  BY DEF PGDeploy, deploy, history
<1> QED
  BY <1>1, <1>2, <1>3 DEF Rests, InnerIsRecent

LEMMA StutterRests ==
    ASSUME InnerIsRecent, UNCHANGED pgVars
    PROVE  (Rests \/ Proceeds) /\ InnerIsRecent'
<1>1. UNCHANGED <<frames, code, nonce, handled, billed, granted, refilled,
                  validated, saved, inner>>
  BY DEF pgVars, vars, appVars, walletVars, history, txVars
<1>2. Top' = Top
  BY <1>1 DEF Top
<1>3. Flying' = Flying /\ Claimed' = Claimed
  BY <1>1, <1>2 DEF Flying, Claimed, FlyingIn, ClaimedIn, Held
<1>4. InnerIsRecent'
  BY <1>1, <1>2 DEF InnerIsRecent
<1> QED
  BY <1>1, <1>2, <1>3, <1>4 DEF Rests, Proceeds, SameBatch

\* Every step is of one of these kinds.
LEMMA EveryStepIsOfAKind ==
    ASSUME PGInv, PGInv', InnerIsRecent, [PGNext]_pgVars
    PROVE  /\ \/ Rests \/ Begins \/ Creates \/ UsesNonce \/ Proceeds
              \/ ChargesOne \/ Ends \/ GoesBack
           /\ InnerIsRecent'
<1>1. CASE \E ops \in Batches, fee \in BaseFees : PGHandleOps(ops, fee)
  BY <1>1, StartBegins
<1>2. CASE PGHandleOpsStep
  <2>1. CASE PGCallValidateUserOp
    BY <2>1, CallValidateCreates
  <2>2. CASE WalletValidates
    BY <2>2, WalletUsesNonce
  <2>3. CASE \E used \in GasUsed, over \in Overhead : PGValidationEnds(used, over)
    BY <2>3, ValidatedProceeds
  <2>4. CASE \E over \in Overhead : PGInnerHandleOp(over)
    BY <2>4, InnerProceeds
  <2>5. CASE \E success \in BOOLEAN, used \in GasUsed : PGCallReturns(success, used)
    BY <2>5, CallReturnsProceeds
  <2>6. CASE \E used \in GasUsed : postOp(used)
    BY <2>6, PostOpProceeds
  <2>7. CASE \E used \in GasUsed, over \in Overhead : PGInnerReverts(used, over)
    BY <2>7, RevertsProceeds
  <2>8. CASE PGSettle
    BY <2>8, SettleCharges
  <2>9. CASE PGCompensate
    BY <2>9, CompensateEnds
  <2>10. CASE PGHandleOpsReverts
    BY <2>10, HandleOpsRevertsGoesBack
  <2> QED
    BY <1>2, <2>1, <2>2, <2>3, <2>4, <2>5, <2>6, <2>7, <2>8, <2>9, <2>10
    DEF PGHandleOpsStep
<1>3. CASE \E a \in Wallet : PGDeploy(a)
  BY <1>3, DeployRests
<1>4. CASE PGIdleStep
  BY <1>4, IdleRests
<1>5. CASE UNCHANGED pgVars
  BY <1>5, StutterRests
<1> QED
  BY <1>1, <1>2, <1>3, <1>4, <1>5, KindsOfSteps

(***************************************************************************)
(* The nonces count.  The operations in flight that use a nonce stand for  *)
(* the difference between a wallet's nonce and its charged operations; the *)
(* nonces of before the batch, which a revert brings back, count those     *)
(* charged then.                                                           *)
(***************************************************************************)

\* The operations that use a nonce of wallet a, and those in flight.
UsersOf(a)  == {op \in Operation : op.sender = a /\ ~op.initCode}
FlyingOf(a) == {j \in Flying : Top.ops[j] \in UsersOf(a)}

NonceInv ==
    /\ \A a \in Wallet :
          nonce[a] = Cardinality(FlyingOf(a)) + SumOf(handled, UsersOf(a))
    /\ frames # <<>> =>
          \A a \in Wallet : saved.nonce[a] = SumOf(saved.handled, UsersOf(a))

\* A sum of the values of a function.
LEMMA SumIsSumOf ==
    ASSUME NEW S, IsFiniteSet(S), NEW f
    PROVE  MapThenSumSet(LAMBDA x : f[x], S) = SumOf(f, S)
<1> DEFINE Eq(g) == g = [s \in SUBSET S |->
                           IF s = {} THEN 0
                           ELSE f[CHOOSE x \in s : TRUE] + g[s \ {CHOOSE x \in s : TRUE}]]
           h == CHOOSE g : Eq(g)
<1>1. \A g : Eq(g) <=> IsTable(g, f, S)
  BY PickIn DEF IsTable, SumStep, Pick
<1>2. MapThenSumSet(LAMBDA x : f[x], S) = h[S]
  BY DEF MapThenSumSet, MapThenFoldSet
<1> HIDE DEF Eq
<1>3. Eq(h)
  BY <1>1, TableExists
<1> HIDE DEF h
<1>4. h[S] = SumOf(f, S)
  BY <1>1, <1>3, SumIsInTable
<1> QED
  BY <1>2, <1>4

LEMMA UsersAreFinite ==
    ASSUME NEW a
    PROVE  IsFiniteSet(UsersOf(a)) /\ UsersOf(a) \subseteq Operation
BY FS_Subset, PayGasXAssumption DEF UsersOf

\* The operations in flight are finitely many, and in the batch.
LEMMA FlyingIsFinite ==
    ASSUME PGInv
    PROVE  /\ IsFiniteSet(Flying)
           /\ frames # <<>> => Flying \subseteq 1 .. Len(Top.ops)
           /\ \A a : IsFiniteSet(FlyingOf(a)) /\ FlyingOf(a) \subseteq Flying
<1>1. IsFiniteSet(Flying) /\ (frames # <<>> => Flying \subseteq 1 .. Len(Top.ops))
  <2>1. CASE frames = <<>>
    BY <2>1, FS_EmptySet DEF Flying
  <2>2. CASE frames # <<>>
    <3>1. Flying \subseteq 1 .. Len(Top.ops) /\ Len(Top.ops) \in Nat
      BY <2>2, FlyingNow DEF FlyingFacts
    <3>2. IsFiniteSet(1 .. Len(Top.ops))
      BY <3>1, FS_Interval
    <3> QED
      BY <3>1, <3>2, FS_Subset
  <2> QED
    BY <2>1, <2>2
<1> QED
  BY <1>1, FS_Subset DEF FlyingOf

LEMMA InFlightIsFlying ==
    ASSUME PGInv, NEW a \in Wallet
    PROVE  InFlight(a) = Cardinality(FlyingOf(a))
<1>1. CASE frames = <<>>
  BY <1>1, FS_EmptySet DEF InFlight, FlyingOf, Flying
<1>2. CASE frames # <<>>
  <2> DEFINE held == {j \in Held(Top) : Top.ops[j].sender = a /\ ~Top.ops[j].initCode}
             mine == TopOp.sender = a /\ ~TopOp.initCode
  <2>1. Held(Top) \subseteq Flying /\ Flying \subseteq 1 .. Len(Top.ops)
    BY <1>2, FlyingIsFinite DEF Flying, FlyingIn
  <2>2. FlyingOf(a) = {j \in Flying : Top.ops[j].sender = a /\ ~Top.ops[j].initCode}
    BY <1>2, <2>1, OperationIn DEF FlyingOf, UsersOf, PGInv
  <2>3. IsFiniteSet(held) /\ Cardinality(held) \in Nat
    <3>1. held \subseteq Flying
      BY <2>1
    <3> HIDE DEF held
    <3> QED
      BY <3>1, FlyingIsFinite, FS_Subset, FS_CardinalityType
  <2>4. InFlight(a) = Cardinality(held) + (IF validated /\ mine THEN 1 ELSE 0)
    BY <1>2 DEF InFlight
  <2>5. Flying = Held(Top) \cup (IF validated THEN {Top.i} ELSE {})
    BY <1>2 DEF Flying, FlyingIn
  <2>6. validated => Top.i \notin Held(Top)
    <3>1. SUFFICES ASSUME validated PROVE Top.i \notin Held(Top)
      OBVIOUS
    <3>2. Top.phase = "validateUserOp" /\ GoodFrame(Top) /\ Top \in Frame
      BY <1>2, <3>1, TopFrame DEF PGInv, PGTyped
    <3>3. Held(Top) = 1 .. Top.i - 1 /\ Top.i \in Nat
      BY <3>2 DEF Held, GoodFrame
    <3> QED
      BY <3>3
  <2>7. CASE validated /\ mine
    <3>1. FlyingOf(a) = held \cup {Top.i} /\ Top.i \notin held
      BY <2>2, <2>5, <2>6, <2>7 DEF TopOp
    <3> HIDE DEF held, mine
    <3> QED
      BY <2>3, <2>4, <2>7, <3>1, FS_AddElement
  <2>8. CASE ~(validated /\ mine)
    <3>1. FlyingOf(a) = held
      BY <2>2, <2>5, <2>8 DEF TopOp
    <3> HIDE DEF held, mine
    <3> QED
      BY <2>3, <2>4, <2>8, <3>1
  <2> QED
    BY <2>7, <2>8
<1> QED
  BY <1>1, <1>2

\* One operation more, or one less, is in flight.
LEMMA FlyingMore ==
    ASSUME PGInv, SameBatch, NEW i, i \notin Flying, Flying' = Flying \cup {i}, NEW a
    PROVE  Cardinality(FlyingOf(a))' =
              Cardinality(FlyingOf(a)) + (IF Top.ops[i] \in UsersOf(a) THEN 1 ELSE 0)
<1>1. UsersOf(a)' = UsersOf(a) /\ Top'.ops = Top.ops
  BY DEF UsersOf, SameBatch
<1>2. IsFiniteSet(FlyingOf(a)) /\ Cardinality(FlyingOf(a)) \in Nat /\ i \notin FlyingOf(a)
  BY FlyingIsFinite, FS_CardinalityType
<1>3. CASE Top.ops[i] \in UsersOf(a)
  <2>1. FlyingOf(a)' = FlyingOf(a) \cup {i}
    BY <1>1, <1>3 DEF FlyingOf
  <2> QED
    BY <1>2, <1>3, <2>1, FS_AddElement
<1>4. CASE Top.ops[i] \notin UsersOf(a)
  <2>1. FlyingOf(a)' = FlyingOf(a)
    BY <1>1, <1>4 DEF FlyingOf
  <2> QED
    BY <1>2, <1>4, <2>1
<1> QED
  BY <1>3, <1>4

LEMMA FlyingLess ==
    ASSUME PGInv, SameBatch, NEW i, i \in Flying, Flying' = Flying \ {i}, NEW a
    PROVE  Cardinality(FlyingOf(a)) =
              Cardinality(FlyingOf(a))' + (IF Top.ops[i] \in UsersOf(a) THEN 1 ELSE 0)
<1>1. UsersOf(a)' = UsersOf(a) /\ Top'.ops = Top.ops
  BY DEF UsersOf, SameBatch
<1>2. IsFiniteSet(FlyingOf(a)) /\ Cardinality(FlyingOf(a)) \in Nat
  BY FlyingIsFinite, FS_CardinalityType
<1>3. CASE Top.ops[i] \in UsersOf(a)
  <2>1. FlyingOf(a)' = FlyingOf(a) \ {i} /\ i \in FlyingOf(a)
    BY <1>1, <1>3 DEF FlyingOf
  <2>2. Cardinality(FlyingOf(a) \ {i}) = Cardinality(FlyingOf(a)) - 1
    BY <1>2, <2>1, FS_RemoveElement
  <2> QED
    BY <1>2, <1>3, <2>1, <2>2
<1>4. CASE Top.ops[i] \notin UsersOf(a)
  <2>1. FlyingOf(a)' = FlyingOf(a)
    BY <1>1, <1>4 DEF FlyingOf
  <2> QED
    BY <1>2, <1>4, <2>1
<1> QED
  BY <1>3, <1>4

\* A charge adds to the charges of its wallet.
LEMMA ChargeCounts ==
    ASSUME NEW h \in [Operation -> Nat], NEW op \in Operation, NEW a
    PROVE  SumOf([h EXCEPT ![op] = @ + 1], UsersOf(a)) =
              SumOf(h, UsersOf(a)) + (IF op \in UsersOf(a) THEN 1 ELSE 0)
<1> DEFINE e == [h EXCEPT ![op] = @ + 1]
<1>1. IsFiniteSet(UsersOf(a)) /\ UsersOf(a) \subseteq Operation
  BY UsersAreFinite
<1>2. \A x \in UsersOf(a) : h[x] \in Int /\ e[x] \in Int
  BY <1>1
<1>3. e[op] = h[op] + 1 /\ h[op] \in Int /\ e[op] \in Int
  OBVIOUS
<1>4. \A x \in UsersOf(a) \ {op} : e[x] = h[x]
  BY <1>1
<1>5. SumOf(h, UsersOf(a)) \in Int
  BY <1>1, <1>2, SumTakesAny
<1> HIDE DEF e
<1>6. CASE op \in UsersOf(a)
  <2>1. SumOf(e, UsersOf(a)) = SumOf(h, UsersOf(a)) - h[op] + e[op]
    BY <1>1, <1>2, <1>4, <1>6, SumChange
  <2> QED
    BY <1>3, <1>5, <1>6, <2>1 DEF e
<1>7. CASE op \notin UsersOf(a)
  <2>1. SumOf(e, UsersOf(a)) = SumOf(h, UsersOf(a))
    BY <1>1, <1>4, <1>7, SumSame
  <2> QED
    BY <1>5, <1>7, <2>1 DEF e
<1> QED
  BY <1>6, <1>7

LEMMA NonceStep ==
    ASSUME PGInv, PGInv', NonceInv,
           \/ Rests \/ Begins \/ Creates \/ UsesNonce \/ Proceeds
           \/ ChargesOne \/ Ends \/ GoesBack
    PROVE  NonceInv'
<1> DEFINE Before == frames # <<>> =>
               \A a \in Wallet : saved.nonce[a] = SumOf(saved.handled, UsersOf(a))
           Count(n, c, h) == \A a \in Wallet : n[a] = c[a] + SumOf(h, UsersOf(a))
           flying  == [a \in Wallet |-> Cardinality(FlyingOf(a))]
           flying2 == [a \in Wallet |-> Cardinality(FlyingOf(a))']
<1>1. Before /\ Count(nonce, flying, handled)
  BY DEF NonceInv
<1>2. ASSUME Before', Count(nonce', flying2, handled')
      PROVE  NonceInv'
  BY <1>2 DEF NonceInv, UsersOf
<1>3. /\ nonce \in [Wallet -> Nat] /\ handled \in [Operation -> Nat]
      /\ \A a \in Wallet : /\ SumOf(handled, UsersOf(a)) \in Int
                           /\ flying[a] \in Nat
  <2>1. nonce \in [Wallet -> Nat] /\ handled \in [Operation -> Nat]
    BY AppIsTyped DEF PGInv, PGTyped
  <2>2. ASSUME NEW a \in Wallet
        PROVE  SumOf(handled, UsersOf(a)) \in Int /\ flying[a] \in Nat
    <3>1. IsFiniteSet(UsersOf(a)) /\ \A x \in UsersOf(a) : handled[x] \in Int
      BY <2>1, UsersAreFinite
    <3>2. SumOf(handled, UsersOf(a)) \in Int
      BY <3>1, SumTakesAny
    <3>3. Cardinality(FlyingOf(a)) \in Nat
      BY FlyingIsFinite, FS_CardinalityType
    <3> QED
      BY <3>2, <3>3
  <2> QED
    BY <2>1, <2>2
<1>4. ASSUME frames = <<>> PROVE flying = [a \in Wallet |-> 0]
  BY <1>4, FS_EmptySet DEF FlyingOf, Flying
<1>5. ASSUME frames' = <<>> PROVE flying2 = [a \in Wallet |-> 0]
  BY <1>5, FS_EmptySet DEF FlyingOf, Flying
<1>6. ASSUME SameBatch, Flying' = Flying PROVE flying2 = flying
  BY <1>6 DEF FlyingOf, UsersOf, SameBatch
<1>7. CASE Rests
  BY <1>1, <1>2, <1>4, <1>5, <1>7 DEF Rests
<1>8. CASE Begins
  <2>1. flying2 = [a \in Wallet |-> 0]
    BY <1>8, FS_EmptySet DEF Begins, FlyingOf
  <2>2. saved'.nonce = nonce /\ saved'.handled = handled
    BY <1>8 DEF Begins, App
  <2>3. \A a \in Wallet : nonce[a] = SumOf(handled, UsersOf(a))
    <3>1. flying = [a \in Wallet |-> 0]
      BY <1>4, <1>8 DEF Begins
    <3> HIDE DEF flying
    <3> QED
      BY <1>1, <1>3, <3>1
  <2>4. Before'
    BY <2>2, <2>3 DEF UsersOf
  <2>5. Count(nonce', flying2, handled')
    <3> HIDE DEF flying, flying2
    <3> QED
      BY <1>3, <1>8, <2>1, <2>3 DEF Begins
  <2> QED
    BY <1>2, <2>4, <2>5
<1>9. CASE Creates
  <2>1. flying2 = flying
    BY <1>6, <1>9 DEF Creates
  <2>2. Before'
    BY <1>1, <1>9 DEF Creates, SameBatch, UsersOf
  <2>3. Count(nonce', flying2, handled')
    <3> HIDE DEF flying, flying2
    <3> QED
      BY <1>1, <1>9, <2>1 DEF Creates
  <2> QED
    BY <1>2, <2>2, <2>3
<1>10. CASE UsesNonce
  <2>1. \A a \in Wallet :
           flying2[a] = flying[a] + (IF TopOp \in UsersOf(a) THEN 1 ELSE 0)
    BY <1>10, FlyingMore DEF UsesNonce, TopOp
  <2>2. Before'
    BY <1>1, <1>10 DEF UsesNonce, SameBatch, UsersOf
  <2>3. TopOp \in Operation /\ TopOp.sender \in Wallet
    BY <1>10, OperationIn DEF UsesNonce, SameBatch, TopOp, PGInv
  <2>4. Count(nonce', flying2, handled')
    <3> HIDE DEF flying, flying2
    <3>1. CASE TopOp.initCode
      <4>1. nonce' = nonce /\ handled' = handled /\ \A a \in Wallet : TopOp \notin UsersOf(a)
        BY <1>10, <3>1 DEF UsesNonce, UsersOf
      <4>2. \A a \in Wallet : flying2[a] = flying[a]
        BY <1>3, <2>1, <4>1
      <4> QED
        BY <1>1, <4>1, <4>2
    <3>2. CASE ~TopOp.initCode
      <4>1. /\ nonce' = [nonce EXCEPT ![TopOp.sender] = @ + 1] /\ handled' = handled
            /\ \A a \in Wallet : TopOp \in UsersOf(a) <=> a = TopOp.sender
        BY <1>10, <2>3, <3>2 DEF UsesNonce, UsersOf
      <4>2. SUFFICES ASSUME NEW a \in Wallet
                     PROVE  nonce'[a] = flying2[a] + SumOf(handled', UsersOf(a))
        OBVIOUS
      <4>3. CASE a = TopOp.sender
        <5>1. flying2[a] = flying[a] + 1 /\ nonce'[a] = nonce[a] + 1
          BY <1>3, <2>1, <4>1, <4>3
        <5>2. nonce[a] = flying[a] + SumOf(handled, UsersOf(a))
          BY <1>1
        <5>3. flying[a] \in Int /\ SumOf(handled, UsersOf(a)) \in Int
          BY <1>3
        <5> QED
          BY <4>1, <5>1, <5>2, <5>3
      <4>4. CASE a # TopOp.sender
        BY <1>1, <1>3, <2>1, <4>1, <4>4
      <4> QED
        BY <4>3, <4>4
    <3> QED
      BY <3>1, <3>2
  <2> QED
    BY <1>2, <2>2, <2>4
<1>11. CASE Proceeds
  <2>1. flying2 = flying
    BY <1>6, <1>11 DEF Proceeds
  <2>2. Before'
    BY <1>1, <1>11 DEF Proceeds, SameBatch, UsersOf
  <2>3. Count(nonce', flying2, handled')
    <3> HIDE DEF flying, flying2
    <3> QED
      BY <1>1, <1>11, <2>1 DEF Proceeds
  <2> QED
    BY <1>2, <2>2, <2>3
<1>12. CASE ChargesOne
  <2>1. \A a \in Wallet :
           flying[a] = flying2[a] + (IF TopOp \in UsersOf(a) THEN 1 ELSE 0)
    BY <1>12, FlyingLess DEF ChargesOne, TopOp
  <2>2. Before'
    BY <1>1, <1>12 DEF ChargesOne, SameBatch, UsersOf
  <2>3. TopOp \in Operation
    <3>1. Top.i \in 1 .. Len(Top.ops) /\ frames # <<>>
      BY <1>12, FlyingIsFinite DEF ChargesOne, SameBatch
    <3> QED
      BY <3>1, OperationIn DEF TopOp, PGInv
  <2>4. \A a \in Wallet : SumOf(handled', UsersOf(a)) =
           SumOf(handled, UsersOf(a)) + (IF TopOp \in UsersOf(a) THEN 1 ELSE 0)
    BY <1>3, <1>12, <2>3, ChargeCounts DEF ChargesOne
  <2>5. \A a \in Wallet : flying2[a] \in Nat
    <3>1. \A a : IsFiniteSet(FlyingOf(a)) /\ IsFiniteSet(FlyingOf(a))'
      <4>1. \A a : IsFiniteSet(FlyingOf(a))
        BY FlyingIsFinite
      <4>2. \A a : FlyingOf(a)' \subseteq FlyingOf(a)
        BY <1>12 DEF ChargesOne, SameBatch, FlyingOf, UsersOf
      <4> QED
        BY <4>1, <4>2, FS_Subset
    <3> QED
      BY <3>1, FS_CardinalityType
  <2>6. Count(nonce', flying2, handled')
    <3> HIDE DEF flying, flying2
    <3> QED
      <4> SUFFICES ASSUME NEW a \in Wallet
                   PROVE  nonce'[a] = flying2[a] + SumOf(handled', UsersOf(a))
        OBVIOUS
      <4>1. nonce'[a] = flying[a] + SumOf(handled, UsersOf(a))
        BY <1>1, <1>12 DEF ChargesOne
      <4>2. /\ flying[a] = flying2[a] + (IF TopOp \in UsersOf(a) THEN 1 ELSE 0)
            /\ SumOf(handled', UsersOf(a)) =
                  SumOf(handled, UsersOf(a)) + (IF TopOp \in UsersOf(a) THEN 1 ELSE 0)
            /\ flying2[a] \in Int /\ SumOf(handled, UsersOf(a)) \in Int
        BY <1>3, <2>1, <2>4, <2>5
      <4>3. CASE TopOp \in UsersOf(a)
        BY <4>1, <4>2, <4>3
      <4>4. CASE TopOp \notin UsersOf(a)
        BY <4>1, <4>2, <4>4
      <4> QED
        BY <4>3, <4>4
  <2> QED
    BY <1>2, <2>2, <2>6
<1>13. CASE Ends
  <2>1. flying2 = [a \in Wallet |-> 0]
    BY <1>5, <1>13 DEF Ends
  <2>2. flying = [a \in Wallet |-> 0]
    BY <1>13, FS_EmptySet DEF Ends, FlyingOf
  <2>3. Before'
    BY <1>13 DEF Ends
  <2>4. Count(nonce', flying2, handled')
    <3> HIDE DEF flying, flying2
    <3> QED
      BY <1>1, <1>13, <2>1, <2>2 DEF Ends
  <2> QED
    BY <1>2, <2>3, <2>4
<1>14. CASE GoesBack
  <2>1. flying2 = [a \in Wallet |-> 0]
    BY <1>5, <1>14 DEF GoesBack
  <2>2. Before'
    BY <1>14 DEF GoesBack
  <2>3. saved.nonce \in [Wallet -> Nat]
    BY DEF PGInv, PGTyped, AppType
  <2>4. ASSUME NEW a \in Wallet
        PROVE  nonce'[a] = 0 + SumOf(handled', UsersOf(a))
    <3>1. nonce'[a] = SumOf(handled', UsersOf(a)) /\ nonce'[a] \in Nat
      BY <1>1, <1>14, <2>3 DEF GoesBack
    <3> QED
      BY <3>1
  <2>5. Count(nonce', flying2, handled')
    <3> HIDE DEF flying, flying2
    <3> QED
      BY <2>1, <2>4
  <2> QED
    BY <1>2, <2>2, <2>5
<1> QED
  BY <1>7, <1>8, <1>9, <1>10, <1>11, <1>12, <1>13, <1>14

LEMMA NoncesAtFirst == PGInit => NonceInv /\ InnerIsRecent
<1> SUFFICES ASSUME PGInit
             PROVE  NonceInv /\ InnerIsRecent
  OBVIOUS
<1>1. frames = <<>> /\ Flying = {}
  BY DEF PGInit, Flying
<1>2. ASSUME NEW a \in Wallet
      PROVE  nonce[a] = Cardinality(FlyingOf(a)) + SumOf(handled, UsersOf(a))
  <2>1. Cardinality(FlyingOf(a)) = 0
    BY <1>1, FS_EmptySet DEF FlyingOf
  <2>2. SumOf(handled, UsersOf(a)) = 0
    <3>1. \A x \in UsersOf(a) : handled[x] = 0
      BY UsersAreFinite DEF PGInit
    <3> QED
      BY <3>1, UsersAreFinite, SumOfZeros
  <2>3. nonce[a] = 0
    BY DEF PGInit
  <2> QED
    BY <2>1, <2>2, <2>3
<1> QED
  BY <1>1, <1>2 DEF NonceInv, InnerIsRecent

LEMMA NoncesStay ==
    PGInv /\ PGInv' /\ InnerIsRecent /\ NonceInv /\ [PGNext]_pgVars
        => InnerIsRecent' /\ NonceInv'
<1> SUFFICES ASSUME PGInv, PGInv', InnerIsRecent, NonceInv, [PGNext]_pgVars
             PROVE  InnerIsRecent' /\ NonceInv'
  OBVIOUS
<1>1. /\ \/ Rests \/ Begins \/ Creates \/ UsesNonce \/ Proceeds
         \/ ChargesOne \/ Ends \/ GoesBack
      /\ InnerIsRecent'
  BY EveryStepIsOfAKind
<1> QED
  BY <1>1, NonceStep

LEMMA AlwaysNonceInv == PGSpec => [](InnerIsRecent /\ NonceInv)
BY NoncesAtFirst, NoncesStay, AlwaysPGInv, PTL DEF PGSpec

\* A wallet's nonce counts the operations it was charged for and those about
\* to be, whatever fails or reverts in the batches (NonceCountsOperations).
THEOREM NoncesCountOperations == PGSpec => []NonceCountsOperations
<1>1. PGInv /\ NonceInv => NonceCountsOperations
  <2> SUFFICES ASSUME PGInv, NonceInv, NEW a \in Wallet
               PROVE  nonce[a] = InFlight(a) +
                         MapThenSumSet(LAMBDA op : handled[op],
                                       {op \in Operation : op.sender = a /\ ~op.initCode})
    BY DEF NonceCountsOperations
  <2>1. InFlight(a) = Cardinality(FlyingOf(a))
    BY InFlightIsFlying
  <2>2. MapThenSumSet(LAMBDA op : handled[op], UsersOf(a)) = SumOf(handled, UsersOf(a))
    BY UsersAreFinite, SumIsSumOf
  <2> QED
    BY <2>1, <2>2 DEF NonceInv, UsersOf
<1> QED
  BY <1>1, AlwaysPGInv, AlwaysNonceInv, PTL

(***************************************************************************)
(* No operation is charged twice.  The nonce of a charged operation, or of *)
(* one in flight, is below its wallet's; the wallet that an operation      *)
(* created exists.  Neither comes back but in a revert, which takes the    *)
(* charges back with it.                                                   *)
(***************************************************************************)

\* What an operation uses can be used once: its nonce, or the creation of its
\* wallet.
SameUse(op1, op2) ==
    /\ op1.sender = op2.sender
    /\ op1.initCode = op2.initCode
    /\ op1.initCode \/ op1.nonce = op2.nonce

Spent(op, n, c) == IF op.initCode THEN op.sender \in c ELSE op.nonce < n[op.sender]

ChargedOnce(h, n, c) ==
    /\ \A op \in Operation : h[op] <= 1 /\ (h[op] # 0 => Spent(op, n, c))
    /\ \A op1, op2 \in Operation :
          op1 # op2 /\ SameUse(op1, op2) => h[op1] = 0 \/ h[op2] = 0

\* The claimed operation j of the batch: what it uses is used, and by none else.
ClaimHolds(j) ==
    /\ Spent(Top.ops[j], nonce, code)
    /\ \A op \in Operation : SameUse(op, Top.ops[j]) => handled[op] = 0
    /\ \A k \in Claimed \ {j} : ~SameUse(Top.ops[j], Top.ops[k])

UseInv ==
    /\ ChargedOnce(handled, nonce, code)
    /\ \A j \in Claimed : ClaimHolds(j)
    /\ frames # <<>> => ChargedOnce(saved.handled, saved.nonce, Top.saved.code)

\* An operation used nothing that was not used before.
LEMMA SameUseSpent ==
    ASSUME NEW op1, NEW op2, SameUse(op1, op2), NEW n, NEW c
    PROVE  /\ Spent(op1, n, c) <=> Spent(op2, n, c)
           /\ SameUse(op2, op1)
           /\ \A op : SameUse(op, op1) <=> SameUse(op, op2)
BY DEF SameUse, Spent

LEMMA SpentStays ==
    ASSUME NEW op \in Operation, NEW n \in [Wallet -> Nat], NEW c, Spent(op, n, c),
           NEW m \in [Wallet -> Nat], NEW d, c \subseteq d, \A a \in Wallet : n[a] <= m[a]
    PROVE  Spent(op, m, d)
<1>1. op.sender \in Wallet
  BY PayGasXAssumption
<1>2. op.nonce \in Nat
  BY OperationIsTyped DEF UO!UserOperationOf
<1>3. n[op.sender] \in Nat /\ m[op.sender] \in Nat /\ n[op.sender] <= m[op.sender]
  BY <1>1
<1> QED
  BY <1>2, <1>3 DEF Spent

LEMMA ChargedOnceStays ==
    ASSUME NEW h, NEW n \in [Wallet -> Nat], NEW c, ChargedOnce(h, n, c),
           NEW m \in [Wallet -> Nat], NEW d, c \subseteq d, \A a \in Wallet : n[a] <= m[a]
    PROVE  ChargedOnce(h, m, d)
BY SpentStays DEF ChargedOnce

LEMMA ClaimedIsIn ==
    ASSUME PGInv, frames # <<>>
    PROVE  /\ Claimed \subseteq 1 .. Len(Top.ops)
           /\ \A j \in Claimed : Top.ops[j] \in Operation
<1>1. Claimed \subseteq 1 .. Len(Top.ops)
  <2>1. /\ Flying \subseteq 1 .. Len(Top.ops) /\ Len(Top.ops) \in Nat
        /\ Top.i \in 1 .. Len(Top.ops)
    BY FlyingNow DEF FlyingFacts
  <2>2. CASE Top.phase = "validateUserOp"
    <3>1. Claimed = IF validated \/ TopOp.initCode THEN 1 .. Top.i ELSE 1 .. Top.i - 1
      BY <2>2, FlyingNow DEF FlyingFacts
    <3> QED
      BY <2>1, <3>1
  <2>3. CASE Top.phase # "validateUserOp"
    BY <2>1, <2>3, FlyingNow DEF FlyingFacts
  <2> QED
    BY <2>2, <2>3
<1> QED
  BY <1>1, OperationIn DEF PGInv

\* The operation that is next uses what none used.
LEMMA NextUseIsFresh ==
    ASSUME PGInv, UseInv, NEW o \in Operation, ~Spent(o, nonce, code)
    PROVE  /\ \A op \in Operation : SameUse(op, o) => handled[op] = 0
           /\ \A k \in Claimed : ~SameUse(o, Top.ops[k]) /\ ~SameUse(Top.ops[k], o)
<1>1. ASSUME NEW op \in Operation, SameUse(op, o)
      PROVE  handled[op] = 0
  <2>1. ~Spent(op, nonce, code)
    BY <1>1, SameUseSpent
  <2> QED
    BY <2>1 DEF UseInv, ChargedOnce
<1>2. ASSUME NEW k \in Claimed
      PROVE  ~SameUse(o, Top.ops[k]) /\ ~SameUse(Top.ops[k], o)
  <2>1. Spent(Top.ops[k], nonce, code)
    BY DEF UseInv, ClaimHolds
  <2> QED
    BY <2>1, SameUseSpent
<1> QED
  BY <1>1, <1>2

\* A further operation of the batch claims its use.
LEMMA ClaimsOneMore ==
    ASSUME PGInv, UseInv, SameBatch, NEW i, i \in 1 .. Len(Top.ops),
           ~Spent(Top.ops[i], nonce, code),
           Claimed' = Claimed \cup {i}, handled' = handled, saved' = saved,
           Spent(Top.ops[i], nonce', code'),
           nonce' \in [Wallet -> Nat],
           code \subseteq code', \A a \in Wallet : nonce[a] <= nonce'[a]
    PROVE  UseInv'
<1>1. Top.ops[i] \in Operation /\ nonce \in [Wallet -> Nat]
  BY OperationIn, AppIsTyped DEF PGInv, PGTyped, SameBatch
<1>2. /\ \A op \in Operation : SameUse(op, Top.ops[i]) => handled[op] = 0
      /\ \A k \in Claimed : /\ ~SameUse(Top.ops[i], Top.ops[k])
                            /\ ~SameUse(Top.ops[k], Top.ops[i])
  BY <1>1, NextUseIsFresh
<1>3. ChargedOnce(handled', nonce', code')
  <2>1. ChargedOnce(handled, nonce, code)
    BY DEF UseInv
  <2>2. ChargedOnce(handled, nonce', code')
    BY <1>1, <2>1, ChargedOnceStays
  <2> QED
    BY <2>2
<1>4. ASSUME NEW j \in Claimed
      PROVE  ClaimHolds(j)'
  <2>1. Top.ops[j] \in Operation
    BY ClaimedIsIn DEF SameBatch
  <2>2. ClaimHolds(j)
    BY DEF UseInv
  <2>3. Spent(Top.ops[j], nonce', code')
    <3>1. Spent(Top.ops[j], nonce, code)
      BY <2>2 DEF ClaimHolds
    <3> QED
      BY <1>1, <2>1, <3>1, SpentStays
  <2>4. \A k \in (Claimed \cup {i}) \ {j} : ~SameUse(Top.ops[j], Top.ops[k])
    BY <1>2, <2>2 DEF ClaimHolds
  <2> QED
    BY <2>2, <2>3, <2>4 DEF ClaimHolds, SameBatch, Spent
<1>5. ClaimHolds(i)'
  BY <1>2 DEF ClaimHolds, SameBatch, Spent
<1>6. ChargedOnce(saved'.handled, saved'.nonce, Top'.saved.code)
  BY DEF UseInv, SameBatch
<1> QED
  BY <1>3, <1>4, <1>5, <1>6 DEF UseInv, ChargedOnce, Spent

LEMMA RestsUse ==
    ASSUME PGInv, PGInv', UseInv, Rests
    PROVE  UseInv'
<1>1. nonce \in [Wallet -> Nat] /\ nonce' = nonce
  BY AppIsTyped DEF PGInv, PGTyped, Rests
<1>2. ChargedOnce(handled, nonce, code')
  <2>1. ChargedOnce(handled, nonce, code)
    BY DEF UseInv
  <2>2. code \subseteq code'
    BY DEF Rests
  <2> QED
    BY <1>1, <2>1, <2>2, ChargedOnceStays
<1>3. Claimed' = {}
  BY DEF Rests, Claimed
<1>4. handled' = handled /\ frames' = <<>>
  BY DEF Rests
<1> QED
  BY <1>1, <1>2, <1>3, <1>4 DEF UseInv, ChargedOnce, Spent

LEMMA BeginsUse ==
    ASSUME UseInv, Begins
    PROVE  UseInv'
<1>1. ChargedOnce(handled, nonce, code)
  BY DEF UseInv
<1>2. /\ Claimed' = {} /\ nonce' = nonce /\ handled' = handled /\ code' = code
      /\ saved'.nonce = nonce /\ saved'.handled = handled /\ Top'.saved.code = code
  BY DEF Begins, App
<1> QED
  BY <1>1, <1>2 DEF UseInv, ChargedOnce, Spent

LEMMA ProceedsUse ==
    ASSUME UseInv, SameBatch, Claimed' = Claimed, UNCHANGED <<nonce, handled, code, saved>>
    PROVE  UseInv'
<1>1. \A j \in Claimed : ClaimHolds(j)'
  BY DEF UseInv, ClaimHolds, Spent, SameBatch
<1>2. ChargedOnce(handled, nonce, code)
  BY DEF UseInv
<1>3. ChargedOnce(saved'.handled, saved'.nonce, Top'.saved.code)
  BY DEF UseInv, SameBatch
<1> QED
  BY <1>1, <1>2, <1>3 DEF UseInv, ChargedOnce, Spent

LEMMA CreatesUse ==
    ASSUME PGInv, PGInv', UseInv, Creates
    PROVE  UseInv'
<1>1. CASE TopOp.initCode
  <2>1. nonce \in [Wallet -> Nat] /\ nonce' = nonce
    BY AppIsTyped DEF PGInv, PGTyped, Creates
  <2>2. /\ ~Spent(Top.ops[Top.i], nonce, code)
        /\ Spent(Top.ops[Top.i], nonce', code')
        /\ code \subseteq code'
    BY <1>1 DEF Creates, Spent, TopOp
  <2>3. \A a \in Wallet : nonce[a] <= nonce'[a]
    BY <2>1
  <2>4. /\ SameBatch /\ Top.i \in 1 .. Len(Top.ops) /\ handled' = handled
        /\ saved' = saved /\ Claimed' = Claimed \cup {Top.i}
    BY <1>1 DEF Creates
  <2> QED
    BY <2>1, <2>2, <2>3, <2>4, ClaimsOneMore
<1>2. CASE ~TopOp.initCode
  BY <1>2, ProceedsUse DEF Creates
<1> QED
  BY <1>1, <1>2

LEMMA UsesNonceUse ==
    ASSUME PGInv, PGInv', UseInv, UsesNonce
    PROVE  UseInv'
<1>1. CASE TopOp.initCode
  BY <1>1, ProceedsUse DEF UsesNonce
<1>2. CASE ~TopOp.initCode
  <2>1. /\ SameBatch /\ Top.i \in 1 .. Len(Top.ops) /\ handled' = handled
        /\ saved' = saved /\ Claimed' = Claimed \cup {Top.i} /\ code' = code
        /\ TopOp.nonce = nonce[TopOp.sender]
        /\ nonce' = [nonce EXCEPT ![TopOp.sender] = @ + 1]
    BY <1>2 DEF UsesNonce
  <2>2. TopOp \in Operation /\ TopOp.sender \in Wallet /\ TopOp = Top.ops[Top.i]
    BY <2>1, OperationIn DEF TopOp, PGInv, SameBatch
  <2>3. nonce \in [Wallet -> Nat] /\ nonce' \in [Wallet -> Nat]
    BY AppIsTyped, AppIsTypedNext DEF PGInv, PGTyped
  <2>4. \A a \in Wallet : nonce[a] <= nonce'[a]
    BY <2>1, <2>3
  <2>5. nonce'[TopOp.sender] = nonce[TopOp.sender] + 1 /\ nonce[TopOp.sender] \in Nat
    BY <2>1, <2>2, <2>3
  <2>6. ~Spent(TopOp, nonce, code) /\ Spent(TopOp, nonce', code')
    BY <1>2, <2>1, <2>5 DEF Spent
  <2> QED
    BY <2>1, <2>2, <2>3, <2>4, <2>6, ClaimsOneMore
<1> QED
  BY <1>1, <1>2

LEMMA ChargesOneUse ==
    ASSUME PGInv, UseInv, ChargesOne
    PROVE  UseInv'
<1>1. /\ SameBatch /\ Top.i \in Claimed /\ Claimed' = Claimed \ {Top.i}
      /\ nonce' = nonce /\ code' = code /\ saved' = saved
      /\ handled' = [handled EXCEPT ![TopOp] = @ + 1]
  BY DEF ChargesOne
<1>2. TopOp \in Operation /\ TopOp = Top.ops[Top.i] /\ ClaimHolds(Top.i)
  BY <1>1, ClaimedIsIn DEF TopOp, SameBatch, UseInv
<1>3. handled \in [Operation -> Nat]
  BY AppIsTyped DEF PGInv, PGTyped
<1>4. /\ handled[TopOp] = 0 /\ handled'[TopOp] = 1
      /\ \A op \in Operation \ {TopOp} : handled'[op] = handled[op]
      /\ \A op \in Operation : SameUse(op, TopOp) => handled[op] = 0
  <2>1. SameUse(TopOp, TopOp)
    BY DEF SameUse
  <2> QED
    BY <1>1, <1>2, <1>3, <2>1 DEF ClaimHolds
<1>5. ChargedOnce(handled', nonce, code)
  <2>1. ChargedOnce(handled, nonce, code) /\ Spent(TopOp, nonce, code)
    BY <1>2 DEF UseInv, ClaimHolds
  <2>2. ASSUME NEW op \in Operation
        PROVE  handled'[op] <= 1 /\ (handled'[op] # 0 => Spent(op, nonce, code))
    BY <1>4, <2>1 DEF ChargedOnce
  <2>3. ASSUME NEW op1 \in Operation, NEW op2 \in Operation, op1 # op2, SameUse(op1, op2)
        PROVE  handled'[op1] = 0 \/ handled'[op2] = 0
    BY <1>4, <2>1, <2>3, SameUseSpent DEF ChargedOnce
  <2> QED
    BY <2>2, <2>3 DEF ChargedOnce
<1>6. ASSUME NEW j \in Claimed \ {Top.i}
      PROVE  ClaimHolds(j)'
  <2>1. ClaimHolds(j) /\ ~SameUse(TopOp, Top.ops[j])
    BY <1>2, <1>1 DEF UseInv, ClaimHolds
  <2>2. \A op \in Operation : SameUse(op, Top.ops[j]) => handled'[op] = 0
    BY <1>4, <2>1 DEF ClaimHolds
  <2> QED
    BY <1>1, <2>1, <2>2 DEF ClaimHolds, SameBatch, Spent
<1>7. ChargedOnce(saved'.handled, saved'.nonce, Top'.saved.code)
  BY <1>1 DEF UseInv, SameBatch
<1> QED
  BY <1>1, <1>5, <1>6, <1>7 DEF UseInv, ChargedOnce, Spent

LEMMA EndsUse ==
    ASSUME UseInv, Ends \/ GoesBack
    PROVE  UseInv'
<1>1. frames' = <<>> /\ Claimed' = {}
  BY DEF Ends, GoesBack, Claimed
<1>2. ChargedOnce(handled', nonce', code')
  BY DEF UseInv, Ends, GoesBack
<1> QED
  BY <1>1, <1>2 DEF UseInv, ChargedOnce, Spent

LEMMA UseAtFirst == PGInit => UseInv
<1> SUFFICES ASSUME PGInit
             PROVE  UseInv
  OBVIOUS
<1>1. frames = <<>> /\ Claimed = {} /\ \A op \in Operation : handled[op] = 0
  BY DEF PGInit, Claimed
<1> QED
  BY <1>1 DEF UseInv, ChargedOnce

LEMMA UseStays ==
    PGInv /\ PGInv' /\ InnerIsRecent /\ UseInv /\ [PGNext]_pgVars => UseInv'
<1> SUFFICES ASSUME PGInv, PGInv', InnerIsRecent, UseInv, [PGNext]_pgVars
             PROVE  UseInv'
  OBVIOUS
<1>1. \/ Rests \/ Begins \/ Creates \/ UsesNonce \/ Proceeds
      \/ ChargesOne \/ Ends \/ GoesBack
  BY EveryStepIsOfAKind
<1>2. CASE Proceeds
  BY <1>2, ProceedsUse DEF Proceeds
<1> QED
  BY <1>1, <1>2, RestsUse, BeginsUse, CreatesUse, UsesNonceUse, ChargesOneUse, EndsUse

\* Two charged operations of a wallet never have the same nonce, none is
\* charged twice, and a wallet is created by one operation only (NoReplay).
THEOREM NoOperationIsReplayed == PGSpec => []NoReplay
<1>1. PGInv /\ UseInv => NoReplay
  <2> SUFFICES ASSUME PGInv, UseInv, NEW op1 \in Operation, NEW op2 \in Operation
               PROVE  /\ handled[op1] <= 1
                      /\ op1 # op2 /\ SameUse(op1, op2) => handled[op1] + handled[op2] <= 1
    BY DEF NoReplay, SameUse
  <2>1. handled[op1] <= 1 /\ handled[op2] <= 1
    BY DEF UseInv, ChargedOnce
  <2>2. op1 # op2 /\ SameUse(op1, op2) => handled[op1] = 0 \/ handled[op2] = 0
    BY DEF UseInv, ChargedOnce
  <2>3. handled[op1] \in Nat /\ handled[op2] \in Nat
    BY AppIsTyped DEF PGInv, PGTyped
  <2> QED
    BY <2>1, <2>2, <2>3
<1> QED
  BY <1>1, UseAtFirst, UseStays, AlwaysPGInv, AlwaysNonceInv, PTL DEF PGSpec

-----------------------------------------------------------------------------
(***************************************************************************)
(* Gas and charges.  The gas an operation has used is bounded by its gas   *)
(* limits and by the gas of the EntryPoint's own code, which is measured   *)
(* up to three times: at the end of the validation, of innerHandleOp, and  *)
(* of a revert.  What the paymaster required, verification gas above its   *)
(* COST_OF_POST, leaves room for these in the third share of verification  *)
(* gas unless it is less than three times that much above.                 *)
(***************************************************************************)

\* The paymaster returns a context, and charges in its postOp.
Sponsored(op) == UO!hasPaymaster(op) /\ ~ByVerifying(op)

CostOfPost(op) == IF ByNative(op) THEN NATIVE_COST_OF_POST ELSE COST_OF_POST

\* M bounds the gas of the EntryPoint's own code, and the sponsored operations
\* leave room for it.
HasRoom(M) ==
    /\ \A over \in Overhead : over <= M
    /\ \A op \in Operation :
          Sponsored(op) /\ op.verificationGas > CostOfPost(op) =>
              op.verificationGas >= CostOfPost(op) + 3 * M

\* What was written down of validated operation j, and what its paymaster
\* required.
InfoOK(j, M) ==
    LET op   == Top.ops[j]
        info == Top.opInfos[j]
    IN  /\ info.prefund = UO!requiredPreFund(op, Top.basefee)
        /\ info.preOpGas <= op.verificationGas + op.preVerificationGas + M
        /\ info.context => /\ Sponsored(op)
                           /\ op.verificationGas > CostOfPost(op)
                           /\ ByNative(op) => contexts[j] = info.prefund

InfosOK(M) == \A j \in 1 .. Len(Top.opInfos) : InfoOK(j, M)

\* The gas used before the call.
BeforeCall(op, M) == op.verificationGas + op.preVerificationGas + 2 * M

GasBounds(M) ==
    /\ Top.phase = "call" => Top.actualGas <= BeforeCall(TopOp, M)
    /\ Top.phase = "postOp" =>
          Top.actualGas <= BeforeCall(TopOp, M) + TopOp.callGas
             + (IF Top.mode = "postOpReverted" THEN TopOp.verificationGas + M ELSE 0)
    /\ Top.phase = "settle" /\ Top.mode # "postOpReverted" =>
          Top.actualGas <= BeforeCall(TopOp, M) + TopOp.callGas + TopOp.verificationGas

GasInv(M) == frames # <<>> => InfosOK(M) /\ GasBounds(M)

\* What was written down stays, as long as the operation does.
LEMMA InfosStay ==
    ASSUME NEW M, InfosOK(M), SameOperation, contexts' = contexts
    PROVE  InfosOK(M)'
BY DEF InfosOK, InfoOK, SameOperation, SameBatch

LEMMA NoGasYet ==
    ASSUME NEW M, Top'.phase \notin InnerPhase
    PROVE  GasBounds(M)'
BY DEF GasBounds, InnerPhase

LEMMA TopOpIsTyped ==
    ASSUME PGInv, frames # <<>>
    PROVE  /\ TopOp \in Operation /\ TopOp.sender \in Wallet
           /\ TopOp.callGas \in Nat /\ TopOp.verificationGas \in Nat
           /\ TopOp.preVerificationGas \in Nat
           /\ Top.basefee \in Nat /\ Top.actualGas \in Nat
<1>1. Top.i \in 1 .. Len(Top.ops) /\ Top \in Frame
  BY TopFrame DEF PGInv
<1>2. TopOp \in Operation /\ TopOp.sender \in Wallet
  BY <1>1, OperationIn DEF TopOp, PGInv
<1>3. TopOp \in UO!UserOperationOf(Nat)
  BY <1>2, OperationIsTyped
<1> QED
  BY <1>1, <1>2, <1>3, EntryPointAssumption DEF UO!UserOperationOf, Frame

\* The last of what is written down is the operation just validated.
LEMMA InfosAppend ==
    ASSUME PGInv, frames # <<>>, NEW info, NEW context,
           Top.i \in Nat \ {0}, Len(Top.opInfos) = Top.i - 1,
           Top'.opInfos = Append(Top.opInfos, info),
           contexts' = Append(contexts, context)
    PROVE  /\ Len(Top'.opInfos) = Top.i
           /\ Top'.opInfos[Top.i] = info /\ contexts'[Top.i] = context
           /\ \A j \in 1 .. Top.i - 1 : /\ Top'.opInfos[j] = Top.opInfos[j]
                                        /\ contexts'[j] = contexts[j]
<1>1. /\ Top.opInfos \in Seq(UserOpInfo) /\ contexts \in Seq(Nat)
      /\ Len(contexts) = Len(Top.opInfos)
  BY TopFrame DEF PGInv, PGTyped, Frame
<1>2. Top.opInfos \in Seq(UserOpInfo \cup {info})
  BY <1>1
<1>3. contexts \in Seq(Nat \cup {context})
  BY <1>1
<1>4. /\ Len(Top'.opInfos) = Top.i /\ Top'.opInfos[Top.i] = info
      /\ \A j \in 1 .. Top.i - 1 : Top'.opInfos[j] = Top.opInfos[j]
  BY <1>2
<1>5. /\ contexts'[Top.i] = context
      /\ \A j \in 1 .. Top.i - 1 : contexts'[j] = contexts[j]
  BY <1>1, <1>3
<1> QED
  BY <1>4, <1>5

LEMMA ValidatedGas ==
    ASSUME NEW M \in Nat, HasRoom(M), PGInv, GasInv(M),
           NEW used \in GasUsed, NEW over \in Overhead, PGValidationEnds(used, over)
    PROVE  GasInv(M)'
<1> DEFINE context == UO!hasPaymaster(TopOp) /\ ~ByVerifying(TopOp)
           prefund == UO!requiredPreFund(TopOp, Top.basefee)
           gas     == used + over + TopOp.preVerificationGas
           info    == [prefund |-> prefund, context |-> context, cost |-> 0,
                       preOpGas |-> gas]
<1>1. /\ ValidationEnds(used, over, context)
      /\ context \in BOOLEAN
      /\ contexts' = Append(contexts, ContextOf(TopOp, Top.basefee))
  BY ValidatedMoves
<1>2. context => TopOp.verificationGas > CostOfPost(TopOp)
  BY DEF PGValidationEnds, NP!validatePaymasterUserOp, DP!validatePaymasterUserOp,
         CostOfPost, ByNative, ByVerifying
<1>3. context => Sponsored(TopOp) /\ (ByNative(TopOp) =>
                                          ContextOf(TopOp, Top.basefee) = prefund)
  BY DEF ContextOf, ByVerifying, ByNative, Sponsored
<1> HIDE DEF context, prefund
<1>4. /\ SameBatch
      /\ Top.i \in 1 .. Len(Top.ops)
      /\ Len(Top.opInfos) = Top.i - 1
      /\ Top'.opInfos = Append(Top.opInfos, info)
      /\ used <= TopOp.verificationGas
      /\ Top'.phase \in {"execute", "validate"}
  BY <1>1, ValidatedTop DEF PGInv, prefund
<1>5. gas <= TopOp.verificationGas + TopOp.preVerificationGas + M
  <2>1. over <= M /\ over \in Nat /\ used \in Nat
    BY EntryPointAssumption DEF HasRoom
  <2> QED
    BY <1>4, <2>1, TopOpIsTyped DEF SameBatch
<1> HIDE DEF gas
<1>6. /\ info.prefund = prefund /\ info.context = context /\ info.preOpGas = gas
  OBVIOUS
<1> HIDE DEF info
<1>7. /\ Len(Top'.opInfos) = Top.i
      /\ Top'.opInfos[Top.i] = info
      /\ contexts'[Top.i] = ContextOf(TopOp, Top.basefee)
      /\ \A j \in 1 .. Top.i - 1 : /\ Top'.opInfos[j] = Top.opInfos[j]
                                   /\ contexts'[j] = contexts[j]
  <2>1. /\ frames # <<>> /\ Top.i \in Nat \ {0}
        /\ Len(Top.opInfos) = Top.i - 1
        /\ Top'.opInfos = Append(Top.opInfos, info)
    BY <1>4 DEF SameBatch
  <2> QED
    BY <1>1, <2>1, InfosAppend
<1>8. InfosOK(M)'
  <2>1. ASSUME NEW j \in 1 .. Top.i - 1
        PROVE  InfoOK(j, M)'
    <3>1. InfoOK(j, M)
      BY <1>4 DEF GasInv, InfosOK, SameBatch
    <3> QED
      BY <1>4, <1>7, <3>1 DEF InfoOK, SameBatch
  <2>2. ASSUME NEW j, j = Top.i
        PROVE  InfoOK(j, M)'
    <3>1. Top'.ops[j] = TopOp /\ Top'.basefee = Top.basefee
      BY <1>4, <2>2 DEF SameBatch, TopOp
    <3>2. Top'.opInfos[j] = info /\ contexts'[j] = ContextOf(TopOp, Top.basefee)
      BY <1>7, <2>2
    <3> QED
      BY <1>2, <1>3, <1>5, <1>6, <3>1, <3>2 DEF InfoOK, prefund
  <2>3. \A j \in 1 .. Top.i : j = Top.i \/ j \in 1 .. Top.i - 1
    BY <1>4
  <2> QED
    BY <1>7, <2>1, <2>2, <2>3 DEF InfosOK
<1>9. GasBounds(M)'
  <2>1. Top'.phase \notin InnerPhase
    BY <1>4 DEF InnerPhase
  <2> QED
    BY <2>1, NoGasYet
<1> QED
  BY <1>8, <1>9 DEF GasInv

\* A step of handleOps up to the execution of an operation uses no gas of it.
LEMMA QuietGas ==
    ASSUME NEW M, GasInv(M), SameOperation, contexts' = contexts,
           Top'.phase \notin InnerPhase
    PROVE  GasInv(M)'
BY InfosStay, NoGasYet DEF GasInv, SameOperation, SameBatch

LEMMA StartGas ==
    ASSUME NEW M, PGInv, NEW ops, NEW fee, PGHandleOps(ops, fee)
    PROVE  GasInv(M)'
<1>1. Top' = NewFrame(ops, fee)
  BY StartTop DEF PGHandleOps, PGInv
<1>2. Top'.opInfos = <<>> /\ Top'.phase \notin InnerPhase
  BY <1>1 DEF NewFrame, InnerPhase
<1> QED
  BY <1>2, NoGasYet DEF GasInv, InfosOK

LEMMA InnerGas ==
    ASSUME NEW M \in Nat, HasRoom(M), PGInv, GasInv(M), NEW over \in Overhead,
           PGInnerHandleOp(over)
    PROVE  GasInv(M)'
<1>1. /\ SameOperation /\ Top.i \in 1 .. Len(Top.ops)
      /\ Len(Top.opInfos) = Len(Top.ops)
      /\ Top'.mode = "opSucceeded"
      /\ Top'.actualGas = TopInfo.preOpGas + over
  BY InnerTop DEF PGInv, PGInnerHandleOp
<1>2. InfosOK(M)'
  BY <1>1, InfosStay DEF PGInnerHandleOp, GasInv, SameOperation, SameBatch
<1>3. frames # <<>> /\ TopOp' = TopOp
  BY <1>1 DEF SameOperation, SameBatch, TopOp
<1>4. TopInfo.preOpGas <= TopOp.verificationGas + TopOp.preVerificationGas + M
  BY <1>1, <1>3 DEF GasInv, InfosOK, InfoOK, TopInfo, TopOp
<1>5. TopInfo.preOpGas \in Nat
  <2>1. Top.opInfos \in Seq(UserOpInfo)
    BY <1>3, TopFrame DEF PGInv, Frame
  <2>2. Top.opInfos[Top.i] \in UserOpInfo
    BY <1>1, <2>1
  <2> QED
    BY <2>2 DEF UserOpInfo, TopInfo
<1>6. over <= M /\ over \in Nat
  BY EntryPointAssumption DEF HasRoom
<1>7. /\ TopOp.callGas \in Nat /\ TopOp.verificationGas \in Nat
      /\ TopOp.preVerificationGas \in Nat
  BY <1>3, TopOpIsTyped
<1>8. Top'.actualGas <= BeforeCall(TopOp, M) /\ Top'.actualGas \in Nat
  BY <1>1, <1>4, <1>5, <1>6, <1>7 DEF BeforeCall
<1>9. BeforeCall(TopOp, M) \in Nat
  BY <1>7 DEF BeforeCall
<1>10. GasBounds(M)'
  <2>1. /\ Top'.actualGas <= BeforeCall(TopOp, M) + TopOp.callGas + 0
        /\ Top'.actualGas <= BeforeCall(TopOp, M) + TopOp.callGas + TopOp.verificationGas
    BY <1>7, <1>8, <1>9
  <2> QED
    BY <1>1, <1>3, <1>8, <2>1 DEF GasBounds, BeforeCall
<1> QED
  BY <1>2, <1>10 DEF GasInv

LEMMA CallReturnsGas ==
    ASSUME NEW M \in Nat, PGInv, GasInv(M), NEW success, NEW used \in GasUsed,
           PGCallReturns(success, used)
    PROVE  GasInv(M)'
<1>1. /\ SameOperation /\ Top.phase = "call"
      /\ Top'.phase \in {"postOp", "settle"}
      /\ Top'.mode # "postOpReverted"
      /\ Top'.actualGas = Top.actualGas + used
      /\ used <= TopOp.callGas
  BY CallReturnsTop DEF PGInv, PGCallReturns
<1>2. InfosOK(M)'
  BY <1>1, InfosStay DEF PGCallReturns, txVars, GasInv, SameOperation, SameBatch
<1>3. frames # <<>> /\ TopOp' = TopOp
  BY <1>1 DEF SameOperation, SameBatch, TopOp
<1>4. /\ TopOp.callGas \in Nat /\ TopOp.verificationGas \in Nat
      /\ TopOp.preVerificationGas \in Nat /\ Top.actualGas \in Nat /\ used \in Nat
  BY <1>3, TopOpIsTyped, EntryPointAssumption
<1>5. Top.actualGas <= BeforeCall(TopOp, M)
  BY <1>1, <1>3 DEF GasInv, GasBounds
<1>6. BeforeCall(TopOp, M) \in Nat
  BY <1>4 DEF BeforeCall
<1>7. /\ Top'.actualGas <= BeforeCall(TopOp, M) + TopOp.callGas + 0
      /\ Top'.actualGas <= BeforeCall(TopOp, M) + TopOp.callGas + TopOp.verificationGas
  BY <1>1, <1>4, <1>5, <1>6
<1>8. GasBounds(M)'
  BY <1>1, <1>3, <1>7 DEF GasBounds, BeforeCall
<1> QED
  BY <1>2, <1>8 DEF GasInv

LEMMA PostOpGas ==
    ASSUME NEW M \in Nat, PGInv, GasInv(M), NEW used \in GasUsed, postOp(used)
    PROVE  GasInv(M)'
<1>1. /\ SameOperation /\ Top.phase = "postOp" /\ Top'.phase = "settle"
      /\ Top'.mode = Top.mode
      /\ Top'.actualGas = Top.actualGas + used
      /\ used <= TopOp.verificationGas
  BY PostOpTop DEF PGInv, postOp
<1>2. InfosOK(M)'
  BY <1>1, InfosStay DEF postOp, GasInv, SameOperation, SameBatch
<1>3. frames # <<>> /\ TopOp' = TopOp
  BY <1>1 DEF SameOperation, SameBatch, TopOp
<1>4. /\ TopOp.callGas \in Nat /\ TopOp.verificationGas \in Nat
      /\ TopOp.preVerificationGas \in Nat /\ Top.actualGas \in Nat /\ used \in Nat
  BY <1>3, TopOpIsTyped, EntryPointAssumption
<1>5. BeforeCall(TopOp, M) \in Nat
  BY <1>4 DEF BeforeCall
<1>6. ASSUME Top.mode # "postOpReverted"
      PROVE  Top'.actualGas <=
                BeforeCall(TopOp, M) + TopOp.callGas + TopOp.verificationGas
  <2>1. Top.actualGas <= BeforeCall(TopOp, M) + TopOp.callGas + 0
    BY <1>1, <1>3, <1>6 DEF GasInv, GasBounds
  <2> QED
    BY <1>1, <1>4, <1>5, <2>1
<1>7. GasBounds(M)'
  BY <1>1, <1>3, <1>6 DEF GasBounds, BeforeCall
<1> QED
  BY <1>2, <1>7 DEF GasInv

LEMMA RevertsGas ==
    ASSUME NEW M \in Nat, HasRoom(M), PGInv, GasInv(M), NEW used \in GasUsed,
           NEW over \in Overhead, PGInnerReverts(used, over)
    PROVE  GasInv(M)'
<1>1. /\ SameOperation /\ Top.phase \in InnerPhase
      /\ Top.mode # "postOpReverted"
      /\ Top'.phase \in {"postOp", "settle"}
      /\ Top'.mode = "postOpReverted"
      /\ Top'.actualGas = Top.actualGas + used + over
      /\ used <= GasLimit
  BY RevertsTop DEF PGInv, PGInnerReverts
<1>2. InfosOK(M)'
  BY <1>1, InfosStay DEF PGInnerReverts, txVars, GasInv, SameOperation, SameBatch
<1>3. frames # <<>> /\ TopOp' = TopOp
  BY <1>1 DEF SameOperation, SameBatch, TopOp
<1>4. /\ TopOp.callGas \in Nat /\ TopOp.verificationGas \in Nat
      /\ TopOp.preVerificationGas \in Nat /\ Top.actualGas \in Nat
      /\ used \in Nat /\ over \in Nat /\ over <= M
  BY <1>3, TopOpIsTyped, EntryPointAssumption DEF HasRoom
<1>5. BeforeCall(TopOp, M) \in Nat
  BY <1>4 DEF BeforeCall
<1>6. Top.actualGas + used <=
         BeforeCall(TopOp, M) + TopOp.callGas + TopOp.verificationGas
  <2>1. CASE Top.phase = "call"
    <3>1. used <= TopOp.callGas /\ Top.actualGas <= BeforeCall(TopOp, M)
      BY <1>1, <1>3, <2>1 DEF GasLimit, GasInv, GasBounds
    <3> QED
      BY <1>4, <1>5, <3>1
  <2>2. CASE Top.phase = "postOp"
    <3>1. /\ used <= TopOp.verificationGas
          /\ Top.actualGas <= BeforeCall(TopOp, M) + TopOp.callGas + 0
      BY <1>1, <1>3, <2>2 DEF GasLimit, GasInv, GasBounds
    <3> QED
      BY <1>4, <1>5, <3>1
  <2>3. CASE Top.phase = "settle"
    <3>1. /\ used <= 0
          /\ Top.actualGas <=
                BeforeCall(TopOp, M) + TopOp.callGas + TopOp.verificationGas
      BY <1>1, <1>3, <2>3 DEF GasLimit, GasInv, GasBounds
    <3> QED
      BY <1>4, <1>5, <3>1
  <2> QED
    BY <1>1, <2>1, <2>2, <2>3 DEF InnerPhase
<1>7. Top'.actualGas <=
         BeforeCall(TopOp, M) + TopOp.callGas + (TopOp.verificationGas + M)
  BY <1>1, <1>4, <1>5, <1>6
<1>8. GasBounds(M)'
  BY <1>1, <1>3, <1>7 DEF GasBounds, BeforeCall
<1> QED
  BY <1>2, <1>8 DEF GasInv

LEMMA SettleGas ==
    ASSUME NEW M, PGInv, GasInv(M), PGSettle
    PROVE  GasInv(M)'
<1>1. /\ SameBatch /\ Len(Top.opInfos) = Len(Top.ops)
      /\ Len(Top'.opInfos) = Len(Top.opInfos)
      /\ \A j \in 1 .. Len(Top.ops) :
            /\ Top'.opInfos[j].prefund = Top.opInfos[j].prefund
            /\ Top'.opInfos[j].context = Top.opInfos[j].context
            /\ Top'.opInfos[j].preOpGas = Top.opInfos[j].preOpGas
      /\ Top'.phase \in {"compensate", "execute"}
  BY SettleTop DEF PGInv, PGSettle
<1>2. contexts' = contexts
  BY DEF PGSettle, txVars
<1>3. InfosOK(M)'
  <2>1. InfosOK(M)
    BY <1>1 DEF GasInv, SameBatch
  <2> QED
    BY <1>1, <1>2, <2>1 DEF InfosOK, InfoOK, SameBatch
<1>4. Top'.phase \notin InnerPhase
  BY <1>1 DEF InnerPhase
<1> QED
  BY <1>3, <1>4, NoGasYet DEF GasInv

LEMMA GasStep ==
    ASSUME NEW M \in Nat, HasRoom(M), PGInv, GasInv(M), [PGNext]_pgVars
    PROVE  GasInv(M)'
<1>1. ASSUME frames' = <<>>
      PROVE  GasInv(M)'
  BY <1>1 DEF GasInv
<1>2. CASE \E ops \in Batches, fee \in BaseFees : PGHandleOps(ops, fee)
  BY <1>2, StartGas
<1>3. CASE PGHandleOpsStep
  <2>1. CASE PGCallValidateUserOp
    <3>1. SameOperation /\ Top'.phase \notin InnerPhase
      BY <2>1, CreateTop DEF PGInv, PGCallValidateUserOp, InnerPhase
    <3> QED
      BY <2>1, <3>1, QuietGas DEF PGCallValidateUserOp, txVars
  <2>2. CASE WalletValidates
    <3>1. SameOperation /\ Top'.phase \notin InnerPhase
      BY <2>2, WalletValidatesMoves DEF InnerPhase
    <3> QED
      BY <2>2, <3>1, QuietGas DEF WalletValidates
  <2>3. CASE \E used \in GasUsed, over \in Overhead : PGValidationEnds(used, over)
    BY <2>3, ValidatedGas
  <2>4. CASE \E over \in Overhead : PGInnerHandleOp(over)
    BY <2>4, InnerGas
  <2>5. CASE \E success \in BOOLEAN, used \in GasUsed : PGCallReturns(success, used)
    BY <2>5, CallReturnsGas
  <2>6. CASE \E used \in GasUsed : postOp(used)
    BY <2>6, PostOpGas
  <2>7. CASE \E used \in GasUsed, over \in Overhead : PGInnerReverts(used, over)
    BY <2>7, RevertsGas
  <2>8. CASE PGSettle
    BY <2>8, SettleGas
  <2>9. CASE PGCompensate
    BY <1>1, <2>9, CompensateTyped
  <2>10. CASE PGHandleOpsReverts
    BY <1>1, <2>10, HandleOpsRevertsTyped
  <2> QED
    BY <1>3, <2>1, <2>2, <2>3, <2>4, <2>5, <2>6, <2>7, <2>8, <2>9, <2>10
    DEF PGHandleOpsStep
<1>4. CASE \E a \in Wallet : PGDeploy(a)
  BY <1>1, <1>4, DeployTyped
<1>5. CASE PGIdleStep
  BY <1>1, <1>5, IdleRests DEF Rests
<1>6. CASE UNCHANGED pgVars
  <2>1. UNCHANGED <<frames, contexts>> /\ Top' = Top
    BY <1>6 DEF pgVars, vars, txVars, Top
  <2> QED
    BY <2>1 DEF GasInv, InfosOK, InfoOK, GasBounds, TopOp
<1> QED
  BY <1>2, <1>3, <1>4, <1>5, <1>6, KindsOfSteps

LEMMA GasAtFirst == ASSUME NEW M PROVE PGInit => GasInv(M)
BY DEF PGInit, GasInv

LEMMA AlwaysGasInv ==
    ASSUME NEW M \in Nat, HasRoom(M)
    PROVE  PGSpec => []GasInv(M)
<1>1. PGInit => GasInv(M)
  BY GasAtFirst
<1>2. PGInv /\ GasInv(M) /\ [PGNext]_pgVars => GasInv(M)'
  BY GasStep
<1> QED
  BY <1>1, <1>2, AlwaysPGInv, PTL DEF PGSpec

LEMMA RoomIsEnough ==
    ASSUME NEW c \in Nat, NEW v \in Nat, NEW p \in Nat, NEW cost \in Nat, NEW M \in Nat,
           NEW gas \in Nat, gas <= c + 2 * v + p + 3 * M, v >= cost + 3 * M, v > cost
    PROVE  gas + cost <= c + v * 3 + p /\ c + v * 3 + p # 0
OBVIOUS

LEMMA CallIsWithin ==
    ASSUME NEW c \in Nat, NEW v \in Nat, NEW p \in Nat, NEW M \in Nat,
           NEW r \in Nat, r <= v + M, NEW gas \in Nat, gas <= v + p + 2 * M + c + r
    PROVE  gas <= c + 2 * v + p + 3 * M
OBVIOUS

\* A postOp charges no more than the context says, unless gas is free.
LEMMA ChargeFits ==
    ASSUME NEW M \in Nat, HasRoom(M), PGInv, GasInv(M), frames # <<>>,
           Top.phase = "postOp", TopInfo.context,
           UO!gasPrice(TopOp, Top.basefee) # 0
    PROVE  Charge <= contexts[Top.i]
<1> DEFINE op    == TopOp
           price == UO!gasPrice(TopOp, Top.basefee)
           max   == UO!requiredPreFund(TopOp, Top.basefee)
           cost  == CostOfPost(TopOp)
<1>1. /\ Top.i \in 1 .. Len(Top.opInfos) /\ Len(contexts) = Len(Top.opInfos)
      /\ contexts \in Seq(Nat)
  <2>1. GoodFrame(Top)
    BY TopFrame DEF PGInv
  <2> QED
    BY <2>1 DEF GoodFrame, PGInv, PGTyped
<1>2. contexts[Top.i] \in Nat
  BY <1>1
<1>3. /\ TopInfo.prefund = max
      /\ Sponsored(op) /\ op.verificationGas > cost
      /\ ByNative(op) => contexts[Top.i] = max
  BY <1>1 DEF GasInv, InfosOK, InfoOK, TopInfo, TopOp
<1>4. /\ op \in Operation /\ op \in UO!UserOperationOf(Nat)
      /\ op.callGas \in Nat /\ op.verificationGas \in Nat
      /\ op.preVerificationGas \in Nat
      /\ Top.basefee \in Nat /\ Top.actualGas \in Nat
  BY TopOpIsTyped, OperationIsTyped
<1>5. cost \in Nat
  BY PayGasXAssumption DEF CostOfPost
<1>6. UO!requiredGas(op) = op.callGas + op.verificationGas * 3 + op.preVerificationGas
  BY <1>3 DEF UO!requiredGas, Sponsored
<1>7. op.verificationGas >= cost + 3 * M
  BY <1>3, <1>4 DEF HasRoom
<1>8. Top.actualGas <= op.callGas + 2 * op.verificationGas + op.preVerificationGas + 3 * M
  <2>1. Top.actualGas <= BeforeCall(op, M) + op.callGas
           + (IF Top.mode = "postOpReverted" THEN op.verificationGas + M ELSE 0)
    BY DEF GasInv, GasBounds
  <2> DEFINE again == IF Top.mode = "postOpReverted" THEN op.verificationGas + M ELSE 0
  <2> HIDE DEF op
  <2>2. again \in Nat /\ again <= op.verificationGas + M
    BY <1>4
  <2>3. Top.actualGas <= op.verificationGas + op.preVerificationGas + 2 * M + op.callGas + again
    BY <2>1 DEF BeforeCall
  <2> HIDE DEF again
  <2> QED
    BY <1>4, <2>2, <2>3, CallIsWithin
<1> HIDE DEF op, cost
<1>9. Top.actualGas + cost <= UO!requiredGas(op) /\ UO!requiredGas(op) # 0
  <2> DEFINE c == op.callGas
             v == op.verificationGas
             p == op.preVerificationGas
             g == Top.actualGas
  <2>1. /\ c \in Nat /\ v \in Nat /\ p \in Nat /\ g \in Nat
        /\ g <= c + 2 * v + p + 3 * M /\ v >= cost + 3 * M /\ v > cost
    BY <1>3, <1>4, <1>7, <1>8
  <2>2. UO!requiredGas(op) = c + v * 3 + p
    BY <1>6
  <2> HIDE DEF c, v, p, g
  <2>3. g + cost <= c + v * 3 + p /\ c + v * 3 + p # 0
    BY <1>5, <2>1, RoomIsEnough
  <2> QED
    BY <2>2, <2>3 DEF g
<1>10. /\ max \in Nat \ {0}
       /\ Top.actualGas * price \in Nat
       /\ Top.actualGas * price + cost <= max
  BY <1>4, <1>5, <1>9, CostWithinPrefund DEF op
<1>11. ActualGasCost(Top) = Top.actualGas * price
  BY DEF ActualGasCost, TopOp
<1> HIDE DEF max, price
<1>12. CASE ByNative(op)
  BY <1>3, <1>10, <1>11, <1>12 DEF Charge, NP!actualTotalCost, CostOfPost, cost, op
<1>13. CASE ~ByNative(op)
  <2>1. cost = COST_OF_POST
    BY <1>13 DEF CostOfPost, cost, op
  <2>2. Charge = DP!tokenCost(contexts[Top.i], max, ActualGasCost(Top))
    BY <1>3, <1>13 DEF Charge, op
  <2> QED
    BY <1>2, <1>5, <1>10, <1>11, <2>1, <2>2, ChargeWithinMaximum
<1> QED
  BY <1>12, <1>13

\* An operation that asks the NativeTokenPaymaster allows a price above zero;
\* the charge for one that does not is COST_OF_POST, above a checked maximum of
\* zero.
NativeHasPrice ==
    \A op \in Operation, fee \in BaseFees : ByNative(op) => UO!gasPrice(op, fee) # 0

\* At a price of zero the DepositPaymaster's postOp fails.
LEMMA ChargedAtAPrice ==
    ASSUME NEW M \in Nat, PGInv, GasInv(M), frames # <<>>, Top.phase = "postOp",
           ~ByNative(TopOp), CanCompute
    PROVE  UO!gasPrice(TopOp, Top.basefee) # 0
<1>1. Top.i \in 1 .. Len(Top.opInfos)
  <2>1. GoodFrame(Top)
    BY TopFrame DEF PGInv
  <2> QED
    BY <2>1 DEF GoodFrame
<1>2. TopInfo.prefund = UO!requiredPreFund(TopOp, Top.basefee)
  BY <1>1 DEF GasInv, InfosOK, InfoOK, TopInfo, TopOp
<1>3. UO!requiredPreFund(TopOp, Top.basefee) # 0
  BY <1>2 DEF CanCompute
<1>4. UO!requiredGas(TopOp) \in Nat
  <2>1. /\ TopOp.callGas \in Nat /\ TopOp.verificationGas \in Nat
        /\ TopOp.preVerificationGas \in Nat
    BY TopOpIsTyped
  <2> QED
    BY <2>1 DEF UO!requiredGas
<1> QED
  BY <1>3, <1>4 DEF UO!requiredPreFund

LEMMA BoundStays ==
    ASSUME NEW M \in Nat, HasRoom(M), NativeHasPrice, PGInv, GasInv(M), ChargeIsBounded,
           [PGNext]_pgVars
    PROVE  ChargeIsBounded'
<1>1. ASSUME frames' = <<>> \/ Top'.phase # "settle"
      PROVE  ChargeIsBounded'
  BY <1>1 DEF ChargeIsBounded, InPhase
<1>2. CASE \E ops \in Batches, fee \in BaseFees : PGHandleOps(ops, fee)
  BY <1>1, <1>2, StartTop DEF PGHandleOps, PGInv, NewFrame
<1>3. CASE PGHandleOpsStep
  <2>1. CASE PGCallValidateUserOp
    BY <1>1, <2>1, CreateTop DEF PGInv, PGCallValidateUserOp
  <2>2. CASE WalletValidates
    BY <1>1, <2>2, WalletValidatesMoves
  <2>3. ASSUME NEW used \in GasUsed, NEW over \in Overhead, PGValidationEnds(used, over)
        PROVE  ChargeIsBounded'
    BY <1>1, <2>3, ValidatedMoves, ValidatedTop DEF PGInv
  <2>4. ASSUME NEW over \in Overhead, PGInnerHandleOp(over)
        PROVE  ChargeIsBounded'
    <3>1. SameOperation /\ (Top'.phase = "settle" => ~TopInfo.context)
      BY <2>4, InnerTop DEF PGInv, PGInnerHandleOp
    <3> QED
      BY <3>1 DEF ChargeIsBounded, InPhase, TopInfo, SameOperation
  <2>5. ASSUME NEW success \in BOOLEAN, NEW used \in GasUsed, PGCallReturns(success, used)
        PROVE  ChargeIsBounded'
    <3>1. SameOperation /\ (Top'.phase = "settle" => ~TopInfo.context)
      BY <2>5, CallReturnsTop DEF PGInv, PGCallReturns
    <3> QED
      BY <3>1 DEF ChargeIsBounded, InPhase, TopInfo, SameOperation
  <2>6. ASSUME NEW used \in GasUsed, postOp(used)
        PROVE  ChargeIsBounded'
    <3>1. /\ SameOperation /\ Top.phase = "postOp" /\ bill' = Charge
          /\ contexts' = contexts
      BY <2>6, PostOpMoves
    <3>2. frames # <<>> /\ CanCompute
      BY <2>6, <3>1 DEF postOp, SameOperation, SameBatch
    <3>3. UO!gasPrice(TopOp, Top.basefee) # 0
      <4>1. CASE ByNative(TopOp)
        <5>1. TopOp \in Operation /\ Top.basefee \in BaseFees
          BY <3>2, TopOpIsTyped, TopFrame DEF PGInv, Frame
        <5> QED
          BY <4>1, <5>1 DEF NativeHasPrice
      <4>2. CASE ~ByNative(TopOp)
        BY <3>1, <3>2, <4>2, ChargedAtAPrice
      <4> QED
        BY <4>1, <4>2
    <3>4. TopInfo.context => Charge <= contexts[Top.i]
      BY <3>1, <3>2, <3>3, ChargeFits
    <3> QED
      BY <3>1, <3>4 DEF ChargeIsBounded, TopInfo, SameOperation
  <2>7. ASSUME NEW used \in GasUsed, NEW over \in Overhead, PGInnerReverts(used, over)
        PROVE  ChargeIsBounded'
    <3>1. SameOperation /\ (Top'.phase = "settle" => ~TopInfo.context)
      BY <2>7, RevertsTop DEF PGInv, PGInnerReverts
    <3> QED
      BY <3>1 DEF ChargeIsBounded, InPhase, TopInfo, SameOperation
  <2>8. CASE PGSettle
    BY <1>1, <2>8, SettleTop DEF PGInv, PGSettle
  <2>9. CASE PGCompensate
    BY <1>1, <2>9, CompensateTyped
  <2>10. CASE PGHandleOpsReverts
    BY <1>1, <2>10, HandleOpsRevertsTyped
  <2> QED
    BY <1>3, <2>1, <2>2, <2>3, <2>4, <2>5, <2>6, <2>7, <2>8, <2>9, <2>10
    DEF PGHandleOpsStep
<1>4. CASE \E a \in Wallet : PGDeploy(a)
  BY <1>1, <1>4, DeployTyped
<1>5. CASE PGIdleStep
  BY <1>1, <1>5, IdleRests DEF Rests
<1>6. CASE UNCHANGED pgVars
  BY <1>6 DEF pgVars, vars, txVars, ChargeIsBounded, InPhase, Top, TopInfo
<1> QED
  BY <1>2, <1>3, <1>4, <1>5, <1>6, KindsOfSteps

\* A wallet never pays more than the maximum its credit was checked for
\* (ChargeIsBounded), if the verification gas leaves room for the EntryPoint's
\* own gas and the price is not zero.
THEOREM ChargesAreBounded ==
    ASSUME NEW M \in Nat, HasRoom(M), NativeHasPrice
    PROVE  PGSpec => []ChargeIsBounded
<1>1. PGInit => ChargeIsBounded
  BY DEF PGInit, ChargeIsBounded, InPhase
<1>2. PGInv /\ GasInv(M) /\ ChargeIsBounded /\ [PGNext]_pgVars => ChargeIsBounded'
  BY BoundStays
<1> QED
  BY <1>1, <1>2, AlwaysPGInv, AlwaysGasInv, PTL DEF PGSpec

-----------------------------------------------------------------------------
(***************************************************************************)
(* Payments.  At any time what the paymasters received and the credit used *)
(* up are what was billed, with the charge of the last postOp as long as   *)
(* its operation is not settled; so are they in the copies that a revert   *)
(* brings back, so that a charge is taken back with its payment.           *)
(***************************************************************************)

Paid(app, b) ==
    /\ app.tokens[depositPaymaster] + app.tokens[treasury] = b.tokens
    /\ app.eth[nativePaymaster] + app.eth[treasury] + app.refilled = b.ether
    /\ app.granted.mask = b.credit + SumOf(app.credits, Wallet)
    /\ app.granted.native = b.nativeCredit + SumOf(app.nativeCredits, Wallet)

\* A postOp has charged, and its operation is not settled.
IsPending == InPhase("settle") /\ TopInfo.context

BilledSoFar == IF IsPending THEN [billed EXCEPT ![Means(TopOp)] = @ + bill] ELSE billed

PaidInv ==
    /\ Paid(App, BilledSoFar)
    /\ InPhase("postOp") => TopInfo.context
    /\ frames # <<>> =>
          /\ Paid(saved, saved.billed)
          /\ Top.phase \in InnerPhase => Paid(inner, inner.billed)

LEMMA PaidApp ==
    \A b : Paid(App, b) <=>
        /\ tokens[depositPaymaster] + tokens[treasury] = b.tokens
        /\ eth[nativePaymaster] + eth[treasury] + refilled = b.ether
        /\ granted.mask = b.credit + SumOf(credits, Wallet)
        /\ granted.native = b.nativeCredit + SumOf(nativeCredits, Wallet)
BY DEF Paid, App

LEMMA PaidAppNext ==
    \A b : Paid(App', b) <=>
        /\ tokens'[depositPaymaster] + tokens'[treasury] = b.tokens
        /\ eth'[nativePaymaster] + eth'[treasury] + refilled' = b.ether
        /\ granted'.mask = b.credit + SumOf(credits', Wallet)
        /\ granted'.native = b.nativeCredit + SumOf(nativeCredits', Wallet)
BY DEF Paid, App

\* Neither the paymasters' tokens and ether nor the credits change.
Untouched ==
    /\ tokens'[depositPaymaster] = tokens[depositPaymaster]
    /\ tokens'[treasury] = tokens[treasury]
    /\ eth'[nativePaymaster] = eth[nativePaymaster]
    /\ eth'[treasury] = eth[treasury]
    /\ UNCHANGED <<credits, nativeCredits, granted, refilled>>

LEMMA UntouchedPaid ==
    ASSUME Untouched, NEW b, Paid(App, b)
    PROVE  Paid(App', b)
BY PaidApp, PaidAppNext DEF Untouched

\* The paymasters and those who get their money are no wallets.
LEMMA NoWallets ==
    /\ depositPaymaster \in Holder \ Wallet /\ nativePaymaster \in Holder \ Wallet
    /\ treasury \in Holder \ Wallet /\ shop \in Holder \ Wallet
    /\ presetFactory \in Holder \ Wallet
    /\ treasury \notin {depositPaymaster, nativePaymaster, presetFactory, shop}
    /\ shop \notin {depositPaymaster, nativePaymaster}
    /\ presetFactory \notin {depositPaymaster, nativePaymaster}
    /\ IsFiniteSet(Wallet)
<1>1. IsFiniteSet(Wallet)
  BY StakeManagerAssumption, PayGasXAssumption, FS_Subset
<1> QED
  BY <1>1, PayGasXAssumption DEF Holder

\* What a wallet does, and what its constructor does, is none of the paymasters'.
LEMMA WalletActsUntouched ==
    ASSUME App \in AppType, NEW a \in Wallet, WalletActs(a),
           UNCHANGED <<nativeCredits, granted, refilled>>
    PROVE  Untouched
<1>1. /\ a # depositPaymaster /\ a # nativePaymaster /\ a # treasury
      /\ shop # depositPaymaster /\ shop # nativePaymaster /\ shop # treasury
  BY NoWallets
<1>2. tokens \in [Holder -> Nat] /\ eth \in [Holder -> Nat]
  BY AppIsTyped
<1>3. ASSUME NEW v \in Spendings, DP!transferTokens(a, shop, v), UNCHANGED walletVars
      PROVE  Untouched
  BY <1>1, <1>2, <1>3, NoWallets DEF DP!transferTokens, walletVars, Untouched
<1>4. ASSUME NEW v \in Approvals, DP!approve(a, v), UNCHANGED walletVars
      PROVE  Untouched
  BY <1>4 DEF DP!approve, walletVars, Untouched
<1>5. ASSUME NEW v \in EtherSpendings, SW!transfer(a, shop, v), UNCHANGED paymasterVars
      PROVE  Untouched
  BY <1>1, <1>2, <1>5, NoWallets DEF SW!transfer, paymasterVars, Untouched
<1>6. ASSUME NEW b \in Trusted, SW!changePaymaster(a, b), UNCHANGED paymasterVars
      PROVE  Untouched
  BY <1>6 DEF SW!changePaymaster, paymasterVars, Untouched
<1> QED
  BY <1>3, <1>4, <1>5, <1>6 DEF WalletActs

LEMMA ConstructorUntouched ==
    ASSUME NEW a, constructor(a), UNCHANGED <<nativeCredits, granted, refilled>>
    PROVE  Untouched
BY DEF constructor, DP!approve, SW!changePaymaster, Untouched

LEMMA BilledIfNotPending ==
    /\ ~IsPending => BilledSoFar = billed
    /\ ~IsPending' => BilledSoFar' = billed'
BY DEF BilledSoFar

\* One credit grows by what is given, or shrinks by what is charged.
LEMMA CreditMoves ==
    ASSUME NEW c, NEW e, NEW a \in Wallet, NEW v, v \in Int,
           \A x \in Wallet : c[x] \in Nat, c[a] + v \in Nat, e[a] = c[a] + v,
           \A x \in Wallet \ {a} : e[x] = c[x]
    PROVE  /\ SumOf(c, Wallet) \in Int
           /\ SumOf(e, Wallet) = SumOf(c, Wallet) + v
<1>1. a \in Holder /\ IsFiniteSet(Wallet)
  BY Roles, NoWallets
<1>2. e[a] = c[a] + v /\ c[a] \in Int
  BY <1>1
<1>3. \A x \in Wallet : c[x] \in Int /\ e[x] \in Int
  BY <1>1, Roles
<1>4. \A x \in Wallet \ {a} : e[x] = c[x]
  BY Roles
<1>5. SumOf(c, Wallet) \in Int
  BY <1>1, <1>3, SumTakesAny
<1>6. SumOf(e, Wallet) = SumOf(c, Wallet) - c[a] + e[a]
  <2> DEFINE R == Wallet \ {a}
  <2>1. IsFiniteSet(R) /\ \A x \in R : e[x] = c[x]
    BY <1>1, <1>4, FS_RemoveElement
  <2>2. SumOf(e, R) = SumOf(c, R)
    <3> HIDE DEF R
    <3> QED
      BY <2>1, SumSame
  <2>3. SumOf(c, R) \in Int
    <3>1. \A x \in R : c[x] \in Int
      BY <1>3
    <3> HIDE DEF R
    <3> QED
      BY <2>1, <3>1, SumTakesAny
  <2>4. SumOf(c, Wallet) = c[a] + SumOf(c, R)
    BY <1>1, <1>3, SumTakesAny
  <2>5. SumOf(e, Wallet) = e[a] + SumOf(e, R)
    BY <1>1, <1>3, SumTakesAny
  <2> DEFINE r == SumOf(c, R)
             t == SumOf(c, Wallet)
             u == SumOf(e, Wallet)
  <2> HIDE DEF r, t, u, R
  <2>6. r \in Int /\ t = c[a] + r /\ u = e[a] + r
    BY <2>2, <2>3, <2>4, <2>5 DEF r, t, u
  <2>7. u = t - c[a] + e[a]
    BY <1>1, <1>2, <1>3, <2>6
  <2> QED
    BY <2>7 DEF t, u
<1> DEFINE t == SumOf(c, Wallet)
           u == SumOf(e, Wallet)
<1> HIDE DEF t, u
<1>7. t \in Int /\ u = t - c[a] + e[a]
  BY <1>5, <1>6 DEF t, u
<1>8. u = t + v
  BY <1>2, <1>7
<1> QED
  BY <1>7, <1>8 DEF t, u

\* The same of the credits of either paymaster.
LEMMA MaskCreditMoves ==
    ASSUME NEW a \in Wallet, NEW v \in Int, credits \in [Holder -> Nat],
           credits[a] + v \in Nat, credits' = [credits EXCEPT ![a] = @ + v]
    PROVE  /\ SumOf(credits, Wallet) \in Int
           /\ SumOf(credits', Wallet) = SumOf(credits, Wallet) + v
<1>1. /\ \A x \in Wallet : credits[x] \in Nat
      /\ credits'[a] = credits[a] + v
      /\ \A x \in Wallet \ {a} : credits'[x] = credits[x]
  BY Roles
<1> QED
  <2> DEFINE e == credits'
  <2>1. /\ \A x \in Wallet : credits[x] \in Nat
        /\ e[a] = credits[a] + v
        /\ \A x \in Wallet \ {a} : e[x] = credits[x]
    BY <1>1
  <2> HIDE DEF e
  <2>2. SumOf(credits, Wallet) \in Int /\ SumOf(e, Wallet) = SumOf(credits, Wallet) + v
    BY ONLY <2>1, a \in Wallet, v \in Int, credits[a] + v \in Nat, CreditMoves
  <2> QED
    BY <2>2 DEF e

LEMMA NativeCreditMoves ==
    ASSUME NEW a \in Wallet, NEW v \in Int, nativeCredits \in [Holder -> Nat],
           nativeCredits[a] + v \in Nat,
           nativeCredits' = [nativeCredits EXCEPT ![a] = @ + v]
    PROVE  /\ SumOf(nativeCredits, Wallet) \in Int
           /\ SumOf(nativeCredits', Wallet) = SumOf(nativeCredits, Wallet) + v
<1>1. /\ \A x \in Wallet : nativeCredits[x] \in Nat
      /\ nativeCredits'[a] = nativeCredits[a] + v
      /\ \A x \in Wallet \ {a} : nativeCredits'[x] = nativeCredits[x]
  BY Roles
<1> QED
  <2> DEFINE e == nativeCredits'
  <2>1. /\ \A x \in Wallet : nativeCredits[x] \in Nat
        /\ e[a] = nativeCredits[a] + v
        /\ \A x \in Wallet \ {a} : e[x] = nativeCredits[x]
    BY <1>1
  <2> HIDE DEF e
  <2>2. SumOf(nativeCredits, Wallet) \in Int /\ SumOf(e, Wallet) = SumOf(nativeCredits, Wallet) + v
    BY ONLY <2>1, a \in Wallet, v \in Int, nativeCredits[a] + v \in Nat, CreditMoves
  <2> QED
    BY <2>2 DEF e

\* Transactions that are not handleOps: what goes to the treasury or into the
\* deposit was the paymaster's, and credit is given by hand.
LEMMA IdlePaid ==
    ASSUME PGInv, PGIdleStep, Paid(App, billed)
    PROVE  Paid(App', billed')
<1>1. App \in AppType
  BY DEF PGInv, PGTyped
<1>2. /\ tokens \in [Holder -> Nat] /\ eth \in [Holder -> Nat]
      /\ credits \in [Holder -> Nat] /\ nativeCredits \in [Holder -> Nat]
      /\ granted \in GrantedType /\ refilled \in Nat /\ billed \in BilledType
  BY <1>1, AppIsTyped
<1>3. /\ billed.tokens \in Nat /\ billed.credit \in Nat
      /\ billed.ether \in Nat /\ billed.nativeCredit \in Nat
      /\ granted.mask \in Nat /\ granted.native \in Nat
  BY <1>2 DEF BilledType, GrantedType
<1>4. /\ tokens[depositPaymaster] + tokens[treasury] = billed.tokens
      /\ eth[nativePaymaster] + eth[treasury] + refilled = billed.ether
      /\ granted.mask = billed.credit + SumOf(credits, Wallet)
      /\ granted.native = billed.nativeCredit + SumOf(nativeCredits, Wallet)
  BY PaidApp
<1>5. ASSUME Untouched, billed' = billed
      PROVE  Paid(App', billed')
  BY <1>5, UntouchedPaid
<1>6. ASSUME NEW a \in Wallet, setUpForAccount(a)
      PROVE  Paid(App', billed')
  <2>1. /\ a # depositPaymaster /\ a # treasury /\ presetFactory # depositPaymaster
        /\ presetFactory # treasury
    BY NoWallets
  <2>2. /\ tokens'[depositPaymaster] = tokens[depositPaymaster]
        /\ tokens'[treasury] = tokens[treasury]
    BY <1>2, <1>6, <2>1, NoWallets DEF setUpForAccount
  <2>3. /\ granted'.mask = granted.mask + initialMaskCredit
        /\ granted'.native = granted.native + initialNativeCredit
        /\ eth' = eth /\ refilled' = refilled /\ billed' = billed
    BY <1>6 DEF setUpForAccount, walletVars
  <2>4. /\ initialMaskCredit \in Nat /\ initialNativeCredit \in Nat
        /\ initialMaskCredit \in Int /\ initialNativeCredit \in Int
    BY PayGasXAssumption
  <2>5. /\ credits' = [credits EXCEPT ![a] = @ + initialMaskCredit]
        /\ credits[a] + initialMaskCredit \in Nat
    BY <1>2, <1>6, <2>4, Roles DEF setUpForAccount
  <2>6. /\ nativeCredits' = [nativeCredits EXCEPT ![a] = @ + initialNativeCredit]
        /\ nativeCredits[a] + initialNativeCredit \in Nat
    BY <1>2, <1>6, <2>4, Roles DEF setUpForAccount
  <2>7. /\ SumOf(credits, Wallet) \in Int
        /\ SumOf(credits', Wallet) = SumOf(credits, Wallet) + initialMaskCredit
    BY <1>2, <2>4, <2>5, MaskCreditMoves
  <2>8. /\ SumOf(nativeCredits, Wallet) \in Int
        /\ SumOf(nativeCredits', Wallet)
              = SumOf(nativeCredits, Wallet) + initialNativeCredit
    BY <1>2, <2>4, <2>6, NativeCreditMoves
  <2>9. granted'.mask = billed.credit + SumOf(credits', Wallet)
    BY <1>3, <1>4, <2>3, <2>4, <2>7
  <2>10. granted'.native = billed.nativeCredit + SumOf(nativeCredits', Wallet)
    BY <1>3, <1>4, <2>3, <2>4, <2>8
  <2> QED
    BY <1>4, <2>2, <2>3, <2>9, <2>10, PaidAppNext
<1>7. ASSUME NEW a \in Wallet, exec(a)
      PROVE  Paid(App', billed')
  BY <1>1, <1>5, <1>7, WalletActsUntouched DEF exec, history
<1>8. ASSUME NEW a \in Wallet, NEW v \in Amount, addDeposit(a, v) \/ withdrawDepositTo(a, v)
      PROVE  Paid(App', billed')
  BY <1>5, <1>8 DEF addDeposit, withdrawDepositTo, appVars, walletVars, paymasterVars,
                    history, Untouched
<1>9. ASSUME NEW a \in Wallet, NEW v \in Amount, addDepositFor(a, v)
      PROVE  Paid(App', billed')
  <2>1. /\ granted'.mask = granted.mask + v
        /\ granted'.native = granted.native
        /\ UNCHANGED <<eth, tokens, nativeCredits, refilled, billed>>
        /\ v \in Nat /\ v \in Int
    BY <1>2, <1>9, StakeManagerAssumption
    DEF addDepositFor, DP!addDepositFor, walletVars, GrantedType
  <2>2. /\ credits' = [credits EXCEPT ![a] = @ + v]
        /\ credits[a] + v \in Nat
    BY <1>2, <1>9, <2>1, Roles DEF addDepositFor, DP!addDepositFor
  <2>3. /\ SumOf(credits, Wallet) \in Int
        /\ SumOf(credits', Wallet) = SumOf(credits, Wallet) + v
    BY <1>2, <2>1, <2>2, MaskCreditMoves
  <2>4. granted'.mask = billed.credit + SumOf(credits', Wallet)
    BY <1>3, <1>4, <2>1, <2>3
  <2> QED
    BY <1>4, <2>1, <2>4, PaidAppNext
<1>10. ASSUME NEW a \in Wallet, NEW v \in Amount, addNativeDepositFor(a, v)
       PROVE  Paid(App', billed')
  <2>1. /\ granted'.native = granted.native + v
        /\ granted'.mask = granted.mask
        /\ UNCHANGED <<eth, tokens, credits, refilled, billed>>
        /\ v \in Nat /\ v \in Int
    BY <1>2, <1>10, StakeManagerAssumption
    DEF addNativeDepositFor, NP!addDepositFor, paymasterVars, GrantedType
  <2>2. /\ nativeCredits' = [nativeCredits EXCEPT ![a] = @ + v]
        /\ nativeCredits[a] + v \in Nat
    BY <1>2, <1>10, <2>1, Roles DEF addNativeDepositFor, NP!addDepositFor
  <2>3. /\ SumOf(nativeCredits, Wallet) \in Int
        /\ SumOf(nativeCredits', Wallet) = SumOf(nativeCredits, Wallet) + v
    BY <1>2, <2>1, <2>2, NativeCreditMoves
  <2>4. granted'.native = billed.nativeCredit + SumOf(nativeCredits', Wallet)
    BY <1>3, <1>4, <2>1, <2>3
  <2> QED
    BY <1>4, <2>1, <2>4, PaidAppNext
<1>11. ASSUME NEW v \in Amount
       PROVE  NP!AtMostBalance(v) \in Nat
  BY <1>2, NoWallets, StakeManagerAssumption DEF NP!AtMostBalance
<1>12. ASSUME NEW v \in Amount, depositToEP(v)
       PROVE  Paid(App', billed')
  <2> DEFINE m == NP!AtMostBalance(v)
  <2>1. m \in Nat
    BY <1>11
  <2>2. /\ eth' = [eth EXCEPT ![nativePaymaster] = @ - m]
        /\ refilled' = refilled + m
        /\ UNCHANGED <<tokens, credits, nativeCredits, granted, billed>>
    BY <1>12 DEF depositToEP, NP!depositToEP, paymasterVars
  <2> HIDE DEF m
  <2>3. /\ eth'[nativePaymaster] = eth[nativePaymaster] - m
        /\ eth'[treasury] = eth[treasury]
    BY <1>2, <2>2, NoWallets
  <2>4. eth[nativePaymaster] \in Nat /\ eth[treasury] \in Nat
    BY <1>2, NoWallets
  <2>5. eth'[nativePaymaster] + eth'[treasury] + refilled'
           = eth[nativePaymaster] + eth[treasury] + refilled
    BY <1>2, <2>1, <2>2, <2>3, <2>4
  <2> QED
    BY <1>4, <2>2, <2>5, PaidAppNext
<1>13. ASSUME NEW v \in Amount, withdrawBalance(v)
       PROVE  Paid(App', billed')
  <2> DEFINE m == NP!AtMostBalance(v)
  <2>1. m \in Nat
    BY <1>11
  <2>2. /\ eth' = [eth EXCEPT ![nativePaymaster] = @ - m, ![treasury] = @ + m]
        /\ UNCHANGED <<tokens, credits, nativeCredits, granted, refilled, billed>>
    BY <1>13 DEF withdrawBalance, NP!withdrawBalance, paymasterVars, history
  <2> HIDE DEF m
  <2>3. /\ eth'[nativePaymaster] = eth[nativePaymaster] - m
        /\ eth'[treasury] = eth[treasury] + m
    BY <1>2, <2>2, NoWallets
  <2>4. eth[nativePaymaster] \in Nat /\ eth[treasury] \in Nat
    BY <1>2, NoWallets
  <2>5. eth'[nativePaymaster] + eth'[treasury] = eth[nativePaymaster] + eth[treasury]
    BY <2>1, <2>3, <2>4
  <2> QED
    BY <1>4, <2>2, <2>5, PaidAppNext
<1>14. ASSUME NEW r \in Ratios, setMaskToMaticRatio(r)
       PROVE  Paid(App', billed')
  BY <1>5, <1>14 DEF setMaskToMaticRatio, DP!setMaskToMaticRatio, walletVars, history,
                     Untouched
<1>15. ASSUME NEW a \in Blockable, addBlockList(a)
       PROVE  Paid(App', billed')
  BY <1>5, <1>15 DEF addBlockList, walletVars, paymasterVars, history, Untouched
<1>16. ASSUME NEW v \in Spendings, withdraw(v)
       PROVE  Paid(App', billed')
  <2> DEFINE m == IF v >= tokens[depositPaymaster] THEN tokens[depositPaymaster] ELSE v
  <2>1. m \in Nat
    BY <1>2, NoWallets, PayGasXAssumption
  <2>2. /\ tokens' = [tokens EXCEPT ![depositPaymaster] = @ - m, ![treasury] = @ + m]
        /\ UNCHANGED <<eth, credits, nativeCredits, granted, refilled, billed>>
    BY <1>16 DEF withdraw, DP!withdraw, walletVars, history
  <2> HIDE DEF m
  <2>3. /\ tokens'[depositPaymaster] = tokens[depositPaymaster] - m
        /\ tokens'[treasury] = tokens[treasury] + m
    BY <1>2, <2>2, NoWallets
  <2>4. tokens[depositPaymaster] \in Nat /\ tokens[treasury] \in Nat
    BY <1>2, NoWallets
  <2>5. tokens'[depositPaymaster] + tokens'[treasury]
           = tokens[depositPaymaster] + tokens[treasury]
    BY <2>1, <2>3, <2>4
  <2> QED
    BY <1>4, <2>2, <2>5, PaidAppNext
<1> QED
  BY <1>6, <1>7, <1>8, <1>9, <1>10, <1>12, <1>13, <1>14, <1>15, <1>16 DEF PGIdleStep


LEMMA DeployPaid ==
    ASSUME NEW a \in Wallet, PGDeploy(a), Paid(App, billed)
    PROVE  Paid(App', billed')
BY ConstructorUntouched, UntouchedPaid DEF PGDeploy, history

\* validateUserOp takes ether from the wallet, none from the paymasters.
LEMMA WalletValidatesPaid ==
    ASSUME PGInv, WalletValidates, Paid(App, billed)
    PROVE  Paid(App', billed')
<1>1. TopOp.sender \in Wallet
  BY WalletValidatesMoves
<1>2. eth \in [Holder -> Nat]
  BY AppIsTyped DEF PGInv, PGTyped
<1>3. eth'[nativePaymaster] = eth[nativePaymaster] /\ eth'[treasury] = eth[treasury]
  BY <1>1, <1>2, WalletValidatesMoves, NoWallets
<1>4. Untouched /\ billed' = billed
  BY <1>3 DEF WalletValidates, Untouched, paymasterVars, history
<1> QED
  BY <1>4, UntouchedPaid

\* A postOp moves its charge, and by as much what is to be billed.
LEMMA PostOpPaid ==
    ASSUME PGInv, NEW used, postOp(used), Paid(App, billed)
    PROVE  Paid(App', [billed EXCEPT ![Means(TopOp)] = @ + Charge])
<1> DEFINE s == TopOp.sender
           c == Charge
           b == [billed EXCEPT ![Means(TopOp)] = @ + Charge]
<1>1. App \in AppType /\ EPInv
  BY DEF PGInv, PGTyped
<1>2. /\ tokens \in [Holder -> Nat] /\ eth \in [Holder -> Nat]
      /\ credits \in [Holder -> Nat] /\ nativeCredits \in [Holder -> Nat]
      /\ granted \in GrantedType /\ refilled \in Nat /\ billed \in BilledType
  BY <1>1, AppIsTyped
<1>3. /\ billed.tokens \in Nat /\ billed.credit \in Nat
      /\ billed.ether \in Nat /\ billed.nativeCredit \in Nat
      /\ granted.mask \in Nat /\ granted.native \in Nat
  BY <1>2 DEF BilledType, GrantedType
<1>4. /\ tokens[depositPaymaster] + tokens[treasury] = billed.tokens
      /\ eth[nativePaymaster] + eth[treasury] + refilled = billed.ether
      /\ granted.mask = billed.credit + SumOf(credits, Wallet)
      /\ granted.native = billed.nativeCredit + SumOf(nativeCredits, Wallet)
  BY PaidApp
<1>5. /\ s \in Wallet /\ s \in Holder /\ c \in Nat
      /\ granted' = granted /\ refilled' = refilled
  BY PostOpMoves, Roles DEF history
<1>6. /\ s # depositPaymaster /\ s # nativePaymaster /\ s # treasury
      /\ tokens[depositPaymaster] \in Nat /\ tokens[treasury] \in Nat
      /\ eth[nativePaymaster] \in Nat /\ eth[treasury] \in Nat
  BY <1>2, <1>5, NoWallets
<1>7. ASSUME ~ByNative(TopOp), Top.mode # "postOpReverted"
      PROVE  Paid(App', b)
  <2>1. /\ tokens' = [tokens EXCEPT ![s] = @ - c, ![depositPaymaster] = @ + c]
        /\ UNCHANGED <<eth, credits, nativeCredits>>
    BY <1>7, PostOpMoves
  <2>2. b = [billed EXCEPT !.tokens = @ + c]
    BY <1>7 DEF Means
  <2>3. /\ b.tokens = billed.tokens + c /\ b.ether = billed.ether
        /\ b.credit = billed.credit /\ b.nativeCredit = billed.nativeCredit
    BY <1>2, <2>2 DEF BilledType
  <2> HIDE DEF s, c, b
  <2>4. /\ tokens'[depositPaymaster] = tokens[depositPaymaster] + c
        /\ tokens'[treasury] = tokens[treasury]
    BY <1>2, <1>6, <2>1, NoWallets
  <2>5. tokens'[depositPaymaster] + tokens'[treasury] = b.tokens
    BY <1>4, <1>5, <1>6, <2>3, <2>4
  <2> QED
    BY <1>4, <1>5, <2>1, <2>3, <2>5, PaidAppNext
<1>8. ASSUME ~ByNative(TopOp), Top.mode = "postOpReverted"
      PROVE  Paid(App', b)
  <2>1. /\ credits' = [credits EXCEPT ![s] = @ - c] /\ c <= credits[s]
        /\ UNCHANGED <<eth, tokens, nativeCredits>>
    BY <1>8, PostOpMoves
  <2>2. b = [billed EXCEPT !.credit = @ + c]
    BY <1>8 DEF Means
  <2>3. /\ b.tokens = billed.tokens /\ b.ether = billed.ether
        /\ b.credit = billed.credit + c /\ b.nativeCredit = billed.nativeCredit
    BY <1>2, <2>2 DEF BilledType
  <2> HIDE DEF s, c, b
  <2>4. credits[s] \in Nat /\ -c \in Int
    BY <1>2, <1>5
  <2>5. credits[s] + (-c) \in Nat /\ credits[s] - c = credits[s] + (-c)
    BY <1>5, <2>1, <2>4
  <2>6. credits' = [credits EXCEPT ![s] = @ + (-c)]
    BY <2>1, <2>5
  <2>7. /\ SumOf(credits, Wallet) \in Int
        /\ SumOf(credits', Wallet) = SumOf(credits, Wallet) + (-c)
    BY <1>2, <1>5, <2>4, <2>5, <2>6, MaskCreditMoves
  <2>8. granted.mask = b.credit + SumOf(credits', Wallet)
    BY <1>3, <1>4, <1>5, <2>3, <2>7
  <2> QED
    BY <1>4, <1>5, <2>1, <2>3, <2>8, PaidAppNext
<1>9. ASSUME ByNative(TopOp), Top.mode # "postOpReverted"
      PROVE  Paid(App', b)
  <2>1. /\ eth' = [eth EXCEPT ![s] = @ - c, ![nativePaymaster] = @ + c]
        /\ UNCHANGED <<tokens, credits, nativeCredits>>
    BY <1>9, PostOpMoves
  <2>2. b = [billed EXCEPT !.ether = @ + c]
    BY <1>9 DEF Means
  <2>3. /\ b.tokens = billed.tokens /\ b.ether = billed.ether + c
        /\ b.credit = billed.credit /\ b.nativeCredit = billed.nativeCredit
    BY <1>2, <2>2 DEF BilledType
  <2> HIDE DEF s, c, b
  <2>4. /\ eth'[nativePaymaster] = eth[nativePaymaster] + c
        /\ eth'[treasury] = eth[treasury]
    BY <1>2, <1>6, <2>1, NoWallets
  <2>5. eth'[nativePaymaster] + eth'[treasury] + refilled = b.ether
    BY <1>2, <1>4, <1>5, <1>6, <2>3, <2>4
  <2> QED
    BY <1>4, <1>5, <2>1, <2>3, <2>5, PaidAppNext
<1>10. ASSUME ByNative(TopOp), Top.mode = "postOpReverted"
       PROVE  Paid(App', b)
  <2>1. /\ nativeCredits' = [nativeCredits EXCEPT ![s] = @ - c]
        /\ c <= nativeCredits[s]
        /\ UNCHANGED <<eth, tokens, credits>>
    BY <1>10, PostOpMoves
  <2>2. b = [billed EXCEPT !.nativeCredit = @ + c]
    BY <1>10 DEF Means
  <2>3. /\ b.tokens = billed.tokens /\ b.ether = billed.ether
        /\ b.credit = billed.credit /\ b.nativeCredit = billed.nativeCredit + c
    BY <1>2, <2>2 DEF BilledType
  <2> HIDE DEF s, c, b
  <2>4. nativeCredits[s] \in Nat /\ -c \in Int
    BY <1>2, <1>5
  <2>5. /\ nativeCredits[s] + (-c) \in Nat
        /\ nativeCredits[s] - c = nativeCredits[s] + (-c)
    BY <1>5, <2>1, <2>4
  <2>6. nativeCredits' = [nativeCredits EXCEPT ![s] = @ + (-c)]
    BY <2>1, <2>5
  <2>7. /\ SumOf(nativeCredits, Wallet) \in Int
        /\ SumOf(nativeCredits', Wallet) = SumOf(nativeCredits, Wallet) + (-c)
    BY <1>2, <1>5, <2>4, <2>5, <2>6, NativeCreditMoves
  <2>8. granted.native = b.nativeCredit + SumOf(nativeCredits', Wallet)
    BY <1>3, <1>4, <1>5, <2>3, <2>7
  <2> QED
    BY <1>4, <1>5, <2>1, <2>3, <2>8, PaidAppNext
<1> QED
  BY <1>7, <1>8, <1>9, <1>10

LEMMA CallReturnsPaid ==
    ASSUME PGInv, NEW success, NEW used, PGCallReturns(success, used), Paid(App, billed)
    PROVE  Paid(App', billed')
<1>1. App \in AppType /\ TopOp.sender \in Wallet
  <2>1. frames # <<>> /\ Top.i \in 1 .. Len(Top.ops)
    BY CallReturnsTop DEF PGInv, PGCallReturns, SameOperation, SameBatch
  <2> QED
    BY <2>1, OperationIn DEF PGInv, PGTyped, TopOp
<1>2. UNCHANGED <<nativeCredits, granted, refilled, billed>>
  BY DEF PGCallReturns, history
<1>3. CASE UNCHANGED <<walletVars, paymasterVars>>
  BY <1>2, <1>3, UntouchedPaid DEF walletVars, paymasterVars, Untouched
<1>4. CASE WalletActs(TopOp.sender)
  BY <1>1, <1>2, <1>4, WalletActsUntouched, UntouchedPaid
<1>5. CASE (\E v \in Approvals : DP!approve(TopOp.sender, v)) /\ UNCHANGED walletVars
  BY <1>2, <1>5, UntouchedPaid DEF walletVars, DP!approve, Untouched
<1> QED
  BY <1>3, <1>4, <1>5 DEF PGCallReturns, OperationActs


\* A step inside handleOps after which no charge waits to be billed, and that
\* leaves the copies alone.
LEMMA PaidInside ==
    ASSUME PaidInv, Paid(App', billed'), frames # <<>>, frames' # <<>>,
           Top'.phase # "postOp", Top'.phase # "settle",
           Top'.phase \notin InnerPhase \/ Top.phase \in InnerPhase,
           saved' = saved, inner' = inner
    PROVE  PaidInv'
<1>1. ~IsPending'
  BY DEF IsPending, InPhase
<1> QED
  BY <1>1, BilledIfNotPending DEF PaidInv, InPhase

LEMMA PaidAtFirst == PGInit => PaidInv
<1> SUFFICES ASSUME PGInit
             PROVE  PaidInv
  OBVIOUS
<1>1. IsFiniteSet(Wallet)
  BY NoWallets
<1>2. /\ tokens[depositPaymaster] = 0 /\ tokens[treasury] = 0
      /\ eth[nativePaymaster] = 0 /\ eth[treasury] = 0
  BY NoWallets DEF PGInit
<1>3. (\A a \in Wallet : credits[a] = 0) /\ (\A a \in Wallet : nativeCredits[a] = 0)
  BY Roles DEF PGInit
<1>4. SumOf(credits, Wallet) = 0 /\ SumOf(nativeCredits, Wallet) = 0
  BY <1>1, <1>3, SumOfZeros
<1>5. /\ billed.tokens = 0 /\ billed.credit = 0 /\ billed.ether = 0
      /\ billed.nativeCredit = 0 /\ granted.mask = 0 /\ granted.native = 0
      /\ refilled = 0 /\ frames = <<>>
  BY DEF PGInit
<1>6. Paid(App, billed)
  BY <1>2, <1>4, <1>5, PaidApp
<1>7. BilledSoFar = billed
  BY <1>5, BilledIfNotPending DEF IsPending, InPhase
<1> QED
  BY <1>5, <1>6, <1>7 DEF PaidInv, InPhase

LEMMA PaidStays ==
    ASSUME PGInv, PGInv', PaidInv, [PGNext]_pgVars
    PROVE  PaidInv'
<1>1. Paid(App, BilledSoFar) /\ App.billed = billed /\ App'.billed = billed'
  BY DEF PaidInv, App
<1>2. ASSUME frames = <<>> \/ Top.phase # "settle"
      PROVE  Paid(App, billed)
  BY <1>1, <1>2, BilledIfNotPending DEF IsPending, InPhase
<1>3. ASSUME frames' = <<>>, Paid(App', billed')
      PROVE  PaidInv'
  BY <1>3, BilledIfNotPending DEF PaidInv, IsPending, InPhase
<1>4. ASSUME NEW ops \in Batches, NEW fee \in BaseFees, PGHandleOps(ops, fee)
      PROVE  PaidInv'
  <2>1. /\ frames = <<>> /\ frames' # <<>> /\ Top'.phase = "validate"
        /\ App' = App /\ saved' = App
    BY <1>4, StartTop, SameApp DEF PGHandleOps, PGInv, NewFrame
  <2>2. ~IsPending'
    BY <2>1 DEF IsPending, InPhase
  <2> QED
    BY <1>1, <1>2, <2>1, <2>2, BilledIfNotPending DEF PaidInv, InPhase, InnerPhase
<1>5. CASE PGHandleOpsStep
  <2>1. CASE PGCallValidateUserOp
    <3>1. /\ SameOperation /\ Top.phase = "validate" /\ Top'.phase = "validateUserOp"
          /\ Top.i \in 1 .. Len(Top.ops)
      BY <2>1, CreateTop DEF PGInv, PGCallValidateUserOp
    <3>2. Paid(App, billed)
      BY <1>2, <3>1
    <3>3. Untouched /\ billed' = billed /\ saved' = saved /\ inner' = inner
      <4>1. UNCHANGED <<nativeCredits, granted, refilled, billed, saved, inner>>
        BY <2>1 DEF PGCallValidateUserOp, history, txVars
      <4>2. CASE constructor(TopOp.sender)
        BY <4>1, <4>2, ConstructorUntouched
      <4>3. CASE UNCHANGED <<walletVars, paymasterVars>>
        BY <4>1, <4>3 DEF walletVars, paymasterVars, Untouched
      <4> QED
        BY <2>1, <4>1, <4>2, <4>3 DEF PGCallValidateUserOp
    <3>4. Paid(App', billed')
      BY <3>2, <3>3, UntouchedPaid
    <3> QED
      BY <3>1, <3>3, <3>4, PaidInside DEF SameOperation, SameBatch, InnerPhase
  <2>2. CASE WalletValidates
    <3>1. SameOperation /\ Top.phase = "validateUserOp" /\ Top'.phase = "validateUserOp"
      BY <2>2, WalletValidatesMoves
    <3>2. Paid(App', billed')
      BY <1>2, <2>2, <3>1, WalletValidatesPaid
    <3> QED
      BY <2>2, <3>1, <3>2, PaidInside
      DEF WalletValidates, SameOperation, SameBatch, InnerPhase
  <2>3. ASSUME NEW used \in GasUsed, NEW over \in Overhead, PGValidationEnds(used, over)
        PROVE  PaidInv'
    <3>1. /\ SameBatch /\ Top.phase = "validateUserOp"
          /\ Top'.phase \in {"execute", "validate"}
      BY <2>3, ValidatedMoves, ValidatedTop DEF PGInv
    <3>2. App' = App /\ saved' = saved /\ inner' = inner
      BY <2>3, SameApp DEF PGValidationEnds
    <3>3. Paid(App', billed')
      BY <1>1, <1>2, <3>1, <3>2
    <3> QED
      BY <3>1, <3>2, <3>3, PaidInside DEF SameBatch, InnerPhase
  <2>4. ASSUME NEW over \in Overhead, PGInnerHandleOp(over)
        PROVE  PaidInv'
    <3>1. /\ SameOperation /\ Top.phase = "execute"
          /\ Top'.phase = IF TopOp.callData THEN "call"
                          ELSE IF TopInfo.context THEN "postOp" ELSE "settle"
      BY <2>4, InnerTop DEF PGInv, PGInnerHandleOp
    <3>2. App' = App /\ saved' = saved /\ inner' = App
      BY <2>4, SameApp DEF PGInnerHandleOp
    <3>3. Paid(App, billed) /\ billed' = billed
      BY <1>1, <1>2, <3>1, <3>2
    <3>4. TopInfo' = TopInfo
      BY <3>1 DEF TopInfo, SameOperation
    <3>5. ~IsPending' /\ (InPhase("postOp") => TopInfo.context)'
      BY <3>1, <3>4 DEF IsPending, InPhase
    <3> QED
      BY <1>1, <3>1, <3>2, <3>3, <3>5, BilledIfNotPending
      DEF PaidInv, SameOperation, SameBatch
  <2>5. ASSUME NEW success \in BOOLEAN, NEW used \in GasUsed, PGCallReturns(success, used)
        PROVE  PaidInv'
    <3>1. /\ SameOperation /\ Top.phase = "call"
          /\ Top'.phase = IF TopInfo.context THEN "postOp" ELSE "settle"
      BY <2>5, CallReturnsTop DEF PGInv, PGCallReturns
    <3>2. Paid(App', billed')
      BY <1>2, <2>5, <3>1, CallReturnsPaid
    <3>3. saved' = saved /\ inner' = inner
      BY <2>5 DEF PGCallReturns, txVars
    <3>4. TopInfo' = TopInfo
      BY <3>1 DEF TopInfo, SameOperation
    <3>5. ~IsPending' /\ (InPhase("postOp") => TopInfo.context)'
      BY <3>1, <3>4 DEF IsPending, InPhase
    <3> QED
      BY <3>1, <3>2, <3>3, <3>5, BilledIfNotPending
      DEF PaidInv, SameOperation, SameBatch, InnerPhase
  <2>6. ASSUME NEW used \in GasUsed, postOp(used)
        PROVE  PaidInv'
    <3>1. /\ SameOperation /\ Top.phase = "postOp" /\ Top'.phase = "settle"
          /\ Top'.mode = Top.mode /\ bill' = Charge
          /\ billed' = billed /\ saved' = saved /\ inner' = inner
      BY <2>6, PostOpMoves DEF history
    <3>2. TopInfo.context /\ TopInfo' = TopInfo /\ TopOp' = TopOp
      BY <3>1 DEF PaidInv, InPhase, TopInfo, TopOp, SameOperation, SameBatch
    <3>3. IsPending'
      BY <3>1, <3>2 DEF IsPending, InPhase, SameOperation, SameBatch
    <3>4. Means(TopOp)' = Means(TopOp)
      BY <3>1, <3>2 DEF Means, ByNative
    <3>5. BilledSoFar' = [billed EXCEPT ![Means(TopOp)] = @ + Charge]
      BY <3>1, <3>3, <3>4 DEF BilledSoFar
    <3>6. Paid(App', BilledSoFar')
      BY <1>2, <2>6, <3>1, <3>5, PostOpPaid
    <3> QED
      BY <3>1, <3>6 DEF PaidInv, InPhase, SameOperation, SameBatch, InnerPhase
  <2>7. ASSUME NEW used \in GasUsed, NEW over \in Overhead, PGInnerReverts(used, over)
        PROVE  PaidInv'
    <3>1. /\ SameOperation /\ Top.phase \in InnerPhase
          /\ Top'.phase = IF TopInfo.context THEN "postOp" ELSE "settle"
      BY <2>7, RevertsTop DEF PGInv, PGInnerReverts
    <3>2. App' = inner /\ saved' = saved /\ inner' = inner
      BY <2>7, RevertsTyped DEF PGInnerReverts, txVars
    <3>3. Paid(inner, inner.billed) /\ billed' = inner.billed
      BY <1>1, <3>1, <3>2 DEF PaidInv, SameOperation, SameBatch
    <3>4. TopInfo' = TopInfo
      BY <3>1 DEF TopInfo, SameOperation
    <3>5. ~IsPending' /\ (InPhase("postOp") => TopInfo.context)'
      BY <3>1, <3>4 DEF IsPending, InPhase
    <3> QED
      BY <3>1, <3>2, <3>3, <3>5, BilledIfNotPending
      DEF PaidInv, SameOperation, SameBatch
  <2>8. CASE PGSettle
    <3>1. SameBatch /\ Top.phase = "settle" /\ Top'.phase \in {"compensate", "execute"}
      BY <2>8, SettleTop DEF PGInv, PGSettle
    <3>2. billed' = BilledSoFar
      BY <2>8, <3>1 DEF PGSettle, BilledSoFar, IsPending, InPhase, SameBatch
    <3>3. /\ UNCHANGED <<eth, tokens, credits, nativeCredits, granted, refilled>>
          /\ saved' = saved /\ inner' = inner
      BY <2>8 DEF PGSettle, walletVars, paymasterVars, txVars
    <3>4. Paid(App', billed')
      BY <1>1, <3>2, <3>3, UntouchedPaid DEF Untouched
    <3> QED
      BY <3>1, <3>3, <3>4, PaidInside DEF SameBatch, InnerPhase
  <2>9. CASE PGCompensate
    <3>1. App' = App /\ frames' = <<>> /\ frames # <<>> /\ Top.phase = "compensate"
      BY <2>9, CompensateTyped DEF PGCompensate, _compensate, InPhase
    <3> QED
      BY <1>1, <1>2, <1>3, <3>1
  <2>10. CASE PGHandleOpsReverts
    <3>1. App' = saved /\ frames' = <<>> /\ frames # <<>>
      BY <2>10, HandleOpsRevertsTyped DEF PGHandleOpsReverts, HandleOpsReverts
    <3> QED
      BY <1>1, <1>3, <3>1 DEF PaidInv
  <2> QED
    BY <1>5, <2>1, <2>2, <2>3, <2>4, <2>5, <2>6, <2>7, <2>8, <2>9, <2>10
    DEF PGHandleOpsStep
<1>6. ASSUME NEW a \in Wallet, PGDeploy(a)
      PROVE  PaidInv'
  BY <1>2, <1>3, <1>6, DeployTyped, DeployPaid
<1>7. CASE PGIdleStep
  <2>1. frames = <<>> /\ frames' = <<>>
    BY <1>7, IdleRests DEF Rests
  <2> QED
    BY <1>2, <1>3, <1>7, <2>1, IdlePaid
<1>8. CASE UNCHANGED pgVars
  <2>1. UNCHANGED <<frames, bill, saved, inner, billed>> /\ App' = App
    BY <1>8, SameApp DEF pgVars, vars, appVars, txVars, history
  <2>2. Top' = Top
    BY <2>1 DEF Top
  <2> QED
    BY <2>1, <2>2 DEF PaidInv, BilledSoFar, IsPending, InPhase, TopInfo, TopOp, Means,
                      ByNative
<1> QED
  BY <1>4, <1>5, <1>6, <1>7, <1>8, KindsOfSteps

\* Every sponsored operation is paid for once, by one of the four means, and a
\* payment that is taken back is not billed (SponsoredOpsPayOnce).
THEOREM EveryOperationPaysOnce == PGSpec => []SponsoredOpsPayOnce
<1>1. PaidInv => SponsoredOpsPayOnce
  <2> SUFFICES ASSUME PaidInv, frames = <<>>
               PROVE  SponsoredOpsPayOnce
    BY DEF SponsoredOpsPayOnce
  <2>1. Paid(App, billed)
    BY BilledIfNotPending DEF PaidInv, IsPending, InPhase
  <2>2. IsFiniteSet(Wallet)
    BY NoWallets
  <2>3. Total(credits) = SumOf(credits, Wallet)
    BY <2>2, SumIsSumOf DEF Total
  <2>4. Total(nativeCredits) = SumOf(nativeCredits, Wallet)
    BY <2>2, SumIsSumOf DEF Total
  <2> QED
    BY <2>1, <2>3, <2>4, PaidApp DEF SponsoredOpsPayOnce
<1>2. PGInv /\ PGInv' /\ PaidInv /\ [PGNext]_pgVars => PaidInv'
  BY PaidStays
<1> QED
  BY <1>1, <1>2, PaidAtFirst, AlwaysPGInv, PTL DEF PGSpec


-----------------------------------------------------------------------------
(***************************************************************************)
(* Credit.  What a paymaster checked at the validation is still there when *)
(* the postOp is called again after a revert: between the two, only other  *)
(* operations of the batch use up credit, of other wallets or with other   *)
(* paymasters.                                                             *)
(***************************************************************************)

\* A wallet has at most one operation with each paymaster in a batch.
OneSponsoredEach ==
    \A ops \in Batches : \A j, k \in 1 .. Len(ops) :
        (j # k /\ Sponsored(ops[j]) /\ Sponsored(ops[k]) /\ ops[j].sender = ops[k].sender)
            => ops[j].paymaster # ops[k].paymaster

CreditFor(app, op) ==
    IF ByNative(op) THEN app.nativeCredits[op.sender] ELSE app.credits[op.sender]

Covers(app, S) ==
    \A j \in S : Top.opInfos[j].context => contexts[j] <= CreditFor(app, Top.ops[j])

\* The operations in progress that have not used up credit.
Unpaid ==
    IF Top.phase = "settle" /\ Top.mode = "postOpReverted" THEN Held(Top) \ {Top.i}
    ELSE Held(Top)

CreditInv ==
    frames # <<>> => /\ Covers(App, Unpaid)
                     /\ Top.phase \in InnerPhase => Covers(inner, Held(Top))

HeldFacts ==
    frames # <<>> =>
        /\ Top.phase \in {"validate", "validateUserOp"} =>
              Held(Top) = 1 .. Len(Top.opInfos)
        /\ Top.phase \in InnerPhase \cup {"execute"} =>
              Held(Top) = Top.i .. Len(Top.opInfos)
        /\ Top.phase = "compensate" => Held(Top) = {}
        /\ Held(Top) \subseteq 1 .. Len(Top.opInfos)
        /\ Top.phase # "settle" => Unpaid = Held(Top)
        /\ Unpaid \subseteq Held(Top)

LEMMA HeldNow == PGInv => HeldFacts
<1> SUFFICES ASSUME PGInv, frames # <<>>
             PROVE  HeldFacts
  BY DEF HeldFacts
<1>1. Top.i \in 1 .. Len(Top.ops) /\ Top.i \in Nat \ {0} /\ Top.phase \in Phase
  BY TopFrame DEF PGInv, Frame
<1>2. Top.opInfos \in Seq(UserOpInfo)
  BY TopFrame DEF PGInv, Frame
<1>3. Len(Top.opInfos) \in Nat
  BY <1>2
<1>4. /\ Top.phase \in {"validate", "validateUserOp"} =>
            Held(Top) = 1 .. Len(Top.opInfos)
      /\ Top.phase \in InnerPhase \cup {"execute"} =>
            Held(Top) = Top.i .. Len(Top.opInfos)
      /\ Top.phase = "compensate" => Held(Top) = {}
  BY DEF Held, InnerPhase
<1>5. Held(Top) \subseteq 1 .. Len(Top.opInfos)
  BY <1>1, <1>3, <1>4 DEF Phase, External, InnerPhase
<1> QED
  BY <1>4, <1>5 DEF HeldFacts, Unpaid

LEMMA HeldNext == PGInv' => HeldFacts'
BY HeldNow, PTL

\* Steps that use up no credit, between two places where an operation is not
\* settled.
LEMMA CreditStays ==
    ASSUME CreditInv, SameOperation, contexts' = contexts,
           credits' = credits, nativeCredits' = nativeCredits,
           Unpaid' \subseteq Unpaid,
           Top'.phase \in InnerPhase =>
              Top.phase \in InnerPhase /\ inner' = inner /\ Held(Top') \subseteq Held(Top)
    PROVE  CreditInv'
<1>1. Covers(App, Unpaid)'
  BY DEF CreditInv, Covers, CreditFor, App, SameOperation, SameBatch
<1>2. ASSUME Top'.phase \in InnerPhase
      PROVE  Covers(inner, Held(Top))'
  BY <1>2 DEF CreditInv, Covers, CreditFor, SameOperation, SameBatch
<1> QED
  BY <1>1, <1>2 DEF CreditInv

\* What the paymasters checked.
LEMMA CreditWasChecked ==
    ASSUME NEW used, NEW over, PGValidationEnds(used, over), Sponsored(TopOp)
    PROVE  ContextOf(TopOp, Top.basefee) <= CreditFor(App, TopOp)
BY DEF PGValidationEnds, Sponsored, ByNative, ByVerifying, ContextOf, CreditFor, App,
       NP!validatePaymasterUserOp, DP!validatePaymasterUserOp

LEMMA ValidatedCredit ==
    ASSUME PGInv, PGInv', CreditInv, NEW used \in GasUsed, NEW over \in Overhead,
           PGValidationEnds(used, over)
    PROVE  CreditInv'
<1> DEFINE context == UO!hasPaymaster(TopOp) /\ ~ByVerifying(TopOp)
           info    == [prefund |-> UO!requiredPreFund(TopOp, Top.basefee),
                       context |-> context, cost |-> 0,
                       preOpGas |-> used + over + TopOp.preVerificationGas]
<1>1. /\ ValidationEnds(used, over, context) /\ context \in BOOLEAN
      /\ App' = App
      /\ contexts' = Append(contexts, ContextOf(TopOp, Top.basefee))
  BY ValidatedMoves
<1> HIDE DEF context
<1>2. /\ SameBatch /\ Top.phase = "validateUserOp"
      /\ Top.i \in 1 .. Len(Top.ops) /\ Top.i \in Nat \ {0}
      /\ Len(Top.opInfos) = Top.i - 1
      /\ Top'.opInfos = Append(Top.opInfos, info)
      /\ Top'.phase \in {"execute", "validate"}
      /\ Top'.phase = "execute" => Top'.i = 1
  BY <1>1, ValidatedTop DEF PGInv
<1>3. info.context => Sponsored(TopOp)
  BY DEF info, context, Sponsored
<1> HIDE DEF info
<1>4. /\ Len(Top'.opInfos) = Top.i
      /\ Top'.opInfos[Top.i] = info
      /\ contexts'[Top.i] = ContextOf(TopOp, Top.basefee)
      /\ \A j \in 1 .. Top.i - 1 : /\ Top'.opInfos[j] = Top.opInfos[j]
                                   /\ contexts'[j] = contexts[j]
  <2>1. /\ frames # <<>> /\ Top.i \in Nat \ {0}
        /\ Len(Top.opInfos) = Top.i - 1
        /\ Top'.opInfos = Append(Top.opInfos, info)
    BY <1>2 DEF SameBatch
  <2> QED
    BY <1>1, <2>1, InfosAppend
<1>5. Unpaid' \subseteq 1 .. Top.i
  BY <1>2, <1>4, HeldNext DEF HeldFacts, SameBatch
<1>6. Unpaid = 1 .. Top.i - 1
  BY <1>2, HeldNow DEF HeldFacts, SameBatch
<1>7. ASSUME NEW j \in 1 .. Top.i, Top'.opInfos[j].context
      PROVE  contexts'[j] <= CreditFor(App', Top'.ops[j])
  <2>1. CASE j = Top.i
    <3>1. Top'.ops[j] = TopOp
      BY <1>2, <2>1 DEF TopOp, SameBatch
    <3>2. Sponsored(TopOp)
      BY <1>3, <1>4, <1>7, <2>1
    <3> QED
      BY <1>1, <1>4, <2>1, <3>1, <3>2, CreditWasChecked
  <2>2. CASE j # Top.i
    <3>1. j \in 1 .. Top.i - 1
      BY <1>2, <2>2
    <3>2. Top'.opInfos[j] = Top.opInfos[j] /\ contexts'[j] = contexts[j]
      BY <1>4, <3>1
    <3>3. Top'.ops[j] = Top.ops[j]
      BY <1>2 DEF SameBatch
    <3>4. contexts[j] <= CreditFor(App, Top.ops[j])
      BY <1>2, <1>6, <1>7, <3>1, <3>2 DEF CreditInv, Covers, SameBatch
    <3> QED
      BY <1>1, <3>2, <3>3, <3>4
  <2> QED
    BY <2>1, <2>2
<1>8. Covers(App, Unpaid)'
  <2>1. ASSUME NEW j \in Unpaid', Top'.opInfos[j].context
        PROVE  contexts'[j] <= CreditFor(App', Top'.ops[j])
    BY <1>5, <1>7, <2>1
  <2> QED
    BY <2>1 DEF Covers, CreditFor, ByNative
<1> QED
  BY <1>2, <1>8 DEF CreditInv, InnerPhase


\* A postOp after a revert uses up the credit of its own operation only.
LEMMA PostOpCredit ==
    ASSUME NEW M, OneSponsoredEach, PGInv, PGInv', GasInv(M), PaidInv, CreditInv,
           NEW used, postOp(used)
    PROVE  CreditInv'
<1>1. /\ SameOperation /\ Top.phase = "postOp" /\ Top'.phase = "settle"
      /\ Top'.mode = Top.mode /\ Top.i \in 1 .. Len(Top.ops)
      /\ Len(Top.opInfos) = Len(Top.ops)
      /\ contexts' = contexts /\ inner' = inner
  BY PostOpMoves
<1>2. Held(Top') = Held(Top) /\ Unpaid = Held(Top)
  BY <1>1, ExecutedStillHeld, HeldNow
  DEF SameOperation, SameBatch, InnerPhase, HeldFacts
<1>3. CASE Top.mode # "postOpReverted"
  <2>1. credits' = credits /\ nativeCredits' = nativeCredits
    BY <1>3, PostOpMoves
  <2>2. Unpaid' \subseteq Unpaid
    BY <1>1, <1>2, <1>3 DEF Unpaid
  <2> QED
    BY <1>1, <1>2, <2>1, <2>2, CreditStays DEF InnerPhase
<1>4. CASE Top.mode = "postOpReverted"
  <2>1. Unpaid' = Held(Top) \ {Top.i}
    BY <1>1, <1>2, <1>4 DEF Unpaid, SameOperation
  <2>2. Held(Top) \subseteq 1 .. Len(Top.ops)
    BY <1>1, HeldNow DEF HeldFacts, SameOperation, SameBatch
  <2>3. TopInfo.context /\ frames # <<>>
    BY <1>1 DEF PaidInv, InPhase, SameOperation, SameBatch
  <2>4. Sponsored(TopOp)
    BY <1>1, <2>3 DEF GasInv, InfosOK, InfoOK, TopOp, TopInfo
  <2>5. ASSUME NEW j \in Held(Top) \ {Top.i}, Top.opInfos[j].context
        PROVE  contexts[j] <= CreditFor(App', Top.ops[j])
    <3>1. Sponsored(Top.ops[j]) /\ j \in 1 .. Len(Top.ops) /\ j # Top.i
      BY <1>1, <2>2, <2>3, <2>5 DEF GasInv, InfosOK, InfoOK
    <3>2. contexts[j] <= CreditFor(App, Top.ops[j])
      BY <1>2, <2>3, <2>5 DEF CreditInv, Covers
    <3>3. Top.ops[j].sender = TopOp.sender => Top.ops[j].paymaster # TopOp.paymaster
      <4>1. Top.ops \in Batches
        BY <2>3, TopFrame DEF PGInv, Frame
      <4> QED
        BY <1>1, <2>4, <3>1, <4>1 DEF OneSponsoredEach, TopOp
    <3>4. Top.ops[j].sender = TopOp.sender
             => (ByNative(Top.ops[j]) <=> ~ByNative(TopOp))
      <4>1. Top.ops[j] \in Operation /\ TopOp \in Operation
        BY <1>1, <2>3, <3>1, OperationIn DEF PGInv, TopOp
      <4>2. /\ Top.ops[j].paymaster \in {depositPaymaster, nativePaymaster}
            /\ TopOp.paymaster \in {depositPaymaster, nativePaymaster}
        BY <2>4, <3>1, <4>1, PayGasXAssumption
        DEF Sponsored, ByVerifying, UO!hasPaymaster
      <4> QED
        BY <3>3, <4>2, Roles DEF ByNative
    <3>5. CreditFor(App', Top.ops[j]) = CreditFor(App, Top.ops[j])
      <4>1. /\ credits \in [Holder -> Nat] /\ nativeCredits \in [Holder -> Nat]
            /\ TopOp.sender \in Holder /\ Top.ops[j].sender \in Holder
        BY <1>1, <2>3, <3>1, AppIsTyped, OperationIn, Roles DEF PGInv, PGTyped, TopOp
      <4>2. CASE ByNative(TopOp)
        <5>1. /\ credits' = credits
              /\ nativeCredits' = [nativeCredits EXCEPT ![TopOp.sender] = @ - Charge]
          BY <1>4, <4>2, PostOpMoves
        <5> QED
          BY <3>4, <4>1, <4>2, <5>1 DEF CreditFor, App
      <4>3. CASE ~ByNative(TopOp)
        <5>1. /\ nativeCredits' = nativeCredits
              /\ credits' = [credits EXCEPT ![TopOp.sender] = @ - Charge]
          BY <1>4, <4>3, PostOpMoves
        <5> QED
          BY <3>4, <4>1, <4>3, <5>1 DEF CreditFor, App
      <4> QED
        BY <4>2, <4>3
    <3> QED
      BY <3>2, <3>5
  <2>6. Covers(App, Unpaid)'
    BY <1>1, <2>1, <2>5 DEF Covers, CreditFor, ByNative, SameOperation, SameBatch
  <2>7. Covers(inner, Held(Top))'
    BY <1>1, <1>2, <2>3 DEF CreditInv, Covers, CreditFor, ByNative, SameOperation, SameBatch,
                            InnerPhase
  <2> QED
    BY <2>6, <2>7 DEF CreditInv
<1> QED
  BY <1>3, <1>4

LEMMA SettleCredit ==
    ASSUME PGInv, PGInv', CreditInv, PGSettle
    PROVE  CreditInv'
<1>1. /\ SameBatch /\ Top.phase = "settle"
      /\ Top.i \in 1 .. Len(Top.ops) /\ Len(Top.opInfos) = Len(Top.ops)
      /\ Len(Top'.opInfos) = Len(Top.opInfos)
      /\ \A j \in 1 .. Len(Top.ops) : Top'.opInfos[j].context = Top.opInfos[j].context
      /\ \/ Top'.phase = "compensate"
         \/ Top'.i = Top.i + 1 /\ Top'.phase = "execute"
  BY SettleTop DEF PGInv, PGSettle
<1>2. /\ credits' = credits /\ nativeCredits' = nativeCredits
      /\ contexts' = contexts
  BY DEF PGSettle, paymasterVars, txVars
<1>3. Unpaid' = Held(Top')
  BY <1>1, HeldNext DEF HeldFacts, SameBatch
<1>4. Top.i \in Nat /\ Len(Top.ops) \in Nat
  BY <1>1, TopFrame DEF PGInv, SameBatch
<1>5. Held(Top) = Top.i .. Len(Top.ops)
  BY <1>1, HeldNow DEF HeldFacts, SameBatch, InnerPhase
<1>6. Held(Top') \subseteq Top.i + 1 .. Len(Top.ops)
  BY <1>1, HeldNext DEF HeldFacts, SameBatch
<1>7. Unpaid' \subseteq Unpaid /\ Unpaid' \subseteq 1 .. Len(Top.ops)
  BY <1>1, <1>3, <1>4, <1>5, <1>6 DEF Unpaid
<1>8. Covers(App, Unpaid)'
  BY <1>1, <1>2, <1>7
  DEF CreditInv, Covers, CreditFor, ByNative, App, SameBatch
<1> QED
  BY <1>1, <1>8 DEF CreditInv, InnerPhase

LEMMA CreditStep ==
    ASSUME NEW M, OneSponsoredEach, PGInv, PGInv', GasInv(M), PaidInv, CreditInv,
           [PGNext]_pgVars
    PROVE  CreditInv'
<1>1. ASSUME frames' = <<>>
      PROVE  CreditInv'
  BY <1>1 DEF CreditInv
<1>2. ASSUME NEW ops \in Batches, NEW fee \in BaseFees, PGHandleOps(ops, fee)
      PROVE  CreditInv'
  <2>1. /\ frames' # <<>> /\ Top'.phase = "validate" /\ Top'.opInfos = <<>>
    BY <1>2, StartTop DEF PGHandleOps, PGInv, NewFrame
  <2>2. Unpaid' = {}
    BY <2>1, HeldNext DEF HeldFacts
  <2> QED
    BY <2>1, <2>2 DEF CreditInv, Covers, InnerPhase
<1>3. CASE PGHandleOpsStep
  <2>1. CASE PGCallValidateUserOp
    <3>1. /\ SameOperation /\ Top.phase = "validate" /\ Top'.phase = "validateUserOp"
          /\ Top.i \in 1 .. Len(Top.ops)
      BY <2>1, CreateTop DEF PGInv, PGCallValidateUserOp
    <3>2. Unpaid' \subseteq Unpaid
      BY <3>1, HeldNow, HeldNext DEF HeldFacts, SameOperation, SameBatch
    <3>3. /\ credits' = credits /\ nativeCredits' = nativeCredits
          /\ contexts' = contexts
      BY <2>1
      DEF PGCallValidateUserOp, constructor, DP!approve, paymasterVars, txVars
    <3> QED
      BY <3>1, <3>2, <3>3, CreditStays DEF InnerPhase
  <2>2. CASE WalletValidates
    <3>1. SameOperation /\ Top.phase = "validateUserOp" /\ Top'.phase = "validateUserOp"
      BY <2>2, WalletValidatesMoves
    <3>2. Unpaid' \subseteq Unpaid
      BY <3>1, HeldNow, HeldNext DEF HeldFacts, SameOperation, SameBatch
    <3>3. /\ credits' = credits /\ nativeCredits' = nativeCredits
          /\ contexts' = contexts
      BY <2>2 DEF WalletValidates, paymasterVars
    <3> QED
      BY <3>1, <3>2, <3>3, CreditStays DEF InnerPhase
  <2>3. ASSUME NEW used \in GasUsed, NEW over \in Overhead, PGValidationEnds(used, over)
        PROVE  CreditInv'
    BY <2>3, ValidatedCredit
  <2>4. ASSUME NEW over \in Overhead, PGInnerHandleOp(over)
        PROVE  CreditInv'
    <3>1. /\ SameOperation /\ Top.phase = "execute"
          /\ Top'.phase \in InnerPhase /\ Top'.mode = "opSucceeded"
      BY <2>4, InnerTop DEF PGInv, PGInnerHandleOp, InnerPhase
    <3>2. App' = App /\ inner' = App /\ contexts' = contexts
      BY <2>4, SameApp DEF PGInnerHandleOp
    <3>3. Held(Top') = Held(Top)
      BY <3>1, ExecutedStillHeld DEF SameOperation, SameBatch
    <3>4. Unpaid = Held(Top) /\ Unpaid' = Held(Top)
      BY <3>1, <3>3, HeldNow DEF HeldFacts, Unpaid, SameOperation, SameBatch
    <3> QED
      BY <3>1, <3>2, <3>3, <3>4
      DEF CreditInv, Covers, CreditFor, ByNative, SameOperation, SameBatch
  <2>5. ASSUME NEW success \in BOOLEAN, NEW used \in GasUsed, PGCallReturns(success, used)
        PROVE  CreditInv'
    <3>1. /\ SameOperation /\ Top.phase = "call" /\ Top'.phase \in InnerPhase
          /\ Top'.mode # "postOpReverted" /\ Top.i \in 1 .. Len(Top.ops)
      BY <2>5, CallReturnsTop DEF PGInv, PGCallReturns, InnerPhase
    <3>2. Held(Top') = Held(Top)
      BY <3>1, ExecutedStillHeld DEF SameOperation, SameBatch, InnerPhase
    <3>3. Unpaid' \subseteq Unpaid
      BY <3>1, <3>2, HeldNow DEF HeldFacts, Unpaid, SameOperation, SameBatch
    <3>4. TopOp.sender \in Wallet
      BY <3>1, OperationIn DEF TopOp, SameOperation, SameBatch, PGInv
    <3>5. /\ credits' = credits /\ nativeCredits' = nativeCredits
          /\ contexts' = contexts /\ inner' = inner
      BY <2>5, <3>4, ActsTyped DEF PGCallReturns, PGInv, PGTyped, txVars
    <3> QED
      BY <3>1, <3>2, <3>3, <3>5, CreditStays DEF InnerPhase
  <2>6. ASSUME NEW used \in GasUsed, postOp(used)
        PROVE  CreditInv'
    BY <2>6, PostOpCredit
  <2>7. ASSUME NEW used \in GasUsed, NEW over \in Overhead, PGInnerReverts(used, over)
        PROVE  CreditInv'
    <3>1. SameOperation /\ Top.phase \in InnerPhase /\ Top'.phase \in InnerPhase
      BY <2>7, RevertsTop DEF PGInv, PGInnerReverts, InnerPhase
    <3>2. App' = inner /\ inner' = inner /\ contexts' = contexts
      BY <2>7, RevertsTyped DEF PGInnerReverts, txVars
    <3>3. Held(Top') = Held(Top)
      BY <3>1, ExecutedStillHeld DEF SameOperation, SameBatch
    <3>4. Unpaid' \subseteq Held(Top)
      BY <3>1, <3>3, HeldNext DEF HeldFacts, SameOperation, SameBatch
    <3> QED
      BY <3>1, <3>2, <3>3, <3>4
      DEF CreditInv, Covers, CreditFor, ByNative, SameOperation, SameBatch
  <2>8. CASE PGSettle
    BY <2>8, SettleCredit
  <2>9. CASE PGCompensate
    BY <1>1, <2>9, CompensateTyped
  <2>10. CASE PGHandleOpsReverts
    BY <1>1, <2>10, HandleOpsRevertsTyped
  <2> QED
    BY <1>3, <2>1, <2>2, <2>3, <2>4, <2>5, <2>6, <2>7, <2>8, <2>9, <2>10
    DEF PGHandleOpsStep
<1>4. ASSUME NEW a \in Wallet, PGDeploy(a)
      PROVE  CreditInv'
  BY <1>1, <1>4, DeployTyped
<1>5. CASE PGIdleStep
  BY <1>1, <1>5, IdleRests DEF Rests
<1>6. CASE UNCHANGED pgVars
  <2>1. UNCHANGED <<frames, contexts, inner>> /\ App' = App
    BY <1>6, SameApp DEF pgVars, vars, appVars, txVars
  <2>2. Top' = Top
    BY <2>1 DEF Top
  <2> QED
    BY <2>1, <2>2 DEF CreditInv, Covers, CreditFor, ByNative, Unpaid
<1> QED
  BY <1>2, <1>3, <1>4, <1>5, <1>6, KindsOfSteps

\* "In this mode, we use the deposit to pay (which we validated to be large
\* enough)": the credit covers the charge when the postOp is called again
\* (CreditCoversCharge), in batches with at most one operation of a wallet for
\* each paymaster, and if the verification gas leaves room for the EntryPoint's
\* own gas.
THEOREM CreditIsEnough ==
    ASSUME NEW M \in Nat, HasRoom(M), OneSponsoredEach
    PROVE  PGSpec => []CreditCoversCharge
<1>1. PGInv /\ GasInv(M) /\ PaidInv /\ CreditInv => CreditCoversCharge
  <2> SUFFICES ASSUME PGInv, GasInv(M), PaidInv, CreditInv,
                      frames # <<>>, Top.phase = "postOp",
                      Top.mode = "postOpReverted", TopInfo.prefund # 0
               PROVE  Charge <= CreditFor(App, TopOp)
    BY DEF CreditCoversCharge, InPhase, CreditFor, App
  <2>1. Top.i \in 1 .. Len(Top.opInfos) /\ Top.i \in Nat
    BY TopFrame DEF PGInv, GoodFrame
  <2>2. TopInfo.context
    BY DEF PaidInv, InPhase
  <2>3. contexts[Top.i] <= CreditFor(App, TopOp)
    <3>1. Unpaid = Top.i .. Len(Top.opInfos)
      BY HeldNow DEF HeldFacts, InnerPhase
    <3>2. Top.i \in Unpaid
      BY <2>1, <3>1
    <3> QED
      BY <2>2, <3>2 DEF CreditInv, Covers, TopOp, TopInfo
  <2>4. UO!gasPrice(TopOp, Top.basefee) # 0
    <3>1. TopInfo.prefund = UO!requiredPreFund(TopOp, Top.basefee)
      BY <2>1 DEF GasInv, InfosOK, InfoOK, TopInfo, TopOp
    <3>2. UO!requiredGas(TopOp) \in Nat
      BY TopOpIsTyped DEF UO!requiredGas
    <3>3. \A n \in Nat : n * 0 = 0
      BY ONLY Z3
    <3>4. TopInfo.prefund = UO!requiredGas(TopOp) * UO!gasPrice(TopOp, Top.basefee)
      BY <3>1 DEF UO!requiredPreFund
    <3> QED
      BY <3>2, <3>3, <3>4, Zenon
  <2>5. Charge <= contexts[Top.i]
    BY <2>2, <2>4, ChargeFits
  <2>6. /\ Charge \in Nat /\ contexts[Top.i] \in Nat
        /\ CreditFor(App, TopOp) \in Nat
    <3>1. Charge \in Nat
      BY ChargeIsNat DEF InPhase, CanCompute
    <3>2. contexts[Top.i] \in Nat
      BY <2>1 DEF PGInv, PGTyped
    <3>3. TopOp.sender \in Holder
      BY TopOpIsTyped, PayGasXAssumption, Roles
    <3>4. credits \in [Holder -> Nat] /\ nativeCredits \in [Holder -> Nat]
      BY AppIsTyped DEF PGInv, PGTyped
    <3> QED
      BY <3>1, <3>2, <3>3, <3>4 DEF CreditFor, App
  <2> QED
    BY <2>3, <2>5, <2>6
<1>2. PGInit => CreditInv
  BY DEF PGInit, CreditInv
<1>3. PGInv /\ PGInv' /\ GasInv(M) /\ PaidInv /\ CreditInv /\ [PGNext]_pgVars
         => CreditInv'
  BY CreditStep
<1>4. PGSpec => []GasInv(M)
  BY AlwaysGasInv
<1>5. PGInv /\ PGInv' /\ PaidInv /\ [PGNext]_pgVars => PaidInv'
  BY PaidStays
<1> QED
  BY <1>1, <1>2, <1>3, <1>4, <1>5, PaidAtFirst, AlwaysPGInv, PTL DEF PGSpec


=============================================================================
