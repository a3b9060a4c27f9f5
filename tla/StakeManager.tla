---------------------------- MODULE StakeManager ----------------------------
(***************************************************************************)
(* The deposits and stakes the EntryPoint keeps for wallets and paymasters *)
(* (contracts/StakeManager.sol).  A transaction is atomic, so a function   *)
(* is one action and a failed `require' is an action that is not enabled.  *)
(*                                                                         *)
(* Every payment out of the contract is the last thing its function does:  *)
(* what the payee does when it receives the ether is the same as a call it *)
(* makes afterwards, and a payee that refuses reverts the whole function.  *)
(***************************************************************************)
EXTENDS Integers, FiniteSets, FiniteSetsExt

CONSTANTS
    Account,          \* the addresses that use the contract
    paymasterStake,   \* immutable: least stake of a paymaster
    unstakeDelaySec,  \* immutable: least delay of a stake
    MaxUint112,       \* type(uint112).max, small in the checked instances
    Amount,           \* values a caller sends or asks for
    Delay,            \* delays a caller asks for
    MaxTime           \* bound: the last block timestamp explored

\* EntryPoint's constructor (EntryPoint.sol:87-89) refuses a zero stake and a
\* zero delay.
ASSUME StakeManagerAssumption ==
    /\ IsFiniteSet(Account)
    /\ paymasterStake \in Nat \ {0}
    /\ unstakeDelaySec \in Nat \ {0}
    /\ MaxUint112 \in Nat
    /\ Amount \subseteq Nat
    /\ Delay \subseteq Nat
    /\ MaxTime \in Nat

VARIABLES
    deposits,   \* deposits[a]: the DepositInfo of account a
    balance,    \* the ether the contract holds
    withdrawn,  \* history: the ether withdrawTo has paid out
    timestamp   \* block.timestamp

stakeVars == <<deposits, balance, withdrawn, timestamp>>

-----------------------------------------------------------------------------
DepositInfo == [deposit : 0 .. MaxUint112, staked : BOOLEAN,
                stake : 0 .. MaxUint112, unstakeDelaySec : Nat,
                withdrawTime : Nat]

NoDepositInfo == [deposit |-> 0, staked |-> FALSE, stake |-> 0,
                  unstakeDelaySec |-> 0, withdrawTime |-> 0]

Init ==
    /\ deposits = [a \in Account |-> NoDepositInfo]
    /\ balance = 0
    /\ withdrawn = 0
    /\ timestamp = 1

\* The contract sends v to an address: the EVM refuses to send more than it has.
Pay(v) ==
    /\ v <= balance
    /\ balance' = balance - v

\* A wrong internalIncrementDeposit without the "deposit overflow" check.
internalIncrementDeposit_unchecked(a, v) ==
    deposits' = [deposits EXCEPT ![a].deposit = @ + v]

\* deposits[a] grows by v, or the call reverts with "deposit overflow".
internalIncrementDeposit(a, v) ==
    /\ deposits[a].deposit + v <= MaxUint112
    /\ deposits' = [deposits EXCEPT ![a].deposit = @ + v]

\* Also receive(): ether sent plainly is a deposit of the sender.
depositTo(a, v) ==
    /\ internalIncrementDeposit(a, v)
    /\ balance' = balance + v
    /\ UNCHANGED <<withdrawn, timestamp>>

\* A wrong addStake that forgets to cancel a pending unstake.
addStake_keepsUnlock(a, v, d) ==
    LET info  == deposits[a]
        stake == info.stake + v
    IN  /\ d >= unstakeDelaySec
        /\ d >= info.unstakeDelaySec
        /\ stake >= paymasterStake
        /\ stake < MaxUint112
        /\ deposits' = [deposits EXCEPT ![a] =
              [@ EXCEPT !.staked = TRUE, !.stake = stake, !.unstakeDelaySec = d]]
        /\ balance' = balance + v
        /\ UNCHANGED <<withdrawn, timestamp>>

addStake(a, v, d) ==
    LET info  == deposits[a]
        stake == info.stake + v
    IN  /\ d >= unstakeDelaySec
        /\ d >= info.unstakeDelaySec
        /\ stake >= paymasterStake
        /\ stake < MaxUint112
        /\ deposits' = [deposits EXCEPT ![a] =
              [deposit |-> info.deposit, staked |-> TRUE, stake |-> stake,
               unstakeDelaySec |-> d, withdrawTime |-> 0]]
        /\ balance' = balance + v
        /\ UNCHANGED <<withdrawn, timestamp>>

\* A wrong unlockStake that makes the stake due at once.
unlockStake_noDelay(a) ==
    LET info == deposits[a]
    IN  /\ info.unstakeDelaySec # 0
        /\ info.staked
        /\ deposits' = [deposits EXCEPT ![a].withdrawTime = timestamp,
              ![a].staked = FALSE]
        /\ UNCHANGED <<balance, withdrawn, timestamp>>

unlockStake(a) ==
    LET info == deposits[a]
    IN  /\ info.unstakeDelaySec # 0
        /\ info.staked
        /\ deposits' = [deposits EXCEPT
              ![a].withdrawTime = timestamp + info.unstakeDelaySec,
              ![a].staked = FALSE]
        /\ UNCHANGED <<balance, withdrawn, timestamp>>

\* A wrong withdrawStake that checks only that an unlock was asked for.
withdrawStake_early(a) ==
    LET info == deposits[a]
    IN  /\ info.stake > 0
        /\ info.withdrawTime > 0
        /\ deposits' = [deposits EXCEPT ![a].unstakeDelaySec = 0,
              ![a].withdrawTime = 0, ![a].stake = 0]
        /\ Pay(info.stake)
        /\ UNCHANGED <<withdrawn, timestamp>>

\* A wrong withdrawStake that pays the stake and keeps it on record.
withdrawStake_keepsStake(a) ==
    LET info == deposits[a]
    IN  /\ info.stake > 0
        /\ info.withdrawTime > 0
        /\ info.withdrawTime <= timestamp
        /\ deposits' = [deposits EXCEPT ![a].unstakeDelaySec = 0,
              ![a].withdrawTime = 0]
        /\ Pay(info.stake)
        /\ UNCHANGED <<withdrawn, timestamp>>

withdrawStake(a) ==
    LET info == deposits[a]
    IN  /\ info.stake > 0
        /\ info.withdrawTime > 0
        /\ info.withdrawTime <= timestamp
        /\ deposits' = [deposits EXCEPT ![a].unstakeDelaySec = 0,
              ![a].withdrawTime = 0, ![a].stake = 0]
        /\ Pay(info.stake)
        /\ UNCHANGED <<withdrawn, timestamp>>

\* The function debits a memory copy of the DepositInfo: the payment is made
\* and the deposit in storage keeps its value.
withdrawTo(a, v) ==
    /\ v <= deposits[a].deposit
    /\ Pay(v)
    /\ withdrawn' = withdrawn + v
    /\ UNCHANGED <<deposits, timestamp>>

\* The next block has a later timestamp.
NextBlock ==
    /\ timestamp < MaxTime
    /\ timestamp' = timestamp + 1
    /\ UNCHANGED <<deposits, balance, withdrawn>>

\* The calls account a can make.
StakeCall(a) ==
    \/ \E b \in Account, v \in Amount : depositTo(b, v)
    \/ \E v \in Amount, d \in Delay : addStake(a, v, d)
    \/ unlockStake(a)
    \/ withdrawStake(a)
    \/ \E v \in Amount : withdrawTo(a, v)

Next ==
    \/ \E a \in Account : StakeCall(a)
    \/ NextBlock

Spec == Init /\ [][Next]_stakeVars

-----------------------------------------------------------------------------
\* Each DepositInfo has the types of the struct; the ether held is never
\* negative.
TypeOK ==
    /\ deposits \in [Account -> DepositInfo]
    /\ balance \in Nat
    /\ withdrawn \in Nat
    /\ timestamp \in Nat

\* The total of field f over all accounts.
Deposited(info) == MapThenSumSet(LAMBDA a : info[a].deposit, Account)
Staked(info)    == MapThenSumSet(LAMBDA a : info[a].stake, Account)

\* An account the EntryPoint trusts as a paymaster (`staked') has the whole
\* minimum locked, under at least the minimum delay, with no withdrawal
\* pending: whatever sequence of addStake, unlockStake and withdrawStake led
\* here, _validatePaymasterPrepayment needs to read only `staked'.
StakedIsLocked ==
    \A a \in Account : deposits[a].staked =>
        /\ deposits[a].stake >= paymasterStake
        /\ deposits[a].unstakeDelaySec >= unstakeDelaySec
        /\ deposits[a].withdrawTime = 0

\* A stake that is not locked is on its way out: it has a withdrawal time, at
\* most one delay from now, so no sequence of calls strands it or pushes its
\* withdrawal further away than its owner agreed to.
UnlockedIsDue ==
    \A a \in Account : deposits[a].stake > 0 /\ ~deposits[a].staked =>
        /\ deposits[a].withdrawTime > 0
        /\ deposits[a].withdrawTime <= timestamp + deposits[a].unstakeDelaySec

\* A wallet that never staked, or took its stake back, has no lock data left
\* that could delay or shorten a later stake.
NoStakeNoLock ==
    \A a \in Account : deposits[a].stake = 0 =>
        /\ ~deposits[a].staked
        /\ deposits[a].unstakeDelaySec = 0
        /\ deposits[a].withdrawTime = 0

StakeConsistent == StakedIsLocked /\ UnlockedIsDue /\ NoStakeNoLock

\* Every unit on record came in as ether, and ether leaves only as a stake
\* given back or through withdrawTo: what the contract holds and what
\* withdrawTo paid add up to the deposits and stakes on record.
Conservation ==
    balance + withdrawn = Deposited(deposits) + Staked(deposits)

\* "can be withdrawn anytime using entryPoint.withdrawTo()"
\* (interfaces/IWallet.sol:19): the contract holds enough for any one account
\* to take its whole deposit.
WithdrawableAnytime == \A a \in Account : balance >= deposits[a].deposit

-----------------------------------------------------------------------------
\* The lock a DepositInfo stands for: an unlocked stake started to cool down
\* one delay before its withdrawal time.
LockOf(info) ==
    IF info.staked
    THEN [mode |-> "locked", value |-> info.stake, delay |-> info.unstakeDelaySec]
    ELSE IF info.stake > 0
    THEN [mode |-> "cooling", value |-> info.stake, delay |-> info.unstakeDelaySec,
          since |-> info.withdrawTime - info.unstakeDelaySec]
    ELSE [mode |-> "open"]

TL == INSTANCE TimeLock WITH
          Owner <- Account, Value <- 0 .. MaxUint112, Delays <- Delay,
          MinValue <- paymasterStake, MinDelay <- unstakeDelaySec,
          lock <- [a \in Account |-> LockOf(deposits[a])], now <- timestamp

\* The stakes implement time locks: whatever is deposited, added, unlocked or
\* withdrawn by anyone, a stake on record leaves only when its owner unlocked
\* it a whole delay ago and did not lock it again since.
ImplementsTimeLock == TL!Spec

=============================================================================
