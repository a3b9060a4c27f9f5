------------------------ MODULE EntryPoint_proofs ------------------------
(***************************************************************************)
(* Theorems about EntryPoint, for every set of accounts and batches, any   *)
(* gas, any depth of nested calls and any number of calls back into the    *)
(* contract.                                                               *)
(***************************************************************************)
EXTENDS EntryPoint, StakeManager_proofs

-----------------------------------------------------------------------------
(* Stakes within one block. *)

\* Who counts as staked has the minimum at stake and no withdrawal pending.
GoodStakes(d) ==
    /\ d \in [Account -> DepositInfo]
    /\ \A a \in Account : d[a].staked => /\ d[a].stake >= paymasterStake
                                         /\ d[a].withdrawTime = 0

\* The stake of a cannot be taken out in a block with time `now'.
NotDue(d, now, a) == d[a].withdrawTime = 0 \/ d[a].withdrawTime > now

\* What may become of the records d in the rest of the block: a stake that is
\* not due does not get smaller, nor due.
Kept(d, e, now) ==
    \A a \in Account : NotDue(d, now, a) => /\ e[a].stake >= d[a].stake
                                            /\ NotDue(e, now, a)

LEMMA KeptIsReflexive ==
    ASSUME NEW d, NEW now, GoodStakes(d)
    PROVE  Kept(d, d, now)
BY DEF Kept, GoodStakes, DepositInfo

LEMMA KeptIsTransitive ==
    ASSUME NEW c, NEW d, NEW e, NEW now, GoodStakes(c), GoodStakes(d), GoodStakes(e),
           Kept(c, d, now), Kept(d, e, now)
    PROVE  Kept(c, e, now)
<1> SUFFICES ASSUME NEW a \in Account, NotDue(c, now, a)
             PROVE  e[a].stake >= c[a].stake /\ NotDue(e, now, a)
  BY DEF Kept
<1>1. c[a].stake \in Nat /\ d[a].stake \in Nat /\ e[a].stake \in Nat
  BY StakeManagerAssumption DEF GoodStakes, DepositInfo
<1> QED
  BY <1>1 DEF Kept

\* A step that changes deposits only keeps the stakes.
LEMMA DepositsKeepStakes ==
    ASSUME GoodStakes(deposits), NEW a \in Account, NEW v \in 0 .. MaxUint112,
           NEW now,
           deposits' = [deposits EXCEPT ![a].deposit = v]
    PROVE  GoodStakes(deposits') /\ Kept(deposits, deposits', now)
<1>1. deposits' \in [Account -> DepositInfo]
  BY DEF GoodStakes, DepositInfo
<1>2. \A b \in Account : /\ deposits'[b].stake = deposits[b].stake
                         /\ deposits'[b].staked = deposits[b].staked
                         /\ deposits'[b].withdrawTime = deposits[b].withdrawTime
  BY DEF GoodStakes, DepositInfo
<1>3. \A b \in Account : deposits[b].stake \in Int
  BY StakeManagerAssumption DEF GoodStakes, DepositInfo
<1> QED
  BY <1>1, <1>2, <1>3 DEF GoodStakes, Kept, NotDue

\* No call of the StakeManager takes out a stake that is not due.
LEMMA StakeCallsKeepStakes ==
    ASSUME TypeOK, GoodStakes(deposits), NEW a \in Account, StakeCall(a)
    PROVE  /\ GoodStakes(deposits')
           /\ Kept(deposits, deposits', timestamp)
           /\ TypeOK'
           /\ timestamp' = timestamp
<1> USE StakeManagerAssumption
<1>1. ASSUME NEW b \in Account, NEW v \in Amount, depositTo(b, v)
      PROVE  /\ GoodStakes(deposits')
             /\ Kept(deposits, deposits', timestamp)
             /\ TypeOK'
             /\ timestamp' = timestamp
  <2>1. deposits[b].deposit \in 0 .. MaxUint112
    BY DEF GoodStakes, DepositInfo
  <2>2. /\ deposits[b].deposit + v \in 0 .. MaxUint112
        /\ deposits' = [deposits EXCEPT ![b].deposit = deposits[b].deposit + v]
    BY <1>1, <2>1 DEF depositTo, internalIncrementDeposit, GoodStakes
  <2>3. GoodStakes(deposits') /\ Kept(deposits, deposits', timestamp)
    BY <2>2, DepositsKeepStakes
  <2> QED
    BY <1>1, <2>3 DEF depositTo, TypeOK, GoodStakes
<1>2. ASSUME NEW v \in Amount, NEW e \in Delay, addStake(a, v, e)
      PROVE  /\ GoodStakes(deposits')
             /\ Kept(deposits, deposits', timestamp)
             /\ TypeOK'
             /\ timestamp' = timestamp
  <2> DEFINE info == [deposit |-> deposits[a].deposit, staked |-> TRUE,
                      stake |-> deposits[a].stake + v,
                      unstakeDelaySec |-> e, withdrawTime |-> 0]
  <2>1. deposits[a] \in DepositInfo
    BY DEF GoodStakes
  <2>2. info \in DepositInfo /\ info.stake >= paymasterStake /\ info.stake >= deposits[a].stake
    BY <1>2, <2>1 DEF addStake, DepositInfo
  <2>3. deposits' = [deposits EXCEPT ![a] = info]
    BY <1>2 DEF addStake
  <2>4. \A b \in Account : deposits[b].stake \in Int
    BY DEF GoodStakes, DepositInfo
  <2>5. GoodStakes(deposits') /\ Kept(deposits, deposits', timestamp)
    BY <2>2, <2>3, <2>4 DEF GoodStakes, Kept, NotDue
  <2> QED
    BY <1>2, <2>5 DEF addStake, TypeOK, GoodStakes
<1>3. ASSUME unlockStake(a)
      PROVE  /\ GoodStakes(deposits')
             /\ Kept(deposits, deposits', timestamp)
             /\ TypeOK'
             /\ timestamp' = timestamp
  <2> DEFINE info == [deposit |-> deposits[a].deposit, staked |-> FALSE,
                      stake |-> deposits[a].stake,
                      unstakeDelaySec |-> deposits[a].unstakeDelaySec,
                      withdrawTime |-> timestamp + deposits[a].unstakeDelaySec]
  <2>1. deposits[a] \in DepositInfo /\ timestamp \in Nat
    BY DEF GoodStakes, TypeOK
  <2>2. info \in DepositInfo /\ info.withdrawTime > timestamp /\ info.stake >= deposits[a].stake
    BY <1>3, <2>1 DEF unlockStake, DepositInfo
  <2>3. deposits' = [deposits EXCEPT ![a] = info]
    BY <1>3, <2>1 DEF unlockStake, GoodStakes, DepositInfo
  <2>4. \A b \in Account : deposits[b].stake \in Int
    BY DEF GoodStakes, DepositInfo
  <2>5. GoodStakes(deposits') /\ Kept(deposits, deposits', timestamp)
    BY <2>2, <2>3, <2>4 DEF GoodStakes, Kept, NotDue
  <2> QED
    BY <1>3, <2>5 DEF unlockStake, TypeOK, GoodStakes
<1>4. ASSUME withdrawStake(a)
      PROVE  /\ GoodStakes(deposits')
             /\ Kept(deposits, deposits', timestamp)
             /\ TypeOK'
             /\ timestamp' = timestamp
  <2> DEFINE info == [deposit |-> deposits[a].deposit,
                      staked |-> deposits[a].staked, stake |-> 0,
                      unstakeDelaySec |-> 0, withdrawTime |-> 0]
  <2>1. deposits[a] \in DepositInfo /\ timestamp \in Nat
    BY DEF GoodStakes, TypeOK
  <2>2. deposits[a].withdrawTime > 0 /\ deposits[a].withdrawTime <= timestamp
    BY <1>4 DEF withdrawStake
  <2>3. info \in DepositInfo /\ ~info.staked /\ ~NotDue(deposits, timestamp, a)
    BY <2>1, <2>2 DEF GoodStakes, DepositInfo, NotDue
  <2>4. deposits' = [deposits EXCEPT ![a] = info]
    BY <1>4, <2>1 DEF withdrawStake, GoodStakes, DepositInfo
  <2>5. \A b \in Account : deposits[b].stake \in Int
    BY DEF GoodStakes, DepositInfo
  <2>6. GoodStakes(deposits') /\ Kept(deposits, deposits', timestamp)
    BY <2>3, <2>4, <2>5 DEF GoodStakes, Kept, NotDue
  <2> QED
    BY <1>4, <2>1, <2>6 DEF withdrawStake, Pay, TypeOK, GoodStakes, DepositInfo
<1>5. ASSUME NEW v \in Amount, withdrawTo(a, v)
      PROVE  /\ GoodStakes(deposits')
             /\ Kept(deposits, deposits', timestamp)
             /\ TypeOK'
             /\ timestamp' = timestamp
  BY <1>5, KeptIsReflexive DEF withdrawTo, Pay, TypeOK
<1> QED
  BY <1>1, <1>2, <1>3, <1>4, <1>5 DEF StakeCall

-----------------------------------------------------------------------------
(***************************************************************************)
(* The stack of handleOps calls, as an argument: its frames hold copies of *)
(* the records that a revert brings back, so what is true of the records   *)
(* must be known of all the copies too.                                    *)
(***************************************************************************)

\* The phases in which a revert of innerHandleOp brings back `inner'.
InnerPhase == {"call", "postOp", "settle"}

\* The stake of paymaster a is there and cannot be taken out in this block.
Stays(d, now, a) == d[a].stake >= paymasterStake /\ NotDue(d, now, a)

\* So it is for each paymaster whose operation a frame has accepted.
Secured(d, now, f) ==
    \A j \in 1 .. Len(f.opInfos) :
        UO!hasPaymaster(f.ops[j]) => Stays(d, now, f.ops[j].paymaster)

Frame == [phase : Phase, ops : Batches, basefee : BaseFees, i : Nat,
          opInfos : Seq(UserOpInfo), mode : PostOpMode, actualGas : Nat,
          collected : Nat, saved : WorldType, inner : WorldType,
          calls : 0 .. MaxCalls]

\* Of a frame: it is where it should be in its batch, and its copies are good.
GoodFrame(f) ==
    /\ f \in Frame
    /\ f.i \in 1 .. Len(f.ops)
    /\ Len(f.opInfos) = IF f.phase \in {"validate", "validateUserOp"}
                        THEN f.i - 1 ELSE Len(f.ops)
    /\ GoodStakes(f.saved.deposits)
    /\ GoodStakes(f.inner.deposits)

\* Of a frame k, with the records d of the moment: every copy was made in this
\* block, after the copy that the first frame saved.
GoodCopies(fs, k, d, now) ==
    /\ Kept(fs[1].saved.deposits, d, now)
    /\ Kept(fs[1].saved.deposits, fs[k].saved.deposits, now)
    /\ Kept(fs[1].saved.deposits, fs[k].inner.deposits, now)

\* Of a frame k: the stakes it relies on are there, and in every copy that can
\* be brought back while it lasts.
SecuredFrame(fs, k, d, now) ==
    /\ Secured(d, now, fs[k])
    /\ \A m \in k + 1 .. Len(fs) : /\ Secured(fs[m].saved.deposits, now, fs[k])
                                   /\ Secured(fs[m].inner.deposits, now, fs[k])
    /\ fs[k].phase \in InnerPhase => Secured(fs[k].inner.deposits, now, fs[k])

StackInv(fs, d, now) ==
    /\ fs \in Seq(Frame)
    /\ GoodStakes(d)
    /\ \A k \in 1 .. Len(fs) : /\ GoodFrame(fs[k])
                               /\ GoodCopies(fs, k, d, now)
                               /\ SecuredFrame(fs, k, d, now)

\* The accounts of operations are addresses.
LEMMA Operations ==
    ASSUME NEW f \in Frame, NEW j \in 1 .. Len(f.ops)
    PROVE  /\ f.ops \in Seq(UO!UserOperationOf(Nat))
           /\ f.ops # <<>>
           /\ f.ops[j] \in UO!UserOperationOf(Nat)
           /\ UO!hasPaymaster(f.ops[j]) => f.ops[j].paymaster \in Account
<1>1. f.ops \in Seq(UO!UserOperationOf(Nat)) /\ f.ops # <<>>
  BY EntryPointAssumption DEF Frame
<1>2. f.ops[j] \in UO!UserOperationOf(Nat)
  BY <1>1
<1>3. f.ops[j].paymaster \in Account \cup {NoPaymaster}
  BY <1>2 DEF UO!UserOperationOf
<1> QED
  BY <1>1, <1>2, <1>3 DEF UO!hasPaymaster

\* What is kept stays, so a frame that is secured stays so.
LEMMA SecuredStays ==
    ASSUME NEW d, NEW e, NEW now, NEW f, GoodStakes(d), GoodStakes(e),
           GoodFrame(f), Secured(d, now, f), Kept(d, e, now)
    PROVE  Secured(e, now, f)
<1> USE StakeManagerAssumption
<1> SUFFICES ASSUME NEW j \in 1 .. Len(f.opInfos), UO!hasPaymaster(f.ops[j])
             PROVE  Stays(e, now, f.ops[j].paymaster)
  BY DEF Secured
<1>1. j \in 1 .. Len(f.ops)
  <2>1. Len(f.opInfos) <= Len(f.ops)
    BY DEF GoodFrame, Frame
  <2>2. Len(f.ops) \in Nat /\ Len(f.opInfos) \in Nat
    BY EntryPointAssumption DEF GoodFrame, Frame
  <2> QED
    BY <2>1, <2>2
<1>2. f.ops[j].paymaster \in Account
  BY <1>1, Operations DEF GoodFrame
<1> DEFINE p == f.ops[j].paymaster
<1>3. d[p].stake \in Int /\ e[p].stake \in Int
  <2>1. d[p] \in DepositInfo /\ e[p] \in DepositInfo
    BY <1>2 DEF GoodStakes
  <2> QED
    BY <2>1, StakeManagerAssumption DEF DepositInfo
<1>4. Stays(d, now, p)
  BY DEF Secured
<1> QED
  BY <1>2, <1>3, <1>4 DEF Stays, Kept

\* Frames that accepted the same operations are secured by the same records.
LEMMA SecuredAlike ==
    ASSUME NEW d, NEW now, NEW f, NEW g, f.ops = g.ops,
           Len(f.opInfos) = Len(g.opInfos), Secured(d, now, f)
    PROVE  Secured(d, now, g)
BY DEF Secured

\* Front and Append on a stack.
LEMMA StackTop ==
    ASSUME NEW fs \in Seq(Frame), fs # <<>>
    PROVE  /\ Len(fs) \in Nat \ {0}
           /\ Last(fs) = fs[Len(fs)]
           /\ Last(fs) \in Frame
           /\ Front(fs) \in Seq(Frame)
           /\ Len(Front(fs)) = Len(fs) - 1
           /\ \A k \in 1 .. Len(fs) - 1 : Front(fs)[k] = fs[k]
<1>1. Len(fs) \in Nat \ {0} /\ Last(fs) = fs[Len(fs)] /\ Last(fs) \in Frame
  BY DEF Last
<1>2. Front(fs) = SubSeq(fs, 1, Len(fs) - 1)
  BY DEF Front
<1> DEFINE n == Len(fs)
           ss == SubSeq(fs, 1, n - 1)
<1>3. n - 1 \in 0 .. n /\ n \in Nat
  BY <1>1
<1>4. \A k \in 1 .. n : fs[k] \in Frame
  OBVIOUS
<1>5. ss = [k \in 1 .. n - 1 |-> fs[k]]
  <2>1. ss = [k \in 1 .. (n - 1) - 1 + 1 |-> fs[1 + k - 1]]
    BY <1>3
  <2> QED
    BY <1>3, <2>1
<1> HIDE DEF ss
<1>6. ss \in Seq(Frame) /\ Len(ss) = n - 1
  BY <1>3, <1>4, <1>5
<1>7. \A k \in 1 .. n - 1 : ss[k] = fs[k]
  BY <1>5
<1>8. Front(fs) = ss
  BY <1>2 DEF ss
<1> QED
  BY <1>1, <1>6, <1>7, <1>8

LEMMA NewTop ==
    ASSUME NEW fs \in Seq(Frame), fs # <<>>, NEW f \in Frame
    PROVE  /\ Append(Front(fs), f) \in Seq(Frame)
           /\ Append(Front(fs), f) # <<>>
           /\ Len(Append(Front(fs), f)) = Len(fs)
           /\ Append(Front(fs), f)[Len(fs)] = f
           /\ Last(Append(Front(fs), f)) = f
           /\ \A k \in 1 .. Len(fs) - 1 : Append(Front(fs), f)[k] = fs[k]
<1>1. /\ Len(fs) \in Nat \ {0}
      /\ Front(fs) \in Seq(Frame)
      /\ Len(Front(fs)) = Len(fs) - 1
      /\ \A k \in 1 .. Len(fs) - 1 : Front(fs)[k] = fs[k]
  BY StackTop
<1> HIDE DEF Front
<1>2. /\ Append(Front(fs), f) \in Seq(Frame)
      /\ Len(Append(Front(fs), f)) = Len(fs)
      /\ Append(Front(fs), f)[Len(fs)] = f
      /\ \A k \in 1 .. Len(fs) - 1 : Append(Front(fs), f)[k] = fs[k]
  BY <1>1
<1>3. Last(Append(Front(fs), f)) = f
  BY <1>2 DEF Last
<1> QED
  BY <1>1, <1>2, <1>3

\* The frame on top changes, and with it the records perhaps.
LEMMA ReplaceTop ==
    ASSUME NEW fs, NEW d, NEW e, NEW now, StackInv(fs, d, now), fs # <<>>,
           NEW f, GoodFrame(f), f.saved = Last(fs).saved, GoodStakes(e),
           Kept(fs[1].saved.deposits, e, now),
           Kept(fs[1].saved.deposits, f.inner.deposits, now),
           Secured(e, now, f),
           \A k \in 1 .. Len(fs) - 1 : /\ Secured(e, now, fs[k])
                                       /\ Secured(f.inner.deposits, now, fs[k]),
           f.phase \in InnerPhase => Secured(f.inner.deposits, now, f)
    PROVE  StackInv(Append(Front(fs), f), e, now)
<1> DEFINE gs == Append(Front(fs), f)
           n  == Len(fs)
<1>1. /\ fs \in Seq(Frame) /\ f \in Frame
      /\ n \in Nat \ {0}
      /\ Last(fs) = fs[n]
  BY StackTop DEF StackInv, GoodFrame
<1>2. /\ gs \in Seq(Frame)
      /\ Len(gs) = n
      /\ gs[n] = f
      /\ \A k \in 1 .. n - 1 : gs[k] = fs[k]
  BY <1>1, NewTop
<1> HIDE DEF gs
<1>3. \A k \in 1 .. n : gs[k].saved = fs[k].saved
  BY <1>1, <1>2
<1>4. gs[1].saved = fs[1].saved
  BY <1>1, <1>3
<1>5. ASSUME NEW k \in 1 .. n
      PROVE  GoodFrame(gs[k]) /\ GoodCopies(gs, k, e, now) /\ SecuredFrame(gs, k, e, now)
  <2>1. CASE k = n
    <3>1. GoodCopies(fs, n, d, now)
      BY <1>1 DEF StackInv
    <3>2. GoodCopies(gs, n, e, now)
      BY <1>2, <1>3, <1>4, <3>1 DEF GoodCopies
    <3>3. SecuredFrame(gs, n, e, now)
      BY <1>1, <1>2 DEF SecuredFrame
    <3> QED
      BY <1>2, <2>1, <3>2, <3>3
  <2>2. CASE k \in 1 .. n - 1
    <3>1. gs[k] = fs[k]
      BY <1>2, <2>2
    <3>2. GoodFrame(fs[k]) /\ GoodCopies(fs, k, d, now) /\ SecuredFrame(fs, k, d, now)
      BY DEF StackInv
    <3>3. GoodCopies(gs, k, e, now)
      BY <1>4, <3>1, <3>2 DEF GoodCopies
    <3>4. Secured(e, now, gs[k])
      BY <2>2, <3>1
    <3>5. ASSUME NEW m \in k + 1 .. n
          PROVE  /\ Secured(gs[m].saved.deposits, now, gs[k])
                 /\ Secured(gs[m].inner.deposits, now, gs[k])
      <4>1. /\ Secured(fs[m].saved.deposits, now, fs[k])
            /\ Secured(fs[m].inner.deposits, now, fs[k])
        BY <3>2 DEF SecuredFrame
      <4>2. m = n \/ m \in 1 .. n - 1
        BY <1>1
      <4>3. CASE m = n
        BY <1>2, <1>3, <2>2, <3>1, <4>1, <4>3
      <4>4. CASE m \in 1 .. n - 1
        BY <1>2, <3>1, <4>1, <4>4
      <4> QED
        BY <4>2, <4>3, <4>4
    <3>6. gs[k].phase \in InnerPhase => Secured(gs[k].inner.deposits, now, gs[k])
      BY <3>1, <3>2 DEF SecuredFrame
    <3>7. SecuredFrame(gs, k, e, now)
      BY <1>2, <3>4, <3>5, <3>6 DEF SecuredFrame
    <3> QED
      BY <3>1, <3>2, <3>3, <3>7
  <2> QED
    BY <1>1, <2>1, <2>2
<1> QED
  BY <1>2, <1>5 DEF StackInv, gs

\* The usual case: the frame keeps its copies and its operations, and the
\* records keep their stakes.
LEMMA TopMoves ==
    ASSUME NEW fs, NEW d, NEW e, NEW now, StackInv(fs, d, now), fs # <<>>,
           NEW f, GoodFrame(f), f.saved = Last(fs).saved, f.inner = Last(fs).inner,
           f.ops = Last(fs).ops, Len(f.opInfos) = Len(Last(fs).opInfos),
           f.phase \in InnerPhase => Last(fs).phase \in InnerPhase,
           GoodStakes(e), Kept(d, e, now)
    PROVE  StackInv(Append(Front(fs), f), e, now)
<1> DEFINE n == Len(fs)
<1>1. fs \in Seq(Frame) /\ n \in Nat \ {0} /\ Last(fs) = fs[n]
  BY StackTop DEF StackInv
<1>2. /\ GoodFrame(fs[n]) /\ GoodCopies(fs, n, d, now) /\ SecuredFrame(fs, n, d, now)
      /\ GoodFrame(fs[1])
  BY <1>1 DEF StackInv
<1>3. GoodStakes(d) /\ GoodStakes(fs[1].saved.deposits)
  BY <1>2 DEF StackInv, GoodFrame
<1>4. Kept(fs[1].saved.deposits, e, now)
  BY <1>2, <1>3, KeptIsTransitive DEF GoodCopies
<1>5. Kept(fs[1].saved.deposits, f.inner.deposits, now)
  BY <1>1, <1>2 DEF GoodCopies
<1>6. Secured(e, now, f)
  <2>1. Secured(d, now, f)
    BY <1>1, <1>2, SecuredAlike DEF SecuredFrame
  <2> QED
    BY <1>3, <2>1, SecuredStays
<1>7. ASSUME NEW k \in 1 .. n - 1
      PROVE  /\ Secured(e, now, fs[k])
             /\ Secured(f.inner.deposits, now, fs[k])
  <2>1. GoodFrame(fs[k]) /\ SecuredFrame(fs, k, d, now) /\ n \in k + 1 .. Len(fs)
    BY <1>1 DEF StackInv
  <2>2. Secured(e, now, fs[k])
    BY <1>3, <2>1, SecuredStays DEF SecuredFrame
  <2>3. Secured(fs[n].inner.deposits, now, fs[k])
    BY <2>1 DEF SecuredFrame
  <2> QED
    BY <1>1, <2>2, <2>3
<1>8. f.phase \in InnerPhase => Secured(f.inner.deposits, now, f)
  BY <1>1, <1>2, SecuredAlike DEF SecuredFrame
<1> QED
  BY <1>4, <1>5, <1>6, <1>7, <1>8, ReplaceTop

\* A call of handleOps starts from the records of the moment.
LEMMA PushFrame ==
    ASSUME NEW fs, NEW d, NEW now, StackInv(fs, d, now),
           NEW f, GoodFrame(f), f.opInfos = <<>>,
           f.saved.deposits = d, f.inner.deposits = d
    PROVE  StackInv(Append(fs, f), d, now)
<1> DEFINE gs == Append(fs, f)
           n  == Len(fs)
<1>1. /\ gs \in Seq(Frame)
      /\ n \in Nat
      /\ Len(gs) = n + 1
      /\ gs[n + 1] = f
      /\ \A k \in 1 .. n : gs[k] = fs[k]
  BY DEF StackInv, GoodFrame
<1> HIDE DEF gs
<1>2. GoodStakes(d)
  BY DEF StackInv
<1>3. GoodStakes(gs[1].saved.deposits) /\ Kept(gs[1].saved.deposits, d, now)
  <2>1. CASE n = 0
    BY <1>1, <1>2, <2>1, KeptIsReflexive
  <2>2. CASE n # 0
    <3>1. 1 \in 1 .. n /\ gs[1] = fs[1]
      BY <1>1, <2>2
    <3> QED
      BY <3>1 DEF StackInv, GoodCopies, GoodFrame
  <2> QED
    BY <2>1, <2>2
<1>4. ASSUME NEW k \in 1 .. n + 1
      PROVE  GoodFrame(gs[k]) /\ GoodCopies(gs, k, d, now) /\ SecuredFrame(gs, k, d, now)
  <2>1. CASE k = n + 1
    <3>1. \A e : Secured(e, now, f)
      BY DEF Secured
    <3>2. GoodCopies(gs, n + 1, d, now)
      BY <1>1, <1>3 DEF GoodCopies
    <3>3. SecuredFrame(gs, n + 1, d, now)
      BY <1>1, <3>1 DEF SecuredFrame
    <3> QED
      BY <1>1, <2>1, <3>2, <3>3
  <2>2. CASE k \in 1 .. n
    <3>1. gs[k] = fs[k] /\ gs[1] = fs[1]
      BY <1>1, <2>2
    <3>2. GoodFrame(fs[k]) /\ GoodCopies(fs, k, d, now) /\ SecuredFrame(fs, k, d, now)
      BY <2>2 DEF StackInv
    <3>3. GoodCopies(gs, k, d, now)
      BY <3>1, <3>2 DEF GoodCopies
    <3>4. ASSUME NEW m \in k + 1 .. n + 1
          PROVE  /\ Secured(gs[m].saved.deposits, now, gs[k])
                 /\ Secured(gs[m].inner.deposits, now, gs[k])
      <4>1. CASE m = n + 1
        BY <1>1, <3>1, <3>2, <4>1 DEF SecuredFrame
      <4>2. CASE m \in k + 1 .. n
        <5>1. gs[m] = fs[m]
          BY <1>1, <2>2, <4>2
        <5> QED
          BY <3>1, <3>2, <4>2, <5>1 DEF SecuredFrame
      <4> QED
        BY <1>1, <4>1, <4>2
    <3>5. SecuredFrame(gs, k, d, now)
      BY <1>1, <3>1, <3>2, <3>4 DEF SecuredFrame
    <3> QED
      BY <3>1, <3>2, <3>3, <3>5
  <2> QED
    BY <1>1, <2>1, <2>2
<1> QED
  BY <1>1, <1>2, <1>4 DEF StackInv, gs

\* A call of handleOps ends: its frame is gone, and the records are those of
\* the moment or the ones it saved.
LEMMA PopFrame ==
    ASSUME NEW fs, NEW d, NEW now, StackInv(fs, d, now), fs # <<>>,
           NEW e \in {d, Last(fs).saved.deposits}
    PROVE  StackInv(Front(fs), e, now)
<1> DEFINE gs == Front(fs)
           n  == Len(fs)
<1>1. /\ fs \in Seq(Frame)
      /\ n \in Nat \ {0}
      /\ Last(fs) = fs[n]
      /\ gs \in Seq(Frame)
      /\ Len(gs) = n - 1
      /\ \A k \in 1 .. n - 1 : gs[k] = fs[k]
  BY StackTop DEF StackInv
<1> HIDE DEF gs
<1>2. /\ GoodFrame(fs[n]) /\ GoodCopies(fs, n, d, now)
      /\ GoodStakes(d)
  BY <1>1 DEF StackInv
<1>3. GoodStakes(e) /\ Kept(fs[1].saved.deposits, e, now)
  BY <1>1, <1>2 DEF GoodCopies, GoodFrame
<1>4. ASSUME NEW k \in 1 .. n - 1
      PROVE  GoodFrame(gs[k]) /\ GoodCopies(gs, k, e, now) /\ SecuredFrame(gs, k, e, now)
  <2>1. gs[k] = fs[k] /\ gs[1] = fs[1] /\ k \in 1 .. n /\ n \in k + 1 .. n
    BY <1>1
  <2>2. GoodFrame(fs[k]) /\ GoodCopies(fs, k, d, now) /\ SecuredFrame(fs, k, d, now)
    BY <2>1 DEF StackInv
  <2>3. GoodCopies(gs, k, e, now)
    BY <1>3, <2>1, <2>2 DEF GoodCopies
  <2>4. Secured(e, now, gs[k])
    BY <1>1, <2>1, <2>2 DEF SecuredFrame
  <2>5. ASSUME NEW m \in k + 1 .. n - 1
        PROVE  /\ Secured(gs[m].saved.deposits, now, gs[k])
               /\ Secured(gs[m].inner.deposits, now, gs[k])
    <3>1. gs[m] = fs[m] /\ m \in k + 1 .. n
      BY <1>1, <2>1
    <3> QED
      BY <2>1, <2>2, <3>1 DEF SecuredFrame
  <2>6. SecuredFrame(gs, k, e, now)
    BY <1>1, <2>1, <2>2, <2>4, <2>5 DEF SecuredFrame
  <2> QED
    BY <2>1, <2>2, <2>3, <2>6
<1> QED
  BY <1>1, <1>3, <1>4 DEF StackInv, gs

\* innerHandleOp's effects are taken back.
LEMMA RestoreTop ==
    ASSUME NEW fs, NEW d, NEW now, StackInv(fs, d, now), fs # <<>>,
           Last(fs).phase \in InnerPhase,
           NEW f, GoodFrame(f), f.saved = Last(fs).saved, f.inner = Last(fs).inner,
           f.ops = Last(fs).ops, Len(f.opInfos) = Len(Last(fs).opInfos)
    PROVE  StackInv(Append(Front(fs), f), Last(fs).inner.deposits, now)
<1> DEFINE n == Len(fs)
           e == Last(fs).inner.deposits
<1>1. fs \in Seq(Frame) /\ n \in Nat \ {0} /\ Last(fs) = fs[n]
  BY StackTop DEF StackInv
<1>2. GoodFrame(fs[n]) /\ GoodCopies(fs, n, d, now) /\ SecuredFrame(fs, n, d, now)
  BY <1>1 DEF StackInv
<1>3. GoodStakes(e) /\ f.inner.deposits = e
  BY <1>1, <1>2 DEF GoodFrame
<1>4. Kept(fs[1].saved.deposits, e, now)
  BY <1>1, <1>2 DEF GoodCopies
<1>5. Secured(e, now, f)
  BY <1>1, <1>2, SecuredAlike DEF SecuredFrame
<1>6. ASSUME NEW k \in 1 .. n - 1
      PROVE  Secured(e, now, fs[k])
  <2>1. SecuredFrame(fs, k, d, now) /\ n \in k + 1 .. Len(fs)
    BY <1>1 DEF StackInv
  <2> QED
    BY <1>1, <2>1 DEF SecuredFrame
<1> HIDE DEF e
<1>7. StackInv(Append(Front(fs), f), e, now)
  BY <1>3, <1>4, <1>5, <1>6, ReplaceTop
<1> QED
  BY <1>7 DEF e

-----------------------------------------------------------------------------
(* The invariant of the EntryPoint, and its steps one by one. *)

EPInv ==
    /\ TypeOK
    /\ code \subseteq Account
    /\ Len(frames) <= MaxDepth
    /\ StackInv(frames, deposits, timestamp)

\* A step keeps the invariant, and the stakes on record between transactions.
GoodStep == EPInv' /\ Kept(CommittedDeposits, CommittedDeposits', timestamp)

\* Before anything is called no stake is on record.
LEMMA InitEPInv == EPInit => EPInv
<1> USE StakeManagerAssumption, EntryPointAssumption
<1> SUFFICES ASSUME EPInit
             PROVE  EPInv
  OBVIOUS
<1>1. TypeOK
  BY InitStakeInv DEF EPInit, StakeInv
<1>2. GoodStakes(deposits)
  BY <1>1 DEF EPInit, Init, NoDepositInfo, GoodStakes, TypeOK
<1>3. frames = <<>> /\ Len(frames) = 0
  BY DEF EPInit
<1>4. StackInv(frames, deposits, timestamp)
  BY <1>2, <1>3 DEF StackInv
<1> QED
  BY <1>1, <1>3, <1>4 DEF EPInv, EPInit

\* What is known of the frame that runs.
LEMMA TopFrame ==
    ASSUME EPInv, frames # <<>>
    PROVE  /\ frames \in Seq(Frame)
           /\ Top \in Frame
           /\ GoodFrame(Top)
           /\ Top.i \in 1 .. Len(Top.ops)
           /\ Len(Top.ops) \in Nat
           /\ TopOp \in UO!UserOperationOf(Nat)
           /\ UO!payer(TopOp) \in Account
           /\ UO!requiredPreFund(TopOp, Top.basefee) \in Nat
           /\ UO!gasPrice(TopOp, Top.basefee) \in Nat
<1>1. frames \in Seq(Frame) /\ Len(frames) \in Nat \ {0} /\ Top = frames[Len(frames)]
  BY StackTop DEF EPInv, StackInv, Top
<1>2. GoodFrame(Top) /\ Top \in Frame /\ Top.i \in 1 .. Len(Top.ops)
  BY <1>1 DEF EPInv, StackInv, GoodFrame
<1>3. /\ Top.ops \in Seq(UO!UserOperationOf(Nat))
      /\ TopOp \in UO!UserOperationOf(Nat)
      /\ UO!hasPaymaster(TopOp) => TopOp.paymaster \in Account
  BY <1>2, Operations DEF TopOp
<1>4. UO!payer(TopOp) \in Account
  BY <1>3 DEF UO!payer, UO!UserOperationOf
<1>5. Top.basefee \in Nat
  BY <1>2, EntryPointAssumption DEF Frame
<1>6. UO!gasPrice(TopOp, Top.basefee) \in Nat
  BY <1>3, <1>5 DEF UO!gasPrice, UO!UserOperationOf
<1>7. UO!requiredGas(TopOp) \in Nat
  <2>1. /\ TopOp.callGas \in Nat
        /\ TopOp.verificationGas \in Nat
        /\ TopOp.preVerificationGas \in Nat
    BY <1>3 DEF UO!UserOperationOf
  <2> QED
    BY <2>1 DEF UO!requiredGas
<1>8. UO!requiredPreFund(TopOp, Top.basefee) \in Nat
  BY <1>6, <1>7 DEF UO!requiredPreFund
<1> QED
  BY <1>1, <1>2, <1>3, <1>4, <1>6, <1>8

\* A step of the frame that runs leaves the copy alone that the transaction
\* started from.
LEMMA TopStep ==
    ASSUME EPInv, frames # <<>>, NEW f \in Frame, f.saved = Top.saved, SetTop(f),
           StackInv(Append(Front(frames), f), deposits', timestamp),
           timestamp' = timestamp, balance' \in Nat, withdrawn' \in Nat,
           code' \subseteq Account
    PROVE  GoodStep
<1> DEFINE n == Len(frames)
<1>1. frames \in Seq(Frame) /\ n \in Nat \ {0} /\ Top = frames[n]
  BY StackTop DEF EPInv, StackInv, Top
<1>2. /\ frames' # <<>>
      /\ Len(frames') = n
      /\ frames'[n] = f
      /\ \A k \in 1 .. n - 1 : frames'[k] = frames[k]
  BY <1>1, NewTop DEF SetTop
<1>3. StackInv(frames', deposits', timestamp')
  BY DEF SetTop
<1>4. EPInv'
  BY <1>2, <1>3 DEF EPInv, TypeOK, StackInv, GoodStakes
<1>5. frames'[1].saved = frames[1].saved
  BY <1>1, <1>2
<1>6. CommittedDeposits = frames[1].saved.deposits /\ CommittedDeposits' = CommittedDeposits
  BY <1>2, <1>5 DEF CommittedDeposits
<1>7. GoodStakes(CommittedDeposits)
  BY <1>1, <1>6 DEF EPInv, StackInv, GoodFrame
<1> QED
  BY <1>4, <1>6, <1>7, KeptIsReflexive DEF GoodStep

\* The stack after a call of unknown code that keeps the stakes.
LEMMA CountedStack ==
    ASSUME EPInv, CanCall, NEW e, GoodStakes(e), Kept(deposits, e, timestamp)
    PROVE  /\ StackInv(Counted, e, timestamp)
           /\ Len(Counted) = Len(frames)
           /\ frames = <<>> => Counted = <<>>
           /\ frames # <<>> => /\ Counted # <<>>
                               /\ Counted[1].saved = frames[1].saved
<1>1. CASE frames = <<>>
  BY <1>1 DEF Counted, StackInv
<1>2. CASE frames # <<>>
  <2> DEFINE f == [Top EXCEPT !.calls = @ + 1]
             n == Len(frames)
  <2>1. /\ Top.calls \in 0 .. MaxCalls /\ Top.calls < MaxCalls
        /\ GoodFrame(Top) /\ Top \in Frame
    BY <1>2, TopFrame DEF CanCall, Frame
  <2>2. /\ f \in Frame
        /\ f.phase = Top.phase
        /\ f.ops = Top.ops
        /\ f.i = Top.i
        /\ f.opInfos = Top.opInfos
        /\ f.saved = Top.saved
        /\ f.inner = Top.inner
    <3>1. Top.calls + 1 \in 0 .. MaxCalls
      BY <2>1, EntryPointAssumption
    <3> QED
      BY <2>1, <3>1 DEF Frame
  <2> HIDE DEF f
  <2>3. GoodFrame(f)
    BY <2>1, <2>2 DEF GoodFrame
  <2>4. Counted = Append(Front(frames), f)
    BY <1>2 DEF Counted, f
  <2>5. StackInv(Counted, e, timestamp)
    BY <1>2, <2>2, <2>3, <2>4, TopMoves DEF EPInv, Top
  <2>6. frames \in Seq(Frame) /\ n \in Nat \ {0} /\ Top = frames[n]
    BY <1>2, StackTop DEF EPInv, StackInv, Top
  <2>7. /\ Counted # <<>>
        /\ Len(Counted) = n
        /\ Counted[n] = f
        /\ \A k \in 1 .. n - 1 : Counted[k] = frames[k]
    BY <1>2, <2>2, <2>4, <2>6, NewTop
  <2>8. Counted[1].saved = frames[1].saved
    BY <2>2, <2>6, <2>7
  <2> QED
    BY <1>2, <2>5, <2>7, <2>8
<1> QED
  BY <1>1, <1>2

-----------------------------------------------------------------------------
(* Steps of unknown code. *)

\* After a call that changed the records the transaction's copy is still the
\* older one.
LEMMA CalledStep ==
    ASSUME EPInv, CanCall, GoodStakes(deposits'),
           Kept(deposits, deposits', timestamp),
           TypeOK', code' \subseteq Account, timestamp' = timestamp,
           frames' = Counted
    PROVE  GoodStep
<1>1. /\ StackInv(frames', deposits', timestamp')
      /\ Len(frames') = Len(frames)
      /\ frames = <<>> => frames' = <<>>
      /\ frames # <<>> => frames' # <<>> /\ frames'[1].saved = frames[1].saved
  BY CountedStack
<1>2. EPInv'
  BY <1>1 DEF EPInv
<1>3. CASE frames = <<>>
  BY <1>1, <1>2, <1>3 DEF GoodStep, CommittedDeposits
<1>4. CASE frames # <<>>
  <2>1. /\ CommittedDeposits' = CommittedDeposits
        /\ CommittedDeposits = frames[1].saved.deposits
    BY <1>1, <1>4 DEF CommittedDeposits
  <2>2. GoodStakes(frames[1].saved.deposits)
    <3>1. Len(frames) \in Nat \ {0}
      BY <1>4, StackTop DEF EPInv, StackInv
    <3> QED
      BY <3>1 DEF EPInv, StackInv, GoodFrame
  <2> QED
    BY <1>2, <2>1, <2>2, KeptIsReflexive DEF GoodStep
<1> QED
  BY <1>3, <1>4

\* Any call of the StakeManager, by unknown code or in a transaction of its own.
LEMMA CallStakeManagerStep ==
    ASSUME EPInv, NEW a \in Account, CallStakeManager(a)
    PROVE  GoodStep
<1>1. TypeOK /\ GoodStakes(deposits) /\ StakeCall(a)
  BY DEF EPInv, StackInv, CallStakeManager
<1>2. /\ GoodStakes(deposits')
      /\ Kept(deposits, deposits', timestamp)
      /\ TypeOK'
      /\ timestamp' = timestamp
  BY <1>1, StakeCallsKeepStakes
<1> QED
  BY <1>2, CalledStep DEF CallStakeManager, EPInv

\* The SingletonFactory deploys a contract.
LEMMA DeployStep ==
    ASSUME EPInv, NEW a \in Account, deploy(a)
    PROVE  GoodStep
<1>1. GoodStakes(deposits) /\ UNCHANGED stakeVars
  BY DEF EPInv, StackInv, deploy
<1>2. /\ GoodStakes(deposits')
      /\ Kept(deposits, deposits', timestamp)
      /\ TypeOK'
      /\ timestamp' = timestamp
  BY <1>1, KeptIsReflexive DEF stakeVars, EPInv, TypeOK
<1> QED
  BY <1>2, CalledStep DEF deploy, EPInv

\* Between transactions time passes.
LEMMA EPNextBlockStep ==
    ASSUME EPInv, EPNextBlock
    PROVE  GoodStep
<1>1. /\ frames = <<>> /\ frames' = <<>>
      /\ deposits' = deposits /\ code' = code
      /\ balance' = balance /\ withdrawn' = withdrawn
      /\ timestamp' = timestamp + 1
  BY DEF EPNextBlock, NextBlock
<1>2. GoodStakes(deposits) /\ StackInv(frames', deposits', timestamp')
  BY <1>1 DEF EPInv, StackInv
<1>3. EPInv'
  BY <1>1, <1>2 DEF EPInv, TypeOK
<1> QED
  BY <1>1, <1>2, <1>3, KeptIsReflexive DEF GoodStep, CommittedDeposits

\* What handleOps saves is the state of the moment.
LEMMA WorldIsTyped ==
    ASSUME EPInv
    PROVE  World \in WorldType /\ World.deposits = deposits
BY DEF EPInv, TypeOK, World, WorldType

\* A call of handleOps, in a transaction of its own or by unknown code.
LEMMA HandleOpsCallStep ==
    ASSUME EPInv, NEW ops \in Batches, NEW fee \in BaseFees, handleOps(ops, fee)
    PROVE  GoodStep
<1> DEFINE f == NewFrame(ops, fee)
<1>1. /\ CanCall /\ Len(frames) < MaxDepth
      /\ frames' = Append(Counted, f)
      /\ UNCHANGED <<worldVars, timestamp>>
  BY DEF handleOps
<1>2. GoodStakes(deposits) /\ Kept(deposits, deposits, timestamp)
  BY KeptIsReflexive DEF EPInv, StackInv
<1>3. /\ StackInv(Counted, deposits, timestamp)
      /\ Len(Counted) = Len(frames)
      /\ frames = <<>> => Counted = <<>>
      /\ frames # <<>> => Counted # <<>> /\ Counted[1].saved = frames[1].saved
  BY <1>1, <1>2, CountedStack
<1>4. 1 \in 1 .. Len(ops)
  <2>1. ops \in Seq(UO!UserOperationOf(Nat)) /\ ops # <<>>
    BY EntryPointAssumption
  <2> QED
    BY <2>1
<1>5. f \in Frame
  BY WorldIsTyped, EntryPointAssumption DEF NewFrame, Frame, Phase, PostOpMode
<1>6. GoodFrame(f) /\ f.opInfos = <<>> /\ f.saved.deposits = deposits /\ f.inner.deposits = deposits
  BY <1>2, <1>4, <1>5, WorldIsTyped DEF NewFrame, GoodFrame
<1> HIDE DEF f
<1>7. StackInv(frames', deposits', timestamp')
  <2>1. StackInv(Append(Counted, f), deposits, timestamp)
    BY <1>3, <1>6, PushFrame
  <2> QED
    BY <1>1, <2>1 DEF worldVars
<1>8. /\ Len(frames') = Len(frames) + 1
      /\ frames' # <<>>
      /\ Len(frames) \in Nat
      /\ frames = <<>> => frames'[1] = f
      /\ frames # <<>> => frames'[1] = Counted[1]
  <2>1. Counted \in Seq(Frame) /\ frames \in Seq(Frame)
    BY <1>3 DEF StackInv, EPInv
  <2> QED
    BY <1>1, <1>3, <1>5, <2>1
<1>9. EPInv'
  BY <1>1, <1>7, <1>8, EntryPointAssumption DEF EPInv, TypeOK, worldVars
<1>10. CommittedDeposits' = CommittedDeposits /\ GoodStakes(CommittedDeposits)
  <2>1. CASE frames = <<>>
    BY <1>2, <1>6, <1>8, <2>1 DEF CommittedDeposits
  <2>2. CASE frames # <<>>
    <3>1. Len(frames) \in Nat \ {0}
      BY <2>2, StackTop DEF EPInv, StackInv
    <3>2. GoodStakes(frames[1].saved.deposits)
      BY <3>1 DEF EPInv, StackInv, GoodFrame
    <3> QED
      BY <1>3, <1>8, <2>2, <3>2 DEF CommittedDeposits
  <2> QED
    BY <2>1, <2>2
<1> QED
  BY <1>9, <1>10, KeptIsReflexive DEF GoodStep

-----------------------------------------------------------------------------
(* Steps of handleOps. *)

\* The sender is there or is created, and its validation begins.
LEMMA CallValidateUserOpStep ==
    ASSUME EPInv, CallValidateUserOp
    PROVE  GoodStep
<1> DEFINE f == [Top EXCEPT !.phase = "validateUserOp"]
<1>1. /\ frames # <<>> /\ Top.phase = "validate"
      /\ SetTop(f)
      /\ deposits' = deposits /\ balance' = balance
      /\ withdrawn' = withdrawn /\ timestamp' = timestamp
  BY DEF CallValidateUserOp, InPhase
<1>2. Top \in Frame /\ GoodFrame(Top)
  BY <1>1, TopFrame
<1>3. /\ f \in Frame
      /\ f.phase = "validateUserOp" /\ f.ops = Top.ops /\ f.i = Top.i
      /\ f.opInfos = Top.opInfos /\ f.saved = Top.saved /\ f.inner = Top.inner
  BY <1>2 DEF Frame, Phase, External
<1> HIDE DEF f
<1>4. GoodFrame(f)
  BY <1>1, <1>2, <1>3 DEF GoodFrame
<1>5. GoodStakes(deposits) /\ Kept(deposits, deposits, timestamp)
  BY KeptIsReflexive DEF EPInv, StackInv
<1>6. StackInv(Append(Front(frames), f), deposits', timestamp)
  BY <1>1, <1>3, <1>4, <1>5, TopMoves DEF EPInv, Top, InnerPhase
<1>7. code' \subseteq Account
  <2>1. TopOp.sender \in Account
    BY <1>1, TopFrame DEF UO!UserOperationOf
  <2> QED
    BY <2>1 DEF CallValidateUserOp, _createSenderIfNeeded, EPInv
<1> QED
  BY <1>1, <1>3, <1>6, <1>7, TopStep DEF EPInv, TypeOK

\* The prefund is taken, and a paymaster has its stake at that moment.
LEMMA ValidationEndsStep ==
    ASSUME EPInv, NEW used \in GasUsed, NEW over \in Overhead, NEW context \in BOOLEAN,
           ValidationEnds(used, over, context)
    PROVE  GoodStep
<1> USE EntryPointAssumption
<1> DEFINE prefund == UO!requiredPreFund(TopOp, Top.basefee)
           info    == [prefund |-> prefund, context |-> context, cost |-> 0,
                       preOpGas |-> used + over + TopOp.preVerificationGas]
           done    == Top.i = Len(Top.ops)
           f       == [Top EXCEPT !.opInfos = Append(@, info),
                                  !.i = IF done THEN 1 ELSE @ + 1,
                                  !.phase = IF done THEN "execute" ELSE "validate"]
           n       == Len(frames)
           a       == UO!payer(TopOp)
           v       == deposits[a].deposit - prefund
<1>1. /\ frames # <<>> /\ Top.phase = "validateUserOp"
      /\ PaymasterIsStaked(TopOp)
      /\ deposits[a].deposit >= prefund
      /\ deposits' = [deposits EXCEPT ![a].deposit = @ - prefund]
      /\ SetTop(f)
      /\ balance' = balance /\ withdrawn' = withdrawn
      /\ code' = code /\ timestamp' = timestamp
  BY DEF ValidationEnds, TakePrefund, InPhase
<1>2. /\ Top \in Frame /\ GoodFrame(Top) /\ Top = frames[n]
      /\ n \in Nat \ {0}
      /\ TopOp \in UO!UserOperationOf(Nat)
      /\ a \in Account /\ prefund \in Nat
  BY <1>1, TopFrame, StackTop DEF Top
<1> HIDE DEF prefund, a
<1>3. info \in UserOpInfo
  <2>1. used \in Nat /\ over \in Nat /\ TopOp.preVerificationGas \in Nat
    BY <1>2 DEF UO!UserOperationOf
  <2> QED
    BY <1>2, <2>1 DEF UserOpInfo
<1> HIDE DEF info
<1>4. /\ Top.i \in 1 .. Len(Top.ops) /\ Len(Top.ops) \in Nat
      /\ Top.opInfos \in Seq(UserOpInfo)
      /\ Len(Top.opInfos) = Top.i - 1
      /\ Top.i \in Nat
  BY <1>1, <1>2, TopFrame DEF GoodFrame, Frame
<1>5. /\ Append(Top.opInfos, info) \in Seq(UserOpInfo)
      /\ Len(Append(Top.opInfos, info)) = Top.i
  BY <1>3, <1>4
<1>6. /\ f \in Frame
      /\ f.phase = IF done THEN "execute" ELSE "validate"
      /\ f.ops = Top.ops
      /\ f.i = IF done THEN 1 ELSE Top.i + 1
      /\ f.opInfos = Append(Top.opInfos, info)
      /\ f.saved = Top.saved
      /\ f.inner = Top.inner
  <2> DEFINE infos == Append(Top.opInfos, info)
             next  == IF done THEN 1 ELSE Top.i + 1
             phase == IF done THEN "execute" ELSE "validate"
  <2>1. f = [Top EXCEPT !.opInfos = infos, !.i = next, !.phase = phase]
    OBVIOUS
  <2>2. infos \in Seq(UserOpInfo) /\ next \in Nat /\ phase \in Phase
    BY <1>4, <1>5 DEF Phase
  <2> HIDE DEF infos, next, phase, f
  <2>3. /\ f \in Frame
        /\ f.phase = phase /\ f.ops = Top.ops /\ f.i = next
        /\ f.opInfos = infos /\ f.saved = Top.saved /\ f.inner = Top.inner
    BY <1>2, <2>1, <2>2 DEF Frame
  <2> QED
    BY <2>3 DEF infos, next, phase
<1> HIDE DEF f
<1>7. GoodFrame(f)
  <2>1. GoodStakes(f.saved.deposits) /\ GoodStakes(f.inner.deposits)
    BY <1>2, <1>6 DEF GoodFrame
  <2>2. f.i \in 1 .. Len(f.ops)
    BY <1>4, <1>6
  <2>3. Len(f.opInfos) = IF f.phase \in {"validate", "validateUserOp"}
                         THEN f.i - 1 ELSE Len(f.ops)
    <3>1. CASE done
      BY <1>4, <1>5, <1>6, <3>1
    <3>2. CASE ~done
      BY <1>4, <1>5, <1>6, <3>2
    <3> QED
      BY <3>1, <3>2
  <2> QED
    BY <1>6, <2>1, <2>2, <2>3 DEF GoodFrame
<1>8. GoodStakes(deposits') /\ Kept(deposits, deposits', timestamp)
  <2>1. GoodStakes(deposits)
    BY DEF EPInv, StackInv
  <2>2. deposits[a].deposit \in 0 .. MaxUint112
    BY <1>2, <2>1 DEF GoodStakes, DepositInfo
  <2>3. deposits[a].deposit >= prefund /\ MaxUint112 \in Nat
    BY <1>1, StakeManagerAssumption
  <2>4. prefund \in Nat
    BY <1>2
  <2>5. v \in 0 .. MaxUint112
    BY <2>2, <2>3, <2>4
  <2>6. deposits' = [deposits EXCEPT ![a].deposit = v]
    BY <1>1
  <2> HIDE DEF v
  <2> QED
    BY <1>2, <2>1, <2>5, <2>6, DepositsKeepStakes
<1>9. /\ GoodStakes(deposits)
      /\ GoodStakes(frames[1].saved.deposits)
      /\ GoodCopies(frames, n, deposits, timestamp)
      /\ SecuredFrame(frames, n, deposits, timestamp)
  BY <1>2 DEF EPInv, StackInv, GoodFrame
<1>10. Secured(deposits', timestamp, f)
  <2>1. Secured(deposits, timestamp, f)
    <3> SUFFICES ASSUME NEW j \in 1 .. Len(f.opInfos), UO!hasPaymaster(f.ops[j])
                 PROVE  Stays(deposits, timestamp, f.ops[j].paymaster)
      BY DEF Secured
    <3>1. CASE j = Top.i
      <4>1. f.ops[j] = TopOp
        BY <1>6, <3>1 DEF TopOp
      <4>2. TopOp.paymaster \in Account /\ deposits[TopOp.paymaster].staked
        BY <1>1, <1>2, <4>1 DEF PaymasterIsStaked, UO!hasPaymaster, UO!UserOperationOf
      <4> QED
        BY <1>9, <4>1, <4>2 DEF GoodStakes, Stays, NotDue
    <3>2. CASE j # Top.i
      <4>1. j \in 1 .. Len(Top.opInfos)
        BY <1>4, <1>5, <1>6, <3>2
      <4>2. Secured(deposits, timestamp, Top)
        BY <1>2, <1>9 DEF SecuredFrame
      <4> QED
        BY <1>6, <4>1, <4>2 DEF Secured
    <3> QED
      BY <3>1, <3>2
  <2> QED
    BY <1>7, <1>8, <1>9, <2>1, SecuredStays
<1>11. ASSUME NEW k \in 1 .. n - 1
       PROVE  /\ Secured(deposits', timestamp, frames[k])
              /\ Secured(f.inner.deposits, timestamp, frames[k])
  <2>1. /\ GoodFrame(frames[k]) /\ SecuredFrame(frames, k, deposits, timestamp)
        /\ n \in k + 1 .. Len(frames)
    BY <1>2 DEF EPInv, StackInv
  <2>2. Secured(deposits', timestamp, frames[k])
    BY <1>8, <1>9, <2>1, SecuredStays DEF SecuredFrame
  <2>3. Secured(frames[n].inner.deposits, timestamp, frames[k])
    BY <2>1 DEF SecuredFrame
  <2> QED
    BY <1>2, <1>6, <2>2, <2>3
<1>12. /\ Kept(frames[1].saved.deposits, deposits', timestamp)
       /\ Kept(frames[1].saved.deposits, f.inner.deposits, timestamp)
  <2>1. /\ Kept(frames[1].saved.deposits, deposits, timestamp)
        /\ Kept(frames[1].saved.deposits, frames[n].inner.deposits, timestamp)
    BY <1>9 DEF GoodCopies
  <2> QED
    BY <1>2, <1>6, <1>8, <1>9, <2>1, KeptIsTransitive
<1>13. f.phase \notin InnerPhase
  BY <1>6 DEF InnerPhase
<1>14. StackInv(Append(Front(frames), f), deposits', timestamp)
  <2>1. StackInv(frames, deposits, timestamp) /\ f.saved = Last(frames).saved
    BY <1>6 DEF EPInv, Top
  <2> QED
    BY <1>1, <1>7, <1>8, <1>10, <1>11, <1>12, <1>13, <2>1, ReplaceTop
<1> QED
  BY <1>1, <1>6, <1>14, TopStep DEF EPInv, TypeOK

\* innerHandleOp copies the state of the moment, in which the frame is secured.
LEMMA InnerHandleOpStep ==
    ASSUME EPInv, NEW over \in Overhead, innerHandleOp(over)
    PROVE  GoodStep
<1> USE EntryPointAssumption
<1> DEFINE gas   == TopInfo.preOpGas + over
           begun == [Top EXCEPT !.inner = World, !.mode = "opSucceeded",
                                !.actualGas = gas]
           phase == IF TopOp.callData THEN "call" ELSE AfterCall(begun)
           f     == [begun EXCEPT !.phase = phase]
           n     == Len(frames)
<1>1. /\ frames # <<>> /\ Top.phase = "execute"
      /\ SetTop(f)
      /\ UNCHANGED <<worldVars, timestamp>>
  BY DEF innerHandleOp, InPhase
<1>2. /\ Top \in Frame /\ GoodFrame(Top) /\ Top = frames[n]
      /\ n \in Nat \ {0}
  BY <1>1, TopFrame, StackTop DEF Top
<1>3. World \in WorldType /\ World.deposits = deposits
  BY WorldIsTyped
<1>4. gas \in Nat
  <2>1. /\ Top.opInfos \in Seq(UserOpInfo) /\ Len(Top.opInfos) = Len(Top.ops)
        /\ Top.i \in 1 .. Len(Top.opInfos)
    BY <1>1, <1>2 DEF GoodFrame, Frame
  <2>2. TopInfo \in UserOpInfo
    BY <2>1 DEF TopInfo
  <2> QED
    BY <2>2 DEF UserOpInfo
<1>5. phase \in {"call", "postOp", "settle"}
  BY DEF AfterCall
<1> HIDE DEF gas, phase
<1>6. /\ f \in Frame
      /\ f.phase = phase /\ f.ops = Top.ops /\ f.i = Top.i
      /\ f.opInfos = Top.opInfos /\ f.saved = Top.saved
      /\ f.inner = World
  <2>1. phase \in Phase
    BY <1>5 DEF Phase, External
  <2> QED
    BY <1>2, <1>3, <1>4, <2>1 DEF Frame, PostOpMode
<1> HIDE DEF f
<1>7. /\ GoodStakes(deposits)
      /\ GoodCopies(frames, n, deposits, timestamp)
      /\ SecuredFrame(frames, n, deposits, timestamp)
  BY <1>2 DEF EPInv, StackInv
<1>8. GoodFrame(f)
  BY <1>1, <1>2, <1>3, <1>5, <1>6, <1>7 DEF GoodFrame
<1>9. Secured(deposits, timestamp, f)
  BY <1>2, <1>6, <1>7, SecuredAlike DEF SecuredFrame
<1>10. \A k \in 1 .. n - 1 : Secured(deposits, timestamp, frames[k])
  BY <1>2 DEF EPInv, StackInv, SecuredFrame
<1>11. StackInv(Append(Front(frames), f), deposits, timestamp)
  <2>1. /\ StackInv(frames, deposits, timestamp) /\ f.saved = Last(frames).saved
        /\ f.inner.deposits = deposits
    BY <1>3, <1>6 DEF EPInv, Top
  <2>2. Kept(frames[1].saved.deposits, deposits, timestamp)
    BY <1>7 DEF GoodCopies
  <2> QED
    BY <1>1, <1>7, <1>8, <1>9, <1>10, <2>1, <2>2, ReplaceTop
<1> QED
  BY <1>1, <1>6, <1>11, TopStep DEF EPInv, TypeOK, worldVars

\* What the calls inside innerHandleOp do to the frame.
LEMMA InnerFrame ==
    ASSUME EPInv, frames # <<>>, Top.phase \in InnerPhase,
           NEW mode \in PostOpMode, NEW gas \in Nat, NEW phase \in {"postOp", "settle"}
    PROVE  LET f == [Top EXCEPT !.mode = mode, !.actualGas = gas, !.phase = phase]
           IN  /\ f \in Frame
               /\ GoodFrame(f)
               /\ f.saved = Top.saved
               /\ f.inner = Top.inner
               /\ f.ops = Top.ops
               /\ f.opInfos = Top.opInfos
               /\ f.phase \in InnerPhase
<1> DEFINE f == [Top EXCEPT !.mode = mode, !.actualGas = gas, !.phase = phase]
<1>1. Top \in Frame /\ GoodFrame(Top)
  BY TopFrame
<1>2. phase \in Phase /\ phase \in InnerPhase
  BY DEF Phase, External, InnerPhase
<1>3. /\ f \in Frame
      /\ f.phase = phase /\ f.ops = Top.ops /\ f.i = Top.i
      /\ f.opInfos = Top.opInfos /\ f.saved = Top.saved
      /\ f.inner = Top.inner
  BY <1>1, <1>2 DEF Frame
<1> HIDE DEF f
<1>4. GoodFrame(f)
  BY <1>1, <1>3 DEF GoodFrame, InnerPhase
<1>5. /\ f \in Frame /\ GoodFrame(f) /\ f.saved = Top.saved /\ f.inner = Top.inner
      /\ f.ops = Top.ops /\ f.opInfos = Top.opInfos /\ f.phase \in InnerPhase
  BY <1>2, <1>3, <1>4
<1> QED
  BY <1>5 DEF f

\* Such a step keeps the state, or takes back what innerHandleOp did.
LEMMA InnerStep ==
    ASSUME EPInv, frames # <<>>, Top.phase \in InnerPhase,
           NEW mode \in PostOpMode, NEW gas \in Nat, NEW phase \in {"postOp", "settle"},
           SetTop([Top EXCEPT !.mode = mode, !.actualGas = gas, !.phase = phase]),
           UNCHANGED worldVars \/ Restore(Top.inner),
           UNCHANGED timestamp
    PROVE  GoodStep
<1> DEFINE f == [Top EXCEPT !.mode = mode, !.actualGas = gas, !.phase = phase]
<1>1. /\ f \in Frame /\ GoodFrame(f) /\ f.saved = Top.saved /\ f.inner = Top.inner
      /\ f.ops = Top.ops /\ f.opInfos = Top.opInfos /\ f.phase \in InnerPhase
  BY InnerFrame
<1>2. SetTop(f)
  OBVIOUS
<1> HIDE DEF f
<1>3. StackInv(frames, deposits, timestamp) /\ Top = Last(frames)
  BY DEF EPInv, Top
<1>4. CASE UNCHANGED worldVars
  <2>1. GoodStakes(deposits) /\ Kept(deposits, deposits, timestamp)
    BY KeptIsReflexive DEF EPInv, StackInv
  <2>2. StackInv(Append(Front(frames), f), deposits, timestamp)
    BY <1>1, <1>3, <2>1, TopMoves
  <2> QED
    BY <1>1, <1>2, <1>4, <2>2, TopStep DEF EPInv, TypeOK, worldVars
<1>5. CASE Restore(Top.inner)
  <2>1. StackInv(Append(Front(frames), f), Top.inner.deposits, timestamp)
    BY <1>1, <1>3, RestoreTop
  <2>2. Top.inner \in WorldType
    BY TopFrame DEF Frame
  <2> QED
    BY <1>1, <1>2, <1>5, <2>1, <2>2, TopStep DEF Restore, WorldType
<1> QED
  BY <1>4, <1>5

\* The gas counted so far is a natural number.
LEMMA GasIsTyped ==
    ASSUME EPInv, frames # <<>>
    PROVE  Top.actualGas \in Nat /\ Top.mode \in PostOpMode
BY TopFrame DEF Frame

\* The call of the sender ends.
LEMMA CallReturnsStep ==
    ASSUME EPInv, NEW success \in BOOLEAN, NEW used \in GasUsed,
           CallReturns(success, used)
    PROVE  GoodStep
<1> DEFINE mode  == IF success THEN "opSucceeded" ELSE "opReverted"
           gas   == Top.actualGas + used
           phase == AfterCall(Top)
<1>1. /\ frames # <<>> /\ Top.phase \in InnerPhase
      /\ SetTop([Top EXCEPT !.mode = mode, !.actualGas = gas, !.phase = phase])
      /\ UNCHANGED worldVars \/ Restore(Top.inner)
      /\ UNCHANGED timestamp
  BY DEF CallReturns, InPhase, InnerPhase
<1>2. mode \in PostOpMode /\ phase \in {"postOp", "settle"}
  BY DEF PostOpMode, AfterCall
<1>3. gas \in Nat
  BY <1>1, GasIsTyped, EntryPointAssumption
<1> HIDE DEF mode, gas, phase
<1> QED
  BY <1>1, <1>2, <1>3, InnerStep

\* postOp returns.
LEMMA PostOpReturnsStep ==
    ASSUME EPInv, NEW used \in GasUsed, PostOpReturns(used)
    PROVE  GoodStep
<1> DEFINE gas == Top.actualGas + used
<1>1. /\ frames # <<>> /\ Top.phase \in InnerPhase
      /\ SetTop([Top EXCEPT !.actualGas = gas, !.phase = "settle"])
      /\ UNCHANGED <<worldVars, timestamp>>
  BY DEF PostOpReturns, InPhase, InnerPhase
<1>2. gas \in Nat /\ Top.mode \in PostOpMode
  BY <1>1, GasIsTyped, EntryPointAssumption
<1> HIDE DEF gas
<1>3. [Top EXCEPT !.actualGas = gas, !.phase = "settle"]
         = [Top EXCEPT !.mode = Top.mode, !.actualGas = gas, !.phase = "settle"]
  BY <1>1, TopFrame DEF Frame
<1>4. SetTop([Top EXCEPT !.mode = Top.mode, !.actualGas = gas, !.phase = "settle"])
  BY <1>1, <1>3 DEF SetTop
<1> QED
  BY <1>1, <1>2, <1>4, InnerStep

\* innerHandleOp reverts.
LEMMA InnerRevertsStep ==
    ASSUME EPInv, NEW used \in GasUsed, NEW over \in Overhead,
           InnerReverts(used, over)
    PROVE  GoodStep
<1> DEFINE gas   == Top.actualGas + used + over
           phase == AfterCall(Top)
<1>1. /\ frames # <<>> /\ Top.phase \in InnerPhase
      /\ SetTop([Top EXCEPT !.mode = "postOpReverted", !.actualGas = gas, !.phase = phase])
      /\ UNCHANGED worldVars \/ Restore(Top.inner)
      /\ UNCHANGED timestamp
  BY DEF InnerReverts, InnerPhase
<1>2. "postOpReverted" \in PostOpMode /\ phase \in {"postOp", "settle"}
  BY DEF PostOpMode, AfterCall
<1>3. gas \in Nat
  BY <1>1, GasIsTyped, EntryPointAssumption
<1> HIDE DEF gas, phase
<1> QED
  BY <1>1, <1>2, <1>3, InnerStep

\* The cost is kept and the rest of the prefund given back.
LEMMA SettleStep ==
    ASSUME EPInv, Settle
    PROVE  GoodStep
<1> USE EntryPointAssumption
<1> DEFINE cost == ActualGasCost(Top)
           done == Top.i = Len(Top.ops)
           info == [TopInfo EXCEPT !.cost = cost]
           infos == [Top.opInfos EXCEPT ![Top.i] = info]
           total == Top.collected + cost
           next  == IF done THEN Top.i ELSE Top.i + 1
           phase == IF done THEN "compensate" ELSE "execute"
           f     == [Top EXCEPT !.collected = total, !.opInfos = infos,
                                !.i = next, !.phase = phase]
           a     == UO!payer(TopOp)
           v     == deposits[a].deposit + (TopInfo.prefund - cost)
<1>1. /\ frames # <<>> /\ Top.phase = "settle"
      /\ cost <= TopInfo.prefund
      /\ v <= MaxUint112
      /\ deposits' = [deposits EXCEPT ![a].deposit = v]
      /\ SetTop([Top EXCEPT !.collected = @ + cost,
                            !.opInfos[Top.i].cost = cost,
                            !.i = IF done THEN @ ELSE @ + 1,
                            !.phase = IF done THEN "compensate" ELSE "execute"])
      /\ balance' = balance /\ withdrawn' = withdrawn
      /\ code' = code /\ timestamp' = timestamp
  BY DEF Settle, InPhase, internalIncrementDeposit, refundAddress
<1>2. SetTop(f)
  BY <1>1 DEF TopInfo
<1>3. /\ Top \in Frame /\ GoodFrame(Top) /\ Top = Last(frames)
      /\ Top.i \in 1 .. Len(Top.ops) /\ Len(Top.ops) \in Nat
      /\ a \in Account /\ Top.actualGas \in Nat
      /\ UO!gasPrice(TopOp, Top.basefee) \in Nat
  BY <1>1, TopFrame, GasIsTyped DEF Top
<1>4. /\ Top.opInfos \in Seq(UserOpInfo) /\ Len(Top.opInfos) = Len(Top.ops)
      /\ TopInfo \in UserOpInfo
  <2>1. Top.opInfos \in Seq(UserOpInfo) /\ Len(Top.opInfos) = Len(Top.ops)
    BY <1>1, <1>3 DEF GoodFrame, Frame
  <2> QED
    BY <1>3, <2>1 DEF TopInfo
<1>5. cost \in Nat
  BY <1>3 DEF ActualGasCost, TopOp
<1> HIDE DEF cost, a
<1>6. info \in UserOpInfo /\ TopInfo.prefund \in Nat
  BY <1>4, <1>5 DEF UserOpInfo
<1> HIDE DEF info
<1>7. infos \in Seq(UserOpInfo) /\ Len(infos) = Len(Top.opInfos)
  BY <1>3, <1>4, <1>6
<1> HIDE DEF infos
<1>8. total \in Nat /\ next \in Nat /\ phase \in Phase
  BY <1>3, <1>5 DEF Frame, Phase
<1>9. next \in 1 .. Len(Top.ops) /\ phase \notin {"validate", "validateUserOp"}
      /\ phase \notin InnerPhase
  BY <1>3 DEF InnerPhase
<1> HIDE DEF total, next, phase
<1>10. /\ f \in Frame
       /\ f.phase = phase /\ f.ops = Top.ops /\ f.i = next
       /\ f.opInfos = infos /\ f.saved = Top.saved /\ f.inner = Top.inner
  BY <1>3, <1>7, <1>8 DEF Frame
<1> HIDE DEF f
<1>11. GoodFrame(f)
  BY <1>3, <1>4, <1>7, <1>9, <1>10 DEF GoodFrame
<1>12. GoodStakes(deposits') /\ Kept(deposits, deposits', timestamp)
  <2>1. GoodStakes(deposits)
    BY DEF EPInv, StackInv
  <2>2. deposits[a].deposit \in 0 .. MaxUint112
    BY <1>3, <2>1 DEF GoodStakes, DepositInfo
  <2>3. v <= MaxUint112 /\ cost <= TopInfo.prefund
    BY <1>1
  <2>4. MaxUint112 \in Nat
    BY StakeManagerAssumption
  <2>5. v \in Nat
    BY <1>5, <1>6, <2>2, <2>3, <2>4
  <2> HIDE DEF v
  <2>6. v \in 0 .. MaxUint112
    BY <2>3, <2>4, <2>5
  <2> QED
    BY <1>1, <1>3, <2>1, <2>6, DepositsKeepStakes
<1>13. StackInv(Append(Front(frames), f), deposits', timestamp)
  BY <1>1, <1>3, <1>7, <1>9, <1>10, <1>11, <1>12, TopMoves DEF EPInv
<1> QED
  BY <1>1, <1>2, <1>10, <1>13, TopStep DEF EPInv, TypeOK

\* A handleOps ends: the records on top of which a transaction goes on, or
\* which it leaves, are at least those it started from.
LEMMA PopStep ==
    ASSUME EPInv, frames # <<>>, Pop,
           deposits' \in {deposits, Top.saved.deposits},
           balance' \in Nat, withdrawn' \in Nat, code' \subseteq Account,
           timestamp' = timestamp
    PROVE  GoodStep
<1> DEFINE n == Len(frames)
<1>1. /\ frames \in Seq(Frame) /\ n \in Nat \ {0} /\ Top = frames[n]
      /\ Len(frames') = n - 1
      /\ frames' \in Seq(Frame)
      /\ \A k \in 1 .. n - 1 : frames'[k] = frames[k]
  BY StackTop DEF EPInv, StackInv, Top, Pop
<1>2. StackInv(frames', deposits', timestamp')
  BY PopFrame DEF EPInv, Pop, Top
<1>3. EPInv'
  BY <1>1, <1>2, EntryPointAssumption DEF EPInv, TypeOK, StackInv, GoodStakes
<1>4. /\ CommittedDeposits = frames[1].saved.deposits
      /\ GoodStakes(CommittedDeposits)
      /\ GoodCopies(frames, n, deposits, timestamp)
  BY <1>1 DEF EPInv, StackInv, GoodFrame, CommittedDeposits
<1>5. CASE n = 1
  <2>1. frames' = <<>>
    BY <1>1, <1>5
  <2>2. CommittedDeposits' = deposits'
    BY <2>1 DEF CommittedDeposits
  <2>3. Kept(frames[1].saved.deposits, deposits', timestamp)
    BY <1>1, <1>4 DEF GoodCopies
  <2> QED
    BY <1>3, <1>4, <2>2, <2>3 DEF GoodStep
<1>6. CASE n # 1
  <2>1. frames' # <<>> /\ frames'[1] = frames[1]
    BY <1>1, <1>6
  <2>2. CommittedDeposits' = CommittedDeposits
    BY <1>4, <2>1 DEF CommittedDeposits
  <2> QED
    BY <1>3, <1>4, <2>2, KeptIsReflexive DEF GoodStep
<1> QED
  BY <1>5, <1>6

\* The beneficiary is paid.
LEMMA CompensateStep ==
    ASSUME EPInv, _compensate
    PROVE  GoodStep
<1>1. /\ frames # <<>> /\ Pop /\ Pay(Top.collected)
      /\ UNCHANGED <<deposits, withdrawn, code, timestamp>>
  BY DEF _compensate, InPhase
<1>2. Top.collected \in Nat
  BY <1>1, TopFrame DEF Frame
<1>3. balance' \in Nat
  BY <1>1, <1>2 DEF Pay, EPInv, TypeOK
<1> QED
  BY <1>1, <1>3, PopStep DEF EPInv, TypeOK

\* handleOps reverts.
LEMMA HandleOpsRevertsStep ==
    ASSUME EPInv, HandleOpsReverts
    PROVE  GoodStep
<1>1. frames # <<>> /\ Pop /\ Restore(Top.saved) /\ UNCHANGED timestamp
  BY DEF HandleOpsReverts
<1>2. Top.saved \in WorldType
  BY <1>1, TopFrame DEF Frame
<1> QED
  BY <1>1, <1>2, PopStep DEF Restore, WorldType

\* A step that changes nothing.
LEMMA StutterStep ==
    ASSUME EPInv, UNCHANGED vars
    PROVE  GoodStep
<1>1. /\ deposits' = deposits /\ balance' = balance /\ withdrawn' = withdrawn
      /\ timestamp' = timestamp /\ code' = code /\ frames' = frames
  BY DEF vars, stakeVars
<1>2. EPInv'
  BY <1>1 DEF EPInv, TypeOK
<1>3. CommittedDeposits' = CommittedDeposits /\ GoodStakes(CommittedDeposits)
  <2>1. frames # <<>> => 1 \in 1 .. Len(frames)
    BY StackTop DEF EPInv, StackInv
  <2> QED
    BY <1>1, <2>1 DEF CommittedDeposits, EPInv, StackInv, GoodFrame
<1> QED
  BY <1>2, <1>3, KeptIsReflexive DEF GoodStep

\* Every step of the EntryPoint is a good one.
LEMMA EveryStepIsGood == EPInv /\ [EPNext]_vars => GoodStep
<1> SUFFICES ASSUME EPInv, [EPNext]_vars
             PROVE  GoodStep
  OBVIOUS
<1>1. CASE \E ops \in Batches, fee \in BaseFees : handleOps(ops, fee)
  BY <1>1, HandleOpsCallStep
<1>2. CASE HandleOpsStep
  BY <1>2, CallValidateUserOpStep, ValidationEndsStep, InnerHandleOpStep,
     CallReturnsStep, PostOpReturnsStep, InnerRevertsStep, SettleStep,
     CompensateStep, HandleOpsRevertsStep DEF HandleOpsStep
<1>3. CASE \E a \in Account : CallStakeManager(a) \/ deploy(a)
  BY <1>3, CallStakeManagerStep, DeployStep
<1>4. CASE EPNextBlock
  BY <1>4, EPNextBlockStep
<1>5. CASE UNCHANGED vars
  BY <1>5, StutterStep
<1> QED
  BY <1>1, <1>2, <1>3, <1>4, <1>5 DEF EPNext

\* The invariant holds in every reachable state: also in the middle of calls
\* that unknown code makes from inside other calls.
THEOREM EntryPointInvariant == EPSpec => []EPInv
<1>1. EPInv /\ [EPNext]_vars => EPInv'
  BY EveryStepIsGood DEF GoodStep
<1> QED
  BY <1>1, InitEPInv, PTL DEF EPSpec

\* Every frame of handleOps is where it should be in its batch, and every
\* record it may bring back has its types.
THEOREM EntryPointTypeCorrect == EPSpec => []EPTypeOK
<1>1. EPInv => EPTypeOK
  BY DEF EPInv, StackInv, GoodFrame, Frame, EPTypeOK, FrameOK
<1> QED
  BY <1>1, EntryPointInvariant, PTL

\* A paymaster whose operation was accepted has at least the minimum at stake
\* until handleOps has paid: neither its own code inside the operations of the
\* batch, nor a revert to an earlier state, takes the stake away.
THEOREM AcceptedPaymastersStayStaked == EPSpec => []AcceptedPaymasterHasStake
<1>1. EPInv => AcceptedPaymasterHasStake
  BY DEF EPInv, StackInv, SecuredFrame, Secured, Stays, AcceptedPaymasterHasStake
<1> QED
  BY <1>1, EntryPointInvariant, PTL

\* No transaction takes a stake out that was locked or not yet due when it
\* began, whatever it calls and whatever of it is taken back.
THEOREM LockedStakesStay == EPSpec => LockedStakeStays
<1>1. ASSUME EPInv, [EPNext]_vars, NEW a \in Account,
             CommittedDeposits'[a].stake < CommittedDeposits[a].stake
      PROVE  /\ ~CommittedDeposits[a].staked
             /\ CommittedDeposits[a].withdrawTime \in 1 .. timestamp
  <2>1. EPInv' /\ Kept(CommittedDeposits, CommittedDeposits', timestamp)
    BY <1>1, EveryStepIsGood DEF GoodStep
  <2>2. GoodStakes(CommittedDeposits)
    <3>1. frames # <<>> => 1 \in 1 .. Len(frames)
      BY <1>1, StackTop DEF EPInv, StackInv
    <3> QED
      BY <1>1, <3>1 DEF CommittedDeposits, EPInv, StackInv, GoodFrame
  <2>3. GoodStakes(CommittedDeposits')
    <3>1. frames' # <<>> => 1 \in 1 .. Len(frames')
      BY <2>1, StackTop DEF EPInv, StackInv
    <3> QED
      BY <2>1, <3>1 DEF CommittedDeposits, EPInv, StackInv, GoodFrame
  <2>4. /\ CommittedDeposits[a].stake \in Int /\ CommittedDeposits'[a].stake \in Int
        /\ CommittedDeposits[a].withdrawTime \in Nat
        /\ timestamp \in Nat
    BY <1>1, <2>2, <2>3 DEF GoodStakes, DepositInfo, EPInv, TypeOK
  <2>5. ~NotDue(CommittedDeposits, timestamp, a)
    BY <1>1, <2>1, <2>4 DEF Kept
  <2> QED
    BY <2>2, <2>4, <2>5 DEF NotDue, GoodStakes
<1>2. EPInv /\ [EPNext]_vars =>
         [\A a \in Account :
             CommittedDeposits'[a].stake < CommittedDeposits[a].stake =>
                 /\ ~CommittedDeposits[a].staked
                 /\ CommittedDeposits[a].withdrawTime \in 1 .. timestamp]_vars
  BY <1>1
<1> QED
  BY <1>2, EntryPointInvariant, PTL DEF EPSpec, LockedStakeStays

-----------------------------------------------------------------------------
(***************************************************************************)
(* Where the ether is while handleOps runs.  What the contract holds and   *)
(* has no record of belongs to the frames: each has the prefunds it took   *)
(* and did not settle, and the costs it collected.  The copies that a      *)
(* revert brings back differ from the state of the moment by exactly what  *)
(* the frames have taken since, which is the invariant below; the deposits *)
(* of the accounts are the subject of a second one, of the same shape.     *)
(***************************************************************************)

\* The operations of a frame that account a pays for.
ChargedTo(f, a) == {j \in 1 .. Len(f.opInfos) : UO!payer(f.ops[j]) = a}

Prefunds(f)   == [j \in Held(f) |-> f.opInfos[j].prefund]
Charges(f, a) == [j \in ChargedTo(f, a) |->
                     IF j \in Held(f) THEN f.opInfos[j].prefund
                     ELSE f.opInfos[j].cost]

\* HeldPrefunds is a sum.
LEMMA HeldPrefundsIsSum ==
    ASSUME NEW f, IsFiniteSet(Held(f))
    PROVE  HeldPrefunds(f) = SumOf(Prefunds(f), Held(f))
<1> DEFINE p == Prefunds(f)
           Eq(g) == g = [s \in SUBSET Held(f) |->
                           IF s = {} THEN 0
                           ELSE f.opInfos[CHOOSE x \in s : TRUE].prefund
                                + g[s \ {CHOOSE x \in s : TRUE}]]
           h == CHOOSE g : Eq(g)
<1>1. \A g : Eq(g) <=> IsTable(g, p, Held(f))
  BY PickIn DEF Prefunds, IsTable, SumStep, Pick
<1>2. HeldPrefunds(f) = h[Held(f)]
  BY DEF HeldPrefunds, MapThenSumSet, MapThenFoldSet
<1> HIDE DEF Eq, p
<1>3. Eq(h)
  BY <1>1, TableExists
<1> HIDE DEF h
<1>4. h[Held(f)] = SumOf(p, Held(f))
  BY <1>1, <1>3, SumIsInTable
<1> QED
  BY <1>2, <1>4 DEF p

\* PaidBy is a sum.
LEMMA PaidByIsSum ==
    ASSUME NEW f, NEW a, IsFiniteSet(ChargedTo(f, a))
    PROVE  PaidBy(f, a) = SumOf(Charges(f, a), ChargedTo(f, a))
<1> DEFINE own == ChargedTo(f, a)
           p == Charges(f, a)
           Eq(g) == g = [s \in SUBSET own |->
                           IF s = {} THEN 0
                           ELSE (IF (CHOOSE x \in s : TRUE) \in Held(f)
                                 THEN f.opInfos[CHOOSE x \in s : TRUE].prefund
                                 ELSE f.opInfos[CHOOSE x \in s : TRUE].cost)
                                + g[s \ {CHOOSE x \in s : TRUE}]]
           h == CHOOSE g : Eq(g)
<1>1. \A g : Eq(g) <=> IsTable(g, p, own)
  BY PickIn DEF Charges, IsTable, SumStep, Pick
<1>2. PaidBy(f, a) = h[own]
  BY DEF PaidBy, ChargedTo, MapThenSumSet, MapThenFoldSet
<1> HIDE DEF Eq, p, own
<1>3. Eq(h)
  BY <1>1, TableExists DEF own
<1> HIDE DEF h
<1>4. h[own] = SumOf(p, own)
  BY <1>1, <1>3, SumIsInTable DEF own
<1> QED
  BY <1>2, <1>4 DEF p, own

\* The sets a frame sums over are finite, and the terms are numbers.
LEMMA FrameTerms ==
    ASSUME NEW f, GoodFrame(f)
    PROVE  /\ Len(f.opInfos) \in Nat
           /\ f.i \in Nat \ {0}
           /\ Held(f) \in SUBSET (1 .. Len(f.opInfos))
           /\ IsFiniteSet(Held(f))
           /\ \A a : IsFiniteSet(ChargedTo(f, a))
           /\ \A j \in 1 .. Len(f.opInfos) : /\ f.opInfos[j].prefund \in Nat
                                             /\ f.opInfos[j].cost \in Nat
<1>1. f.opInfos \in Seq(UserOpInfo) /\ f.i \in Nat /\ f.i \in 1 .. Len(f.ops)
  BY DEF GoodFrame, Frame
<1>2. Len(f.opInfos) \in Nat /\ f.i \in Nat \ {0}
  BY <1>1
<1>3. Held(f) \in SUBSET (1 .. Len(f.opInfos))
  BY <1>2 DEF Held
<1>4. IsFiniteSet(1 .. Len(f.opInfos))
  BY <1>2, FS_Interval
<1>5. \A a : ChargedTo(f, a) \in SUBSET (1 .. Len(f.opInfos))
  BY DEF ChargedTo
<1>6. IsFiniteSet(Held(f)) /\ \A a : IsFiniteSet(ChargedTo(f, a))
  BY <1>3, <1>4, <1>5, FS_Subset
<1>7. \A j \in 1 .. Len(f.opInfos) : f.opInfos[j] \in UserOpInfo
  BY <1>1
<1> QED
  BY <1>2, <1>3, <1>6, <1>7 DEF UserOpInfo

\* So the sums are numbers.
LEMMA FrameSums ==
    ASSUME NEW f, GoodFrame(f)
    PROVE  /\ HeldPrefunds(f) \in Int
           /\ \A a : PaidBy(f, a) \in Int
<1>1. \A j \in Held(f) : Prefunds(f)[j] \in Int
  BY FrameTerms DEF Prefunds
<1>2. \A a : \A j \in ChargedTo(f, a) : Charges(f, a)[j] \in Int
  BY FrameTerms DEF Charges, ChargedTo
<1>3. HeldPrefunds(f) \in Int
  BY <1>1, FrameTerms, HeldPrefundsIsSum, SumTakesAny
<1>4. ASSUME NEW a
      PROVE  PaidBy(f, a) \in Int
  BY <1>2, FrameTerms, PaidByIsSum, SumTakesAny
<1> QED
  BY <1>3, <1>4

\* A step that keeps the operations and what is held keeps the sums.
LEMMA SameSums ==
    ASSUME NEW f, NEW g, GoodFrame(f), GoodFrame(g), g.ops = f.ops,
           g.opInfos = f.opInfos, Held(g) = Held(f)
    PROVE  /\ HeldPrefunds(g) = HeldPrefunds(f)
           /\ \A a : PaidBy(g, a) = PaidBy(f, a)
<1>1. Prefunds(g) = Prefunds(f)
  BY DEF Prefunds
<1>2. \A a : ChargedTo(g, a) = ChargedTo(f, a)
  BY DEF ChargedTo
<1>3. \A a : Charges(g, a) = Charges(f, a)
  BY <1>2 DEF Charges
<1> QED
  BY <1>1, <1>2, <1>3, FrameTerms, HeldPrefundsIsSum, PaidByIsSum

\* One more operation has paid its prefund.
LEMMA ValidatedSums ==
    ASSUME NEW f, NEW g, GoodFrame(f), GoodFrame(g), g.ops = f.ops,
           NEW info \in UserOpInfo, g.opInfos = Append(f.opInfos, info),
           NEW m \in Nat, Len(f.opInfos) = m,
           Held(f) = 1 .. m, Held(g) = 1 .. m + 1
    PROVE  /\ HeldPrefunds(g) = HeldPrefunds(f) + info.prefund
           /\ PaidBy(g, UO!payer(f.ops[m + 1]))
                = PaidBy(f, UO!payer(f.ops[m + 1])) + info.prefund
           /\ \A a : a # UO!payer(f.ops[m + 1]) => PaidBy(g, a) = PaidBy(f, a)
<1> DEFINE n == m + 1
<1>1. /\ f.opInfos \in Seq(UserOpInfo)
      /\ Len(g.opInfos) = n
      /\ g.opInfos[n] = info
      /\ \A j \in 1 .. m : g.opInfos[j] = f.opInfos[j]
      /\ info.prefund \in Int
  <2>1. f.opInfos \in Seq(UserOpInfo)
    BY DEF GoodFrame, Frame
  <2>2. info.prefund \in Int
    BY DEF UserOpInfo
  <2> QED
    BY <2>1, <2>2
<1>2. /\ \A j \in 1 .. m : f.opInfos[j].prefund \in Nat /\ f.opInfos[j].cost \in Nat
      /\ IsFiniteSet(1 .. m) /\ IsFiniteSet(1 .. n)
      /\ n \notin 1 .. m
      /\ 1 .. n = (1 .. m) \cup {n}
  <2>1. \A j \in 1 .. m : f.opInfos[j].prefund \in Nat /\ f.opInfos[j].cost \in Nat
    BY FrameTerms
  <2>2. IsFiniteSet(1 .. m) /\ IsFiniteSet(1 .. n)
    BY FS_Interval
  <2> QED
    BY <2>1, <2>2
<1>3. HeldPrefunds(g) = HeldPrefunds(f) + info.prefund
  <2>1. /\ Prefunds(g)[n] = info.prefund
        /\ \A j \in 1 .. m : /\ Prefunds(f)[j] \in Int
                             /\ Prefunds(g)[j] = Prefunds(f)[j]
    BY <1>1, <1>2 DEF Prefunds
  <2>2. IsFiniteSet(1 .. m) /\ n \notin 1 .. m /\ Prefunds(g)[n] \in Int
    BY <1>1, <1>2, <2>1
  <2>3. SumOf(Prefunds(g), (1 .. m) \cup {n}) = SumOf(Prefunds(f), 1 .. m) + Prefunds(g)[n]
    <3> DEFINE S == 1 .. m
               p == Prefunds(f)
               q == Prefunds(g)
    <3>1. /\ IsFiniteSet(S) /\ n \notin S /\ q[n] \in Int
          /\ \A j \in S : p[j] \in Int /\ q[j] = p[j]
      BY <2>1, <2>2
    <3> HIDE DEF S, p, q, n
    <3>2. SumOf(q, S \cup {n}) = SumOf(p, S) + q[n]
      BY <3>1, SumAdd
    <3> QED
      BY <3>2 DEF S, p, q
  <2> QED
    BY <1>2, <2>1, <2>3, HeldPrefundsIsSum
<1>4. \A a : /\ IsFiniteSet(ChargedTo(f, a)) /\ IsFiniteSet(ChargedTo(g, a))
             /\ n \notin ChargedTo(f, a)
             /\ \A j \in ChargedTo(f, a) : /\ Charges(f, a)[j] \in Int
                                           /\ j \in 1 .. m
  <2>1. \A a : IsFiniteSet(ChargedTo(f, a)) /\ IsFiniteSet(ChargedTo(g, a))
    BY FrameTerms
  <2>2. \A a : n \notin ChargedTo(f, a) /\ \A j \in ChargedTo(f, a) : j \in 1 .. m
    BY DEF ChargedTo
  <2>3. \A a : \A j \in ChargedTo(f, a) : Charges(f, a)[j] \in Int
    BY <1>2, <2>2 DEF Charges
  <2> QED
    BY <2>1, <2>2, <2>3
<1>5. \A a : \A j \in ChargedTo(f, a) : j \in ChargedTo(g, a) /\ Charges(g, a)[j] = Charges(f, a)[j]
  BY <1>1, <1>2, <1>4 DEF ChargedTo, Charges
<1>6. ASSUME NEW a, a = UO!payer(f.ops[n])
      PROVE  PaidBy(g, a) = PaidBy(f, a) + info.prefund
  <2>1. ChargedTo(g, a) = ChargedTo(f, a) \cup {n}
    BY <1>1, <1>2, <1>6 DEF ChargedTo
  <2>2. Charges(g, a)[n] = info.prefund
    BY <1>1, <1>2, <2>1 DEF Charges
  <2>3. /\ IsFiniteSet(ChargedTo(f, a)) /\ n \notin ChargedTo(f, a)
        /\ Charges(g, a)[n] \in Int
        /\ \A j \in ChargedTo(f, a) : /\ Charges(f, a)[j] \in Int
                                      /\ Charges(g, a)[j] = Charges(f, a)[j]
    BY <1>1, <1>4, <1>5, <2>2
  <2>4. SumOf(Charges(g, a), ChargedTo(f, a) \cup {n})
          = SumOf(Charges(f, a), ChargedTo(f, a)) + Charges(g, a)[n]
    BY <2>3, SumAdd
  <2> QED
    BY <1>4, <2>1, <2>2, <2>4, PaidByIsSum
<1>7. ASSUME NEW a, a # UO!payer(f.ops[n])
      PROVE  PaidBy(g, a) = PaidBy(f, a)
  <2>1. ChargedTo(g, a) = ChargedTo(f, a)
    BY <1>1, <1>2, <1>7 DEF ChargedTo
  <2>2. SumOf(Charges(g, a), ChargedTo(f, a)) = SumOf(Charges(f, a), ChargedTo(f, a))
    BY <1>4, <1>5, SumSame
  <2> QED
    BY <1>4, <2>1, <2>2, PaidByIsSum
<1> QED
  BY <1>3, <1>6, <1>7

\* The operation at hand is settled: its cost takes the place of its prefund.
LEMMA SettledSums ==
    ASSUME NEW f, NEW g, GoodFrame(f), GoodFrame(g), g.ops = f.ops,
           NEW i \in 1 .. Len(f.opInfos), i \in Held(f), Held(g) = Held(f) \ {i},
           NEW info \in UserOpInfo, info.prefund = f.opInfos[i].prefund,
           g.opInfos = [f.opInfos EXCEPT ![i] = info]
    PROVE  /\ HeldPrefunds(g) = HeldPrefunds(f) - info.prefund
           /\ PaidBy(g, UO!payer(f.ops[i]))
                = PaidBy(f, UO!payer(f.ops[i])) - info.prefund + info.cost
           /\ \A a : a # UO!payer(f.ops[i]) => PaidBy(g, a) = PaidBy(f, a)
<1>1. /\ Len(g.opInfos) = Len(f.opInfos)
      /\ g.opInfos[i] = info
      /\ \A j \in 1 .. Len(f.opInfos) : j # i => g.opInfos[j] = f.opInfos[j]
      /\ info.prefund \in Int /\ info.cost \in Int
  <2>1. f.opInfos \in Seq(UserOpInfo)
    BY DEF GoodFrame, Frame
  <2> DEFINE h == f.opInfos
  <2>2. h \in Seq(UserOpInfo) /\ g.opInfos = [h EXCEPT ![i] = info] /\ i \in 1 .. Len(h)
    BY <2>1
  <2> HIDE DEF h
  <2>3. /\ Len(g.opInfos) = Len(h)
        /\ g.opInfos[i] = info
        /\ \A j \in 1 .. Len(h) : j # i => g.opInfos[j] = h[j]
    BY ONLY <2>2
  <2>4. info.prefund \in Int /\ info.cost \in Int
    BY ONLY info \in UserOpInfo DEF UserOpInfo
  <2> QED
    BY <2>3, <2>4 DEF h
<1>2. /\ Held(f) \in SUBSET (1 .. Len(f.opInfos))
      /\ IsFiniteSet(Held(f)) /\ IsFiniteSet(Held(g))
      /\ \A j \in 1 .. Len(f.opInfos) : /\ f.opInfos[j].prefund \in Int
                                        /\ f.opInfos[j].cost \in Int
      /\ \A j \in 1 .. Len(f.opInfos) : /\ g.opInfos[j].prefund \in Int
                                        /\ g.opInfos[j].cost \in Int
  <2>1. /\ Held(f) \in SUBSET (1 .. Len(f.opInfos))
        /\ IsFiniteSet(Held(f)) /\ IsFiniteSet(Held(g))
    BY FrameTerms
  <2>2. \A j \in 1 .. Len(f.opInfos) : /\ f.opInfos[j].prefund \in Int
                                       /\ f.opInfos[j].cost \in Int
    BY FrameTerms
  <2>3. \A j \in 1 .. Len(f.opInfos) : /\ g.opInfos[j].prefund \in Int
                                       /\ g.opInfos[j].cost \in Int
    BY <1>1, FrameTerms
  <2> QED
    BY <2>1, <2>2, <2>3
<1>3. HeldPrefunds(g) = HeldPrefunds(f) - info.prefund
  <2>1. /\ Prefunds(f)[i] = info.prefund
        /\ \A j \in Held(f) : Prefunds(f)[j] \in Int
        /\ \A j \in Held(g) : Prefunds(g)[j] = Prefunds(f)[j]
    BY <1>1, <1>2 DEF Prefunds
  <2>2. SumOf(Prefunds(f), Held(f)) = info.prefund + SumOf(Prefunds(f), Held(g))
    <3>1. SumOf(Prefunds(f), Held(f)) = Prefunds(f)[i] + SumOf(Prefunds(f), Held(f) \ {i})
      <4>1. \A j \in Held(f) : Prefunds(f)[j] \in Int
        BY <2>1
      <4> QED
        BY <1>2, <4>1, SumTakesAny, Zenon
    <3> QED
      BY <2>1, <3>1
  <2>3. SumOf(Prefunds(g), Held(g)) = SumOf(Prefunds(f), Held(g))
    BY <1>2, <2>1, SumSame
  <2>4. SumOf(Prefunds(f), Held(g)) \in Int
    BY <1>2, <2>1, SumTakesAny
  <2>5. HeldPrefunds(f) = info.prefund + HeldPrefunds(g) /\ HeldPrefunds(g) \in Int
    BY <1>2, <2>2, <2>3, <2>4, HeldPrefundsIsSum
  <2> QED
    BY <1>1, <2>5
<1>4. \A a : /\ ChargedTo(g, a) = ChargedTo(f, a)
             /\ IsFiniteSet(ChargedTo(f, a))
             /\ \A j \in ChargedTo(f, a) : /\ Charges(f, a)[j] \in Int
                                           /\ Charges(g, a)[j] \in Int
                                           /\ j # i => Charges(g, a)[j] = Charges(f, a)[j]
  <2>1. \A a : ChargedTo(g, a) = ChargedTo(f, a)
    BY <1>1 DEF ChargedTo
  <2>2. \A a : IsFiniteSet(ChargedTo(f, a))
    BY FrameTerms
  <2>3. \A a : \A j \in ChargedTo(f, a) : j \in 1 .. Len(f.opInfos)
    BY DEF ChargedTo
  <2>4. \A a : \A j \in ChargedTo(f, a) : /\ Charges(f, a)[j] \in Int
                                          /\ Charges(g, a)[j] \in Int
    BY <1>2, <2>1, <2>3 DEF Charges
  <2>5. \A a : \A j \in ChargedTo(f, a) : j # i => Charges(g, a)[j] = Charges(f, a)[j]
    BY <1>1, <2>1, <2>3 DEF Charges
  <2> QED
    BY <2>1, <2>2, <2>4, <2>5
<1>5. ASSUME NEW a, a = UO!payer(f.ops[i])
      PROVE  PaidBy(g, a) = PaidBy(f, a) - info.prefund + info.cost
  <2>1. i \in ChargedTo(f, a)
    BY <1>5 DEF ChargedTo
  <2>2. Charges(f, a)[i] = info.prefund /\ Charges(g, a)[i] = info.cost
    BY <1>1, <1>4, <2>1 DEF Charges
  <2>3. SumOf(Charges(g, a), ChargedTo(f, a))
          = SumOf(Charges(f, a), ChargedTo(f, a)) - Charges(f, a)[i] + Charges(g, a)[i]
    <3> DEFINE own == ChargedTo(f, a)
               p == Charges(f, a)
               q == Charges(g, a)
    <3>1. /\ IsFiniteSet(own) /\ i \in own
          /\ \A j \in own : p[j] \in Int /\ q[j] \in Int
          /\ \A j \in own \ {i} : q[j] = p[j]
      BY <1>4, <2>1
    <3> HIDE DEF own, p, q
    <3>2. /\ SumOf(p, own) = p[i] + SumOf(p, own \ {i})
          /\ SumOf(q, own) = q[i] + SumOf(q, own \ {i})
      <4>1. SumOf(p, own) = p[i] + SumOf(p, own \ {i})
        BY ONLY <3>1, SumTakesAny
      <4>2. SumOf(q, own) = q[i] + SumOf(q, own \ {i})
        BY ONLY <3>1, SumTakesAny
      <4> QED
        BY <4>1, <4>2
    <3>3. /\ IsFiniteSet(own \ {i})
          /\ \A j \in own \ {i} : p[j] \in Int
      BY <3>1, FS_RemoveElement
    <3>4. SumOf(q, own \ {i}) = SumOf(p, own \ {i}) /\ SumOf(p, own \ {i}) \in Int
      BY <3>1, <3>3, SumSame, SumTakesAny
    <3>5. SumOf(q, own) = SumOf(p, own) - p[i] + q[i]
      BY <3>1, <3>2, <3>4
    <3> QED
      BY <3>5 DEF own, p, q
  <2> QED
    BY <1>4, <2>2, <2>3, PaidByIsSum
<1>6. ASSUME NEW a, a # UO!payer(f.ops[i])
      PROVE  PaidBy(g, a) = PaidBy(f, a)
  <2>1. i \notin ChargedTo(f, a)
    BY <1>6 DEF ChargedTo
  <2>2. SumOf(Charges(g, a), ChargedTo(f, a)) = SumOf(Charges(f, a), ChargedTo(f, a))
    BY <1>4, <2>1, SumSame
  <2> QED
    BY <1>4, <2>2, PaidByIsSum
<1> QED
  BY <1>3, <1>5, <1>6

\* The ether of a state that is not on record in it.
UnrecordedIn(w) == (w.balance + w.withdrawn) - Recorded(w.deposits)

\* What belongs to a frame.
Own(f) == HeldPrefunds(f) + f.collected

\* Frame f of a state in which u is unrecorded, once the frames above it are
\* gone: what was added since f began belongs to f, also in the state to which
\* a revert of innerHandleOp goes back.
Balanced(f, u) ==
    /\ u = UnrecordedIn(f.saved) + Own(f)
    /\ f.phase \in InnerPhase => UnrecordedIn(f.inner) = u

\* Every frame began with what belongs to the frames below it.
Funds(fs, u) ==
    /\ fs = <<>> => u = 0
    /\ fs # <<>> => /\ UnrecordedIn(fs[1].saved) = 0
                    /\ Balanced(fs[Len(fs)], u)
    /\ \A k \in 1 .. Len(fs) - 1 : Balanced(fs[k], UnrecordedIn(fs[k + 1].saved))

\* Account a has in records d what it had when f began, less what f took.
LessPaid(f, d) ==
    \A a \in Account :
        f.saved.deposits[a].deposit = d[a].deposit + PaidBy(f, a)

\* Frame f with records d, and with those a revert of innerHandleOp goes back to.
Square(f, d) ==
    /\ LessPaid(f, d)
    /\ f.phase \in InnerPhase => LessPaid(f, f.inner.deposits)

\* A frame that others were pushed upon has made a call; the one on top is
\* square as long as it has made none.
SquareTop(fs, d) ==
    /\ \A k \in 1 .. Len(fs) - 1 : fs[k].calls > 0
    /\ fs # <<>> /\ fs[Len(fs)].calls = 0 => Square(fs[Len(fs)], d)

\* The books of a stack of frames in the state w.
Books(fs, w) == Funds(fs, UnrecordedIn(w)) /\ SquareTop(fs, w.deposits)

\* The frame on top changes, and the state with it.
LEMMA TopBooks ==
    ASSUME NEW fs \in Seq(Frame), fs # <<>>, NEW w, NEW v, Books(fs, w),
           NEW f \in Frame, f.saved = Last(fs).saved,
           Balanced(f, UnrecordedIn(v)),
           f.calls = 0 => Square(f, v.deposits)
    PROVE  Books(Append(Front(fs), f), v)
<1> DEFINE gs == Append(Front(fs), f)
           n  == Len(fs)
<1>1. n \in Nat \ {0} /\ Last(fs) = fs[n]
  BY StackTop
<1>2. /\ gs # <<>>
      /\ Len(gs) = n
      /\ gs[n] = f
      /\ \A k \in 1 .. n - 1 : gs[k] = fs[k]
  BY <1>1, NewTop
<1> HIDE DEF gs
<1>3. \A k \in 1 .. n : gs[k].saved = fs[k].saved
  BY <1>1, <1>2
<1>4. \A k \in 1 .. n - 1 : Balanced(gs[k], UnrecordedIn(gs[k + 1].saved))
  <2> TAKE k \in 1 .. n - 1
  <2>1. k + 1 \in 1 .. n
    BY <1>1
  <2>2. Balanced(fs[k], UnrecordedIn(fs[k + 1].saved))
    BY DEF Books, Funds
  <2> QED
    BY <1>2, <1>3, <2>1, <2>2
<1>5. UnrecordedIn(gs[1].saved) = 0
  BY <1>1, <1>3 DEF Books, Funds
<1>6. Funds(gs, UnrecordedIn(v))
  BY <1>1, <1>2, <1>4, <1>5 DEF Funds
<1>7. SquareTop(gs, v.deposits)
  BY <1>1, <1>2 DEF Books, SquareTop
<1> QED
  BY <1>6, <1>7 DEF Books, gs

\* A frame is pushed, which saved the state and owns nothing.
LEMMA PushBooks ==
    ASSUME NEW fs \in Seq(Frame), NEW w, Books(fs, w),
           fs # <<>> => fs[Len(fs)].calls > 0,
           NEW f \in Frame, UnrecordedIn(f.saved) = UnrecordedIn(w),
           Balanced(f, UnrecordedIn(w)), Square(f, w.deposits)
    PROVE  Books(Append(fs, f), w)
<1> DEFINE gs == Append(fs, f)
           n  == Len(fs)
<1>1. /\ n \in Nat
      /\ gs # <<>>
      /\ Len(gs) = n + 1
      /\ gs[n + 1] = f
      /\ \A k \in 1 .. n : gs[k] = fs[k]
      /\ n = 0 => fs = <<>>
      /\ n # 0 => fs # <<>>
  <2>1. n \in Nat /\ (n = 0 <=> fs = <<>>)
    OBVIOUS
  <2>2. gs \in Seq(Frame) /\ Len(gs) = n + 1 /\ gs[n + 1] = f
    OBVIOUS
  <2>3. \A k \in 1 .. n : gs[k] = fs[k]
    OBVIOUS
  <2>4. gs # <<>>
    BY <2>1, <2>2
  <2> QED
    BY <2>1, <2>2, <2>3, <2>4
<1> HIDE DEF gs
<1>2. \A k \in 1 .. n : Balanced(gs[k], UnrecordedIn(gs[k + 1].saved))
  <2> TAKE k \in 1 .. n
  <2>1. CASE k = n
    <3>1. Balanced(fs[n], UnrecordedIn(w))
      BY <1>1, <2>1 DEF Books, Funds
    <3> QED
      BY <1>1, <2>1, <3>1
  <2>2. CASE k # n
    <3>1. k \in 1 .. n - 1 /\ k + 1 \in 1 .. n
      BY <1>1, <2>2
    <3>2. Balanced(fs[k], UnrecordedIn(fs[k + 1].saved))
      BY <3>1 DEF Books, Funds
    <3> QED
      BY <1>1, <3>1, <3>2
  <2> QED
    BY <2>1, <2>2
<1>3. UnrecordedIn(gs[1].saved) = 0
  <2>1. CASE n = 0
    BY <1>1, <2>1 DEF Books, Funds
  <2>2. CASE n # 0
    <3>1. UnrecordedIn(fs[1].saved) = 0 /\ 1 \in 1 .. n
      BY <1>1, <2>2 DEF Books, Funds
    <3> QED
      BY <1>1, <3>1
  <2> QED
    BY <2>1, <2>2
<1>4. Funds(gs, UnrecordedIn(w))
  BY <1>1, <1>2, <1>3 DEF Funds
<1>5. SquareTop(gs, w.deposits)
  <2>1. \A k \in 1 .. n : fs[k].calls > 0
    <3> TAKE k \in 1 .. n
    <3>1. k = n \/ k \in 1 .. n - 1
      BY <1>1
    <3> QED
      BY <1>1, <3>1 DEF Books, SquareTop
  <2> QED
    BY <1>1, <2>1 DEF SquareTop
<1> QED
  BY <1>4, <1>5 DEF Books, gs

\* The frame on top is popped, and the state has in it what it had when that
\* frame began.
LEMMA PopBooks ==
    ASSUME NEW fs \in Seq(Frame), fs # <<>>, NEW w, NEW v, Books(fs, w),
           UnrecordedIn(v) = UnrecordedIn(Last(fs).saved)
    PROVE  Books(Front(fs), v)
<1> DEFINE gs == Front(fs)
           n  == Len(fs)
<1>1. /\ n \in Nat \ {0}
      /\ Last(fs) = fs[n]
      /\ gs \in Seq(Frame)
      /\ Len(gs) = n - 1
      /\ \A k \in 1 .. n - 1 : gs[k] = fs[k]
  BY StackTop
<1> HIDE DEF gs
<1>2. UnrecordedIn(fs[1].saved) = 0
  BY DEF Books, Funds
<1>3. CASE n = 1
  <2>1. gs = <<>> /\ Len(gs) = 0
    BY <1>1, <1>3
  <2> QED
    BY <1>1, <1>2, <1>3, <2>1 DEF Books, Funds, SquareTop, gs
<1>4. CASE n # 1
  <2>1. gs # <<>> /\ n - 1 \in 1 .. n - 1 /\ 1 \in 1 .. n - 1
    BY <1>1, <1>4
  <2>2. Balanced(fs[n - 1], UnrecordedIn(fs[(n - 1) + 1].saved))
    BY <2>1 DEF Books, Funds
  <2>3. Balanced(gs[n - 1], UnrecordedIn(v))
    <3>1. (n - 1) + 1 = n
      BY <1>1
    <3> QED
      BY <1>1, <2>1, <2>2, <3>1
  <2>4. \A k \in 1 .. (n - 1) - 1 : Balanced(gs[k], UnrecordedIn(gs[k + 1].saved))
    <3> TAKE k \in 1 .. (n - 1) - 1
    <3>1. k \in 1 .. n - 1 /\ k + 1 \in 1 .. n - 1
      BY <1>1
    <3>2. Balanced(fs[k], UnrecordedIn(fs[k + 1].saved))
      BY <3>1 DEF Books, Funds
    <3> QED
      BY <1>1, <3>1, <3>2
  <2>5. Funds(gs, UnrecordedIn(v))
    BY <1>1, <1>2, <2>1, <2>3, <2>4 DEF Funds
  <2>6. \A k \in 1 .. n - 1 : gs[k].calls > 0
    BY <1>1 DEF Books, SquareTop
  <2>7. \A k \in 1 .. n - 1 : gs[k].calls # 0
    <3>1. \A k \in 1 .. n - 1 : gs[k] \in Frame
      BY <1>1
    <3>2. \A f \in Frame : f.calls \in 0 .. MaxCalls
      BY DEF Frame
    <3> QED
      BY <2>6, <3>1, <3>2, EntryPointAssumption
  <2>8. SquareTop(gs, v.deposits)
    BY <1>1, <2>1, <2>6, <2>7 DEF SquareTop
  <2> QED
    BY <2>5, <2>8 DEF Books, gs
<1> QED
  BY <1>3, <1>4

\* What is known of the books of the frame on top.
LEMMA TopBalance ==
    ASSUME NEW fs \in Seq(Frame), fs # <<>>, NEW w, Books(fs, w)
    PROVE  /\ Balanced(Last(fs), UnrecordedIn(w))
           /\ Last(fs).calls = 0 => Square(Last(fs), w.deposits)
BY StackTop DEF Books, Funds, SquareTop

\* The usual case: the frame keeps its operations and what it holds, and the
\* records are those of the moment or the ones innerHandleOp goes back to.
LEMMA QuietBooks ==
    ASSUME NEW fs \in Seq(Frame), fs # <<>>, NEW w, NEW v, Books(fs, w),
           NEW f, GoodFrame(f), GoodFrame(Last(fs)),
           f.saved = Last(fs).saved, f.ops = Last(fs).ops,
           f.opInfos = Last(fs).opInfos, Held(f) = Held(Last(fs)),
           f.collected = Last(fs).collected,
           f.calls = Last(fs).calls,
           \/ v.deposits = w.deposits /\ UnrecordedIn(v) = UnrecordedIn(w)
           \/ /\ Last(fs).phase \in InnerPhase
              /\ v.deposits = Last(fs).inner.deposits
              /\ UnrecordedIn(v) = UnrecordedIn(Last(fs).inner),
           f.phase \in InnerPhase =>
               \/ f.inner = w /\ v.deposits = w.deposits
               \/ f.inner = Last(fs).inner /\ Last(fs).phase \in InnerPhase
    PROVE  Books(Append(Front(fs), f), v)
<1> DEFINE g == Last(fs)
<1>1. /\ Balanced(g, UnrecordedIn(w))
      /\ g.calls = 0 => Square(g, w.deposits)
  BY TopBalance
<1> HIDE DEF g
<1>2. /\ Own(f) = Own(g)
      /\ \A a : PaidBy(f, a) = PaidBy(g, a)
  BY SameSums DEF Own, g
<1>3. Balanced(f, UnrecordedIn(v))
  BY <1>1, <1>2 DEF Balanced, g
<1>4. \A d : LessPaid(f, d) <=> LessPaid(g, d)
  BY <1>2 DEF LessPaid, g
<1>5. f.calls = 0 => Square(f, v.deposits)
  BY <1>1, <1>4 DEF Square, g
<1>6. f \in Frame
  BY DEF GoodFrame
<1> QED
  BY <1>3, <1>5, <1>6, TopBooks

\* A call of unknown code that leaves nothing off the record.
LEMMA CountedBooks ==
    ASSUME EPInv, CanCall, NEW w, NEW v, Books(frames, w),
           UnrecordedIn(v) = UnrecordedIn(w)
    PROVE  /\ Books(Counted, v)
           /\ Counted \in Seq(Frame)
           /\ Counted # <<>> => Counted[Len(Counted)].calls > 0
<1>1. CASE frames = <<>>
  <2>1. Counted = <<>> /\ Len(Counted) = 0
    BY <1>1 DEF Counted
  <2> QED
    BY <1>1, <2>1 DEF Books, Funds, SquareTop
<1>2. CASE frames # <<>>
  <2> DEFINE f == [Top EXCEPT !.calls = @ + 1]
             n == Len(frames)
  <2>1. /\ Top.calls \in 0 .. MaxCalls /\ Top.calls < MaxCalls
        /\ GoodFrame(Top) /\ Top \in Frame /\ Top = Last(frames)
        /\ frames \in Seq(Frame)
    BY <1>2, TopFrame DEF CanCall, Frame, Top
  <2> DEFINE c == Top.calls + 1
  <2>2. c \in 0 .. MaxCalls /\ c > 0 /\ c # 0
    BY <2>1, EntryPointAssumption
  <2>3. f = [Top EXCEPT !.calls = c]
    OBVIOUS
  <2> HIDE DEF f, c
  <2>4. /\ f \in Frame
        /\ f.phase = Top.phase
        /\ f.ops = Top.ops
        /\ f.i = Top.i
        /\ f.opInfos = Top.opInfos
        /\ f.saved = Top.saved
        /\ f.inner = Top.inner
        /\ f.collected = Top.collected
        /\ f.calls > 0
        /\ f.calls # 0
    BY <2>1, <2>2, <2>3 DEF Frame
  <2>5. GoodFrame(f)
    BY <2>1, <2>4 DEF GoodFrame
  <2>6. Counted = Append(Front(frames), f)
    BY <1>2 DEF Counted, f
  <2>7. Held(f) = Held(Top)
    BY <2>4 DEF Held
  <2>8. Own(f) = Own(Top)
    BY <2>1, <2>4, <2>5, <2>7, SameSums DEF Own
  <2>9. Balanced(f, UnrecordedIn(v))
    BY <1>2, <2>1, <2>4, <2>8, TopBalance DEF Balanced
  <2>10. Books(Counted, v)
    BY <1>2, <2>1, <2>4, <2>6, <2>9, TopBooks
  <2>11. /\ Counted \in Seq(Frame) /\ Len(Counted) = n /\ Counted[n] = f
    BY <1>2, <2>1, <2>4, <2>6, NewTop
  <2> QED
    BY <2>4, <2>10, <2>11
<1> QED
  BY <1>1, <1>2

\* The invariant: the books of the stack are in order in the state of the moment.
BooksInv == Books(frames, World)

\* What is unrecorded is an integer.
LEMMA UnrecordedIsInt ==
    ASSUME NEW w \in WorldType
    PROVE  UnrecordedIn(w) \in Int
<1>1. w.balance \in Int /\ w.withdrawn \in Int /\ Recorded(w.deposits) \in Int
  BY RecordedIsInt DEF WorldType
<1> QED
  BY <1>1 DEF UnrecordedIn

\* A step that keeps the ether and the records.
LEMMA SameWorld ==
    ASSUME deposits' = deposits, balance' = balance, withdrawn' = withdrawn
    PROVE  World'.deposits = World.deposits /\ UnrecordedIn(World') = UnrecordedIn(World)
BY DEF World, UnrecordedIn

\* A revert.
LEMMA RestoredWorld ==
    ASSUME NEW w, Restore(w)
    PROVE  World'.deposits = w.deposits /\ UnrecordedIn(World') = UnrecordedIn(w)
BY DEF Restore, World, UnrecordedIn

\* At first there is nothing to account for.
LEMMA InitBooks == EPInit => BooksInv
<1> SUFFICES ASSUME EPInit PROVE BooksInv
  OBVIOUS
<1>1. deposits = [a \in Account |-> NoDepositInfo] /\ balance = 0 /\ withdrawn = 0
  BY DEF EPInit, Init
<1>2. UnrecordedIn(World) = 0
  BY <1>1, NothingRecorded DEF World, UnrecordedIn
<1>3. frames = <<>> /\ Len(frames) = 0
  BY DEF EPInit
<1> QED
  BY <1>2, <1>3 DEF BooksInv, Books, Funds, SquareTop

\* Calls of unknown code.
LEMMA CallBooks ==
    ASSUME EPInv, BooksInv, EPInv', NEW a \in Account,
           CallStakeManager(a) \/ deploy(a)
    PROVE  BooksInv'
<1>1. CanCall /\ frames' = Counted
  BY DEF CallStakeManager, deploy
<1>2. CASE CallStakeManager(a)
  <2>1. Unrecorded' = Unrecorded
    BY <1>2, StakeCallsConserve DEF CallStakeManager, EPInv
  <2>2. UnrecordedIn(World') = UnrecordedIn(World)
    BY <2>1 DEF Unrecorded, UnrecordedIn, World
  <2> QED
    BY <1>1, <2>2, CountedBooks DEF BooksInv
<1>3. CASE deploy(a)
  <2>1. UnrecordedIn(World') = UnrecordedIn(World)
    BY <1>3, SameWorld DEF deploy, stakeVars
  <2> QED
    BY <1>1, <2>1, CountedBooks DEF BooksInv
<1> QED
  BY <1>2, <1>3

\* A deposit of any amount, made by a call.
LEMMA DepositBooks ==
    ASSUME EPInv, BooksInv, EPInv', CanCall, NEW a \in Account, NEW v \in Nat,
           depositTo(a, v), frames' = Counted
    PROVE  BooksInv'
<1>1. /\ deposits \in [Account -> DepositInfo] /\ deposits' \in [Account -> DepositInfo]
      /\ balance \in Nat /\ withdrawn \in Nat
  BY DEF EPInv, TypeOK
<1>2. /\ deposits' = [deposits EXCEPT ![a].deposit = @ + v]
      /\ balance' = balance + v /\ withdrawn' = withdrawn
  BY DEF depositTo, internalIncrementDeposit
<1>3. /\ \A b \in Account \ {a} : deposits'[b] = deposits[b]
      /\ deposits'[a].deposit = deposits[a].deposit + v
      /\ deposits'[a].stake = deposits[a].stake
      /\ deposits[a].deposit \in Nat /\ deposits[a].stake \in Nat
  BY <1>1, <1>2, StakeManagerAssumption DEF DepositInfo
<1>4. /\ balance + withdrawn \in Int /\ balance' + withdrawn' \in Int
      /\ balance' + withdrawn' = (balance + withdrawn)
             - (deposits[a].deposit + deposits[a].stake)
             + (deposits'[a].deposit + deposits'[a].stake)
  BY <1>1, <1>2, <1>3
<1>5. (balance' + withdrawn') - Recorded(deposits')
         = (balance + withdrawn) - Recorded(deposits)
  BY <1>1, <1>3, <1>4, EtherMovesAlong
<1>6. UnrecordedIn(World') = UnrecordedIn(World)
  BY <1>5 DEF UnrecordedIn, World
<1> QED
  BY <1>6, CountedBooks DEF BooksInv

\* A frame that has validated nothing owns nothing.
LEMMA FreshSums ==
    ASSUME NEW f, GoodFrame(f), f.opInfos = <<>>, f.phase = "validate"
    PROVE  /\ HeldPrefunds(f) = 0
           /\ \A a : PaidBy(f, a) = 0
<1>1. Held(f) = {} /\ \A a : ChargedTo(f, a) = {}
  BY DEF Held, ChargedTo
<1>2. IsFiniteSet({})
  BY FS_EmptySet
<1>3. \A p : SumOf(p, {}) = 0
  <2> TAKE p
  <2>1. \A x \in {} : p[x] \in Int
    OBVIOUS
  <2> QED
    BY <1>2, <2>1, SumTakesAny
<1> QED
  BY <1>1, <1>2, <1>3, HeldPrefundsIsSum, PaidByIsSum

\* handleOps is called.
LEMMA PushStepBooks ==
    ASSUME EPInv, BooksInv, EPInv', NEW ops \in Batches, NEW fee \in BaseFees,
           handleOps(ops, fee)
    PROVE  BooksInv'
<1> DEFINE f == NewFrame(ops, fee)
<1>1. /\ CanCall
      /\ frames' = Append(Counted, f)
      /\ deposits' = deposits /\ balance' = balance /\ withdrawn' = withdrawn
  BY DEF handleOps, worldVars
<1>2. /\ f.saved = World /\ f.inner = World /\ f.opInfos = <<>>
      /\ f.phase = "validate" /\ f.collected = 0
  BY DEF NewFrame
<1> HIDE DEF f
<1>3. /\ Books(Counted, World')
      /\ Counted \in Seq(Frame)
      /\ Counted # <<>> => Counted[Len(Counted)].calls > 0
  BY <1>1, SameWorld, CountedBooks DEF BooksInv
<1>4. f = frames'[Len(frames')] /\ frames' \in Seq(Frame) /\ Len(frames') \in Nat \ {0}
  <2>1. frames' \in Seq(Frame)
    BY DEF EPInv, StackInv
  <2>2. frames' = Append(Counted, f)
    BY <1>1
  <2>3. Len(Counted) \in Nat
    BY <1>3
  <2>4. Len(frames') = Len(Counted) + 1 /\ frames'[Len(Counted) + 1] = f
    BY <1>3, <2>2
  <2> QED
    BY <2>1, <2>3, <2>4
<1>5. GoodFrame(f) /\ f \in Frame
  BY <1>4 DEF EPInv, StackInv, GoodFrame
<1>6. HeldPrefunds(f) = 0 /\ \A a : PaidBy(f, a) = 0
  BY <1>2, <1>5, FreshSums
<1>7. UnrecordedIn(World) \in Int /\ UnrecordedIn(World') = UnrecordedIn(World)
  BY <1>1, SameWorld, WorldIsTyped, UnrecordedIsInt
<1>8. Balanced(f, UnrecordedIn(World'))
  BY <1>2, <1>6, <1>7 DEF Balanced, Own, InnerPhase
<1>9. Square(f, World'.deposits)
  <2>1. \A a \in Account : World.deposits[a].deposit \in Int
    BY StakeManagerAssumption, WorldIsTyped DEF WorldType, DepositInfo
  <2> QED
    BY <1>1, <1>2, <1>6, <2>1, SameWorld DEF Square, LessPaid, InnerPhase
<1>10. Books(Append(Counted, f), World')
  BY <1>2, <1>3, <1>5, <1>7, <1>8, <1>9, PushBooks
<1> QED
  BY <1>1, <1>10 DEF BooksInv

\* The new frame of a step is good, because the invariant says so of all.
LEMMA NewTopIsGood ==
    ASSUME EPInv, EPInv', frames # <<>>, NEW f, SetTop(f)
    PROVE  GoodFrame(f) /\ f \in Frame
<1>1. frames' = Append(Front(frames), f)
  BY DEF SetTop
<1>2. /\ Front(frames) \in Seq(Frame)
      /\ frames' \in Seq(Frame)
      /\ Len(Front(frames)) \in Nat
  BY StackTop DEF EPInv, StackInv
<1> HIDE DEF Front
<1>3. Len(frames') = Len(Front(frames)) + 1 /\ frames'[Len(Front(frames)) + 1] = f
  BY <1>1, <1>2
<1>4. Len(Front(frames)) + 1 \in 1 .. Len(frames')
  BY <1>2, <1>3
<1> QED
  BY <1>3, <1>4 DEF EPInv, StackInv, GoodFrame

\* Steps that move no ether and hold what was held.
LEMMA QuietStepBooks ==
    ASSUME EPInv, BooksInv, EPInv', frames # <<>>,
           NEW f, SetTop(f), f.saved = Top.saved, f.ops = Top.ops,
           f.opInfos = Top.opInfos, Held(f) = Held(Top),
           f.collected = Top.collected, f.calls = Top.calls,
           \/ deposits' = deposits /\ balance' = balance /\ withdrawn' = withdrawn
           \/ Top.phase \in InnerPhase /\ Restore(Top.inner),
           f.phase \in InnerPhase =>
               \/ f.inner = World /\ deposits' = deposits
               \/ f.inner = Top.inner /\ Top.phase \in InnerPhase
    PROVE  BooksInv'
<1>1. frames \in Seq(Frame) /\ GoodFrame(Top) /\ Top = Last(frames)
  BY TopFrame DEF Top
<1>2. GoodFrame(f)
  BY NewTopIsGood
<1>3. \/ World'.deposits = World.deposits /\ UnrecordedIn(World') = UnrecordedIn(World)
      \/ /\ Top.phase \in InnerPhase
         /\ World'.deposits = Top.inner.deposits
         /\ UnrecordedIn(World') = UnrecordedIn(Top.inner)
  BY SameWorld, RestoredWorld
<1>4. deposits' = deposits => World'.deposits = World.deposits
  BY DEF World
<1>5. Books(Append(Front(frames), f), World')
  BY <1>1, <1>2, <1>3, <1>4, QuietBooks DEF BooksInv
<1> QED
  BY <1>5 DEF BooksInv, SetTop

\* handleOps ends.
LEMMA PopStepBooks ==
    ASSUME EPInv, BooksInv, EPInv', HandleOpsReverts \/ _compensate
    PROVE  BooksInv'
<1>1. /\ frames # <<>> /\ frames' = Front(frames)
      /\ frames \in Seq(Frame) /\ GoodFrame(Top) /\ Top = Last(frames)
      /\ Top.collected \in Nat
  BY TopFrame DEF HandleOpsReverts, _compensate, InPhase, Pop, Top, Frame
<1>2. CASE HandleOpsReverts
  <2>1. UnrecordedIn(World') = UnrecordedIn(Top.saved)
    BY <1>2, RestoredWorld DEF HandleOpsReverts
  <2> QED
    BY <1>1, <2>1, PopBooks DEF BooksInv
<1>3. CASE _compensate
  <2>1. /\ deposits' = deposits /\ withdrawn' = withdrawn
        /\ balance' = balance - Top.collected
        /\ Top.phase = "compensate"
    BY <1>3 DEF _compensate, Pay, InPhase
  <2>2. Held(Top) = {} /\ IsFiniteSet(Held(Top))
    BY <2>1, FS_EmptySet DEF Held
  <2>3. HeldPrefunds(Top) = 0
    <3>1. \A x \in Held(Top) : Prefunds(Top)[x] \in Int
      BY <2>2
    <3> QED
      BY <2>2, <3>1, HeldPrefundsIsSum, SumTakesAny
  <2>4. UnrecordedIn(World) = UnrecordedIn(Top.saved) + Top.collected
    <3>1. Balanced(Top, UnrecordedIn(World))
      BY <1>1, TopBalance DEF BooksInv
    <3> QED
      BY <1>1, <2>3, <3>1 DEF Balanced, Own
  <2>5. Recorded(deposits) \in Int /\ balance \in Int /\ withdrawn \in Int
    BY RecordedIsInt DEF EPInv, TypeOK
  <2>6. /\ UnrecordedIn(World) = (balance + withdrawn) - Recorded(deposits)
        /\ UnrecordedIn(World') = ((balance - Top.collected) + withdrawn) - Recorded(deposits)
    BY <2>1 DEF UnrecordedIn, World
  <2>7. UnrecordedIn(Top.saved) \in Int
    BY <1>1, UnrecordedIsInt DEF GoodFrame, Frame
  <2>8. UnrecordedIn(World') = UnrecordedIn(Top.saved)
    BY <1>1, <2>4, <2>5, <2>6, <2>7
  <2> QED
    BY <1>1, <2>8, PopBooks DEF BooksInv
<1> QED
  BY <1>2, <1>3

\* The validation of an operation begins.
LEMMA CallValidateUserOpBooks ==
    ASSUME EPInv, BooksInv, EPInv', CallValidateUserOp
    PROVE  BooksInv'
<1> DEFINE f == [Top EXCEPT !.phase = "validateUserOp"]
<1>1. /\ frames # <<>> /\ Top.phase = "validate"
      /\ SetTop(f)
      /\ deposits' = deposits /\ balance' = balance /\ withdrawn' = withdrawn
  BY DEF CallValidateUserOp, InPhase
<1>2. Top \in Frame
  BY <1>1, TopFrame
<1>3. /\ f.phase = "validateUserOp" /\ f.ops = Top.ops /\ f.opInfos = Top.opInfos
      /\ f.saved = Top.saved /\ f.collected = Top.collected /\ f.calls = Top.calls
  BY <1>2 DEF Frame
<1> HIDE DEF f
<1>4. Held(f) = Held(Top) /\ f.phase \notin InnerPhase
  BY <1>1, <1>3 DEF Held, InnerPhase
<1> QED
  BY <1>1, <1>3, <1>4, QuietStepBooks

\* From the start of innerHandleOp to the end of its operation, what is held
\* does not change.
LEMMA ExecutedStillHeld ==
    ASSUME NEW f, NEW g, g.i = f.i, g.opInfos = f.opInfos,
           f.phase \in {"execute"} \cup InnerPhase, g.phase \in InnerPhase
    PROVE  Held(g) = Held(f)
BY DEF Held, InnerPhase

\* innerHandleOp makes its copy of the state, which is in order.
LEMMA InnerHandleOpBooks ==
    ASSUME EPInv, BooksInv, EPInv', NEW over \in Overhead, innerHandleOp(over)
    PROVE  BooksInv'
<1> DEFINE gas   == TopInfo.preOpGas + over
           begun == [Top EXCEPT !.inner = World, !.mode = "opSucceeded",
                                !.actualGas = gas]
           phase == IF TopOp.callData THEN "call" ELSE AfterCall(begun)
           f     == [begun EXCEPT !.phase = phase]
<1>1. /\ frames # <<>> /\ Top.phase = "execute"
      /\ SetTop(f)
      /\ deposits' = deposits /\ balance' = balance /\ withdrawn' = withdrawn
  BY DEF innerHandleOp, InPhase, worldVars
<1>2. Top \in Frame
  BY <1>1, TopFrame
<1>3. phase \in InnerPhase
  BY DEF AfterCall, InnerPhase
<1> HIDE DEF gas, phase
<1>4. /\ f.phase = phase /\ f.ops = Top.ops /\ f.i = Top.i /\ f.opInfos = Top.opInfos
      /\ f.saved = Top.saved /\ f.collected = Top.collected /\ f.calls = Top.calls
      /\ f.inner = World
  BY <1>2 DEF Frame
<1> HIDE DEF f
<1>5. Held(f) = Held(Top)
  BY <1>1, <1>3, <1>4, ExecutedStillHeld
<1> QED
  BY <1>1, <1>4, <1>5, QuietStepBooks

\* The calls inside innerHandleOp end, or it reverts.
LEMMA InnerBooks ==
    ASSUME EPInv, BooksInv, EPInv', frames # <<>>, Top.phase \in InnerPhase,
           NEW mode, NEW gas, NEW phase \in InnerPhase,
           SetTop([Top EXCEPT !.mode = mode, !.actualGas = gas, !.phase = phase]),
           UNCHANGED worldVars \/ Restore(Top.inner)
    PROVE  BooksInv'
<1> DEFINE f == [Top EXCEPT !.mode = mode, !.actualGas = gas, !.phase = phase]
<1>1. SetTop(f) /\ Top \in Frame
  BY TopFrame
<1>2. /\ f.phase = phase /\ f.ops = Top.ops /\ f.i = Top.i /\ f.opInfos = Top.opInfos
      /\ f.saved = Top.saved /\ f.collected = Top.collected /\ f.calls = Top.calls
      /\ f.inner = Top.inner
  BY <1>1 DEF Frame
<1> HIDE DEF f
<1>3. Held(f) = Held(Top)
  BY <1>2, ExecutedStillHeld
<1>4. \/ deposits' = deposits /\ balance' = balance /\ withdrawn' = withdrawn
      \/ Top.phase \in InnerPhase /\ Restore(Top.inner)
  BY DEF worldVars
<1> QED
  BY <1>1, <1>2, <1>3, <1>4, QuietStepBooks

\* The call of the sender ends.
LEMMA CallReturnsBooks ==
    ASSUME EPInv, BooksInv, EPInv', NEW success \in BOOLEAN, NEW used \in GasUsed,
           CallReturns(success, used)
    PROVE  BooksInv'
<1> DEFINE mode  == IF success THEN "opSucceeded" ELSE "opReverted"
           gas   == Top.actualGas + used
           phase == AfterCall(Top)
<1>1. /\ frames # <<>> /\ Top.phase \in InnerPhase
      /\ SetTop([Top EXCEPT !.mode = mode, !.actualGas = gas, !.phase = phase])
      /\ UNCHANGED worldVars \/ Restore(Top.inner)
  BY DEF CallReturns, InPhase, InnerPhase
<1>2. phase \in InnerPhase
  BY DEF AfterCall, InnerPhase
<1> HIDE DEF mode, gas, phase
<1> QED
  BY <1>1, <1>2, InnerBooks

\* postOp returns.
LEMMA PostOpReturnsBooks ==
    ASSUME EPInv, BooksInv, EPInv', NEW used \in GasUsed, PostOpReturns(used)
    PROVE  BooksInv'
<1> DEFINE gas == Top.actualGas + used
<1>1. /\ frames # <<>> /\ Top.phase \in InnerPhase
      /\ SetTop([Top EXCEPT !.actualGas = gas, !.phase = "settle"])
      /\ UNCHANGED worldVars
  BY DEF PostOpReturns, InPhase, InnerPhase
<1> HIDE DEF gas
<1>2. [Top EXCEPT !.actualGas = gas, !.phase = "settle"]
         = [Top EXCEPT !.mode = Top.mode, !.actualGas = gas, !.phase = "settle"]
  BY <1>1, TopFrame DEF Frame
<1>3. SetTop([Top EXCEPT !.mode = Top.mode, !.actualGas = gas, !.phase = "settle"])
  BY <1>1, <1>2 DEF SetTop
<1>4. "settle" \in InnerPhase
  BY DEF InnerPhase
<1> QED
  BY <1>1, <1>3, <1>4, InnerBooks

\* innerHandleOp reverts.
LEMMA InnerRevertsBooks ==
    ASSUME EPInv, BooksInv, EPInv', NEW used \in GasUsed, NEW over \in Overhead,
           InnerReverts(used, over)
    PROVE  BooksInv'
<1> DEFINE gas   == Top.actualGas + used + over
           phase == AfterCall(Top)
<1>1. /\ frames # <<>> /\ Top.phase \in InnerPhase
      /\ SetTop([Top EXCEPT !.mode = "postOpReverted", !.actualGas = gas, !.phase = phase])
      /\ UNCHANGED worldVars \/ Restore(Top.inner)
  BY DEF InnerReverts, InnerPhase
<1>2. phase \in InnerPhase
  BY DEF AfterCall, InnerPhase
<1> HIDE DEF gas, phase
<1> QED
  BY <1>1, <1>2, InnerBooks

\* The deposit of account a moves by x, what the frame on top owns by y, and
\* what it took from a by -x: the frame stays balanced and square.
LEMMA MovedBooks ==
    ASSUME EPInv, BooksInv, EPInv', frames # <<>>,
           NEW f, SetTop(f), f.saved = Top.saved, f.phase \notin InnerPhase,
           f.calls = Top.calls,
           NEW a \in Account, NEW x \in Int,
           deposits' = [deposits EXCEPT ![a].deposit = deposits[a].deposit + x],
           balance' = balance, withdrawn' = withdrawn,
           Own(f) = Own(Top) - x,
           PaidBy(f, a) = PaidBy(Top, a) - x,
           \A b : b # a => PaidBy(f, b) = PaidBy(Top, b)
    PROVE  BooksInv'
<1>1. /\ frames \in Seq(Frame) /\ GoodFrame(Top) /\ Top = Last(frames)
      /\ GoodFrame(f) /\ f \in Frame
  BY TopFrame, NewTopIsGood DEF Top
<1>2. /\ deposits \in [Account -> DepositInfo] /\ deposits' \in [Account -> DepositInfo]
      /\ balance \in Int /\ withdrawn \in Int
  BY DEF EPInv, TypeOK
<1>3. /\ \A b \in Account : b # a => deposits'[b] = deposits[b]
      /\ deposits'[a].deposit = deposits[a].deposit + x
      /\ deposits'[a].stake = deposits[a].stake
      /\ deposits[a].deposit \in Int /\ deposits[a].stake \in Int
  BY <1>2, StakeManagerAssumption DEF DepositInfo
<1>4. /\ Balanced(Top, UnrecordedIn(World))
      /\ Top.calls = 0 => LessPaid(Top, World.deposits)
  BY <1>1, TopBalance DEF BooksInv, Square
<1>5. UnrecordedIn(World') = UnrecordedIn(World) - x
  <2> DEFINE r == Recorded(deposits)
             q == Recorded(deposits')
             e == balance + withdrawn
  <2>1. q = r - (deposits[a].deposit + deposits[a].stake)
              + (deposits'[a].deposit + deposits'[a].stake)
    BY <1>2, <1>3, RecordMoves
  <2>2. r \in Int /\ q \in Int /\ e \in Int
    <3>1. r \in Int /\ q \in Int
      BY <1>2, RecordedIsInt
    <3>2. e \in Int
      BY <1>2
    <3> QED
      BY <3>1, <3>2
  <2>3. UnrecordedIn(World) = e - r /\ UnrecordedIn(World') = e - q
    BY DEF UnrecordedIn, World
  <2> HIDE DEF r, q, e
  <2>4. q = r + x
    BY <1>3, <2>1, <2>2
  <2> QED
    BY <2>2, <2>3, <2>4
<1>6. Balanced(f, UnrecordedIn(World'))
  <2>1. UnrecordedIn(World) = UnrecordedIn(Top.saved) + Own(Top)
    BY <1>4 DEF Balanced
  <2>2. UnrecordedIn(Top.saved) \in Int /\ Own(Top) \in Int
    <3>1. Top.saved \in WorldType /\ Top.collected \in Int
      BY <1>1 DEF GoodFrame, Frame
    <3>2. HeldPrefunds(Top) \in Int
      BY <1>1, FrameSums
    <3> QED
      BY <3>1, <3>2, UnrecordedIsInt DEF Own
  <2>3. UnrecordedIn(World') = UnrecordedIn(Top.saved) + Own(f)
    BY <1>5, <2>1, <2>2
  <2> QED
    BY <2>3 DEF Balanced
<1>7. f.calls = 0 => Square(f, World'.deposits)
  <2> SUFFICES ASSUME f.calls = 0, NEW b \in Account
               PROVE  f.saved.deposits[b].deposit = deposits'[b].deposit + PaidBy(f, b)
    BY DEF Square, LessPaid, World
  <2>1. Top.saved.deposits[b].deposit = deposits[b].deposit + PaidBy(Top, b)
    BY <1>4 DEF LessPaid, World
  <2>2. PaidBy(Top, a) \in Int
    BY <1>1, FrameSums
  <2>3. CASE b = a
    BY <1>3, <2>1, <2>2, <2>3
  <2>4. CASE b # a
    BY <1>3, <2>1, <2>4
  <2> QED
    BY <2>3, <2>4
<1>8. Books(Append(Front(frames), f), World')
  BY <1>1, <1>6, <1>7, TopBooks DEF BooksInv
<1> QED
  BY <1>8 DEF BooksInv, SetTop

\* The prefund leaves the deposit of the payer and is held.
LEMMA ValidationEndsBooks ==
    ASSUME EPInv, BooksInv, EPInv', NEW used \in GasUsed, NEW over \in Overhead,
           NEW context \in BOOLEAN, ValidationEnds(used, over, context)
    PROVE  BooksInv'
<1> DEFINE prefund == UO!requiredPreFund(TopOp, Top.basefee)
           info    == [prefund |-> prefund, context |-> context, cost |-> 0,
                       preOpGas |-> used + over + TopOp.preVerificationGas]
           done    == Top.i = Len(Top.ops)
           infos   == Append(Top.opInfos, info)
           next    == IF done THEN 1 ELSE Top.i + 1
           phase   == IF done THEN "execute" ELSE "validate"
           f       == [Top EXCEPT !.opInfos = infos, !.i = next, !.phase = phase]
           a       == UO!payer(TopOp)
           x       == 0 - prefund
<1>1. /\ frames # <<>> /\ Top.phase = "validateUserOp"
      /\ deposits' = [deposits EXCEPT ![a].deposit = @ - prefund]
      /\ SetTop(f)
      /\ balance' = balance /\ withdrawn' = withdrawn
  BY DEF ValidationEnds, TakePrefund, InPhase
<1>2. /\ Top \in Frame /\ GoodFrame(Top)
      /\ TopOp \in UO!UserOperationOf(Nat)
      /\ a \in Account /\ prefund \in Nat
  BY <1>1, TopFrame
<1>3. GoodFrame(f) /\ f \in Frame
  BY <1>1, NewTopIsGood
<1>4. info \in UserOpInfo /\ info.prefund = prefund
  <2>1. used \in Nat /\ over \in Nat /\ TopOp.preVerificationGas \in Nat
    BY <1>2, EntryPointAssumption DEF UO!UserOperationOf
  <2> HIDE DEF prefund
  <2> QED
    BY <1>2, <2>1 DEF UserOpInfo
<1> HIDE DEF prefund, a, info
<1>5. /\ Top.i \in 1 .. Len(Top.ops) /\ Len(Top.ops) \in Nat
      /\ Top.opInfos \in Seq(UserOpInfo)
      /\ Len(Top.opInfos) = Top.i - 1
      /\ Top.i \in Nat
  BY <1>1, <1>2, TopFrame DEF GoodFrame, Frame
<1>6. Len(infos) = Top.i
  BY <1>4, <1>5
<1> HIDE DEF infos
<1>7. /\ f.phase = phase /\ f.ops = Top.ops /\ f.i = next /\ f.opInfos = infos
      /\ f.saved = Top.saved /\ f.collected = Top.collected /\ f.calls = Top.calls
  BY <1>2 DEF Frame
<1> HIDE DEF f
<1> DEFINE m == Top.i - 1
<1>8. m \in Nat /\ Len(Top.opInfos) = m /\ m + 1 = Top.i
  BY <1>5
<1>9. Held(Top) = 1 .. m
  BY <1>1, <1>8 DEF Held
<1>10. Held(f) = 1 .. m + 1
  <2>1. CASE done
    BY <1>6, <1>7, <1>8, <2>1 DEF Held
  <2>2. CASE ~done
    BY <1>6, <1>7, <1>8, <2>2 DEF Held
  <2> QED
    BY <2>1, <2>2
<1>11. UO!payer(Top.ops[m + 1]) = a
  BY <1>8 DEF a, TopOp
<1>12. f.phase \notin InnerPhase
  BY <1>7 DEF InnerPhase
<1>13. f.opInfos = Append(Top.opInfos, info)
  BY <1>7 DEF infos
<1> HIDE DEF m
<1>14. /\ HeldPrefunds(f) = HeldPrefunds(Top) + prefund
       /\ PaidBy(f, a) = PaidBy(Top, a) + prefund
       /\ \A b : b # a => PaidBy(f, b) = PaidBy(Top, b)
  BY <1>2, <1>3, <1>4, <1>7, <1>8, <1>9, <1>10, <1>11, <1>13, ValidatedSums
<1>15. /\ HeldPrefunds(Top) \in Int /\ PaidBy(Top, a) \in Int
       /\ Top.collected \in Int
       /\ deposits[a].deposit \in Int
       /\ prefund \in Int
  <2>1. HeldPrefunds(Top) \in Int /\ PaidBy(Top, a) \in Int
    BY <1>2, FrameSums
  <2>2. Top.collected \in Int
    BY <1>2 DEF Frame
  <2>3. deposits[a].deposit \in Int
    BY <1>2, StakeManagerAssumption DEF EPInv, TypeOK, DepositInfo
  <2> QED
    BY <1>2, <2>1, <2>2, <2>3
<1>16. Own(f) = Own(Top) - x /\ PaidBy(f, a) = PaidBy(Top, a) - x
  BY <1>7, <1>14, <1>15 DEF Own
<1>17. x \in Int /\ deposits[a].deposit - prefund = deposits[a].deposit + x
  BY <1>15
<1>18. deposits' = [deposits EXCEPT ![a].deposit = deposits[a].deposit + x]
  BY <1>1, <1>17
<1> HIDE DEF x
<1> QED
  BY <1>1, <1>2, <1>7, <1>12, <1>14, <1>16, <1>17, <1>18, MovedBooks

\* The cost is collected, the rest of the prefund goes back to the payer.
LEMMA SettleBooks ==
    ASSUME EPInv, BooksInv, EPInv', Settle
    PROVE  BooksInv'
<1> DEFINE cost  == ActualGasCost(Top)
           done  == Top.i = Len(Top.ops)
           info  == [TopInfo EXCEPT !.cost = cost]
           infos == [Top.opInfos EXCEPT ![Top.i] = info]
           total == Top.collected + cost
           next  == IF done THEN Top.i ELSE Top.i + 1
           phase == IF done THEN "compensate" ELSE "execute"
           f     == [Top EXCEPT !.collected = total, !.opInfos = infos,
                                !.i = next, !.phase = phase]
           a     == UO!payer(TopOp)
           x     == TopInfo.prefund - cost
<1>1. /\ frames # <<>> /\ Top.phase = "settle"
      /\ deposits' = [deposits EXCEPT ![a].deposit = deposits[a].deposit + x]
      /\ SetTop([Top EXCEPT !.collected = @ + cost,
                            !.opInfos[Top.i].cost = cost,
                            !.i = IF done THEN @ ELSE @ + 1,
                            !.phase = IF done THEN "compensate" ELSE "execute"])
      /\ balance' = balance /\ withdrawn' = withdrawn
  BY DEF Settle, InPhase, internalIncrementDeposit, refundAddress
<1>2. SetTop(f)
  BY <1>1 DEF TopInfo
<1>3. /\ Top \in Frame /\ GoodFrame(Top)
      /\ Top.i \in 1 .. Len(Top.ops) /\ Len(Top.ops) \in Nat
      /\ a \in Account /\ Top.actualGas \in Nat
      /\ UO!gasPrice(TopOp, Top.basefee) \in Nat
  BY <1>1, TopFrame, GasIsTyped
<1>4. /\ Top.opInfos \in Seq(UserOpInfo) /\ Len(Top.opInfos) = Len(Top.ops)
      /\ TopInfo \in UserOpInfo
  <2>1. Top.opInfos \in Seq(UserOpInfo) /\ Len(Top.opInfos) = Len(Top.ops)
    BY <1>1, <1>3 DEF GoodFrame, Frame
  <2> QED
    BY <1>3, <2>1 DEF TopInfo
<1>5. cost \in Nat
  BY <1>3 DEF ActualGasCost, TopOp
<1>6. GoodFrame(f) /\ f \in Frame
  BY <1>1, <1>2, NewTopIsGood
<1> HIDE DEF cost
<1>7. info \in UserOpInfo /\ info.prefund = TopInfo.prefund /\ info.cost = cost
  BY <1>4, <1>5 DEF UserOpInfo
<1> HIDE DEF a, info
<1>8. infos \in Seq(UserOpInfo) /\ Len(infos) = Len(Top.opInfos)
  BY <1>3, <1>4, <1>7
<1> HIDE DEF infos, total, next, phase
<1>9. /\ f.phase = phase /\ f.ops = Top.ops /\ f.i = next /\ f.opInfos = infos
      /\ f.saved = Top.saved /\ f.collected = total /\ f.calls = Top.calls
  BY <1>3 DEF Frame
<1> HIDE DEF f
<1>10. Held(Top) = Top.i .. Len(Top.opInfos)
  BY <1>1 DEF Held
<1>11. /\ Held(f) = Held(Top) \ {Top.i}
       /\ f.phase \notin InnerPhase
  <2>1. CASE done
    <3>1. f.phase = "compensate" /\ Top.i = Len(Top.opInfos)
      BY <1>4, <1>9, <2>1 DEF phase
    <3>2. Held(f) = {}
      BY <3>1 DEF Held
    <3>3. Held(Top) = {Top.i}
      BY <1>3, <1>4, <1>10, <3>1
    <3> QED
      BY <3>1, <3>2, <3>3 DEF InnerPhase
  <2>2. CASE ~done
    <3>1. f.phase = "execute" /\ f.i = Top.i + 1
      BY <1>9, <2>2 DEF phase, next
    <3>2. Held(f) = Top.i + 1 .. Len(Top.opInfos)
      BY <1>8, <1>9, <3>1 DEF Held
    <3> QED
      BY <1>3, <1>4, <1>10, <3>1, <3>2 DEF InnerPhase
  <2> QED
    BY <2>1, <2>2
<1>12. /\ Top.i \in 1 .. Len(Top.opInfos) /\ Top.i \in Held(Top)
       /\ TopInfo = Top.opInfos[Top.i]
       /\ a = UO!payer(Top.ops[Top.i])
       /\ f.opInfos = [Top.opInfos EXCEPT ![Top.i] = info]
  BY <1>3, <1>4, <1>9, <1>10 DEF TopInfo, TopOp, a, infos
<1>13. /\ HeldPrefunds(f) = HeldPrefunds(Top) - TopInfo.prefund
       /\ PaidBy(f, a) = PaidBy(Top, a) - TopInfo.prefund + cost
       /\ \A b : b # a => PaidBy(f, b) = PaidBy(Top, b)
  BY <1>3, <1>6, <1>7, <1>9, <1>11, <1>12, SettledSums
<1>14. /\ HeldPrefunds(Top) \in Int /\ PaidBy(Top, a) \in Int
       /\ Top.collected \in Int /\ cost \in Int /\ TopInfo.prefund \in Int
  <2>1. HeldPrefunds(Top) \in Int /\ PaidBy(Top, a) \in Int
    BY <1>3, FrameSums
  <2>2. Top.collected \in Int
    BY <1>3 DEF Frame
  <2> QED
    BY <1>4, <1>5, <2>1, <2>2 DEF UserOpInfo
<1>15. Own(f) = Own(Top) - x /\ PaidBy(f, a) = PaidBy(Top, a) - x /\ x \in Int
  BY <1>9, <1>13, <1>14 DEF Own, total
<1> HIDE DEF x
<1> QED
  BY <1>1, <1>2, <1>3, <1>9, <1>11, <1>13, <1>15, MovedBooks

\* Between transactions, and in a step that changes nothing.
LEMMA IdleBooks ==
    ASSUME BooksInv, EPNextBlock \/ UNCHANGED vars
    PROVE  BooksInv'
<1>1. /\ deposits' = deposits /\ balance' = balance /\ withdrawn' = withdrawn
      /\ frames' = frames
  BY DEF EPNextBlock, NextBlock, vars, stakeVars
<1>2. World'.deposits = World.deposits /\ UnrecordedIn(World') = UnrecordedIn(World)
  BY <1>1, SameWorld
<1>3. Books(frames, World')
  BY <1>2 DEF BooksInv, Books
<1> QED
  BY <1>1, <1>3 DEF BooksInv

\* Every step of the EntryPoint keeps the books in order.
LEMMA EveryStepKeepsBooks == EPInv /\ BooksInv /\ EPInv' /\ [EPNext]_vars => BooksInv'
<1> SUFFICES ASSUME EPInv, BooksInv, EPInv', [EPNext]_vars
             PROVE  BooksInv'
  OBVIOUS
<1>1. CASE \E ops \in Batches, fee \in BaseFees : handleOps(ops, fee)
  BY <1>1, PushStepBooks
<1>2. CASE HandleOpsStep
  BY <1>2, CallValidateUserOpBooks, ValidationEndsBooks, InnerHandleOpBooks,
     CallReturnsBooks, PostOpReturnsBooks, InnerRevertsBooks, SettleBooks,
     PopStepBooks DEF HandleOpsStep
<1>3. CASE \E a \in Account : CallStakeManager(a) \/ deploy(a)
  BY <1>3, CallBooks
<1>4. CASE EPNextBlock \/ UNCHANGED vars
  BY <1>4, IdleBooks
<1> QED
  BY <1>1, <1>2, <1>3, <1>4 DEF EPNext

\* The books are always in order.
THEOREM BooksAreKept == EPSpec => []BooksInv
<1>1. EPInv /\ BooksInv /\ EPInv' /\ [EPNext]_vars => BooksInv'
  BY EveryStepKeepsBooks
<1>2. EPInit => BooksInv
  BY InitBooks
<1> QED
  BY <1>1, <1>2, EntryPointInvariant, PTL DEF EPSpec

-----------------------------------------------------------------------------
(* What the books say of the ether, and of what operations are charged. *)

\* What belongs to each frame.
OwnOf(fs) == [k \in 1 .. Len(fs) |-> HeldPrefunds(fs[k]) + fs[k].collected]

\* What belongs to the frames is a sum.
LEMMA OwnedIsSum ==
    ASSUME NEW n \in Nat, n = Len(frames)
    PROVE  MapThenSumSet(LAMBDA k : HeldPrefunds(frames[k]) + frames[k].collected,
                         1 .. Len(frames)) = SumOf(OwnOf(frames), 1 .. n)
<1> DEFINE S == 1 .. n
           p == OwnOf(frames)
           Eq(g) == g = [s \in SUBSET S |->
                           IF s = {} THEN 0
                           ELSE (HeldPrefunds(frames[CHOOSE x \in s : TRUE])
                                 + frames[CHOOSE x \in s : TRUE].collected)
                                + g[s \ {CHOOSE x \in s : TRUE}]]
           h == CHOOSE g : Eq(g)
<1>1. \A g : Eq(g) <=> IsTable(g, p, S)
  BY PickIn DEF OwnOf, IsTable, SumStep, Pick
<1>2. MapThenSumSet(LAMBDA k : HeldPrefunds(frames[k]) + frames[k].collected,
                    1 .. Len(frames)) = h[S]
  BY DEF MapThenSumSet, MapThenFoldSet
<1>3. IsFiniteSet(S)
  BY FS_Interval
<1> HIDE DEF Eq, p, S
<1>4. Eq(h)
  BY <1>1, <1>3, TableExists
<1> HIDE DEF h
<1>5. h[S] = SumOf(p, S)
  BY <1>1, <1>3, <1>4, SumIsInTable
<1> QED
  BY <1>2, <1>5 DEF p, S

\* Frame by frame, what was unrecorded when a frame began is what the frames
\* below it own.
LEMMA BooksAddUp ==
    ASSUME NEW fs \in Seq(Frame), NEW u, Funds(fs, u), fs # <<>>,
           \A k \in 1 .. Len(fs) : GoodFrame(fs[k])
    PROVE  u = SumOf(OwnOf(fs), 1 .. Len(fs))
<1> DEFINE n == Len(fs)
           p == OwnOf(fs)
           M == {m \in Nat : m < n => UnrecordedIn(fs[m + 1].saved) = SumOf(p, 1 .. m)}
<1>1. n \in Nat \ {0}
  OBVIOUS
<1>2. \A k \in 1 .. n : /\ p[k] = Own(fs[k])
                        /\ p[k] \in Int
                        /\ UnrecordedIn(fs[k].saved) \in Int
  <2> TAKE k \in 1 .. n
  <2>1. GoodFrame(fs[k]) /\ fs[k].collected \in Int /\ fs[k].saved \in WorldType
    BY DEF GoodFrame, Frame
  <2>2. HeldPrefunds(fs[k]) \in Int
    BY <2>1, FrameSums
  <2>3. p[k] = HeldPrefunds(fs[k]) + fs[k].collected
    BY DEF OwnOf
  <2>4. UnrecordedIn(fs[k].saved) \in Int
    BY <2>1, UnrecordedIsInt
  <2> HIDE DEF p
  <2> QED
    BY <2>1, <2>2, <2>3, <2>4 DEF Own
<1> HIDE DEF p
<1>3. ASSUME NEW m \in Nat, m < n
      PROVE  SumOf(p, 1 .. m + 1) = SumOf(p, 1 .. m) + p[m + 1]
  <2> DEFINE S == 1 .. m + 1
             x == m + 1
  <2>1. IsFiniteSet(S)
    BY FS_Interval
  <2>2. x \in S /\ S \ {x} = 1 .. m
    OBVIOUS
  <2>3. \A y \in S : p[y] \in Int
    BY <1>1, <1>2, <1>3
  <2> HIDE DEF S, x
  <2>4. SumOf(p, S) = p[x] + SumOf(p, S \ {x}) /\ p[x] \in Int
    BY <2>1, <2>2, <2>3, SumTakesAny
  <2>5. SumOf(p, 1 .. m) \in Int
    <3>1. IsFiniteSet(S \ {x}) /\ \A y \in S \ {x} : p[y] \in Int
      BY <2>1, <2>3, FS_Subset
    <3> QED
      BY <2>2, <3>1, SumTakesAny
  <2> DEFINE q == SumOf(p, 1 .. m)
  <2>6. SumOf(p, S) = p[x] + q /\ q \in Int
    BY <2>2, <2>4, <2>5, Zenon
  <2> HIDE DEF q
  <2>7. SumOf(p, S) = q + p[x]
    BY <2>4, <2>6
  <2> QED
    BY <2>7 DEF S, x, q
<1>4. 0 \in M
  <2>1. 1 .. 0 = {} /\ IsFiniteSet({})
    BY FS_EmptySet
  <2>2. \A x \in {} : p[x] \in Int
    OBVIOUS
  <2>3. SumOf(p, 1 .. 0) = 0
    BY <2>1, <2>2, SumTakesAny
  <2> QED
    BY <1>1, <2>3 DEF Funds
<1>5. ASSUME NEW m \in Nat, m \in M
      PROVE  m + 1 \in M
  <2> SUFFICES ASSUME m + 1 < n
               PROVE  UnrecordedIn(fs[(m + 1) + 1].saved) = SumOf(p, 1 .. m + 1)
    BY <1>5
  <2>1. m + 1 \in 1 .. n - 1 /\ m < n
    BY <1>1
  <2>2. Balanced(fs[m + 1], UnrecordedIn(fs[(m + 1) + 1].saved))
    BY <2>1 DEF Funds
  <2>3. UnrecordedIn(fs[(m + 1) + 1].saved) = UnrecordedIn(fs[m + 1].saved) + p[m + 1]
    BY <1>1, <1>2, <2>1, <2>2 DEF Balanced
  <2> QED
    BY <1>3, <1>5, <2>1, <2>3
<1>6. n - 1 \in M
  <2>1. Nat \subseteq M
    <3> HIDE DEF M
    <3> QED
      BY <1>4, <1>5, SetInduction
  <2> QED
    BY <1>1, <2>1
<1>7. /\ UnrecordedIn(fs[n].saved) = SumOf(p, 1 .. n - 1)
      /\ SumOf(p, 1 .. n) = SumOf(p, 1 .. n - 1) + p[n]
  <2>1. n - 1 \in Nat /\ n - 1 < n /\ (n - 1) + 1 = n
    BY <1>1
  <2>2. SumOf(p, 1 .. (n - 1) + 1) = SumOf(p, 1 .. n - 1) + p[(n - 1) + 1]
    BY <1>3, <2>1
  <2>3. UnrecordedIn(fs[(n - 1) + 1].saved) = SumOf(p, 1 .. n - 1)
    BY <1>6, <2>1
  <2> QED
    BY <2>1, <2>2, <2>3
<1>8. u = UnrecordedIn(fs[n].saved) + p[n]
  BY <1>1, <1>2 DEF Funds, Balanced
<1> QED
  BY <1>7, <1>8 DEF p

\* Books that are in order account for the ether, in one state.
LEMMA BooksAccount ==
    ASSUME EPInv, BooksInv
    PROVE  FundsAccounted
<1> DEFINE owned == MapThenSumSet(LAMBDA k : HeldPrefunds(frames[k]) + frames[k].collected,
                                  1 .. Len(frames))
           r == Recorded(deposits)
           e == balance + withdrawn
           n == Len(frames)
<1>1. /\ frames \in Seq(Frame) /\ n \in Nat
      /\ \A k \in 1 .. n : GoodFrame(frames[k])
  BY DEF EPInv, StackInv
<1>2. owned = SumOf(OwnOf(frames), 1 .. n)
  BY <1>1, OwnedIsSum
<1>3. Funds(frames, UnrecordedIn(World))
  BY DEF BooksInv, Books
<1>4. UnrecordedIn(World) = owned
  <2>1. CASE frames = <<>>
    <3>1. 1 .. n = {} /\ IsFiniteSet({})
      BY <1>1, <2>1, FS_EmptySet
    <3>2. \A x \in {} : OwnOf(frames)[x] \in Int
      OBVIOUS
    <3>3. SumOf(OwnOf(frames), {}) = 0
      BY <3>1, <3>2, SumTakesAny
    <3> HIDE DEF owned, n
    <3> QED
      BY <1>2, <1>3, <2>1, <3>1, <3>3 DEF Funds
  <2>2. CASE frames # <<>>
    <3> HIDE DEF owned
    <3> QED
      BY <1>1, <1>2, <1>3, <2>2, BooksAddUp
  <2> QED
    BY <2>1, <2>2
<1>5. UnrecordedIn(World) = e - r
  BY DEF UnrecordedIn, World
<1>6. r \in Int /\ e \in Int
  <2>1. r \in Int
    BY RecordedIsInt DEF EPInv, TypeOK
  <2>2. e \in Int
    BY DEF EPInv, TypeOK
  <2> QED
    BY <2>1, <2>2
<1> HIDE DEF owned, r, e
<1>7. e = r + owned
  BY <1>4, <1>5, <1>6
<1> QED
  BY <1>7 DEF FundsAccounted, owned, r, e, Recorded

\* No ether appears or is lost inside handleOps, however calls nest and
\* whatever reverts.
THEOREM FundsAreAccounted == EPSpec => []FundsAccounted
BY BooksAccount, EntryPointInvariant, BooksAreKept, PTL

\* And for what the payers are charged.
LEMMA BooksChargeExactly ==
    ASSUME EPInv, BooksInv
    PROVE  ChargedExactly
<1> SUFFICES ASSUME frames # <<>>, Top.calls = 0, NEW a \in Account
             PROVE  Top.saved.deposits[a].deposit = deposits[a].deposit + PaidBy(Top, a)
  BY DEF ChargedExactly
<1>1. frames \in Seq(Frame)
  BY DEF EPInv, StackInv
<1>2. LessPaid(Top, World.deposits)
  BY <1>1, TopBalance DEF BooksInv, Square, Top
<1> QED
  BY <1>2 DEF LessPaid, World

\* While a handleOps has made no call back into the contract, it has charged
\* the payers of its operations exactly, and nobody else.
THEOREM BatchesChargeExactly == EPSpec => []ChargedExactly
BY BooksChargeExactly, EntryPointInvariant, BooksAreKept, PTL
=============================================================================
