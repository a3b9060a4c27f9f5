------------------------ MODULE StakeManager_proofs ------------------------
(***************************************************************************)
(* Theorems about StakeManager, for every set of accounts, every amount,   *)
(* delay and integer width.                                                *)
(***************************************************************************)
EXTENDS StakeManager, FiniteSetTheorems, TLAPS

-----------------------------------------------------------------------------
(***************************************************************************)
(* Sums over finite sets.  MapThenSumSet is a function defined by          *)
(* recursion on the subsets of its set, so its laws need an induction on   *)
(* finite sets; the form of induction used is that a non-empty collection  *)
(* of finite sets has a minimal member (WFMin), which is first order.      *)
(***************************************************************************)

\* The element a sum takes next.
Pick(s) == CHOOSE x \in s : TRUE

SumStep(g, f, s) == IF s = {} THEN 0 ELSE f[Pick(s)] + g[s \ {Pick(s)}]

\* g holds the sums of f over the subsets of S.
IsTable(g, f, S) == g = [s \in SUBSET S |-> SumStep(g, f, s)]

SumTable(f, S) == CHOOSE g : IsTable(g, f, S)

\* The sum of function f over the set S.
SumOf(f, S) == SumTable(f, S)[S]

LEMMA PickIn == \A s : s # {} => Pick(s) \in s
BY DEF Pick

\* A non-empty collection of subsets of a finite set has a minimal member.
LEMMA MinimalSubset ==
    ASSUME NEW S, IsFiniteSet(S), NEW C \in SUBSET SUBSET S, C # {}
    PROVE  \E s \in C : \A t \in C : t \subseteq s => t = s
<1> DEFINE R == StrictSubsetOrdering(S)
<1>1. IsWellFoundedOn(R, SUBSET S)
  BY FS_StrictSubsetOrderingWellFounded, FS_FiniteSubsetsOfFinite
<1> HIDE DEF R
<1>2. PICK s \in C : \A t \in C : ~ (<<t, s>> \in R)
  BY <1>1, WFMin
<1>3. ASSUME NEW t \in C, t \subseteq s, t # s
      PROVE  FALSE
  <2>1. <<t, s>> \in R
    BY <1>3 DEF R, StrictSubsetOrdering
  <2> QED
    BY <2>1, <1>2
<1> QED
  BY <1>2, <1>3

\* A set of naturals that has 0 and with each number the next has all of them.
LEMMA SetInduction ==
    ASSUME NEW M, 0 \in M, \A n \in Nat : n \in M => n + 1 \in M
    PROVE  Nat \subseteq M
<1> DEFINE D == Nat \ M
<1>1. SUFFICES ASSUME D # {} PROVE FALSE
  OBVIOUS
<1>2. PICK n \in D : \A m \in D : ~ (<<m, n>> \in OpToRel(<, Nat))
  <2>1. D \subseteq Nat
    OBVIOUS
  <2> HIDE DEF D
  <2> QED
    BY <1>1, <2>1, WFMin, NatLessThanWellFounded
<1>3. n - 1 \in D
  OBVIOUS
<1>4. <<n - 1, n>> \in OpToRel(<, Nat)
  BY <1>3 DEF OpToRel
<1> QED
  BY <1>2, <1>3, <1>4

\* A subset of a finite set without its next element is smaller.
LEMMA SmallerSubset ==
    ASSUME NEW S, IsFiniteSet(S), NEW s \in SUBSET S
    PROVE  /\ IsFiniteSet(s)
           /\ Cardinality(s) \in Nat
           /\ Cardinality(s) = 0 => s = {}
           /\ s # {} => /\ s \ {Pick(s)} \in SUBSET S
                        /\ Cardinality(s \ {Pick(s)}) = Cardinality(s) - 1
<1>1. IsFiniteSet(s) /\ Cardinality(s) \in Nat
  BY FS_Subset, FS_CardinalityType
<1>2. Cardinality(s) = 0 => s = {}
  BY <1>1, FS_EmptySet
<1>3. ASSUME s # {}
      PROVE  /\ s \ {Pick(s)} \in SUBSET S
             /\ Cardinality(s \ {Pick(s)}) = Cardinality(s) - 1
  BY <1>1, <1>3, PickIn, FS_RemoveElement
<1> QED
  BY <1>1, <1>2, <1>3

\* There is a table of the sums over the subsets of a finite set: one that is
\* right for the sets of up to n elements becomes right for n + 1 by one
\* application of SumStep.
LEMMA TableExists ==
    ASSUME NEW S, IsFiniteSet(S), NEW f
    PROVE  \E g : IsTable(g, f, S)
<1> DEFINE Correct(g, n) ==
             \A s \in SUBSET S : Cardinality(s) <= n => g[s] = SumStep(g, f, s)
           M == {n \in Nat : \E g : /\ g = [s \in SUBSET S |-> g[s]]
                                    /\ Correct(g, n)}
<1>1. 0 \in M
  <2> DEFINE z == [s \in SUBSET S |-> 0]
  <2>1. ASSUME NEW s \in SUBSET S, Cardinality(s) <= 0
        PROVE  s = {}
    <3>1. Cardinality(s) \in Nat /\ (Cardinality(s) = 0 => s = {})
      BY SmallerSubset
    <3> QED
      BY <2>1, <3>1
  <2>2. SumStep(z, f, {}) = 0
    BY DEF SumStep
  <2>3. Correct(z, 0)
    BY <2>1, <2>2
  <2> QED
    BY <2>3
<1>2. ASSUME NEW n \in Nat, n \in M
      PROVE  n + 1 \in M
  <2>1. PICK g : g = [s \in SUBSET S |-> g[s]] /\ Correct(g, n)
    BY <1>2
  <2> DEFINE h == [s \in SUBSET S |-> SumStep(g, f, s)]
  <2>2. ASSUME NEW s \in SUBSET S, Cardinality(s) <= n + 1
        PROVE  h[s] = SumStep(h, f, s)
    <3>1. CASE s = {}
      BY <3>1 DEF SumStep
    <3>2. CASE s # {}
      <4> DEFINE t == s \ {Pick(s)}
      <4>1. t \in SUBSET S /\ Cardinality(t) <= n
        BY <2>2, <3>2, SmallerSubset
      <4>2. g[t] = h[t]
        BY <4>1, <2>1
      <4> QED
        BY <4>2, <3>2 DEF SumStep
    <3> QED
      BY <3>1, <3>2
  <2>3. Correct(h, n + 1)
    BY <2>2
  <2>4. h = [s \in SUBSET S |-> h[s]]
    OBVIOUS
  <2> HIDE DEF h, Correct
  <2> QED
    BY <2>3, <2>4
<1>3. Cardinality(S) \in M
  <2> HIDE DEF M
  <2> QED
    BY <1>1, <1>2, SetInduction, FS_CardinalityType
<1>4. PICK g : g = [s \in SUBSET S |-> g[s]] /\ Correct(g, Cardinality(S))
  BY <1>3
<1>5. \A s \in SUBSET S : g[s] = SumStep(g, f, s)
  BY <1>4, FS_Subset
<1> QED
  BY <1>4, <1>5 DEF IsTable

\* Two tables agree on a set if their functions do.
LEMMA TablesAgree ==
    ASSUME NEW S, NEW U \in SUBSET S, IsFiniteSet(U),
           NEW f, NEW e, \A x \in U : f[x] = e[x],
           NEW g, IsTable(g, f, S), NEW h, IsTable(h, e, U)
    PROVE  g[U] = h[U]
<1> DEFINE C == {s \in SUBSET U : g[s] # h[s]}
<1>1. SUFFICES ASSUME C # {} PROVE FALSE
  OBVIOUS
<1>2. /\ \A s \in SUBSET U : g[s] = SumStep(g, f, s)
      /\ \A s \in SUBSET U : h[s] = SumStep(h, e, s)
  BY DEF IsTable
<1>3. PICK s \in C : \A t \in C : t \subseteq s => t = s
  <2>1. C \in SUBSET SUBSET U
    OBVIOUS
  <2> HIDE DEF C
  <2> QED
    BY <1>1, <2>1, MinimalSubset
<1>4. s # {}
  BY <1>2 DEF SumStep
<1>5. s \ {Pick(s)} \notin C /\ Pick(s) \in U
  BY <1>3, <1>4, PickIn
<1>6. g[s \ {Pick(s)}] = h[s \ {Pick(s)}]
  BY <1>5
<1> QED
  BY <1>2, <1>5, <1>6 DEF SumStep

\* The sum is the last entry of every table.
LEMMA SumIsInTable ==
    ASSUME NEW S, IsFiniteSet(S), NEW f, NEW g, IsTable(g, f, S)
    PROVE  g[S] = SumOf(f, S)
<1>1. IsTable(SumTable(f, S), f, S)
  BY TableExists DEF SumTable
<1> QED
  BY <1>1, TablesAgree DEF SumOf

\* The sums over a set and over any of its subsets are in one table.
LEMMA SumsInTable ==
    ASSUME NEW S, IsFiniteSet(S), NEW f
    PROVE  \E g : /\ IsTable(g, f, S)
                  /\ \A s \in SUBSET S : SumOf(f, s) = g[s]
<1>1. PICK g : IsTable(g, f, S)
  BY TableExists
<1>2. ASSUME NEW s \in SUBSET S
      PROVE  SumOf(f, s) = g[s]
  <2>1. IsFiniteSet(s)
    BY FS_Subset
  <2>2. IsTable(SumTable(f, s), f, s)
    BY <2>1, TableExists DEF SumTable
  <2>3. SumTable(f, s)[s] = g[s]
    BY <1>1, <2>1, <2>2, TablesAgree
  <2> QED
    BY <2>3 DEF SumOf
<1> QED
  BY <1>1, <1>2

\* Functions that agree have the same sum.
LEMMA SumSame ==
    ASSUME NEW S, IsFiniteSet(S), NEW f, NEW e, \A x \in S : f[x] = e[x]
    PROVE  SumOf(f, S) = SumOf(e, S)
<1>1. IsTable(SumTable(f, S), f, S) /\ IsTable(SumTable(e, S), e, S)
  BY TableExists DEF SumTable
<1> QED
  BY <1>1, TablesAgree DEF SumOf

LEMMA Exchange ==
    ASSUME NEW p \in Int, NEW q \in Int, NEW r \in Int
    PROVE  p + (q + r) = q + (p + r)
OBVIOUS

\* A sum of integers is an integer, and takes its elements in any order.
LEMMA SumTakesAny ==
    ASSUME NEW S, IsFiniteSet(S), NEW f, \A x \in S : f[x] \in Int
    PROVE  /\ SumOf(f, {}) = 0
           /\ SumOf(f, S) \in Int
           /\ \A x \in S : SumOf(f, S) = f[x] + SumOf(f, S \ {x})
<1>1. PICK g : /\ IsTable(g, f, S)
               /\ \A s \in SUBSET S : SumOf(f, s) = g[s]
  BY SumsInTable
<1>2. \A s \in SUBSET S : g[s] = SumStep(g, f, s)
  BY <1>1 DEF IsTable
<1>3. g[{}] = 0
  BY <1>2 DEF SumStep
<1>4. \A s \in SUBSET S : g[s] \in Int
  <2> DEFINE C == {s \in SUBSET S : g[s] \notin Int}
  <2>1. SUFFICES ASSUME C # {} PROVE FALSE
    OBVIOUS
  <2>2. PICK s \in C : \A t \in C : t \subseteq s => t = s
    <3>1. C \in SUBSET SUBSET S
      OBVIOUS
    <3> HIDE DEF C
    <3> QED
      BY <2>1, <3>1, MinimalSubset
  <2>3. s # {}
    BY <1>3
  <2>4. s \ {Pick(s)} \notin C /\ Pick(s) \in S
    BY <2>2, <2>3, PickIn
  <2>5. g[s \ {Pick(s)}] \in Int /\ f[Pick(s)] \in Int
    BY <2>4
  <2>6. g[s] = f[Pick(s)] + g[s \ {Pick(s)}]
    BY <1>2, <2>3 DEF SumStep
  <2> QED
    BY <2>5, <2>6
<1>5. \A s \in SUBSET S : \A y \in s : g[s] = f[y] + g[s \ {y}]
  <2> DEFINE C == {s \in SUBSET S : \E y \in s : g[s] # f[y] + g[s \ {y}]}
  <2>1. SUFFICES ASSUME C # {} PROVE FALSE
    OBVIOUS
  <2>2. PICK s \in C : \A t \in C : t \subseteq s => t = s
    <3>1. C \in SUBSET SUBSET S
      OBVIOUS
    <3> HIDE DEF C
    <3> QED
      BY <2>1, <3>1, MinimalSubset
  <2>3. PICK y \in s : g[s] # f[y] + g[s \ {y}]
    OBVIOUS
  <2> DEFINE c == Pick(s)
             r == g[(s \ {c}) \ {y}]
  <2>4. c \in s
    BY <2>3, PickIn
  <2>5. g[s] = f[c] + g[s \ {c}]
    BY <2>3, <1>2 DEF SumStep
  <2> HIDE DEF c
  <2>6. c # y
    BY <2>3, <2>5
  <2>7. g[s \ {c}] = f[y] + r
    <3>1. s \ {c} \notin C
      BY <2>2, <2>4
    <3> QED
      BY <3>1, <2>3, <2>6
  <2>8. g[s \ {y}] = f[c] + r
    <3>1. s \ {y} \notin C
      BY <2>2, <2>3
    <3>2. (s \ {y}) \ {c} = (s \ {c}) \ {y}
      OBVIOUS
    <3> QED
      BY <3>1, <3>2, <2>4, <2>6
  <2>9. f[c] \in Int /\ f[y] \in Int /\ r \in Int
    BY <2>4, <1>4
  <2> HIDE DEF C, r
  <2>10. f[c] + (f[y] + r) = f[y] + (f[c] + r)
    BY <2>9, Exchange
  <2> QED
    BY <2>3, <2>5, <2>7, <2>8, <2>10
<1> QED
  BY <1>1, <1>3, <1>4, <1>5

\* A sum moves by what one of its terms moves.
LEMMA SumChange ==
    ASSUME NEW S, IsFiniteSet(S), NEW f, NEW e, NEW x \in S,
           \A y \in S : f[y] \in Int /\ e[y] \in Int,
           \A y \in S \ {x} : e[y] = f[y]
    PROVE  SumOf(e, S) = SumOf(f, S) - f[x] + e[x]
<1>1. IsFiniteSet(S \ {x})
  BY FS_RemoveElement
<1>2. SumOf(e, S \ {x}) = SumOf(f, S \ {x})
  BY <1>1, SumSame
<1>3. SumOf(f, S \ {x}) \in Int
  BY <1>1, SumTakesAny
<1>4. /\ SumOf(f, S) = f[x] + SumOf(f, S \ {x})
      /\ SumOf(e, S) = e[x] + SumOf(e, S \ {x})
      /\ f[x] \in Int /\ e[x] \in Int
  BY SumTakesAny
<1> QED
  BY <1>2, <1>3, <1>4

\* A sum grows by a term that is added.
LEMMA SumAdd ==
    ASSUME NEW S, IsFiniteSet(S), NEW f, NEW e, NEW x, x \notin S,
           e[x] \in Int, \A y \in S : f[y] \in Int /\ e[y] = f[y]
    PROVE  SumOf(e, S \cup {x}) = SumOf(f, S) + e[x]
<1>1. IsFiniteSet(S \cup {x})
  BY FS_AddElement
<1>2. (S \cup {x}) \ {x} = S
  OBVIOUS
<1>3. SumOf(e, S \cup {x}) = e[x] + SumOf(e, S)
  BY <1>1, <1>2, SumTakesAny
<1>4. SumOf(e, S) = SumOf(f, S) /\ SumOf(f, S) \in Int
  BY SumSame, SumTakesAny
<1> QED
  BY <1>3, <1>4

\* A sum of zeros is zero.
LEMMA SumOfZeros ==
    ASSUME NEW S, IsFiniteSet(S), NEW f, \A x \in S : f[x] = 0
    PROVE  SumOf(f, S) = 0
<1>1. PICK g : /\ IsTable(g, f, S)
               /\ \A s \in SUBSET S : SumOf(f, s) = g[s]
  BY SumsInTable
<1> DEFINE z == [s \in SUBSET S |-> 0]
<1>2. ASSUME NEW s \in SUBSET S
      PROVE  SumStep(z, f, s) = 0
  <2>1. CASE s = {}
    BY <2>1 DEF SumStep
  <2>2. CASE s # {}
    BY <2>2, PickIn DEF SumStep
  <2> QED
    BY <2>1, <2>2
<1>3. IsTable(z, f, S)
  BY <1>2 DEF IsTable
<1> HIDE DEF z
<1>4. z[S] = SumOf(f, S)
  BY <1>3, SumIsInTable
<1> QED
  BY <1>4 DEF z

\* A product, under a name that keeps it from the provers.
Copies(k, c) == k * c

LEMMA OneMoreCopy ==
    ASSUME NEW k \in Nat, NEW c \in Nat
    PROVE  Copies(k + 1, c) = c + Copies(k, c) /\ Copies(k, c) \in Int /\ Copies(0, c) = 0
BY DEF Copies

\* The terms of the elements of D are copies of one number, the others zero.
AreCopies(f, S, D, c) == \A x \in S : f[x] = IF x \in D THEN c ELSE 0

\* Their sum is a multiple of it.
LEMMA SumOfCopies ==
    ASSUME NEW S, IsFiniteSet(S), NEW D, NEW c \in Nat, NEW f,
           AreCopies(f, S, D, c)
    PROVE  SumOf(f, S) = Copies(Cardinality(S \cap D), c)
<1>1. PICK g : /\ IsTable(g, f, S)
               /\ \A s \in SUBSET S : SumOf(f, s) = g[s]
  BY SumsInTable
<1> DEFINE n(s) == Cardinality(s \cap D)
           z == [s \in SUBSET S |-> Copies(n(s), c)]
<1>2. ASSUME NEW s \in SUBSET S
      PROVE  SumStep(z, f, s) = Copies(n(s), c)
  <2>1. CASE s = {}
    <3>1. s \cap D = {} /\ n(s) = 0
      BY <2>1, FS_EmptySet
    <3>2. Copies(n(s), c) = 0
      BY <3>1, OneMoreCopy
    <3> QED
      BY <2>1, <3>2 DEF SumStep
  <2>2. CASE s # {}
    <3> DEFINE x == Pick(s)
               t == s \ {x}
    <3>1. x \in s /\ t \in SUBSET S /\ SumStep(z, f, s) = f[x] + z[t]
      BY <2>2, PickIn DEF SumStep
    <3>2. IsFiniteSet(t \cap D)
      BY <3>1, FS_Subset
    <3>3. n(t) \in Nat
      BY <3>2, FS_CardinalityType
    <3>4. CASE x \in D
      <4>1. s \cap D = (t \cap D) \cup {x} /\ x \notin t \cap D
        BY <3>1, <3>4
      <4>2. n(s) = n(t) + 1
        BY <3>2, <4>1, FS_AddElement
      <4>3. f[x] = c /\ z[t] = Copies(n(t), c)
        BY <3>1, <3>4 DEF AreCopies
      <4> HIDE DEF n, z, x, t
      <4>4. Copies(n(s), c) = c + Copies(n(t), c)
        BY <3>3, <4>2, OneMoreCopy
      <4> QED
        BY <3>1, <4>3, <4>4
    <3>5. CASE x \notin D
      <4>1. s \cap D = t \cap D
        BY <3>1, <3>5
      <4>2. f[x] = 0 /\ z[t] = Copies(n(s), c) /\ n(s) = n(t)
        BY <3>1, <3>5, <4>1 DEF AreCopies
      <4>3. Copies(n(s), c) \in Int
        BY <3>3, <4>2, OneMoreCopy
      <4> HIDE DEF n, z, x, t
      <4> QED
        BY <3>1, <4>2, <4>3
    <3> QED
      BY <3>4, <3>5
  <2> QED
    BY <2>1, <2>2
<1> HIDE DEF n
<1>3. IsTable(z, f, S)
  BY <1>2 DEF IsTable
<1>4. z[S] = Copies(n(S), c)
  OBVIOUS
<1> HIDE DEF z
<1>5. z[S] = SumOf(f, S)
  BY <1>3, SumIsInTable
<1> QED
  BY <1>4, <1>5 DEF n

-----------------------------------------------------------------------------
(* The types and the consistency of the stakes. *)

\* What is proved by induction: the stakes are consistent and have their types.
StakeInv == TypeOK /\ StakeConsistent

\* The constructor leaves no deposits.
LEMMA InitStakeInv == Init => StakeInv
<1> USE StakeManagerAssumption
<1> QED
  BY DEF Init, StakeInv, TypeOK, StakeConsistent, StakedIsLocked, UnlockedIsDue,
         NoStakeNoLock, NoDepositInfo, DepositInfo

\* A step that gives one account a well-formed and consistent record, and lets
\* time pass at most forward, preserves consistency.
Consistent(info) ==
    /\ info.staked => /\ info.stake >= paymasterStake
                      /\ info.unstakeDelaySec >= unstakeDelaySec
                      /\ info.withdrawTime = 0
    /\ (info.stake > 0 /\ ~info.staked) =>
          /\ info.withdrawTime > 0
          /\ info.withdrawTime <= timestamp + info.unstakeDelaySec
    /\ info.stake = 0 => /\ ~info.staked
                         /\ info.unstakeDelaySec = 0
                         /\ info.withdrawTime = 0

\* Consistency speaks of one record at a time.
LEMMA ConsistentIsPointwise ==
    StakeConsistent <=> \A a \in Account : Consistent(deposits[a])
BY DEF StakeConsistent, StakedIsLocked, UnlockedIsDue, NoStakeNoLock, Consistent

\* An operation that writes one consistent record keeps the invariant.
LEMMA OneRecordChanges ==
    ASSUME NEW a \in Account, NEW info \in DepositInfo, StakeInv,
           deposits' = [deposits EXCEPT ![a] = info],
           Consistent(info), timestamp' = timestamp,
           balance' \in Nat, withdrawn' \in Nat
    PROVE  StakeInv'
<1>1. TypeOK'
  BY DEF StakeInv, TypeOK
<1>2. \A b \in Account : deposits'[b] = IF b = a THEN info ELSE deposits[b]
  BY DEF StakeInv, TypeOK
<1>3. \A b \in Account : Consistent(deposits[b])
  BY ConsistentIsPointwise DEF StakeInv
<1>4. StakeConsistent'
  BY <1>2, <1>3 DEF Consistent, StakeConsistent, StakedIsLocked, UnlockedIsDue,
                    NoStakeNoLock
<1> QED
  BY <1>1, <1>4 DEF StakeInv

\* depositTo changes no stake.
LEMMA DepositStep ==
    ASSUME StakeInv, NEW a \in Account, NEW v \in Amount, depositTo(a, v)
    PROVE  StakeInv'
<1> USE StakeManagerAssumption
<1> DEFINE info == [deposits[a] EXCEPT !.deposit = @ + v]
<1>1. deposits[a] \in DepositInfo
  BY DEF StakeInv, TypeOK
<1>2. /\ info \in DepositInfo
      /\ Consistent(info)
  BY <1>1, ConsistentIsPointwise
  DEF depositTo, internalIncrementDeposit, DepositInfo, Consistent, StakeInv
<1>3. deposits' = [deposits EXCEPT ![a] = info]
  BY <1>1 DEF depositTo, internalIncrementDeposit
<1>4. balance' \in Nat /\ withdrawn' \in Nat /\ timestamp' = timestamp
  BY DEF depositTo, StakeInv, TypeOK
<1> QED
  BY <1>2, <1>3, <1>4, OneRecordChanges

\* addStake writes a stake that is locked.
LEMMA AddStakeStep ==
    ASSUME StakeInv, NEW a \in Account, NEW v \in Amount, NEW d \in Delay,
           addStake(a, v, d)
    PROVE  StakeInv'
<1> USE StakeManagerAssumption
<1> DEFINE info == [deposit |-> deposits[a].deposit, staked |-> TRUE,
                    stake |-> deposits[a].stake + v,
                    unstakeDelaySec |-> d, withdrawTime |-> 0]
<1>1. deposits[a] \in DepositInfo
  BY DEF StakeInv, TypeOK
<1>2. /\ info \in DepositInfo
      /\ Consistent(info)
  BY <1>1 DEF addStake, DepositInfo, Consistent
<1>3. deposits' = [deposits EXCEPT ![a] = info]
  BY DEF addStake
<1>4. balance' \in Nat /\ withdrawn' \in Nat /\ timestamp' = timestamp
  BY DEF addStake, StakeInv, TypeOK
<1> QED
  BY <1>2, <1>3, <1>4, OneRecordChanges

\* unlockStake sets a time to withdraw a stake that has a delay.
LEMMA UnlockStakeStep ==
    ASSUME StakeInv, NEW a \in Account, unlockStake(a)
    PROVE  StakeInv'
<1> USE StakeManagerAssumption
<1> DEFINE info == [deposit |-> deposits[a].deposit, staked |-> FALSE,
                    stake |-> deposits[a].stake,
                    unstakeDelaySec |-> deposits[a].unstakeDelaySec,
                    withdrawTime |-> timestamp + deposits[a].unstakeDelaySec]
<1>1. deposits[a] \in DepositInfo
  BY DEF StakeInv, TypeOK
<1>2. Consistent(deposits[a]) /\ timestamp \in Nat
  BY ConsistentIsPointwise DEF StakeInv, TypeOK
<1>3. /\ info \in DepositInfo
      /\ Consistent(info)
  BY <1>1, <1>2 DEF unlockStake, DepositInfo, Consistent
<1>4. deposits' = [deposits EXCEPT ![a] = info]
  BY <1>1 DEF unlockStake, StakeInv, TypeOK, DepositInfo
<1>5. balance' \in Nat /\ withdrawn' \in Nat /\ timestamp' = timestamp
  BY DEF unlockStake, StakeInv, TypeOK
<1> QED
  BY <1>3, <1>4, <1>5, OneRecordChanges

\* withdrawStake clears the whole stake.
LEMMA WithdrawStakeStep ==
    ASSUME StakeInv, NEW a \in Account, withdrawStake(a)
    PROVE  StakeInv'
<1> USE StakeManagerAssumption
<1> DEFINE info == [deposit |-> deposits[a].deposit,
                    staked |-> deposits[a].staked, stake |-> 0,
                    unstakeDelaySec |-> 0, withdrawTime |-> 0]
<1>1. deposits[a] \in DepositInfo
  BY DEF StakeInv, TypeOK
<1>2. Consistent(deposits[a])
  BY ConsistentIsPointwise DEF StakeInv
<1>3. /\ info \in DepositInfo
      /\ Consistent(info)
  BY <1>1, <1>2 DEF withdrawStake, DepositInfo, Consistent
<1>4. deposits' = [deposits EXCEPT ![a] = info]
  BY <1>1 DEF withdrawStake, StakeInv, TypeOK, DepositInfo
<1>5. balance' \in Nat /\ withdrawn' \in Nat /\ timestamp' = timestamp
  BY <1>1 DEF withdrawStake, Pay, StakeInv, TypeOK, DepositInfo
<1> QED
  BY <1>3, <1>4, <1>5, OneRecordChanges

\* withdrawTo changes no record.
LEMMA WithdrawToStep ==
    ASSUME StakeInv, NEW a \in Account, NEW v \in Amount, withdrawTo(a, v)
    PROVE  StakeInv'
BY StakeManagerAssumption
DEF withdrawTo, Pay, StakeInv, TypeOK, StakeConsistent, StakedIsLocked,
    UnlockedIsDue, NoStakeNoLock

\* Time passing brings withdrawals nearer and changes no record.
LEMMA NextBlockStep ==
    ASSUME StakeInv, NextBlock
    PROVE  StakeInv'
<1>1. TypeOK'
  BY DEF NextBlock, StakeInv, TypeOK
<1>2. \A a \in Account : deposits[a] \in DepositInfo
  BY DEF StakeInv, TypeOK
<1>3. timestamp \in Nat /\ timestamp' = timestamp + 1 /\ deposits' = deposits
  BY DEF NextBlock, StakeInv, TypeOK
<1>4. StakeConsistent'
  BY <1>2, <1>3 DEF DepositInfo, StakeInv, StakeConsistent, StakedIsLocked,
                    UnlockedIsDue, NoStakeNoLock
<1> QED
  BY <1>1, <1>4 DEF StakeInv

\* Every step preserves the invariant.
LEMMA NextStakeInv == StakeInv /\ [Next]_stakeVars => StakeInv'
<1> SUFFICES ASSUME StakeInv, [Next]_stakeVars
             PROVE  StakeInv'
  OBVIOUS
<1>1. CASE \E a \in Account : StakeCall(a)
  BY <1>1, DepositStep, AddStakeStep, UnlockStakeStep, WithdrawStakeStep,
     WithdrawToStep DEF StakeCall
<1>2. CASE NextBlock
  BY <1>2, NextBlockStep
<1>3. CASE UNCHANGED stakeVars
  BY <1>3 DEF stakeVars, StakeInv, TypeOK, StakeConsistent, StakedIsLocked,
              UnlockedIsDue, NoStakeNoLock
<1> QED
  BY <1>1, <1>2, <1>3 DEF Next

\* The invariant holds in every reachable state.
LEMMA AlwaysStakeInv == Spec => []StakeInv
BY InitStakeInv, NextStakeInv, PTL DEF Spec

\* Every record always has the types of the DepositInfo struct: no deposit or
\* stake leaves the range of a uint112, whatever is sent and withdrawn.
THEOREM TypeCorrect == Spec => []TypeOK
<1>1. StakeInv => TypeOK
  BY DEF StakeInv
<1> QED
  BY <1>1, AlwaysStakeInv, PTL

\* A staked paymaster is always fully locked, an unlocked stake always on its
\* way out, and no lock data outlives its stake.
THEOREM StakesAreConsistent == Spec => []StakeConsistent
<1>1. StakeInv => StakeConsistent
  BY DEF StakeInv
<1> QED
  BY <1>1, AlwaysStakeInv, PTL

-----------------------------------------------------------------------------
(***************************************************************************)
(* The stakes implement time locks.  The consistency of the stakes is what *)
(* makes the mapping work: it ties `staked', `stake' and `withdrawTime'    *)
(* together, so each call moves the lock of one account or none.           *)
(***************************************************************************)
lockBar == [a \in Account |-> LockOf(deposits[a])]

\* A step on one account moves that account's lock alone.
LEMMA LockMoves ==
    ASSUME NEW a \in Account, StakeInv, NEW info,
           deposits' = [deposits EXCEPT ![a] = info]
    PROVE  lockBar' = [lockBar EXCEPT ![a] = LockOf(info)]
<1>1. \A b \in Account : deposits'[b] = IF b = a THEN info ELSE deposits[b]
  BY DEF StakeInv, TypeOK
<1> QED
  BY <1>1 DEF lockBar, LockOf

\* A step that keeps the stake of an account keeps its lock.
LEMMA LockStays ==
    ASSUME StakeInv, NEW a \in Account, NEW info,
           deposits' = [deposits EXCEPT ![a] = info],
           LockOf(info) = LockOf(deposits[a])
    PROVE  lockBar' = lockBar
BY LockMoves DEF lockBar

\* depositTo is a stutter of the lock.
LEMMA DepositKeepsLock ==
    ASSUME StakeInv, NEW a \in Account, NEW v \in Amount, depositTo(a, v)
    PROVE  UNCHANGED <<lockBar, timestamp>>
<1> DEFINE info == [deposits[a] EXCEPT !.deposit = @ + v]
<1>1. deposits[a] \in DepositInfo
  BY DEF StakeInv, TypeOK
<1>2. deposits' = [deposits EXCEPT ![a] = info] /\ timestamp' = timestamp
  BY <1>1 DEF depositTo, internalIncrementDeposit
<1>3. LockOf(info) = LockOf(deposits[a])
  BY <1>1 DEF LockOf, DepositInfo
<1> QED
  BY <1>2, <1>3, LockStays

\* addStake locks.
LEMMA AddStakeAcquires ==
    ASSUME StakeInv, NEW a \in Account, NEW v \in Amount, NEW d \in Delay,
           addStake(a, v, d)
    PROVE  TL!Acquire(a)
<1> USE StakeManagerAssumption
<1> DEFINE w == deposits[a].stake + v
           info == [deposit |-> deposits[a].deposit, staked |-> TRUE,
                    stake |-> w, unstakeDelaySec |-> d, withdrawTime |-> 0]
<1>1. deposits[a] \in DepositInfo
  BY DEF StakeInv, TypeOK
<1>2. /\ w \in 0 .. MaxUint112
      /\ w >= paymasterStake
      /\ w >= deposits[a].stake
      /\ d >= unstakeDelaySec
      /\ d >= deposits[a].unstakeDelaySec
      /\ timestamp' = timestamp
  BY <1>1 DEF addStake, DepositInfo
<1>3. deposits' = [deposits EXCEPT ![a] = info]
  BY DEF addStake
<1>4. LockOf(info) = [mode |-> "locked", value |-> w, delay |-> d]
  BY DEF LockOf
<1>5. lockBar' = [lockBar EXCEPT ![a] = TL!Locked(w, d)]
  BY <1>3, <1>4, LockMoves DEF TL!Locked
<1>6. lockBar[a].mode # "open" => /\ w >= lockBar[a].value
                                  /\ d >= lockBar[a].delay
  BY <1>2 DEF lockBar, LockOf
<1> HIDE DEF w
<1> QED
  BY <1>2, <1>5, <1>6 DEF TL!Acquire, lockBar

\* unlockStake starts the delay.
LEMMA UnlockStakeCools ==
    ASSUME StakeInv, NEW a \in Account, unlockStake(a)
    PROVE  TL!CoolDown(a)
<1> USE StakeManagerAssumption
<1> DEFINE old == deposits[a]
           info == [deposit |-> old.deposit, staked |-> FALSE,
                    stake |-> old.stake, unstakeDelaySec |-> old.unstakeDelaySec,
                    withdrawTime |-> timestamp + old.unstakeDelaySec]
<1>1. old \in DepositInfo /\ Consistent(old) /\ timestamp \in Nat
  BY ConsistentIsPointwise DEF StakeInv, TypeOK
<1>2. deposits' = [deposits EXCEPT ![a] = info]
  BY <1>1 DEF unlockStake, DepositInfo, StakeInv, TypeOK
<1>3. old.staked /\ old.stake > 0 /\ timestamp' = timestamp
  BY <1>1 DEF unlockStake, Consistent, DepositInfo
<1>4. /\ ~info.staked
      /\ info.stake = old.stake
      /\ info.unstakeDelaySec = old.unstakeDelaySec
      /\ info.withdrawTime - info.unstakeDelaySec = timestamp
  BY <1>1 DEF DepositInfo
<1>5. LockOf(info) = TL!Cooling(old.stake, old.unstakeDelaySec, timestamp)
  <2> HIDE DEF info
  <2> QED
    BY <1>3, <1>4 DEF LockOf, TL!Cooling
<1>6. lockBar[a] = [mode |-> "locked", value |-> old.stake,
                    delay |-> old.unstakeDelaySec]
  BY <1>3 DEF lockBar, LockOf
<1>7. lockBar' = [lockBar EXCEPT ![a] =
                     TL!Cooling(lockBar[a].value, lockBar[a].delay, timestamp)]
  <2>1. lockBar' = [lockBar EXCEPT ![a] = LockOf(info)]
    BY <1>2, LockMoves
  <2> HIDE DEF info, old
  <2> QED
    BY <1>5, <1>6, <2>1
<1> QED
  BY <1>3, <1>6, <1>7 DEF TL!CoolDown, lockBar

\* withdrawStake releases a lock whose delay is over.
LEMMA WithdrawStakeReleases ==
    ASSUME StakeInv, NEW a \in Account, withdrawStake(a)
    PROVE  TL!Release(a)
<1> USE StakeManagerAssumption
<1> DEFINE old == deposits[a]
           info == [deposit |-> old.deposit, staked |-> FALSE, stake |-> 0,
                    unstakeDelaySec |-> 0, withdrawTime |-> 0]
<1>1. old \in DepositInfo /\ Consistent(old) /\ timestamp \in Nat
  BY ConsistentIsPointwise DEF StakeInv, TypeOK
<1>2. /\ old.stake > 0
      /\ old.withdrawTime > 0
      /\ old.withdrawTime <= timestamp
      /\ timestamp' = timestamp
  BY DEF withdrawStake
<1>3. old.staked = FALSE
  BY <1>1, <1>2 DEF Consistent, DepositInfo
<1>4. deposits' = [deposits EXCEPT ![a] = info]
  BY <1>1, <1>3 DEF withdrawStake, DepositInfo, StakeInv, TypeOK
<1>5. lockBar[a] = [mode |-> "cooling", value |-> old.stake,
                    delay |-> old.unstakeDelaySec,
                    since |-> old.withdrawTime - old.unstakeDelaySec]
  BY <1>2, <1>3 DEF lockBar, LockOf
<1>6. lockBar[a].since + lockBar[a].delay <= timestamp
  BY <1>1, <1>2, <1>5 DEF DepositInfo
<1>7. lockBar' = [lockBar EXCEPT ![a] = TL!Open]
  <2>1. lockBar' = [lockBar EXCEPT ![a] = LockOf(info)]
    BY <1>4, LockMoves
  <2>2. LockOf(info) = TL!Open
    BY DEF LockOf, TL!Open
  <2> QED
    BY <2>1, <2>2
<1> QED
  BY <1>2, <1>5, <1>6, <1>7 DEF TL!Release, lockBar

\* No stake, no lock.
LEMMA InitMapsToInit == Init => TL!Init
BY DEF Init, NoDepositInfo, TL!Init, TL!Open, LockOf

\* Every step of the StakeManager is a step of the time locks or a stutter.
LEMMA StepMapsToStep ==
    StakeInv /\ [Next]_stakeVars => [TL!Next]_<<lockBar, timestamp>>
<1> SUFFICES ASSUME StakeInv, [Next]_stakeVars
             PROVE  [TL!Next]_<<lockBar, timestamp>>
  OBVIOUS
<1>1. ASSUME NEW a \in Account, StakeCall(a)
      PROVE  [TL!Next]_<<lockBar, timestamp>>
  <2>1. ASSUME NEW b \in Account, NEW v \in Amount, depositTo(b, v)
        PROVE  UNCHANGED <<lockBar, timestamp>>
    BY <2>1, DepositKeepsLock
  <2>2. ASSUME NEW v \in Amount, NEW d \in Delay, addStake(a, v, d)
        PROVE  TL!Next
    BY <2>2, AddStakeAcquires DEF TL!Next
  <2>3. ASSUME unlockStake(a)
        PROVE  TL!Next
    BY <2>3, UnlockStakeCools DEF TL!Next
  <2>4. ASSUME withdrawStake(a)
        PROVE  TL!Next
    BY <2>4, WithdrawStakeReleases DEF TL!Next
  <2>5. ASSUME NEW v \in Amount, withdrawTo(a, v)
        PROVE  UNCHANGED <<lockBar, timestamp>>
    BY <2>5 DEF withdrawTo, lockBar
  <2> QED
    BY <1>1, <2>1, <2>2, <2>3, <2>4, <2>5 DEF StakeCall
<1>2. CASE NextBlock
  BY <1>2 DEF NextBlock, TL!Next, TL!Pass, lockBar
<1>3. CASE UNCHANGED stakeVars
  BY <1>3 DEF stakeVars, lockBar
<1> QED
  BY <1>1, <1>2, <1>3 DEF Next

\* Whatever the accounts call and in whatever order, the stakes behave as time
\* locks: a stake leaves only a whole delay after its owner unlocked it, and
\* locking it again starts over.
THEOREM StakesAreTimeLocks == Spec => ImplementsTimeLock
<1>1. Init => TL!Init
  BY InitMapsToInit
<1>2. StakeInv /\ [Next]_stakeVars => [TL!Next]_<<lockBar, timestamp>>
  BY StepMapsToStep
<1> QED
  BY <1>1, <1>2, AlwaysStakeInv, PTL
  DEF Spec, ImplementsTimeLock, TL!Spec, lockBar

-----------------------------------------------------------------------------
(***************************************************************************)
(* Conservation of ether.  What the contract holds and has paid out, less  *)
(* what is on record, moves only with the fees of operations: no call of   *)
(* the StakeManager changes it.                                            *)
(***************************************************************************)
DepositOf(d) == [a \in Account |-> d[a].deposit]
StakeOf(d)   == [a \in Account |-> d[a].stake]

\* Deposited is a sum.
LEMMA DepositedIsSum == \A d : Deposited(d) = SumOf(DepositOf(d), Account)
<1> USE StakeManagerAssumption
<1> TAKE d
<1> DEFINE f == DepositOf(d)
           Eq(g) == g = [s \in SUBSET Account |->
                           IF s = {} THEN 0
                           ELSE d[CHOOSE x \in s : TRUE].deposit
                                + g[s \ {CHOOSE x \in s : TRUE}]]
           h == CHOOSE g : Eq(g)
<1>1. \A g : Eq(g) <=> IsTable(g, f, Account)
  BY PickIn DEF DepositOf, IsTable, SumStep, Pick
<1>2. Deposited(d) = h[Account]
  BY DEF Deposited, MapThenSumSet, MapThenFoldSet
<1> HIDE DEF Eq, f
<1>3. Eq(h)
  BY <1>1, TableExists
<1> HIDE DEF h
<1>4. h[Account] = SumOf(f, Account)
  BY <1>1, <1>3, SumIsInTable
<1> QED
  BY <1>2, <1>4 DEF f

\* Staked is a sum.
LEMMA StakedIsSum == \A d : Staked(d) = SumOf(StakeOf(d), Account)
<1> USE StakeManagerAssumption
<1> TAKE d
<1> DEFINE f == StakeOf(d)
           Eq(g) == g = [s \in SUBSET Account |->
                           IF s = {} THEN 0
                           ELSE d[CHOOSE x \in s : TRUE].stake
                                + g[s \ {CHOOSE x \in s : TRUE}]]
           h == CHOOSE g : Eq(g)
<1>1. \A g : Eq(g) <=> IsTable(g, f, Account)
  BY PickIn DEF StakeOf, IsTable, SumStep, Pick
<1>2. Staked(d) = h[Account]
  BY DEF Staked, MapThenSumSet, MapThenFoldSet
<1> HIDE DEF Eq, f
<1>3. Eq(h)
  BY <1>1, TableExists
<1> HIDE DEF h
<1>4. h[Account] = SumOf(f, Account)
  BY <1>1, <1>3, SumIsInTable
<1> QED
  BY <1>2, <1>4 DEF f

\* What is on record.
Recorded(d) == Deposited(d) + Staked(d)

\* One record changes: so does what is on record, by the same amount.
LEMMA RecordMoves ==
    ASSUME NEW d \in [Account -> DepositInfo], NEW e \in [Account -> DepositInfo],
           NEW a \in Account, \A b \in Account \ {a} : e[b] = d[b]
    PROVE  /\ Recorded(d) \in Int
           /\ Recorded(e) = Recorded(d) - (d[a].deposit + d[a].stake)
                                       + (e[a].deposit + e[a].stake)
<1> USE StakeManagerAssumption
<1>1. \A b \in Account : /\ d[b].deposit \in Int /\ d[b].stake \in Int
                         /\ e[b].deposit \in Int /\ e[b].stake \in Int
  BY DEF DepositInfo
<1>2. \A b \in Account : /\ DepositOf(d)[b] = d[b].deposit
                         /\ DepositOf(e)[b] = e[b].deposit
                         /\ StakeOf(d)[b] = d[b].stake
                         /\ StakeOf(e)[b] = e[b].stake
  BY DEF DepositOf, StakeOf
<1>3. /\ SumOf(DepositOf(d), Account) \in Int
      /\ SumOf(StakeOf(d), Account) \in Int
  BY <1>1, <1>2, SumTakesAny
<1>4. SumOf(DepositOf(e), Account) =
         SumOf(DepositOf(d), Account) - d[a].deposit + e[a].deposit
  <2>1. /\ \A b \in Account : DepositOf(d)[b] \in Int /\ DepositOf(e)[b] \in Int
        /\ \A b \in Account \ {a} : DepositOf(e)[b] = DepositOf(d)[b]
    BY <1>1, <1>2
  <2>2. SumOf(DepositOf(e), Account) =
           SumOf(DepositOf(d), Account) - DepositOf(d)[a] + DepositOf(e)[a]
    BY <2>1, SumChange
  <2> QED
    BY <1>2, <2>2
<1>5. SumOf(StakeOf(e), Account) =
         SumOf(StakeOf(d), Account) - d[a].stake + e[a].stake
  <2>1. /\ \A b \in Account : StakeOf(d)[b] \in Int /\ StakeOf(e)[b] \in Int
        /\ \A b \in Account \ {a} : StakeOf(e)[b] = StakeOf(d)[b]
    BY <1>1, <1>2
  <2>2. SumOf(StakeOf(e), Account) =
           SumOf(StakeOf(d), Account) - StakeOf(d)[a] + StakeOf(e)[a]
    BY <2>1, SumChange
  <2> QED
    BY <1>2, <2>2
<1> QED
  BY <1>1, <1>3, <1>4, <1>5, DepositedIsSum, StakedIsSum DEF Recorded

\* If the ether moves by that amount too, they stay together.
LEMMA EtherMovesAlong ==
    ASSUME NEW d \in [Account -> DepositInfo], NEW e \in [Account -> DepositInfo],
           NEW a \in Account, \A b \in Account \ {a} : e[b] = d[b],
           NEW u \in Int, NEW v \in Int,
           v = u - (d[a].deposit + d[a].stake) + (e[a].deposit + e[a].stake)
    PROVE  v - Recorded(e) = u - Recorded(d)
<1> DEFINE x == d[a].deposit + d[a].stake
           y == e[a].deposit + e[a].stake
<1>1. x \in Int /\ y \in Int
  BY StakeManagerAssumption DEF DepositInfo
<1>2. Recorded(d) \in Int /\ Recorded(e) = Recorded(d) - x + y /\ v = u - x + y
  BY RecordMoves
<1> HIDE DEF x, y
<1> QED
  BY <1>1, <1>2

\* The ether that came in and is neither on record nor paid out by withdrawTo.
Unrecorded == (balance + withdrawn) - Recorded(deposits)

\* No call of the StakeManager takes ether that is not on record, or leaves some.
LEMMA StakeCallsConserve ==
    ASSUME TypeOK, NEW a \in Account, StakeCall(a), TypeOK'
    PROVE  Unrecorded' = Unrecorded
<1> USE StakeManagerAssumption
<1>1. /\ deposits \in [Account -> DepositInfo]
      /\ deposits' \in [Account -> DepositInfo]
      /\ balance \in Int /\ withdrawn \in Int
      /\ balance' \in Int /\ withdrawn' \in Int
  BY DEF TypeOK
<1>2. Recorded(deposits) \in Int
  BY <1>1, RecordMoves
<1>3. ASSUME NEW b \in Account, \A c \in Account \ {b} : deposits'[c] = deposits[c],
             balance' + withdrawn' = (balance + withdrawn)
                 - (deposits[b].deposit + deposits[b].stake)
                 + (deposits'[b].deposit + deposits'[b].stake)
      PROVE  Unrecorded' = Unrecorded
  <2>1. balance + withdrawn \in Int /\ balance' + withdrawn' \in Int
    BY <1>1
  <2>2. (balance' + withdrawn') - Recorded(deposits') =
           (balance + withdrawn) - Recorded(deposits)
    BY <1>1, <1>3, <2>1, EtherMovesAlong
  <2> QED
    BY <2>2 DEF Unrecorded
<1>4. \A b \in Account : /\ deposits[b].deposit \in Nat /\ deposits[b].stake \in Nat
                         /\ deposits[b] \in DepositInfo
  BY <1>1 DEF DepositInfo
<1>5. ASSUME NEW b \in Account, NEW v \in Amount, depositTo(b, v)
      PROVE  Unrecorded' = Unrecorded
  <2>1. deposits' = [deposits EXCEPT ![b].deposit = @ + v] /\ balance' = balance + v
        /\ withdrawn' = withdrawn
    BY <1>5 DEF depositTo, internalIncrementDeposit
  <2>2. /\ \A c \in Account \ {b} : deposits'[c] = deposits[c]
        /\ deposits'[b].deposit = deposits[b].deposit + v
        /\ deposits'[b].stake = deposits[b].stake
    BY <1>1, <1>4, <2>1 DEF DepositInfo
  <2> QED
    BY <1>1, <1>3, <1>4, <2>1, <2>2
<1>6. ASSUME NEW v \in Amount, NEW d \in Delay, addStake(a, v, d)
      PROVE  Unrecorded' = Unrecorded
  <2>1. /\ \A c \in Account \ {a} : deposits'[c] = deposits[c]
        /\ deposits'[a].deposit = deposits[a].deposit
        /\ deposits'[a].stake = deposits[a].stake + v
        /\ balance' = balance + v /\ withdrawn' = withdrawn
    BY <1>1, <1>6 DEF addStake
  <2> QED
    BY <1>1, <1>3, <1>4, <2>1
<1>7. ASSUME unlockStake(a)
      PROVE  Unrecorded' = Unrecorded
  <2>1. /\ \A c \in Account \ {a} : deposits'[c] = deposits[c]
        /\ deposits'[a].deposit = deposits[a].deposit
        /\ deposits'[a].stake = deposits[a].stake
        /\ balance' = balance /\ withdrawn' = withdrawn
    BY <1>1, <1>4, <1>7 DEF unlockStake, DepositInfo
  <2> QED
    BY <1>1, <1>3, <1>4, <2>1
<1>8. ASSUME withdrawStake(a)
      PROVE  Unrecorded' = Unrecorded
  <2>1. /\ \A c \in Account \ {a} : deposits'[c] = deposits[c]
        /\ deposits'[a].deposit = deposits[a].deposit
        /\ deposits'[a].stake = 0
        /\ balance' = balance - deposits[a].stake /\ withdrawn' = withdrawn
    BY <1>1, <1>4, <1>8 DEF withdrawStake, Pay, DepositInfo
  <2> QED
    BY <1>1, <1>3, <1>4, <2>1
<1>9. ASSUME NEW v \in Amount, withdrawTo(a, v)
      PROVE  Unrecorded' = Unrecorded
  <2>1. balance' = balance - v /\ withdrawn' = withdrawn + v /\ deposits' = deposits
    BY <1>9 DEF withdrawTo, Pay
  <2> QED
    BY <1>1, <1>2, <2>1 DEF Unrecorded
<1> QED
  BY <1>5, <1>6, <1>7, <1>8, <1>9 DEF StakeCall

\* With no deposits nothing is on record.
LEMMA NothingRecorded == Recorded([a \in Account |-> NoDepositInfo]) = 0
<1> DEFINE d == [a \in Account |-> NoDepositInfo]
<1>1. /\ \A a \in Account : DepositOf(d)[a] = 0
      /\ \A a \in Account : StakeOf(d)[a] = 0
  BY DEF DepositOf, StakeOf, NoDepositInfo
<1> HIDE DEF d
<1>2. SumOf(DepositOf(d), Account) = 0 /\ SumOf(StakeOf(d), Account) = 0
  BY <1>1, SumOfZeros, StakeManagerAssumption
<1>3. Recorded(d) = 0
  BY <1>2, DepositedIsSum, StakedIsSum DEF Recorded
<1> QED
  BY <1>3 DEF d

\* What is on record is an integer.
LEMMA RecordedIsInt ==
    ASSUME NEW d \in [Account -> DepositInfo]
    PROVE  Recorded(d) \in Int
<1>1. \A b \in Account : DepositOf(d)[b] \in Int /\ StakeOf(d)[b] \in Int
  BY StakeManagerAssumption DEF DepositInfo, DepositOf, StakeOf
<1>2. SumOf(DepositOf(d), Account) \in Int /\ SumOf(StakeOf(d), Account) \in Int
  BY <1>1, SumTakesAny, StakeManagerAssumption
<1> QED
  BY <1>2, DepositedIsSum, StakedIsSum DEF Recorded

\* Conservation says that nothing is unrecorded.
LEMMA ConservationIsRecorded ==
    ASSUME TypeOK
    PROVE  Conservation <=> Unrecorded = 0
<1>1. /\ deposits \in [Account -> DepositInfo]
      /\ balance \in Int /\ withdrawn \in Int
  BY DEF TypeOK
<1>2. Recorded(deposits) \in Int
  BY <1>1, RecordedIsInt
<1> QED
  BY <1>1, <1>2 DEF Conservation, Unrecorded, Recorded

\* Every unit of ether that came in is on record until it is paid out: what the
\* contract holds and what withdrawTo paid add up to the deposits and stakes,
\* for any number of accounts and whatever they call.
THEOREM EtherIsConserved == Spec => []Conservation
<1> DEFINE CInv == TypeOK /\ Unrecorded = 0
<1>1. Init => CInv
  BY NothingRecorded, InitStakeInv DEF Init, Unrecorded, StakeInv
<1>2. ASSUME StakeInv, CInv, [Next]_stakeVars
      PROVE  CInv'
  <2>1. TypeOK /\ TypeOK'
    BY <1>2, NextStakeInv DEF StakeInv
  <2>2. ASSUME NEW a \in Account, StakeCall(a)
        PROVE  Unrecorded' = Unrecorded
    BY <2>1, <2>2, StakeCallsConserve
  <2>3. CASE NextBlock \/ UNCHANGED stakeVars
    <3>1. balance' = balance /\ withdrawn' = withdrawn /\ deposits' = deposits
      BY <2>3 DEF NextBlock, stakeVars
    <3>2. Unrecorded' = Unrecorded
      BY <3>1 DEF Unrecorded
    <3> QED
      BY <1>2, <2>1, <3>2
  <2> QED
    BY <1>2, <2>1, <2>2, <2>3 DEF Next
<1>3. CInv => Conservation
  BY ConservationIsRecorded
<1> QED
  BY <1>1, <1>2, <1>3, AlwaysStakeInv, PTL DEF Spec

=============================================================================
