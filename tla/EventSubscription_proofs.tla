---------------------- MODULE EventSubscription_proofs ----------------------
(***************************************************************************)
(* Facts about the logs on their way from the node to the client, which    *)
(* the proofs about iterators and watchers share.                          *)
(***************************************************************************)
EXTENDS EventSubscription, SequenceTheorems, TLAPS

\* The two sequences a log is in on its way, and what the client knows.
SeqsOK ==
    /\ expected \in Seq(Log)
    /\ delivered \in Seq(Log)
    /\ logs \in Seq(Log)
    /\ node \in Seq(Log)

\* With the rules in the order of the topics the node finds what was asked for.
LEMMA MatchesAsked ==
    ASSUME Indexed = Declared, NEW l
    PROVE  Matches(l) <=> Asked(l)
  BY DEF Matches, Asked, rules

\* Moving the first log of a sequence to the end of the one before it keeps
\* them as a whole.
LEMMA MoveHead ==
    ASSUME NEW S, NEW a \in Seq(S), NEW b \in Seq(S), b # <<>>
    PROVE  /\ Append(a, Head(b)) \o Tail(b) = a \o b
           /\ Append(a, Head(b)) \in Seq(S)
           /\ Tail(b) \in Seq(S)
           /\ Head(b) \in S
<1>1. Head(b) \in S /\ Tail(b) \in Seq(S) /\ b = <<Head(b)>> \o Tail(b)
  BY HeadTailProperties, HeadTailAppend
<1>2. Append(a, Head(b)) = a \o <<Head(b)>>
  BY <1>1, AppendIsConcat
<1>3. <<Head(b)>> \in Seq(S)
  BY <1>1
<1>4. a \o (<<Head(b)>> \o Tail(b)) = (a \o <<Head(b)>>) \o Tail(b)
  BY <1>1, <1>3, ConcatAssociative
<1> QED
  BY <1>1, <1>2, <1>4, AppendProperties

\* A new log comes after all the others.
LEMMA AppendToConcat ==
    ASSUME NEW S, NEW a \in Seq(S), NEW b \in Seq(S), NEW e \in S
    PROVE  a \o Append(b, e) = Append(a \o b, e)
<1>1. <<e>> \in Seq(S) /\ a \o b \in Seq(S)
  BY ConcatProperties
<1>2. a \o (b \o <<e>>) = (a \o b) \o <<e>>
  BY <1>1, ConcatAssociative
<1> QED
  BY <1>1, <1>2, AppendIsConcat

\* The first log of what is left is the one after those delivered.
LEMMA NextInOrder ==
    ASSUME NEW S, NEW a \in Seq(S), NEW b \in Seq(S), b # <<>>
    PROVE  /\ Len(a) < Len(a \o b)
           /\ (a \o b)[Len(a) + 1] = Head(b)
<1>1. Len(a) \in Nat /\ Len(b) \in Nat \ {0}
  BY EmptySeq, LenProperties
<1>2. Len(a \o b) = Len(a) + Len(b)
  BY ConcatProperties
<1>3. Len(a) + 1 \in 1 .. Len(a) + Len(b)
  BY <1>1
<1>4. (a \o b)[Len(a) + 1] = b[Len(a) + 1 - Len(a)]
  BY <1>1, <1>3, ConcatProperties
<1>5. b[Len(a) + 1 - Len(a)] = b[1] /\ Head(b) = b[1]
  BY <1>1
<1> QED
  BY <1>1, <1>2, <1>4, <1>5

\* What an event that occurs adds to the expected events it adds to the logs.
LEMMA OccurInOrder ==
    ASSUME Indexed = Declared, SeqsOK, NEW l \in Log, Occur(l),
           NEW taken \in Seq(Log), expected = taken \o (logs \o node)
    PROVE  SeqsOK' /\ expected' = taken \o (logs' \o node')
<1>1. CASE Asked(l)
  <2>1. expected' = Append(expected, l) /\ node' = Append(node, l)
    BY <1>1, MatchesAsked DEF Occur
  <2>2. logs \o Append(node, l) = Append(logs \o node, l)
    BY AppendToConcat DEF SeqsOK
  <2>3. logs \o node \in Seq(Log)
    BY ConcatProperties DEF SeqsOK
  <2>4. taken \o Append(logs \o node, l) = Append(taken \o (logs \o node), l)
    BY <2>3, AppendToConcat
  <2>5. SeqsOK'
    BY <2>1, AppendProperties DEF SeqsOK, Occur
  <2> QED
    BY <2>1, <2>2, <2>4, <2>5 DEF Occur
<1>2. CASE ~Asked(l)
  BY <1>2, MatchesAsked DEF Occur, SeqsOK
<1> QED
  BY <1>1, <1>2

\* The producer keeps the order.
LEMMA FeedInOrder ==
    ASSUME SeqsOK, Feed
    PROVE  SeqsOK' /\ logs' \o node' = logs \o node
  BY MoveHead DEF Feed, SeqsOK

\* A log that is taken from the channel is the first of those left.
LEMMA TakeInOrder ==
    ASSUME SeqsOK, logs # <<>>, logs' = Tail(logs),
           NEW taken \in Seq(Log), expected = taken \o (logs \o node)
    PROVE  /\ logs' \in Seq(Log)
           /\ Head(logs) \in Log
           /\ expected = taken \o (<<Head(logs)>> \o (logs' \o node))
<1>1. /\ Head(logs) \in Log
      /\ Tail(logs) \in Seq(Log)
      /\ logs = <<Head(logs)>> \o Tail(logs)
  BY HeadTailProperties, HeadTailAppend DEF SeqsOK
<1>2. (<<Head(logs)>> \o Tail(logs)) \o node = <<Head(logs)>> \o (Tail(logs) \o node)
  BY <1>1, ConcatAssociative DEF SeqsOK
<1> QED
  BY <1>1, <1>2

\* The types of what iterators and watchers have in common.
SubscriptionTyped ==
    /\ query \in Query
    /\ Len(logs) <= Capacity
    /\ outcome \in {"open", "complete", "failed", "closed"}
    /\ sub \in {"none", "open", "failed", "ended"}
    /\ quit \in BOOLEAN
    /\ close \in {"none", "called", "returned"}

\* A channel that had room has not overflown.
LEMMA FeedFits ==
    ASSUME Capacity \in Nat, SeqsOK, Feed
    PROVE  Len(logs') <= Capacity
<1>1. logs' = Append(logs, Head(node)) /\ Head(node) \in Log /\ Len(logs) < Capacity
  BY HeadTailProperties DEF Feed, SeqsOK
<1>2. Len(logs') = Len(logs) + 1 /\ Len(logs) \in Nat
  BY <1>1, AppendProperties, LenProperties DEF SeqsOK
<1> QED
  BY <1>1, <1>2

\* What is taken from the channel makes room.
LEMMA TakeFits ==
    ASSUME Capacity \in Nat, SeqsOK, Len(logs) <= Capacity, logs # <<>>, logs' = Tail(logs)
    PROVE  Len(logs') <= Capacity
<1>1. Len(logs') = Len(logs) - 1 /\ Len(logs) \in Nat
  BY HeadTailProperties, LenProperties DEF SeqsOK
<1> QED
  BY <1>1

\* The sequences are also sequences over a larger set.
LEMMA SeqsOver ==
    ASSUME SeqsOK, NEW E, Log \subseteq E
    PROVE  \A s \in {expected, delivered, node, logs} : s \in Seq(E)
BY DEF SeqsOK
=============================================================================
