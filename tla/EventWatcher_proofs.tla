------------------------ MODULE EventWatcher_proofs ------------------------
(***************************************************************************)
(* The watcher of any event whose rules are in the order of the contract   *)
(* implements EventStream, for all lists, capacities and lengths.          *)
(***************************************************************************)
EXTENDS EventWatcher, EventSubscription_proofs

Stream == INSTANCE EventStream WITH Event <- Log

\* Until the client was told of the end, the events that are expected are those
\* delivered, the one in the goroutine's hand, those in the channel, and those
\* not there yet.
InOrder == outcome = "open" => expected = (delivered \o hand) \o (logs \o node)

HandOK == IF goroutine = "send" THEN \E l \in Log : hand = <<l>> ELSE hand = <<>>

\* The client is told of the end when the goroutine returns, not before.
EndOK ==
    /\ goroutine \in {"none", "select", "send", "returned"}
    /\ Running => outcome = "open"
    /\ sub \notin {"none", "ended"} => Running
    /\ goroutine = "returned" => outcome # "open"

IInv == SeqsOK /\ InOrder /\ HandOK /\ EndOK

LEMMA HandIsSeq == HandOK => hand \in Seq(Log)
<1>1. \A l \in Log : <<l>> \in Seq(Log)
  OBVIOUS
<1>2. <<>> \in Seq(Log)
  BY EmptySeq
<1> QED
  BY <1>1, <1>2, Zenon DEF HandOK

LEMMA InitIInv == Init => IInv
<1> SUFFICES ASSUME Init PROVE IInv
  OBVIOUS
<1>1. <<>> = (<<>> \o <<>>) \o (<<>> \o <<>>) /\ <<>> \in Seq(Log)
  BY EmptySeq, ConcatEmptySeq
<1> QED
  BY <1>1 DEF Init, SubscriptionInit, IInv, SeqsOK, InOrder, HandOK, EndOK, Running

\* An event that occurs while the client is subscribed.
LEMMA LogIsWrittenStep ==
    ASSUME Indexed = Declared, IInv, NEW l \in Log, LogIsWritten(l)
    PROVE  IInv' /\ (Stream!Occur(l) \/ UNCHANGED Stream!vars)
<1>1. /\ Occur(l) /\ outcome = "open"
      /\ UNCHANGED <<query, delivered, outcome, logs, sub, quit, close, goroutine, hand>>
  BY DEF LogIsWritten, Occur, watchVars
<1>2. delivered \o hand \in Seq(Log)
  BY HandIsSeq, ConcatProperties DEF IInv, SeqsOK
<1>3. SeqsOK' /\ expected' = (delivered \o hand) \o (logs' \o node')
  BY <1>1, <1>2, OccurInOrder DEF IInv, InOrder
<1>4. IInv'
  BY <1>1, <1>3 DEF IInv, InOrder, HandOK, EndOK, Running
<1>5. expected' = Append(expected, l) \/ expected' = expected
  BY <1>1 DEF Occur
<1> QED
  BY <1>1, <1>4, <1>5 DEF Stream!Occur, Stream!vars

\* The steps of the node, of the network and of Unsubscribe deliver nothing.
LEMMA SilentStep ==
    ASSUME IInv, Producer \/ SubscriptionFails \/ CallClose \/ CloseReturns
                 \/ UNCHANGED vars
    PROVE  IInv' /\ UNCHANGED Stream!vars
<1>1. CASE Producer
  <2>1. SeqsOK' /\ logs' \o node' = logs \o node
    BY <1>1, FeedInOrder DEF IInv, Producer
  <2> QED
    BY <1>1, <2>1 DEF Producer, Feed, watchVars, IInv, InOrder, HandOK, EndOK, Running,
                      Stream!vars
<1>2. CASE SubscriptionFails
  BY <1>2 DEF SubscriptionFails, Fails, watchVars, IInv, SeqsOK, InOrder, HandOK,
              EndOK, Running, Stream!vars
<1>3. CASE CallClose
  BY <1>3 DEF CallClose, CallUnsubscribe, watchVars, IInv, SeqsOK, InOrder, HandOK,
              EndOK, Running, Stream!vars
<1>4. CASE CloseReturns
  BY <1>4 DEF CloseReturns, UnsubscribeReturns, watchVars, IInv, SeqsOK, InOrder,
              HandOK, EndOK, Running, Stream!vars
<1>5. CASE UNCHANGED vars
  BY <1>5 DEF vars, subVars, watchVars, IInv, SeqsOK, InOrder, HandOK, EndOK,
              Running, Stream!vars
<1> QED
  BY <1>1, <1>2, <1>3, <1>4, <1>5

\* The client is subscribed, or it is not and knows.
LEMMA WatchBegins ==
    ASSUME IInv, Watch
    PROVE  IInv' /\ (Stream!End("failed") \/ UNCHANGED Stream!vars)
<1>1. IInv'
  BY DEF Watch, IInv, SeqsOK, InOrder, HandOK, EndOK, Running
<1> QED
  BY <1>1 DEF Watch, Stream!End, Stream!vars

\* The goroutine returns: the client is told so.
LEMMA ReturnStep ==
    ASSUME IInv, NEW error \in BOOLEAN, Running, Return(error),
           UNCHANGED <<expected, delivered, node>>, logs' \in Seq(Log)
    PROVE  IInv' /\ (Stream!End("failed") \/ Stream!End("closed"))
<1>1. outcome = "open" /\ outcome' \in {"failed", "closed"}
  BY DEF IInv, EndOK, Return
<1>2. SeqsOK'
  BY DEF IInv, SeqsOK
<1>3. InOrder' /\ HandOK' /\ EndOK'
  BY <1>1 DEF InOrder, HandOK, EndOK, Running, Return
<1> QED
  BY <1>1, <1>2, <1>3 DEF IInv, Stream!End

\* The goroutine takes the first event that is left, or returns an error.
LEMMA WatchReceivesStep ==
    ASSUME IInv, WatchReceives
    PROVE  IInv' /\ (\/ Stream!End("failed") \/ Stream!End("closed")
                     \/ UNCHANGED Stream!vars)
<1>1. /\ goroutine = "select" /\ logs # <<>> /\ logs' = Tail(logs)
      /\ UNCHANGED <<query, expected, delivered, node, quit, close>>
  BY DEF WatchReceives
<1>2. outcome = "open" /\ hand = <<>> /\ Running
  BY <1>1 DEF IInv, EndOK, HandOK, Running
<1>3. delivered \o hand = delivered /\ delivered \in Seq(Log)
  BY <1>2, ConcatEmptySeq DEF IInv, SeqsOK
<1>4. /\ logs' \in Seq(Log)
      /\ Head(logs) \in Log
      /\ expected = delivered \o (<<Head(logs)>> \o (logs' \o node))
  BY <1>1, <1>2, <1>3, TakeInOrder DEF IInv, InOrder
<1>5. CASE Head(logs).decodes
  <2>1. goroutine' = "send" /\ hand' = <<Head(logs)>> /\ UNCHANGED <<outcome, sub>>
    BY <1>5 DEF WatchReceives
  <2>2. logs' \o node \in Seq(Log) /\ <<Head(logs)>> \in Seq(Log)
    BY <1>4, ConcatProperties DEF IInv, SeqsOK
  <2>3. expected = (delivered \o <<Head(logs)>>) \o (logs' \o node)
    BY <1>3, <1>4, <2>2, ConcatAssociative
  <2>4. IInv'
    BY <1>1, <1>2, <1>4, <2>1, <2>3 DEF IInv, SeqsOK, InOrder, HandOK, EndOK, Running
  <2> QED
    BY <1>1, <2>1, <2>4 DEF Stream!vars
<1>6. CASE ~Head(logs).decodes
  <2>1. Return(TRUE)
    BY <1>6 DEF WatchReceives
  <2> QED
    BY <1>1, <1>2, <1>4, <2>1, ReturnStep
<1> QED
  BY <1>5, <1>6

\* The event in hand is the first that the client has not got.
LEMMA WatchSendsStep ==
    ASSUME IInv, WatchSends
    PROVE  IInv' /\ Stream!Deliver
<1>1. /\ goroutine = "send" /\ goroutine' = "select"
      /\ delivered' = delivered \o hand /\ hand' = <<>>
      /\ UNCHANGED <<query, expected, outcome, node, logs, sub, quit, close>>
  BY DEF WatchSends
<1>2. PICK l \in Log : hand = <<l>>
  BY <1>1 DEF IInv, HandOK
<1>3. outcome = "open"
  BY <1>1 DEF IInv, EndOK, Running
<1>4. delivered' = Append(delivered, l) /\ delivered' \in Seq(Log)
  BY <1>1, <1>2, AppendIsConcat, AppendProperties DEF IInv, SeqsOK
<1>5. /\ logs \o node \in Seq(Log)
      /\ delivered \in Seq(Log)
      /\ <<l>> \in Seq(Log)
  BY ConcatProperties DEF IInv, SeqsOK
<1>6. expected = delivered' \o (logs \o node)
  BY <1>1, <1>3 DEF IInv, InOrder
<1>7. Len(delivered) < Len(expected) /\ expected[Len(delivered) + 1] = l
  <2>1. /\ Len(expected) = Len(delivered') + Len(logs \o node)
        /\ \A i \in 1 .. Len(delivered') + Len(logs \o node) :
              expected[i] = IF i <= Len(delivered') THEN delivered'[i]
                            ELSE (logs \o node)[i - Len(delivered')]
    BY <1>4, <1>5, <1>6, ConcatProperties
  <2>2. /\ Len(delivered') = Len(delivered) + 1
        /\ delivered'[Len(delivered) + 1] = l
    BY <1>4, <1>5, AppendProperties
  <2>3. Len(delivered) \in Nat /\ Len(logs \o node) \in Nat
    BY <1>5, LenProperties
  <2> QED
    BY <2>1, <2>2, <2>3
<1>8. expected = (delivered' \o hand') \o (logs' \o node')
  BY <1>1, <1>4, <1>6, ConcatEmptySeq
<1>9. IInv'
  BY <1>1, <1>3, <1>4, <1>8 DEF IInv, SeqsOK, InOrder, HandOK, EndOK, Running
<1> QED
  BY <1>1, <1>3, <1>4, <1>7, <1>9 DEF Stream!Deliver

\* Every step keeps the invariant and is a step of the stream, or none.
LEMMA NextImplements ==
    ASSUME Indexed = Declared, IInv, [Next]_vars
    PROVE  IInv' /\ [Stream!Next]_Stream!vars
<1>1. CASE \E l \in Log : LogIsWritten(l)
  BY <1>1, LogIsWrittenStep DEF Stream!Next
<1>2. CASE Watch
  BY <1>2, WatchBegins DEF Stream!Next, Stream!Outcome
<1>3. CASE WatchReceives
  BY <1>3, WatchReceivesStep DEF Stream!Next, Stream!Outcome
<1>4. CASE WatchFails \/ WatchQuits
  <2>1. /\ Running /\ \E error \in BOOLEAN : Return(error)
        /\ UNCHANGED <<expected, delivered, node, logs>>
    BY <1>4 DEF WatchFails, WatchQuits, Running
  <2>2. logs' \in Seq(Log)
    BY <2>1 DEF IInv, SeqsOK
  <2> QED
    BY <2>1, <2>2, ReturnStep DEF Stream!Next, Stream!Outcome
<1>5. CASE WatchSends
  BY <1>5, WatchSendsStep DEF Stream!Next
<1>6. CASE Producer \/ SubscriptionFails \/ CallClose \/ CloseReturns
           \/ UNCHANGED vars
  BY <1>6, SilentStep
<1> QED
  BY <1>1, <1>2, <1>3, <1>4, <1>5, <1>6 DEF Next, WatchStep

\* A watcher delivers the events that occur while it is subscribed, in order and
\* without a gap, and none once the client was told of the end.
THEOREM WatcherImplementsStream ==
    ASSUME Indexed = Declared
    PROVE  Spec => Stream!Spec
<1>1. Init => IInv /\ Stream!Init
  BY InitIInv DEF Init, SubscriptionInit, Stream!Init
<1>2. IInv /\ [Next]_vars => IInv' /\ [Stream!Next]_Stream!vars
  BY NextImplements
<1> QED
  BY <1>1, <1>2, PTL DEF Spec, Stream!Spec

-----------------------------------------------------------------------------
(* The types, and what the composition of the bindings needs. *)

Good == IInv /\ SubscriptionTyped

LEMMA InitGood ==
    ASSUME Capacity \in Nat, Init
    PROVE  Good /\ Stream!Init
<1>1. IInv
  BY InitIInv
<1>2. Len(logs) <= Capacity
  <2>1. Len(<<>>) = 0
    OBVIOUS
  <2> QED
    BY <2>1 DEF Init, SubscriptionInit
<1> QED
  BY <1>1, <1>2 DEF Good, SubscriptionTyped, Init, SubscriptionInit, Stream!Init

LEMMA StepTyped ==
    ASSUME Capacity \in Nat, Good, [Next]_vars
    PROVE  SubscriptionTyped'
<1>1. SeqsOK /\ SubscriptionTyped
  BY DEF Good, IInv
<1>2. CASE \E l \in Log : LogIsWritten(l)
  BY <1>1, <1>2 DEF LogIsWritten, Occur, SubscriptionTyped, Query
<1>3. CASE Watch
  BY <1>1, <1>3 DEF Watch, SubscriptionTyped, Query
<1>4. CASE Producer
  BY <1>1, <1>4, FeedFits DEF Producer, Feed, SubscriptionTyped, Query
<1>5. CASE SubscriptionFails
  BY <1>1, <1>5 DEF SubscriptionFails, Fails, SubscriptionTyped, Query
<1>6. CASE WatchReceives
  <2>1. Len(logs') <= Capacity
    BY <1>1, <1>6, TakeFits DEF WatchReceives, SubscriptionTyped
  <2> QED
    BY <1>1, <1>6, <2>1 DEF WatchReceives, Return, SubscriptionTyped, Query
<1>7. CASE WatchFails \/ WatchQuits
  BY <1>1, <1>7 DEF WatchFails, WatchQuits, Return, SubscriptionTyped, Query
<1>8. CASE WatchSends
  BY <1>1, <1>8 DEF WatchSends, SubscriptionTyped, Query
<1>9. CASE CallClose
  BY <1>1, <1>9 DEF CallClose, CallUnsubscribe, Running, SubscriptionTyped, Query
<1>10. CASE CloseReturns
  BY <1>1, <1>10 DEF CloseReturns, UnsubscribeReturns, SubscriptionTyped, Query
<1>11. CASE UNCHANGED vars
  BY <1>1, <1>11 DEF vars, subVars, SubscriptionTyped, Query
<1> QED
  BY <1>2, <1>3, <1>4, <1>5, <1>6, <1>7, <1>8, <1>9, <1>10, <1>11 DEF Next, WatchStep

\* A step, in terms that a larger module can use.
LEMMA StepGood ==
    ASSUME Capacity \in Nat, Indexed = Declared, Good, [Next]_vars
    PROVE  Good' /\ [Stream!Next]_Stream!vars
BY StepTyped, NextImplements DEF Good

\* The goroutine sends exactly when it has an event in its hand.
LEMMA HandTyped ==
    ASSUME Good, NEW E, Log \subseteq E
    PROVE  /\ hand \in Seq(E)
           /\ goroutine \in {"none", "select", "send", "returned"}
           /\ (goroutine = "send") = (hand # <<>>)
<1>1. hand \in Seq(Log)
  BY HandIsSeq DEF Good, IInv
<1>2. (goroutine = "send") = (hand # <<>>)
  BY DEF Good, IInv, HandOK
<1> QED
  BY <1>1, <1>2 DEF Good, IInv, EndOK

\* In a state that is good the sequences are also sequences over a larger set.
LEMMA GoodSeqs ==
    ASSUME Good, NEW E, Log \subseteq E
    PROVE  \A s \in {expected, delivered, node, logs} : s \in Seq(E)
BY SeqsOver DEF Good, IInv
=============================================================================
