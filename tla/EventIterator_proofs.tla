------------------------ MODULE EventIterator_proofs ------------------------
(***************************************************************************)
(* The iterator of any event whose rules are in the order of the contract  *)
(* implements EventStream, for all lists, capacities and lengths.          *)
(***************************************************************************)
EXTENDS EventIterator, EventSubscription_proofs

Stream == INSTANCE EventStream WITH Event <- Log

\* The events that are expected are those delivered, then those in the channel,
\* then those not there yet.  A log that was taken and did not decode is
\* missing, after which nothing is delivered.
InOrder == ~fail => expected = delivered \o (logs \o node)

\* Nothing has happened before the node was asked.
NotAsked == sub = "none" => /\ logs = <<>> /\ delivered = <<>>
                            /\ ~fail /\ ~done /\ next = "returned"

\* The subscription ends after the last log unless it is asked to; Next sees
\* its end, and its error, only when it is there.
EndOK ==
    /\ sub \in {"none", "open", "failed", "ended"}
    /\ sub = "ended" => node = <<>> \/ quit
    /\ done => sub \in {"failed", "ended"}
    /\ done /\ sub = "failed" => fail
    /\ close = "none" => ~quit

\* Once the client was told of the end, there is nothing more to deliver.
NoMore == outcome # "open" => sub = "none" \/ fail \/ (done /\ logs = <<>>)

IInv == SeqsOK /\ InOrder /\ NotAsked /\ EndOK /\ NoMore

LEMMA InitIInv == Init => IInv
<1> SUFFICES ASSUME Init PROVE IInv
  OBVIOUS
<1>1. <<>> = <<>> \o (<<>> \o <<>>) /\ <<>> \in Seq(Log)
  BY EmptySeq, ConcatEmptySeq
<1> QED
  BY <1>1 DEF Init, SubscriptionInit, IInv, SeqsOK, InOrder, NotAsked, EndOK, NoMore

\* An event that occurs before the node is asked.
LEMMA LogIsWrittenStep ==
    ASSUME Indexed = Declared, IInv, NEW l \in Log, LogIsWritten(l)
    PROVE  IInv' /\ (Stream!Occur(l) \/ UNCHANGED Stream!vars)
<1>1. /\ sub = "none" /\ Occur(l)
      /\ UNCHANGED <<query, delivered, outcome, logs, sub, quit, close, iterVars>>
      /\ ~fail /\ outcome = "open"
  BY DEF LogIsWritten, Occur, IInv, NotAsked
<1>2. SeqsOK' /\ expected' = delivered \o (logs' \o node')
  BY <1>1, OccurInOrder DEF IInv, InOrder, SeqsOK
<1>3. NotAsked' /\ EndOK' /\ NoMore' /\ InOrder'
  BY <1>1, <1>2 DEF IInv, NotAsked, EndOK, NoMore, InOrder, iterVars
<1>4. expected' = Append(expected, l) \/ expected' = expected
  BY DEF LogIsWritten, Occur
<1> QED
  BY <1>1, <1>2, <1>3, <1>4 DEF IInv, Stream!Occur, Stream!vars

\* The steps of the producer, of the network and of the client's calls deliver
\* nothing.
LEMMA SilentStep ==
    ASSUME IInv, Producer \/ SubscriptionFails \/ CallNext \/ CallClose
                 \/ CloseReturns \/ NextEnds \/ UNCHANGED vars
    PROVE  IInv' /\ UNCHANGED Stream!vars
<1>1. CASE Feed /\ UNCHANGED iterVars
  <2>1. SeqsOK' /\ logs' \o node' = logs \o node
    BY <1>1, FeedInOrder DEF IInv
  <2>2. InOrder'
    BY <1>1, <2>1 DEF IInv, InOrder, Feed, iterVars
  <2>3. NotAsked' /\ EndOK' /\ NoMore'
    BY <1>1 DEF IInv, NotAsked, EndOK, NoMore, Feed, iterVars
  <2> QED
    BY <1>1, <2>1, <2>2, <2>3 DEF IInv, Feed, Stream!vars
<1>2. CASE ProducerEnds
  BY <1>2 DEF ProducerEnds, IInv, SeqsOK, InOrder, NotAsked, EndOK, NoMore,
              iterVars, Stream!vars
<1>3. CASE SubscriptionFails
  BY <1>3 DEF SubscriptionFails, Fails, IInv, SeqsOK, InOrder, NotAsked, EndOK,
              NoMore, iterVars, Stream!vars
<1>4. CASE CallNext
  BY <1>4 DEF CallNext, IInv, SeqsOK, InOrder, NotAsked, EndOK, NoMore, subVars,
              Stream!vars
<1>5. CASE CallClose
  BY <1>5 DEF CallClose, CallUnsubscribe, IInv, SeqsOK, InOrder, NotAsked, EndOK,
              NoMore, iterVars, Stream!vars
<1>6. CASE CloseReturns
  BY <1>6 DEF CloseReturns, UnsubscribeReturns, IInv, SeqsOK, InOrder, NotAsked,
              EndOK, NoMore, iterVars, Stream!vars
<1>7. CASE NextEnds
  BY <1>7 DEF NextEnds, IInv, SeqsOK, InOrder, NotAsked, EndOK, NoMore, subVars,
              Stream!vars
<1>8. CASE UNCHANGED vars
  BY <1>8 DEF vars, subVars, iterVars, IInv, SeqsOK, InOrder, NotAsked, EndOK,
              NoMore, Stream!vars
<1> QED
  BY <1>1, <1>2, <1>3, <1>4, <1>5, <1>6, <1>7, <1>8 DEF Producer

\* The node is asked, or cannot be.
LEMMA FilterStep ==
    ASSUME IInv, Filter
    PROVE  IInv' /\ (Stream!End("failed") \/ UNCHANGED Stream!vars)
<1>1. IInv'
  BY DEF Filter, IInv, SeqsOK, InOrder, NotAsked, EndOK, NoMore, iterVars
<1> QED
  BY <1>1 DEF Filter, Stream!End, Stream!vars

\* Next delivers the first event that is left, or nothing more.
LEMMA NextReceivesStep ==
    ASSUME IInv, NextReceives
    PROVE  IInv' /\ (Stream!Deliver \/ UNCHANGED Stream!vars)
<1>1. /\ logs # <<>> /\ logs' = Tail(logs) /\ ~fail
      /\ UNCHANGED <<query, expected, outcome, node, sub, quit, close, done>>
      /\ next = "called"
  BY DEF NextReceives
<1>2. /\ logs' \in Seq(Log)
      /\ Head(logs) \in Log
      /\ expected = delivered \o (<<Head(logs)>> \o (logs' \o node))
  BY <1>1, TakeInOrder DEF IInv, InOrder, SeqsOK
<1>3. outcome = "open" /\ sub # "none"
  BY <1>1 DEF IInv, NoMore, NotAsked
<1>4. CASE ~Head(logs).decodes
  <2>1. fail' /\ delivered' = delivered
    BY <1>4 DEF NextReceives
  <2>2. IInv'
    BY <1>1, <1>2, <1>3, <2>1
    DEF IInv, SeqsOK, InOrder, NotAsked, EndOK, NoMore
  <2> QED
    BY <1>1, <2>1, <2>2 DEF Stream!vars
<1>5. CASE Head(logs).decodes
  <2>1. ~fail' /\ delivered' = Append(delivered, Head(logs))
    BY <1>1, <1>5 DEF NextReceives
  <2> DEFINE rest == <<Head(logs)>> \o (logs' \o node)
  <2>2. /\ logs' \o node \in Seq(Log)
        /\ <<Head(logs)>> \in Seq(Log)
    BY <1>2, ConcatProperties DEF IInv, SeqsOK
  <2>3. /\ rest \in Seq(Log)
        /\ rest # <<>>
        /\ rest = Append(<<>>, Head(logs)) \o (logs' \o node)
    <3>1. rest \in Seq(Log) /\ Len(rest) = 1 + Len(logs' \o node)
      BY <2>2, ConcatProperties
    <3>2. Len(logs' \o node) \in Nat
      BY <2>2, LenProperties
    <3>3. Append(<<>>, Head(logs)) = <<Head(logs)>>
      OBVIOUS
    <3> QED
      BY <3>1, <3>2, <3>3, EmptySeq
  <2>4. Head(rest) = Head(logs)
    <3>1. rest[1] = <<Head(logs)>>[1]
      <4>1. 1 \in 1 .. Len(<<Head(logs)>>) + Len(logs' \o node) /\ 1 <= Len(<<Head(logs)>>)
        BY <2>2, LenProperties
      <4> QED
        BY <2>2, <4>1, ConcatProperties
    <3> QED
      BY <2>3, <3>1
  <2>5. Len(delivered) < Len(expected) /\ expected[Len(delivered) + 1] = Head(logs)
    BY <1>2, <2>3, <2>4, NextInOrder DEF IInv, SeqsOK
  <2>6. delivered' = delivered \o <<Head(logs)>> /\ delivered' \in Seq(Log)
    BY <1>2, <2>1, AppendIsConcat, AppendProperties DEF IInv, SeqsOK
  <2>7. expected = delivered' \o (logs' \o node)
    <3>1. delivered \in Seq(Log)
      BY DEF IInv, SeqsOK
    <3>2. delivered \o (<<Head(logs)>> \o (logs' \o node))
            = (delivered \o <<Head(logs)>>) \o (logs' \o node)
      BY <2>2, <3>1, ConcatAssociative
    <3> QED
      BY <1>2, <2>3, <2>6, <3>2
  <2>8. IInv'
    BY <1>1, <1>2, <1>3, <2>1, <2>6, <2>7
    DEF IInv, SeqsOK, InOrder, NotAsked, EndOK, NoMore
  <2>9. Stream!Deliver
    BY <1>1, <1>3, <2>1, <2>5 DEF Stream!Deliver
  <2> QED
    BY <2>8, <2>9
<1> QED
  BY <1>4, <1>5

\* Next tells the client the truth about the end.
LEMMA NextReturnsFalseStep ==
    ASSUME IInv, NextReturnsFalse
    PROVE  IInv' /\ (UNCHANGED Stream!vars
                     \/ \E o \in Stream!Outcome \ {"open"} : Stream!End(o))
<1>1. IInv'
  BY DEF NextReturnsFalse, IInv, SeqsOK, InOrder, NotAsked, EndOK, NoMore
<1>2. ASSUME outcome = "open" PROVE Stream!End(Ending)
  <2>1. CASE Ending = "complete"
    <3>1. ~fail /\ ~quit /\ done /\ logs = <<>>
      BY <2>1 DEF Ending, NextReturnsFalse
    <3>2. node = <<>>
      BY <3>1 DEF IInv, EndOK
    <3>3. expected = delivered
      BY <3>1, <3>2, ConcatEmptySeq, EmptySeq DEF IInv, InOrder, SeqsOK
    <3> QED
      BY <1>2, <3>3 DEF NextReturnsFalse, Stream!End
  <2>2. CASE Ending # "complete"
    BY <1>2, <2>2 DEF NextReturnsFalse, Stream!End
  <2> QED
    BY <2>1, <2>2
<1>3. Ending \in Stream!Outcome \ {"open"}
  BY DEF Ending, Stream!Outcome
<1>4. CASE outcome # "open"
  BY <1>1, <1>4 DEF NextReturnsFalse, Stream!vars
<1> QED
  BY <1>1, <1>2, <1>3, <1>4

\* Every step keeps the invariant and is a step of the stream, or none.
LEMMA NextImplements ==
    ASSUME Indexed = Declared, IInv, [Next]_vars
    PROVE  IInv' /\ [Stream!Next]_Stream!vars
<1>1. CASE \E l \in Log : LogIsWritten(l)
  BY <1>1, LogIsWrittenStep DEF Stream!Next
<1>2. CASE Filter
  BY <1>2, FilterStep DEF Stream!Next, Stream!Outcome
<1>3. CASE NextReceives
  BY <1>3, NextReceivesStep DEF Stream!Next
<1>4. CASE NextReturnsFalse
  BY <1>4, NextReturnsFalseStep DEF Stream!Next
<1>5. CASE Producer \/ SubscriptionFails \/ CallNext \/ CallClose \/ CloseReturns
           \/ NextEnds \/ UNCHANGED vars
  BY <1>5, SilentStep
<1> QED
  BY <1>1, <1>2, <1>3, <1>4, <1>5 DEF Next, NextStep

\* An iterator delivers what was asked for, in order and without a gap, and ends
\* without an error or a Close only when it delivered all.
THEOREM IteratorImplementsStream ==
    ASSUME Indexed = Declared
    PROVE  Spec => Stream!Spec
<1>1. Init => IInv /\ Stream!Init
  BY InitIInv DEF Init, SubscriptionInit, Stream!Init
<1>2. IInv /\ [Next]_vars => IInv' /\ [Stream!Next]_Stream!vars
  BY NextImplements
<1> QED
  BY <1>1, <1>2, PTL DEF Spec, Stream!Spec

-----------------------------------------------------------------------------
(* The types, and what the composition of the bindings needs. *)

Typed ==
    /\ SubscriptionTyped
    /\ next \in {"called", "returned"}
    /\ {done, fail} \subseteq BOOLEAN

Good == IInv /\ Typed

LEMMA InitGood ==
    ASSUME Capacity \in Nat, Init
    PROVE  Good /\ Stream!Init
<1>1. IInv
  BY InitIInv
<1>2. Len(logs) <= Capacity
  <2>1. Len(<<>>) = 0
    OBVIOUS
  <2> QED
    BY <2>1 DEF Init, SubscriptionInit
<1> QED
  BY <1>1, <1>2 DEF Good, Typed, SubscriptionTyped, Init, SubscriptionInit,
                     Stream!Init

LEMMA StepTyped ==
    ASSUME Capacity \in Nat, Good, [Next]_vars
    PROVE  Typed'
<1>1. SeqsOK /\ Typed /\ SubscriptionTyped
  BY DEF Good, IInv, Typed
<1>2. CASE \E l \in Log : LogIsWritten(l)
  BY <1>1, <1>2 DEF LogIsWritten, Occur, iterVars, Typed, SubscriptionTyped, Query
<1>3. CASE Filter
  BY <1>1, <1>3 DEF Filter, iterVars, Typed, SubscriptionTyped, Query
<1>4. CASE Feed /\ UNCHANGED iterVars
  BY <1>1, <1>4, FeedFits DEF Feed, iterVars, Typed, SubscriptionTyped, Query
<1>5. CASE ProducerEnds
  BY <1>1, <1>5 DEF ProducerEnds, iterVars, Typed, SubscriptionTyped, Query
<1>6. CASE SubscriptionFails
  BY <1>1, <1>6 DEF SubscriptionFails, Fails, iterVars, Typed, SubscriptionTyped, Query
<1>7. CASE CallNext
  BY <1>1, <1>7 DEF CallNext, subVars, Typed, SubscriptionTyped, Query
<1>8. CASE NextReceives
  <2>1. Len(logs') <= Capacity
    BY <1>1, <1>8, TakeFits DEF NextReceives, SubscriptionTyped
  <2> QED
    BY <1>1, <1>8, <2>1 DEF NextReceives, Typed, SubscriptionTyped, Query
<1>9. CASE NextEnds
  BY <1>1, <1>9 DEF NextEnds, subVars, Typed, SubscriptionTyped, Query
<1>10. CASE NextReturnsFalse
  <2>1. Ending \in {"open", "complete", "failed", "closed"}
    BY DEF Ending
  <2> QED
    BY <1>1, <1>10, <2>1 DEF NextReturnsFalse, Typed, SubscriptionTyped, Query
<1>11. CASE CallClose
  BY <1>1, <1>11 DEF CallClose, CallUnsubscribe, iterVars, Typed, SubscriptionTyped, Query
<1>12. CASE CloseReturns
  BY <1>1, <1>12 DEF CloseReturns, UnsubscribeReturns, iterVars, Typed,
                     SubscriptionTyped, Query
<1>13. CASE UNCHANGED vars
  BY <1>1, <1>13 DEF vars, subVars, iterVars, Typed, SubscriptionTyped, Query
<1> QED
  BY <1>2, <1>3, <1>4, <1>5, <1>6, <1>7, <1>8, <1>9, <1>10, <1>11, <1>12, <1>13
  DEF Next, NextStep, Producer

\* A step, in terms that a larger module can use.
LEMMA StepGood ==
    ASSUME Capacity \in Nat, Indexed = Declared, Good, [Next]_vars
    PROVE  Good' /\ [Stream!Next]_Stream!vars
BY StepTyped, NextImplements DEF Good

\* In a state that is good the sequences are also sequences over a larger set.
LEMMA GoodSeqs ==
    ASSUME Good, NEW E, Log \subseteq E
    PROVE  \A s \in {expected, delivered, node, logs} : s \in Seq(E)
BY SeqsOver DEF Good, IInv
=============================================================================
