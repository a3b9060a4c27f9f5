------------------------- MODULE EventSubscription -------------------------
(***************************************************************************)
(* What the generated bindings of the contracts (bundler/src/abi) have in  *)
(* common for every event: the question they ask the node, and the         *)
(* subscription of go-ethereum they get the logs from.                     *)
(*                                                                         *)
(* A client gives a list of values for each indexed argument of an event;  *)
(* an empty list stands for any value.  The node knows the arguments by    *)
(* their place among the topics of a log only.                             *)
(***************************************************************************)
EXTENDS Integers, SequencesExt

CONSTANTS
    Declared,   \* the indexed arguments, as the contract declares the event
    Indexed,    \* the order in which the binding passes its rules
    Value,      \* values of indexed arguments
    Lists,      \* the lists a client may give for an argument
    Capacity,   \* capacity of the channel of logs (128 in go-ethereum)
    MaxEvents   \* bound: events on the chain that are asked for

VARIABLES
    query,      \* query[x]: the list given for argument x
    expected,   \* history: the events asked for, in the order of the chain
    delivered,  \* history: those the client received
    outcome,    \* what the client was told of the stream's end
    node,       \* the logs the node has for the client
    logs,       \* the channel of logs
    sub,        \* the subscription: "none", "open", "failed" or "ended"
    quit,       \* the channel that asks its producer to stop is closed
    close       \* a call of Close or Unsubscribe: "none", "called", "returned"

\* A log may fail to decode as the event it has the signature of.
Log == [topics : [1 .. Len(Declared) -> Value], decodes : BOOLEAN]

Query == [ToSet(Declared) -> Lists]

\* A wrong binding that passes its rules in another order.
rules_reversed == [i \in DOMAIN Indexed |-> query[Indexed[Len(Indexed) + 1 - i]]]

\* A wrong binding that leaves the last list out.
rules_last == [i \in DOMAIN Indexed |-> IF i = Len(Indexed) THEN {} ELSE query[Indexed[i]]]

\* The rules that the binding makes of the client's lists.
rules == [i \in DOMAIN Indexed |-> query[Indexed[i]]]

Admits(list, v) == list = {} \/ v \in list

\* The node compares rules and topics by their place.
Matches(l) == \A i \in DOMAIN rules : Admits(rules[i], l.topics[i])

\* What the client meant.
Asked(l) == \A i \in DOMAIN Declared : Admits(query[Declared[i]], l.topics[i])

SubscriptionInit ==
    /\ query \in Query
    /\ expected = <<>>
    /\ delivered = <<>>
    /\ outcome = "open"
    /\ node = <<>>
    /\ logs = <<>>
    /\ sub = "none"
    /\ quit = FALSE
    /\ close = "none"

\* The contract emits an event.
Occur(l) ==
    /\ outcome = "open"
    /\ Len(expected) < MaxEvents
    /\ expected' = IF Asked(l) THEN Append(expected, l) ELSE expected
    /\ node' = IF Matches(l) THEN Append(node, l) ELSE node
    /\ UNCHANGED <<query, delivered, outcome, logs, sub, quit, close>>

\* A log moves to the channel, when there is room.
Feed ==
    /\ sub = "open"
    /\ node # <<>>
    /\ Len(logs) < Capacity
    /\ logs' = Append(logs, Head(node))
    /\ node' = Tail(node)
    /\ UNCHANGED <<query, expected, delivered, outcome, sub, quit, close>>

\* The connection to the node is lost.
Fails ==
    /\ sub = "open"
    /\ ~quit
    /\ sub' = "failed"
    /\ UNCHANGED <<query, expected, delivered, outcome, node, logs, quit, close>>

\* Unsubscribe asks a producer that is running to stop and waits for its end.
CallUnsubscribe(running) ==
    /\ sub # "none"
    /\ close = "none"
    /\ close' = "called"
    /\ quit' = running
    /\ UNCHANGED <<query, expected, delivered, outcome, node, logs, sub>>

UnsubscribeReturns(running) ==
    /\ close = "called"
    /\ ~running
    /\ close' = "returned"
    /\ UNCHANGED <<query, expected, delivered, outcome, node, logs, sub, quit>>
=============================================================================
