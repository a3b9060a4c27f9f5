---------------------------- MODULE EventWatcher ----------------------------
(***************************************************************************)
(* The subscription that abigen generates for an event: WatchX subscribes  *)
(* at the node and starts a goroutine that decodes each log and sends it   *)
(* to the client's channel, until the subscription fails or the client     *)
(* unsubscribes.  The client need not read its channel.                    *)
(***************************************************************************)
EXTENDS EventSubscription

VARIABLES
    goroutine,  \* "none", at the outer or inner "select", "send", or "returned"
    hand        \* the event it is sending

subVars   == <<query, expected, delivered, outcome, node, logs, sub, quit, close>>
watchVars == <<goroutine, hand>>
vars      == <<subVars, watchVars>>

Init ==
    /\ SubscriptionInit
    /\ goroutine = "none"
    /\ hand = <<>>

\* WatchX: the node subscribes the client, or there is no subscription.
Watch ==
    /\ goroutine = "none"
    /\ outcome = "open"
    /\ \/ /\ goroutine' = "select"
          /\ sub' = "open"
          /\ UNCHANGED outcome
       \/ /\ outcome' = "failed"
          /\ UNCHANGED <<goroutine, sub>>
    /\ UNCHANGED <<query, expected, delivered, node, logs, quit, close, hand>>

\* The client is sent the events from now on.
LogIsWritten(l) == sub = "open" /\ Occur(l) /\ UNCHANGED watchVars

Producer == Feed /\ UNCHANGED watchVars

SubscriptionFails == Fails /\ UNCHANGED watchVars

\* The goroutine returns and unsubscribes at the node.  Its error is passed on
\* to the client unless that has unsubscribed.
Return(error) ==
    /\ goroutine' = "returned"
    /\ hand' = <<>>
    /\ sub' = "ended"
    /\ outcome' = IF error /\ ~quit THEN "failed" ELSE "closed"

\* A wrong goroutine that drops a log that does not decode.
WatchReceives_skips ==
    /\ goroutine = "select"
    /\ logs # <<>>
    /\ logs' = Tail(logs)
    /\ IF Head(logs).decodes
       THEN goroutine' = "send" /\ hand' = <<Head(logs)>>
       ELSE UNCHANGED <<goroutine, hand>>
    /\ UNCHANGED <<query, expected, delivered, outcome, sub, node, quit, close>>

WatchReceives ==
    /\ goroutine = "select"
    /\ logs # <<>>
    /\ logs' = Tail(logs)
    /\ IF Head(logs).decodes
       THEN /\ goroutine' = "send"
            /\ hand' = <<Head(logs)>>
            /\ UNCHANGED <<outcome, sub>>
       ELSE Return(TRUE)
    /\ UNCHANGED <<query, expected, delivered, node, quit, close>>

\* A wrong goroutine that returns after an event.
WatchSends_once ==
    /\ goroutine = "send"
    /\ goroutine' = "returned"
    /\ delivered' = delivered \o hand
    /\ hand' = <<>>
    /\ UNCHANGED <<query, expected, outcome, node, logs, sub, quit, close>>

\* A wrong goroutine that keeps the event it has sent.
WatchSends_keeps ==
    /\ goroutine = "send"
    /\ goroutine' = "select"
    /\ delivered' = delivered \o hand
    /\ UNCHANGED <<query, expected, outcome, node, logs, sub, quit, close, hand>>

\* The client reads the event.
WatchSends ==
    /\ goroutine = "send"
    /\ goroutine' = "select"
    /\ delivered' = delivered \o hand
    /\ hand' = <<>>
    /\ UNCHANGED <<query, expected, outcome, node, logs, sub, quit, close>>

\* A wrong goroutine that does not look for errors while it sends.
WatchFails_outer ==
    /\ goroutine = "select"
    /\ sub = "failed"
    /\ Return(TRUE)
    /\ UNCHANGED <<query, expected, delivered, node, logs, quit, close>>

\* Both selects end the goroutine when the subscription fails,
WatchFails ==
    /\ goroutine \in {"select", "send"}
    /\ sub = "failed"
    /\ Return(TRUE)
    /\ UNCHANGED <<query, expected, delivered, node, logs, quit, close>>

\* A wrong goroutine that does not look at quit while it sends.
WatchQuits_outer ==
    /\ goroutine = "select"
    /\ quit
    /\ Return(FALSE)
    /\ UNCHANGED <<query, expected, delivered, node, logs, quit, close>>

\* and when the client unsubscribes.
WatchQuits ==
    /\ goroutine \in {"select", "send"}
    /\ quit
    /\ Return(FALSE)
    /\ UNCHANGED <<query, expected, delivered, node, logs, quit, close>>

WatchStep == WatchReceives \/ WatchFails \/ WatchQuits

Running == goroutine \in {"select", "send"}

CallClose == CallUnsubscribe(Running) /\ UNCHANGED watchVars

CloseReturns == UnsubscribeReturns(Running) /\ UNCHANGED watchVars

Next ==
    \/ \E l \in Log : LogIsWritten(l)
    \/ Watch
    \/ Producer
    \/ SubscriptionFails
    \/ WatchStep
    \/ WatchSends
    \/ CallClose
    \/ CloseReturns

\* The node sends its logs, and the goroutine and Unsubscribe go on when they
\* can, except that nobody has to read the event being sent.
Fairness == WF_vars(Producer) /\ WF_vars(WatchStep) /\ WF_vars(CloseReturns)

Spec == Init /\ [][Next]_vars /\ Fairness
=============================================================================
