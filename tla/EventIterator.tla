--------------------------- MODULE EventIterator ---------------------------
(***************************************************************************)
(* The iterator that abigen generates for an event: FilterX asks the node  *)
(* for the logs there are, a goroutine of go-ethereum passes them to a     *)
(* channel, Next takes them from it one by one, and Close stops the        *)
(* goroutine, perhaps while another goroutine of the client is in Next.    *)
(***************************************************************************)
EXTENDS EventSubscription

VARIABLES
    done,   \* it.done: the subscription has ended
    fail,   \* it.fail # nil
    next    \* a call of Next: "returned" or "called"

subVars  == <<query, expected, delivered, outcome, node, logs, sub, quit, close>>
iterVars == <<done, fail, next>>
vars     == <<subVars, iterVars>>

Init ==
    /\ SubscriptionInit
    /\ done = FALSE
    /\ fail = FALSE
    /\ next = "returned"

\* Events occur until the node is asked.
LogIsWritten(l) == sub = "none" /\ Occur(l) /\ UNCHANGED iterVars

\* FilterX: the node answers with the logs it has, or there is no iterator.
Filter ==
    /\ sub = "none"
    /\ outcome = "open"
    /\ \/ sub' = "open" /\ UNCHANGED outcome
       \/ outcome' = "failed" /\ UNCHANGED sub
    /\ UNCHANGED <<query, expected, delivered, node, logs, quit, close, iterVars>>

\* The goroutine that passes the logs on ends after the last one, or when it is
\* asked to.
ProducerEnds ==
    /\ sub = "open"
    /\ node = <<>> \/ quit
    /\ sub' = "ended"
    /\ UNCHANGED <<query, expected, delivered, outcome, node, logs, quit, close, iterVars>>

Producer == (Feed /\ UNCHANGED iterVars) \/ ProducerEnds

SubscriptionFails == Fails /\ UNCHANGED iterVars

CallNext ==
    /\ sub # "none"
    /\ next = "returned"
    /\ next' = "called"
    /\ UNCHANGED <<subVars, done, fail>>

\* A log is taken when there is one, also when the subscription has ended; one
\* that does not decode is an error.
NextReceives ==
    /\ next = "called"
    /\ ~fail
    /\ logs # <<>>
    /\ logs' = Tail(logs)
    /\ IF Head(logs).decodes
       THEN /\ delivered' = Append(delivered, Head(logs))
            /\ next' = "returned"
            /\ UNCHANGED fail
       ELSE /\ fail' = TRUE
            /\ UNCHANGED <<delivered, next>>
    /\ UNCHANGED <<query, expected, outcome, node, sub, quit, close, done>>

\* A wrong Next that does not note that the subscription has ended.
NextEnds_forgets ==
    /\ next = "called"
    /\ ~fail /\ ~done
    /\ sub \in {"failed", "ended"}
    /\ fail' = (sub = "failed")
    /\ UNCHANGED <<subVars, done, next>>

\* The select takes the end of the subscription, maybe before logs that are in
\* the channel; Next starts again.
NextEnds ==
    /\ next = "called"
    /\ ~fail /\ ~done
    /\ sub \in {"failed", "ended"}
    /\ done' = TRUE
    /\ fail' = (sub = "failed")
    /\ UNCHANGED <<subVars, next>>

\* What Error tells a client when Next has returned false, and what the client
\* knows of its own Close.
Ending == CASE fail -> "failed"
            [] ~fail /\ quit -> "closed"
            [] OTHER -> "complete"

\* A wrong Next that returns false at the end of the subscription whatever is
\* left in the channel.
NextReturnsFalse_early ==
    /\ next = "called"
    /\ fail \/ done
    /\ next' = "returned"
    /\ outcome' = IF outcome = "open" THEN Ending ELSE outcome
    /\ UNCHANGED <<query, expected, delivered, node, logs, sub, quit, close, done, fail>>

NextReturnsFalse ==
    /\ next = "called"
    /\ fail \/ (done /\ logs = <<>>)
    /\ next' = "returned"
    /\ outcome' = IF outcome = "open" THEN Ending ELSE outcome
    /\ UNCHANGED <<query, expected, delivered, node, logs, sub, quit, close, done, fail>>

NextStep == NextReceives \/ NextEnds \/ NextReturnsFalse

CallClose == CallUnsubscribe(sub = "open") /\ UNCHANGED iterVars

CloseReturns == UnsubscribeReturns(sub = "open") /\ UNCHANGED iterVars

Next ==
    \/ \E l \in Log : LogIsWritten(l)
    \/ Filter
    \/ Producer
    \/ SubscriptionFails
    \/ CallNext
    \/ NextStep
    \/ CallClose
    \/ CloseReturns

\* The producer runs, and a call of Next or Close that can go on does.
Fairness == WF_vars(Producer) /\ WF_vars(NextStep) /\ WF_vars(CloseReturns)

Spec == Init /\ [][Next]_vars /\ Fairness
=============================================================================
