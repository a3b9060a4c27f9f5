--------------------------- MODULE EventBindings ---------------------------
(***************************************************************************)
(* The bindings of the events of the EntryPoint and of the token that      *)
(* abigen generated for the bundler (bundler/src/abi/entrypoint.go and     *)
(* erc20.go): one iterator and one watcher per event, which differ in the  *)
(* indexed arguments and their order.  A client uses one of them here.     *)
(* The instances are of the modules with the theorems about any iterator   *)
(* and any watcher, so that these are theorems about each binding.         *)
(***************************************************************************)
EXTENDS Integers, SequencesExt

CONSTANTS Value, Lists, Capacity, MaxEvents  \* see EventSubscription

ASSUME EventBindingsAssumption == Capacity \in Nat

VARIABLES
    query, expected, delivered, outcome, node, logs, sub, quit, close,
    done, fail, next,  \* of EventIterator
    goroutine, hand,   \* of EventWatcher
    binding            \* the binding that is used: <<operation, event>>

subVars   == <<query, expected, delivered, outcome, node, logs, sub, quit, close>>
iterVars  == <<done, fail, next>>
watchVars == <<goroutine, hand>>
vars == <<subVars, iterVars, watchVars, binding>>

\* The indexed arguments of the events (contracts/interfaces/IEntryPoint.sol,
\* IStakeManager.sol and the ERC-20 standard).
Declared == [
    Deposited                 |-> <<"account">>,
    StakeLocked               |-> <<"account">>,
    StakeUnlocked             |-> <<"account">>,
    StakeWithdrawn            |-> <<"account">>,
    UserOperationEvent        |-> <<"requestId", "sender", "paymaster">>,
    UserOperationRevertReason |-> <<"requestId", "sender">>,
    Withdrawn                 |-> <<"account">>,
    Approval                  |-> <<"owner", "spender">>,
    Transfer                  |-> <<"from", "to">>]

FilterDeposited == INSTANCE EventIterator_proofs WITH
    Declared <- Declared.Deposited, Indexed <- <<"account">>

WatchDeposited == INSTANCE EventWatcher_proofs WITH
    Declared <- Declared.Deposited, Indexed <- <<"account">>

FilterStakeLocked == INSTANCE EventIterator_proofs WITH
    Declared <- Declared.StakeLocked, Indexed <- <<"account">>

WatchStakeLocked == INSTANCE EventWatcher_proofs WITH
    Declared <- Declared.StakeLocked, Indexed <- <<"account">>

FilterStakeUnlocked == INSTANCE EventIterator_proofs WITH
    Declared <- Declared.StakeUnlocked, Indexed <- <<"account">>

WatchStakeUnlocked == INSTANCE EventWatcher_proofs WITH
    Declared <- Declared.StakeUnlocked, Indexed <- <<"account">>

FilterStakeWithdrawn == INSTANCE EventIterator_proofs WITH
    Declared <- Declared.StakeWithdrawn, Indexed <- <<"account">>

WatchStakeWithdrawn == INSTANCE EventWatcher_proofs WITH
    Declared <- Declared.StakeWithdrawn, Indexed <- <<"account">>

FilterUserOperationEvent == INSTANCE EventIterator_proofs WITH
    Declared <- Declared.UserOperationEvent, Indexed <- <<"requestId", "sender", "paymaster">>

WatchUserOperationEvent == INSTANCE EventWatcher_proofs WITH
    Declared <- Declared.UserOperationEvent, Indexed <- <<"requestId", "sender", "paymaster">>

FilterUserOperationRevertReason == INSTANCE EventIterator_proofs WITH
    Declared <- Declared.UserOperationRevertReason, Indexed <- <<"requestId", "sender">>

WatchUserOperationRevertReason == INSTANCE EventWatcher_proofs WITH
    Declared <- Declared.UserOperationRevertReason, Indexed <- <<"requestId", "sender">>

FilterWithdrawn == INSTANCE EventIterator_proofs WITH
    Declared <- Declared.Withdrawn, Indexed <- <<"account">>

WatchWithdrawn == INSTANCE EventWatcher_proofs WITH
    Declared <- Declared.Withdrawn, Indexed <- <<"account">>

FilterApproval == INSTANCE EventIterator_proofs WITH
    Declared <- Declared.Approval, Indexed <- <<"owner", "spender">>

WatchApproval == INSTANCE EventWatcher_proofs WITH
    Declared <- Declared.Approval, Indexed <- <<"owner", "spender">>

FilterTransfer == INSTANCE EventIterator_proofs WITH
    Declared <- Declared.Transfer, Indexed <- <<"from", "to">>

WatchTransfer == INSTANCE EventWatcher_proofs WITH
    Declared <- Declared.Transfer, Indexed <- <<"from", "to">>

-----------------------------------------------------------------------------
Filters(event) ==
    /\ binding = <<"Filter", event>>
    /\ UNCHANGED <<watchVars, binding>>

Watches(event) ==
    /\ binding = <<"Watch", event>>
    /\ UNCHANGED <<iterVars, binding>>

FilterInit ==
    /\ goroutine = "none"
    /\ hand = <<>>
    /\ \/ binding = <<"Filter", "Deposited">> /\ FilterDeposited!Init
       \/ binding = <<"Filter", "StakeLocked">> /\ FilterStakeLocked!Init
       \/ binding = <<"Filter", "StakeUnlocked">> /\ FilterStakeUnlocked!Init
       \/ binding = <<"Filter", "StakeWithdrawn">> /\ FilterStakeWithdrawn!Init
       \/ binding = <<"Filter", "UserOperationEvent">> /\ FilterUserOperationEvent!Init
       \/ binding = <<"Filter", "UserOperationRevertReason">> /\ FilterUserOperationRevertReason!Init
       \/ binding = <<"Filter", "Withdrawn">> /\ FilterWithdrawn!Init
       \/ binding = <<"Filter", "Approval">> /\ FilterApproval!Init
       \/ binding = <<"Filter", "Transfer">> /\ FilterTransfer!Init

WatchInit ==
    /\ done = FALSE
    /\ fail = FALSE
    /\ next = "returned"
    /\ \/ binding = <<"Watch", "Deposited">> /\ WatchDeposited!Init
       \/ binding = <<"Watch", "StakeLocked">> /\ WatchStakeLocked!Init
       \/ binding = <<"Watch", "StakeUnlocked">> /\ WatchStakeUnlocked!Init
       \/ binding = <<"Watch", "StakeWithdrawn">> /\ WatchStakeWithdrawn!Init
       \/ binding = <<"Watch", "UserOperationEvent">> /\ WatchUserOperationEvent!Init
       \/ binding = <<"Watch", "UserOperationRevertReason">> /\ WatchUserOperationRevertReason!Init
       \/ binding = <<"Watch", "Withdrawn">> /\ WatchWithdrawn!Init
       \/ binding = <<"Watch", "Approval">> /\ WatchApproval!Init
       \/ binding = <<"Watch", "Transfer">> /\ WatchTransfer!Init

Init == FilterInit \/ WatchInit

Next ==
    \/ Filters("Deposited") /\ FilterDeposited!Next
    \/ Watches("Deposited") /\ WatchDeposited!Next
    \/ Filters("StakeLocked") /\ FilterStakeLocked!Next
    \/ Watches("StakeLocked") /\ WatchStakeLocked!Next
    \/ Filters("StakeUnlocked") /\ FilterStakeUnlocked!Next
    \/ Watches("StakeUnlocked") /\ WatchStakeUnlocked!Next
    \/ Filters("StakeWithdrawn") /\ FilterStakeWithdrawn!Next
    \/ Watches("StakeWithdrawn") /\ WatchStakeWithdrawn!Next
    \/ Filters("UserOperationEvent") /\ FilterUserOperationEvent!Next
    \/ Watches("UserOperationEvent") /\ WatchUserOperationEvent!Next
    \/ Filters("UserOperationRevertReason") /\ FilterUserOperationRevertReason!Next
    \/ Watches("UserOperationRevertReason") /\ WatchUserOperationRevertReason!Next
    \/ Filters("Withdrawn") /\ FilterWithdrawn!Next
    \/ Watches("Withdrawn") /\ WatchWithdrawn!Next
    \/ Filters("Approval") /\ FilterApproval!Next
    \/ Watches("Approval") /\ WatchApproval!Next
    \/ Filters("Transfer") /\ FilterTransfer!Next
    \/ Watches("Transfer") /\ WatchTransfer!Next

\* These steps do not depend on the event.
Filtering == binding[1] = "Filter" /\ UNCHANGED <<watchVars, binding>>
Watching  == binding[1] = "Watch" /\ UNCHANGED <<iterVars, binding>>

Producer  == \/ Filtering /\ FilterDeposited!Producer
             \/ Watching /\ WatchDeposited!Producer
Goroutine == \/ Filtering /\ FilterDeposited!NextStep
             \/ Watching /\ WatchDeposited!WatchStep
CloseReturns == \/ Filtering /\ FilterDeposited!CloseReturns
                \/ Watching /\ WatchDeposited!CloseReturns

\* See EventIterator and EventWatcher.
Fairness == WF_vars(Producer) /\ WF_vars(Goroutine) /\ WF_vars(CloseReturns)

Spec == Init /\ [][Next]_vars /\ Fairness

-----------------------------------------------------------------------------
(* Properties. *)

Event == UNION {[topics : [1 .. n -> Value], decodes : BOOLEAN] : n \in 1 .. 3}

TypeOK ==
    /\ binding \in {"Filter", "Watch"} \X DOMAIN Declared
    /\ query \in [ToSet(Declared[binding[2]]) -> Lists]
    /\ \A s \in {expected, delivered, node, logs, hand} : s \in Seq(Event)
    /\ Len(logs) <= Capacity
    /\ outcome \in {"open", "complete", "failed", "closed"}
    /\ sub \in {"none", "open", "failed", "ended"}
    /\ goroutine \in {"none", "select", "send", "returned"}
    /\ (goroutine = "send") = (hand # <<>>)
    /\ next \in {"called", "returned"}
    /\ close \in {"none", "called", "returned"}
    /\ {quit, done, fail} \subseteq BOOLEAN

Stream == INSTANCE EventStream

\* Every binding gives its client the stream of events it asked for: none that
\* it did not ask for, none left out or twice, in the order of the chain, and
\* Next ends without an error and without a Close only when all were delivered,
\* although its select may see the end of the subscription before the last logs.
ImplementsStream == Stream!Spec

\* A call of Next comes back, with an event or with the end, whatever becomes of
\* the subscription and of a Close in another goroutine.
NextReturns == next = "called" ~> next = "returned"

\* A loop over Next comes to an end.
LoopEnds == []<>(next = "called") => <>(outcome # "open")

\* Close and Unsubscribe come back, although the goroutine they wait for may be
\* sending an event that nobody reads, or a log to a full channel.
CloseReturnsToClient == close = "called" ~> close = "returned"

\* A client that watches an event is told that its subscription failed, even if
\* it does not read its channel: a stream that lost events does not stay silent.
FailureIsReported == goroutine # "none" /\ sub = "failed" ~> outcome # "open"

\* A client that goes on reading its channel gets every event it watches, unless
\* it is told that the stream has ended.
WatchedEventsArrive ==
    binding[1] = "Watch" /\ []<>(goroutine # "send") =>
        []<>(delivered = expected \/ outcome # "open")
=============================================================================
