------------------------ MODULE EventBindings_proofs ------------------------
(***************************************************************************)
(* Each of the 18 bindings has its types and implements its stream.  What  *)
(* is proved of any iterator and any watcher (EventIterator_proofs,        *)
(* EventWatcher_proofs) is cited of each binding, of which there remain to *)
(* show the order of its rules and the number of its topics.               *)
(***************************************************************************)
EXTENDS EventBindings, TLAPS

\* What a client of a filter leaves alone.
FilterRests == goroutine = "none" /\ hand = <<>>
WatchRests  == done = FALSE /\ fail = FALSE /\ next = "returned"

\* The binding that is used is as was proved of iterators and watchers.
FilterInv ==
    /\ FilterRests
    /\ \/ binding = <<"Filter", "Deposited">> /\ FilterDeposited!Good
       \/ binding = <<"Filter", "StakeLocked">> /\ FilterStakeLocked!Good
       \/ binding = <<"Filter", "StakeUnlocked">> /\ FilterStakeUnlocked!Good
       \/ binding = <<"Filter", "StakeWithdrawn">> /\ FilterStakeWithdrawn!Good
       \/ binding = <<"Filter", "UserOperationEvent">> /\ FilterUserOperationEvent!Good
       \/ binding = <<"Filter", "UserOperationRevertReason">> /\ FilterUserOperationRevertReason!Good
       \/ binding = <<"Filter", "Withdrawn">> /\ FilterWithdrawn!Good
       \/ binding = <<"Filter", "Approval">> /\ FilterApproval!Good
       \/ binding = <<"Filter", "Transfer">> /\ FilterTransfer!Good

WatchInv ==
    /\ WatchRests
    /\ \/ binding = <<"Watch", "Deposited">> /\ WatchDeposited!Good
       \/ binding = <<"Watch", "StakeLocked">> /\ WatchStakeLocked!Good
       \/ binding = <<"Watch", "StakeUnlocked">> /\ WatchStakeUnlocked!Good
       \/ binding = <<"Watch", "StakeWithdrawn">> /\ WatchStakeWithdrawn!Good
       \/ binding = <<"Watch", "UserOperationEvent">> /\ WatchUserOperationEvent!Good
       \/ binding = <<"Watch", "UserOperationRevertReason">> /\ WatchUserOperationRevertReason!Good
       \/ binding = <<"Watch", "Withdrawn">> /\ WatchWithdrawn!Good
       \/ binding = <<"Watch", "Approval">> /\ WatchApproval!Good
       \/ binding = <<"Watch", "Transfer">> /\ WatchTransfer!Good

BindingInv == FilterInv \/ WatchInv

\* The types that the bindings of an event have in common.
StreamTyped(event) ==
    /\ query \in [ToSet(Declared[event]) -> Lists]
    /\ \A s \in {expected, delivered, node, logs} : s \in Seq(Event)
    /\ Len(logs) <= Capacity
    /\ outcome \in {"open", "complete", "failed", "closed"}
    /\ sub \in {"none", "open", "failed", "ended"}
    /\ close \in {"none", "called", "returned"}
    /\ quit \in BOOLEAN

FilterTyped(event) ==
    /\ StreamTyped(event)
    /\ next \in {"called", "returned"}
    /\ {done, fail} \subseteq BOOLEAN

WatchTyped(event) ==
    /\ StreamTyped(event)
    /\ hand \in Seq(Event)
    /\ goroutine \in {"none", "select", "send", "returned"}
    /\ (goroutine = "send") = (hand # <<>>)

-----------------------------------------------------------------------------
(***************************************************************************)
(* Binding by binding: that its state has its types, and that its steps    *)
(* keep the invariant and are steps of the stream.  A module cannot be     *)
(* instantiated under a quantifier, so each binding has lemmas of its own; *)
(* they differ in the event and its topics.                                *)
(***************************************************************************)

LEMMA FilterDepositedTyped ==
    ASSUME FilterDeposited!Good
    PROVE  FilterTyped("Deposited")
<1>1. FilterDeposited!Log \subseteq Event
  BY DEF FilterDeposited!Log, Event, Declared
<1>2. \A s \in {expected, delivered, node, logs} : s \in Seq(Event)
  BY <1>1, FilterDeposited!GoodSeqs
<1> QED
  BY <1>2 DEF FilterTyped, StreamTyped, ToSet, FilterDeposited!Good,
     FilterDeposited!Typed, FilterDeposited!SubscriptionTyped,
     FilterDeposited!Query, FilterDeposited!ToSet

LEMMA FilterDepositedStep ==
    ASSUME FilterRests, binding = <<"Filter", "Deposited">>, FilterDeposited!Good, [Next]_vars
    PROVE  BindingInv' /\ [Stream!Next]_(Stream!vars)
<1>1. /\ FilterDeposited!Next \/ UNCHANGED <<subVars, iterVars>>
      /\ UNCHANGED <<watchVars, binding>>
  BY DEF Next, Filters, Watches, vars
<1>2. [FilterDeposited!Next]_(FilterDeposited!vars)
  BY <1>1 DEF FilterDeposited!vars, FilterDeposited!subVars,
     FilterDeposited!iterVars, subVars, iterVars
<1>3. FilterDeposited!Log \subseteq Event /\ Declared.Deposited = <<"account">>
  BY DEF FilterDeposited!Log, Event, Declared
<1>4. FilterDeposited!Good' /\ [FilterDeposited!Stream!Next]_(FilterDeposited!Stream!vars)
  BY <1>2, <1>3, EventBindingsAssumption, FilterDeposited!StepGood
<1>5. BindingInv'
  BY <1>1, <1>4 DEF BindingInv, FilterInv, FilterRests, watchVars
<1> QED
  BY <1>3, <1>4, <1>5 DEF Stream!Next, Stream!Occur, Stream!Deliver, Stream!End,
     Stream!Outcome, Stream!vars, FilterDeposited!Stream!Next,
     FilterDeposited!Stream!Occur, FilterDeposited!Stream!Deliver,
     FilterDeposited!Stream!End, FilterDeposited!Stream!Outcome,
     FilterDeposited!Stream!vars

LEMMA WatchDepositedTyped ==
    ASSUME WatchDeposited!Good
    PROVE  WatchTyped("Deposited")
<1>1. WatchDeposited!Log \subseteq Event
  BY DEF WatchDeposited!Log, Event, Declared
<1>2. \A s \in {expected, delivered, node, logs} : s \in Seq(Event)
  BY <1>1, WatchDeposited!GoodSeqs
<1>3. hand \in Seq(Event) /\ (goroutine = "send") = (hand # <<>>)
      /\ goroutine \in {"none", "select", "send", "returned"}
  BY <1>1, WatchDeposited!HandTyped
<1> QED
  BY <1>2, <1>3 DEF WatchTyped, StreamTyped, ToSet, WatchDeposited!Good,
     WatchDeposited!SubscriptionTyped, WatchDeposited!Query, WatchDeposited!ToSet

LEMMA WatchDepositedStep ==
    ASSUME WatchRests, binding = <<"Watch", "Deposited">>, WatchDeposited!Good, [Next]_vars
    PROVE  BindingInv' /\ [Stream!Next]_(Stream!vars)
<1>1. /\ WatchDeposited!Next \/ UNCHANGED <<subVars, watchVars>>
      /\ UNCHANGED <<iterVars, binding>>
  BY DEF Next, Filters, Watches, vars
<1>2. [WatchDeposited!Next]_(WatchDeposited!vars)
  BY <1>1 DEF WatchDeposited!vars, WatchDeposited!subVars, WatchDeposited!watchVars,
     subVars, watchVars
<1>3. WatchDeposited!Log \subseteq Event /\ Declared.Deposited = <<"account">>
  BY DEF WatchDeposited!Log, Event, Declared
<1>4. WatchDeposited!Good' /\ [WatchDeposited!Stream!Next]_(WatchDeposited!Stream!vars)
  BY <1>2, <1>3, EventBindingsAssumption, WatchDeposited!StepGood
<1>5. BindingInv'
  BY <1>1, <1>4 DEF BindingInv, WatchInv, WatchRests, iterVars
<1> QED
  BY <1>3, <1>4, <1>5 DEF Stream!Next, Stream!Occur, Stream!Deliver, Stream!End,
     Stream!Outcome, Stream!vars, WatchDeposited!Stream!Next,
     WatchDeposited!Stream!Occur, WatchDeposited!Stream!Deliver,
     WatchDeposited!Stream!End, WatchDeposited!Stream!Outcome,
     WatchDeposited!Stream!vars

LEMMA FilterStakeLockedTyped ==
    ASSUME FilterStakeLocked!Good
    PROVE  FilterTyped("StakeLocked")
<1>1. FilterStakeLocked!Log \subseteq Event
  BY DEF FilterStakeLocked!Log, Event, Declared
<1>2. \A s \in {expected, delivered, node, logs} : s \in Seq(Event)
  BY <1>1, FilterStakeLocked!GoodSeqs
<1> QED
  BY <1>2 DEF FilterTyped, StreamTyped, ToSet, FilterStakeLocked!Good,
     FilterStakeLocked!Typed, FilterStakeLocked!SubscriptionTyped,
     FilterStakeLocked!Query, FilterStakeLocked!ToSet

LEMMA FilterStakeLockedStep ==
    ASSUME FilterRests, binding = <<"Filter", "StakeLocked">>, FilterStakeLocked!Good, [Next]_vars
    PROVE  BindingInv' /\ [Stream!Next]_(Stream!vars)
<1>1. /\ FilterStakeLocked!Next \/ UNCHANGED <<subVars, iterVars>>
      /\ UNCHANGED <<watchVars, binding>>
  BY DEF Next, Filters, Watches, vars
<1>2. [FilterStakeLocked!Next]_(FilterStakeLocked!vars)
  BY <1>1 DEF FilterStakeLocked!vars, FilterStakeLocked!subVars,
     FilterStakeLocked!iterVars, subVars, iterVars
<1>3. FilterStakeLocked!Log \subseteq Event /\ Declared.StakeLocked = <<"account">>
  BY DEF FilterStakeLocked!Log, Event, Declared
<1>4. FilterStakeLocked!Good' /\ [FilterStakeLocked!Stream!Next]_(FilterStakeLocked!Stream!vars)
  BY <1>2, <1>3, EventBindingsAssumption, FilterStakeLocked!StepGood
<1>5. BindingInv'
  BY <1>1, <1>4 DEF BindingInv, FilterInv, FilterRests, watchVars
<1> QED
  BY <1>3, <1>4, <1>5 DEF Stream!Next, Stream!Occur, Stream!Deliver, Stream!End,
     Stream!Outcome, Stream!vars, FilterStakeLocked!Stream!Next,
     FilterStakeLocked!Stream!Occur, FilterStakeLocked!Stream!Deliver,
     FilterStakeLocked!Stream!End, FilterStakeLocked!Stream!Outcome,
     FilterStakeLocked!Stream!vars

LEMMA WatchStakeLockedTyped ==
    ASSUME WatchStakeLocked!Good
    PROVE  WatchTyped("StakeLocked")
<1>1. WatchStakeLocked!Log \subseteq Event
  BY DEF WatchStakeLocked!Log, Event, Declared
<1>2. \A s \in {expected, delivered, node, logs} : s \in Seq(Event)
  BY <1>1, WatchStakeLocked!GoodSeqs
<1>3. hand \in Seq(Event) /\ (goroutine = "send") = (hand # <<>>)
      /\ goroutine \in {"none", "select", "send", "returned"}
  BY <1>1, WatchStakeLocked!HandTyped
<1> QED
  BY <1>2, <1>3 DEF WatchTyped, StreamTyped, ToSet, WatchStakeLocked!Good,
     WatchStakeLocked!SubscriptionTyped, WatchStakeLocked!Query,
     WatchStakeLocked!ToSet

LEMMA WatchStakeLockedStep ==
    ASSUME WatchRests, binding = <<"Watch", "StakeLocked">>, WatchStakeLocked!Good, [Next]_vars
    PROVE  BindingInv' /\ [Stream!Next]_(Stream!vars)
<1>1. /\ WatchStakeLocked!Next \/ UNCHANGED <<subVars, watchVars>>
      /\ UNCHANGED <<iterVars, binding>>
  BY DEF Next, Filters, Watches, vars
<1>2. [WatchStakeLocked!Next]_(WatchStakeLocked!vars)
  BY <1>1 DEF WatchStakeLocked!vars, WatchStakeLocked!subVars,
     WatchStakeLocked!watchVars, subVars, watchVars
<1>3. WatchStakeLocked!Log \subseteq Event /\ Declared.StakeLocked = <<"account">>
  BY DEF WatchStakeLocked!Log, Event, Declared
<1>4. WatchStakeLocked!Good' /\ [WatchStakeLocked!Stream!Next]_(WatchStakeLocked!Stream!vars)
  BY <1>2, <1>3, EventBindingsAssumption, WatchStakeLocked!StepGood
<1>5. BindingInv'
  BY <1>1, <1>4 DEF BindingInv, WatchInv, WatchRests, iterVars
<1> QED
  BY <1>3, <1>4, <1>5 DEF Stream!Next, Stream!Occur, Stream!Deliver, Stream!End,
     Stream!Outcome, Stream!vars, WatchStakeLocked!Stream!Next,
     WatchStakeLocked!Stream!Occur, WatchStakeLocked!Stream!Deliver,
     WatchStakeLocked!Stream!End, WatchStakeLocked!Stream!Outcome,
     WatchStakeLocked!Stream!vars

LEMMA FilterStakeUnlockedTyped ==
    ASSUME FilterStakeUnlocked!Good
    PROVE  FilterTyped("StakeUnlocked")
<1>1. FilterStakeUnlocked!Log \subseteq Event
  BY DEF FilterStakeUnlocked!Log, Event, Declared
<1>2. \A s \in {expected, delivered, node, logs} : s \in Seq(Event)
  BY <1>1, FilterStakeUnlocked!GoodSeqs
<1> QED
  BY <1>2 DEF FilterTyped, StreamTyped, ToSet, FilterStakeUnlocked!Good,
     FilterStakeUnlocked!Typed, FilterStakeUnlocked!SubscriptionTyped,
     FilterStakeUnlocked!Query, FilterStakeUnlocked!ToSet

LEMMA FilterStakeUnlockedStep ==
    ASSUME FilterRests, binding = <<"Filter", "StakeUnlocked">>, FilterStakeUnlocked!Good, [Next]_vars
    PROVE  BindingInv' /\ [Stream!Next]_(Stream!vars)
<1>1. /\ FilterStakeUnlocked!Next \/ UNCHANGED <<subVars, iterVars>>
      /\ UNCHANGED <<watchVars, binding>>
  BY DEF Next, Filters, Watches, vars
<1>2. [FilterStakeUnlocked!Next]_(FilterStakeUnlocked!vars)
  BY <1>1 DEF FilterStakeUnlocked!vars, FilterStakeUnlocked!subVars,
     FilterStakeUnlocked!iterVars, subVars, iterVars
<1>3. FilterStakeUnlocked!Log \subseteq Event /\ Declared.StakeUnlocked = <<"account">>
  BY DEF FilterStakeUnlocked!Log, Event, Declared
<1>4. FilterStakeUnlocked!Good' /\ [FilterStakeUnlocked!Stream!Next]_(FilterStakeUnlocked!Stream!vars)
  BY <1>2, <1>3, EventBindingsAssumption, FilterStakeUnlocked!StepGood
<1>5. BindingInv'
  BY <1>1, <1>4 DEF BindingInv, FilterInv, FilterRests, watchVars
<1> QED
  BY <1>3, <1>4, <1>5 DEF Stream!Next, Stream!Occur, Stream!Deliver, Stream!End,
     Stream!Outcome, Stream!vars, FilterStakeUnlocked!Stream!Next,
     FilterStakeUnlocked!Stream!Occur, FilterStakeUnlocked!Stream!Deliver,
     FilterStakeUnlocked!Stream!End, FilterStakeUnlocked!Stream!Outcome,
     FilterStakeUnlocked!Stream!vars

LEMMA WatchStakeUnlockedTyped ==
    ASSUME WatchStakeUnlocked!Good
    PROVE  WatchTyped("StakeUnlocked")
<1>1. WatchStakeUnlocked!Log \subseteq Event
  BY DEF WatchStakeUnlocked!Log, Event, Declared
<1>2. \A s \in {expected, delivered, node, logs} : s \in Seq(Event)
  BY <1>1, WatchStakeUnlocked!GoodSeqs
<1>3. hand \in Seq(Event) /\ (goroutine = "send") = (hand # <<>>)
      /\ goroutine \in {"none", "select", "send", "returned"}
  BY <1>1, WatchStakeUnlocked!HandTyped
<1> QED
  BY <1>2, <1>3 DEF WatchTyped, StreamTyped, ToSet, WatchStakeUnlocked!Good,
     WatchStakeUnlocked!SubscriptionTyped, WatchStakeUnlocked!Query,
     WatchStakeUnlocked!ToSet

LEMMA WatchStakeUnlockedStep ==
    ASSUME WatchRests, binding = <<"Watch", "StakeUnlocked">>, WatchStakeUnlocked!Good, [Next]_vars
    PROVE  BindingInv' /\ [Stream!Next]_(Stream!vars)
<1>1. /\ WatchStakeUnlocked!Next \/ UNCHANGED <<subVars, watchVars>>
      /\ UNCHANGED <<iterVars, binding>>
  BY DEF Next, Filters, Watches, vars
<1>2. [WatchStakeUnlocked!Next]_(WatchStakeUnlocked!vars)
  BY <1>1 DEF WatchStakeUnlocked!vars, WatchStakeUnlocked!subVars,
     WatchStakeUnlocked!watchVars, subVars, watchVars
<1>3. WatchStakeUnlocked!Log \subseteq Event /\ Declared.StakeUnlocked = <<"account">>
  BY DEF WatchStakeUnlocked!Log, Event, Declared
<1>4. WatchStakeUnlocked!Good' /\ [WatchStakeUnlocked!Stream!Next]_(WatchStakeUnlocked!Stream!vars)
  BY <1>2, <1>3, EventBindingsAssumption, WatchStakeUnlocked!StepGood
<1>5. BindingInv'
  BY <1>1, <1>4 DEF BindingInv, WatchInv, WatchRests, iterVars
<1> QED
  BY <1>3, <1>4, <1>5 DEF Stream!Next, Stream!Occur, Stream!Deliver, Stream!End,
     Stream!Outcome, Stream!vars, WatchStakeUnlocked!Stream!Next,
     WatchStakeUnlocked!Stream!Occur, WatchStakeUnlocked!Stream!Deliver,
     WatchStakeUnlocked!Stream!End, WatchStakeUnlocked!Stream!Outcome,
     WatchStakeUnlocked!Stream!vars

LEMMA FilterStakeWithdrawnTyped ==
    ASSUME FilterStakeWithdrawn!Good
    PROVE  FilterTyped("StakeWithdrawn")
<1>1. FilterStakeWithdrawn!Log \subseteq Event
  BY DEF FilterStakeWithdrawn!Log, Event, Declared
<1>2. \A s \in {expected, delivered, node, logs} : s \in Seq(Event)
  BY <1>1, FilterStakeWithdrawn!GoodSeqs
<1> QED
  BY <1>2 DEF FilterTyped, StreamTyped, ToSet, FilterStakeWithdrawn!Good,
     FilterStakeWithdrawn!Typed, FilterStakeWithdrawn!SubscriptionTyped,
     FilterStakeWithdrawn!Query, FilterStakeWithdrawn!ToSet

LEMMA FilterStakeWithdrawnStep ==
    ASSUME FilterRests, binding = <<"Filter", "StakeWithdrawn">>, FilterStakeWithdrawn!Good, [Next]_vars
    PROVE  BindingInv' /\ [Stream!Next]_(Stream!vars)
<1>1. /\ FilterStakeWithdrawn!Next \/ UNCHANGED <<subVars, iterVars>>
      /\ UNCHANGED <<watchVars, binding>>
  BY DEF Next, Filters, Watches, vars
<1>2. [FilterStakeWithdrawn!Next]_(FilterStakeWithdrawn!vars)
  BY <1>1 DEF FilterStakeWithdrawn!vars, FilterStakeWithdrawn!subVars,
     FilterStakeWithdrawn!iterVars, subVars, iterVars
<1>3. FilterStakeWithdrawn!Log \subseteq Event /\ Declared.StakeWithdrawn = <<"account">>
  BY DEF FilterStakeWithdrawn!Log, Event, Declared
<1>4. FilterStakeWithdrawn!Good' /\ [FilterStakeWithdrawn!Stream!Next]_(FilterStakeWithdrawn!Stream!vars)
  BY <1>2, <1>3, EventBindingsAssumption, FilterStakeWithdrawn!StepGood
<1>5. BindingInv'
  BY <1>1, <1>4 DEF BindingInv, FilterInv, FilterRests, watchVars
<1> QED
  BY <1>3, <1>4, <1>5 DEF Stream!Next, Stream!Occur, Stream!Deliver, Stream!End,
     Stream!Outcome, Stream!vars, FilterStakeWithdrawn!Stream!Next,
     FilterStakeWithdrawn!Stream!Occur, FilterStakeWithdrawn!Stream!Deliver,
     FilterStakeWithdrawn!Stream!End, FilterStakeWithdrawn!Stream!Outcome,
     FilterStakeWithdrawn!Stream!vars

LEMMA WatchStakeWithdrawnTyped ==
    ASSUME WatchStakeWithdrawn!Good
    PROVE  WatchTyped("StakeWithdrawn")
<1>1. WatchStakeWithdrawn!Log \subseteq Event
  BY DEF WatchStakeWithdrawn!Log, Event, Declared
<1>2. \A s \in {expected, delivered, node, logs} : s \in Seq(Event)
  BY <1>1, WatchStakeWithdrawn!GoodSeqs
<1>3. hand \in Seq(Event) /\ (goroutine = "send") = (hand # <<>>)
      /\ goroutine \in {"none", "select", "send", "returned"}
  BY <1>1, WatchStakeWithdrawn!HandTyped
<1> QED
  BY <1>2, <1>3 DEF WatchTyped, StreamTyped, ToSet, WatchStakeWithdrawn!Good,
     WatchStakeWithdrawn!SubscriptionTyped, WatchStakeWithdrawn!Query,
     WatchStakeWithdrawn!ToSet

LEMMA WatchStakeWithdrawnStep ==
    ASSUME WatchRests, binding = <<"Watch", "StakeWithdrawn">>, WatchStakeWithdrawn!Good, [Next]_vars
    PROVE  BindingInv' /\ [Stream!Next]_(Stream!vars)
<1>1. /\ WatchStakeWithdrawn!Next \/ UNCHANGED <<subVars, watchVars>>
      /\ UNCHANGED <<iterVars, binding>>
  BY DEF Next, Filters, Watches, vars
<1>2. [WatchStakeWithdrawn!Next]_(WatchStakeWithdrawn!vars)
  BY <1>1 DEF WatchStakeWithdrawn!vars, WatchStakeWithdrawn!subVars,
     WatchStakeWithdrawn!watchVars, subVars, watchVars
<1>3. WatchStakeWithdrawn!Log \subseteq Event /\ Declared.StakeWithdrawn = <<"account">>
  BY DEF WatchStakeWithdrawn!Log, Event, Declared
<1>4. WatchStakeWithdrawn!Good' /\ [WatchStakeWithdrawn!Stream!Next]_(WatchStakeWithdrawn!Stream!vars)
  BY <1>2, <1>3, EventBindingsAssumption, WatchStakeWithdrawn!StepGood
<1>5. BindingInv'
  BY <1>1, <1>4 DEF BindingInv, WatchInv, WatchRests, iterVars
<1> QED
  BY <1>3, <1>4, <1>5 DEF Stream!Next, Stream!Occur, Stream!Deliver, Stream!End,
     Stream!Outcome, Stream!vars, WatchStakeWithdrawn!Stream!Next,
     WatchStakeWithdrawn!Stream!Occur, WatchStakeWithdrawn!Stream!Deliver,
     WatchStakeWithdrawn!Stream!End, WatchStakeWithdrawn!Stream!Outcome,
     WatchStakeWithdrawn!Stream!vars

LEMMA FilterUserOperationEventTyped ==
    ASSUME FilterUserOperationEvent!Good
    PROVE  FilterTyped("UserOperationEvent")
<1>1. FilterUserOperationEvent!Log \subseteq Event
  BY DEF FilterUserOperationEvent!Log, Event, Declared
<1>2. \A s \in {expected, delivered, node, logs} : s \in Seq(Event)
  BY <1>1, FilterUserOperationEvent!GoodSeqs
<1> QED
  BY <1>2 DEF FilterTyped, StreamTyped, ToSet, FilterUserOperationEvent!Good,
     FilterUserOperationEvent!Typed, FilterUserOperationEvent!SubscriptionTyped,
     FilterUserOperationEvent!Query, FilterUserOperationEvent!ToSet

LEMMA FilterUserOperationEventStep ==
    ASSUME FilterRests, binding = <<"Filter", "UserOperationEvent">>, FilterUserOperationEvent!Good, [Next]_vars
    PROVE  BindingInv' /\ [Stream!Next]_(Stream!vars)
<1>1. /\ FilterUserOperationEvent!Next \/ UNCHANGED <<subVars, iterVars>>
      /\ UNCHANGED <<watchVars, binding>>
  BY DEF Next, Filters, Watches, vars
<1>2. [FilterUserOperationEvent!Next]_(FilterUserOperationEvent!vars)
  BY <1>1 DEF FilterUserOperationEvent!vars, FilterUserOperationEvent!subVars,
     FilterUserOperationEvent!iterVars, subVars, iterVars
<1>3. FilterUserOperationEvent!Log \subseteq Event /\ Declared.UserOperationEvent = <<"requestId", "sender", "paymaster">>
  BY DEF FilterUserOperationEvent!Log, Event, Declared
<1>4. FilterUserOperationEvent!Good' /\ [FilterUserOperationEvent!Stream!Next]_(FilterUserOperationEvent!Stream!vars)
  BY <1>2, <1>3, EventBindingsAssumption, FilterUserOperationEvent!StepGood
<1>5. BindingInv'
  BY <1>1, <1>4 DEF BindingInv, FilterInv, FilterRests, watchVars
<1> QED
  BY <1>3, <1>4, <1>5 DEF Stream!Next, Stream!Occur, Stream!Deliver, Stream!End,
     Stream!Outcome, Stream!vars, FilterUserOperationEvent!Stream!Next,
     FilterUserOperationEvent!Stream!Occur, FilterUserOperationEvent!Stream!Deliver,
     FilterUserOperationEvent!Stream!End, FilterUserOperationEvent!Stream!Outcome,
     FilterUserOperationEvent!Stream!vars

LEMMA WatchUserOperationEventTyped ==
    ASSUME WatchUserOperationEvent!Good
    PROVE  WatchTyped("UserOperationEvent")
<1>1. WatchUserOperationEvent!Log \subseteq Event
  BY DEF WatchUserOperationEvent!Log, Event, Declared
<1>2. \A s \in {expected, delivered, node, logs} : s \in Seq(Event)
  BY <1>1, WatchUserOperationEvent!GoodSeqs
<1>3. hand \in Seq(Event) /\ (goroutine = "send") = (hand # <<>>)
      /\ goroutine \in {"none", "select", "send", "returned"}
  BY <1>1, WatchUserOperationEvent!HandTyped
<1> QED
  BY <1>2, <1>3 DEF WatchTyped, StreamTyped, ToSet, WatchUserOperationEvent!Good,
     WatchUserOperationEvent!SubscriptionTyped, WatchUserOperationEvent!Query,
     WatchUserOperationEvent!ToSet

LEMMA WatchUserOperationEventStep ==
    ASSUME WatchRests, binding = <<"Watch", "UserOperationEvent">>, WatchUserOperationEvent!Good, [Next]_vars
    PROVE  BindingInv' /\ [Stream!Next]_(Stream!vars)
<1>1. /\ WatchUserOperationEvent!Next \/ UNCHANGED <<subVars, watchVars>>
      /\ UNCHANGED <<iterVars, binding>>
  BY DEF Next, Filters, Watches, vars
<1>2. [WatchUserOperationEvent!Next]_(WatchUserOperationEvent!vars)
  BY <1>1 DEF WatchUserOperationEvent!vars, WatchUserOperationEvent!subVars,
     WatchUserOperationEvent!watchVars, subVars, watchVars
<1>3. WatchUserOperationEvent!Log \subseteq Event /\ Declared.UserOperationEvent = <<"requestId", "sender", "paymaster">>
  BY DEF WatchUserOperationEvent!Log, Event, Declared
<1>4. WatchUserOperationEvent!Good' /\ [WatchUserOperationEvent!Stream!Next]_(WatchUserOperationEvent!Stream!vars)
  BY <1>2, <1>3, EventBindingsAssumption, WatchUserOperationEvent!StepGood
<1>5. BindingInv'
  BY <1>1, <1>4 DEF BindingInv, WatchInv, WatchRests, iterVars
<1> QED
  BY <1>3, <1>4, <1>5 DEF Stream!Next, Stream!Occur, Stream!Deliver, Stream!End,
     Stream!Outcome, Stream!vars, WatchUserOperationEvent!Stream!Next,
     WatchUserOperationEvent!Stream!Occur, WatchUserOperationEvent!Stream!Deliver,
     WatchUserOperationEvent!Stream!End, WatchUserOperationEvent!Stream!Outcome,
     WatchUserOperationEvent!Stream!vars

LEMMA FilterUserOperationRevertReasonTyped ==
    ASSUME FilterUserOperationRevertReason!Good
    PROVE  FilterTyped("UserOperationRevertReason")
<1>1. FilterUserOperationRevertReason!Log \subseteq Event
  BY DEF FilterUserOperationRevertReason!Log, Event, Declared
<1>2. \A s \in {expected, delivered, node, logs} : s \in Seq(Event)
  BY <1>1, FilterUserOperationRevertReason!GoodSeqs
<1> QED
  BY <1>2 DEF FilterTyped, StreamTyped, ToSet, FilterUserOperationRevertReason!Good,
     FilterUserOperationRevertReason!Typed,
     FilterUserOperationRevertReason!SubscriptionTyped,
     FilterUserOperationRevertReason!Query, FilterUserOperationRevertReason!ToSet

LEMMA FilterUserOperationRevertReasonStep ==
    ASSUME FilterRests, binding = <<"Filter", "UserOperationRevertReason">>, FilterUserOperationRevertReason!Good, [Next]_vars
    PROVE  BindingInv' /\ [Stream!Next]_(Stream!vars)
<1>1. /\ FilterUserOperationRevertReason!Next \/ UNCHANGED <<subVars, iterVars>>
      /\ UNCHANGED <<watchVars, binding>>
  BY DEF Next, Filters, Watches, vars
<1>2. [FilterUserOperationRevertReason!Next]_(FilterUserOperationRevertReason!vars)
  BY <1>1 DEF FilterUserOperationRevertReason!vars,
     FilterUserOperationRevertReason!subVars,
     FilterUserOperationRevertReason!iterVars, subVars, iterVars
<1>3. FilterUserOperationRevertReason!Log \subseteq Event /\ Declared.UserOperationRevertReason = <<"requestId", "sender">>
  BY DEF FilterUserOperationRevertReason!Log, Event, Declared
<1>4. FilterUserOperationRevertReason!Good' /\ [FilterUserOperationRevertReason!Stream!Next]_(FilterUserOperationRevertReason!Stream!vars)
  BY <1>2, <1>3, EventBindingsAssumption, FilterUserOperationRevertReason!StepGood
<1>5. BindingInv'
  BY <1>1, <1>4 DEF BindingInv, FilterInv, FilterRests, watchVars
<1> QED
  BY <1>3, <1>4, <1>5 DEF Stream!Next, Stream!Occur, Stream!Deliver, Stream!End,
     Stream!Outcome, Stream!vars, FilterUserOperationRevertReason!Stream!Next,
     FilterUserOperationRevertReason!Stream!Occur,
     FilterUserOperationRevertReason!Stream!Deliver,
     FilterUserOperationRevertReason!Stream!End,
     FilterUserOperationRevertReason!Stream!Outcome,
     FilterUserOperationRevertReason!Stream!vars

LEMMA WatchUserOperationRevertReasonTyped ==
    ASSUME WatchUserOperationRevertReason!Good
    PROVE  WatchTyped("UserOperationRevertReason")
<1>1. WatchUserOperationRevertReason!Log \subseteq Event
  BY DEF WatchUserOperationRevertReason!Log, Event, Declared
<1>2. \A s \in {expected, delivered, node, logs} : s \in Seq(Event)
  BY <1>1, WatchUserOperationRevertReason!GoodSeqs
<1>3. hand \in Seq(Event) /\ (goroutine = "send") = (hand # <<>>)
      /\ goroutine \in {"none", "select", "send", "returned"}
  BY <1>1, WatchUserOperationRevertReason!HandTyped
<1> QED
  BY <1>2, <1>3 DEF WatchTyped, StreamTyped, ToSet,
     WatchUserOperationRevertReason!Good,
     WatchUserOperationRevertReason!SubscriptionTyped,
     WatchUserOperationRevertReason!Query, WatchUserOperationRevertReason!ToSet

LEMMA WatchUserOperationRevertReasonStep ==
    ASSUME WatchRests, binding = <<"Watch", "UserOperationRevertReason">>, WatchUserOperationRevertReason!Good, [Next]_vars
    PROVE  BindingInv' /\ [Stream!Next]_(Stream!vars)
<1>1. /\ WatchUserOperationRevertReason!Next \/ UNCHANGED <<subVars, watchVars>>
      /\ UNCHANGED <<iterVars, binding>>
  BY DEF Next, Filters, Watches, vars
<1>2. [WatchUserOperationRevertReason!Next]_(WatchUserOperationRevertReason!vars)
  BY <1>1 DEF WatchUserOperationRevertReason!vars,
     WatchUserOperationRevertReason!subVars,
     WatchUserOperationRevertReason!watchVars, subVars, watchVars
<1>3. WatchUserOperationRevertReason!Log \subseteq Event /\ Declared.UserOperationRevertReason = <<"requestId", "sender">>
  BY DEF WatchUserOperationRevertReason!Log, Event, Declared
<1>4. WatchUserOperationRevertReason!Good' /\ [WatchUserOperationRevertReason!Stream!Next]_(WatchUserOperationRevertReason!Stream!vars)
  BY <1>2, <1>3, EventBindingsAssumption, WatchUserOperationRevertReason!StepGood
<1>5. BindingInv'
  BY <1>1, <1>4 DEF BindingInv, WatchInv, WatchRests, iterVars
<1> QED
  BY <1>3, <1>4, <1>5 DEF Stream!Next, Stream!Occur, Stream!Deliver, Stream!End,
     Stream!Outcome, Stream!vars, WatchUserOperationRevertReason!Stream!Next,
     WatchUserOperationRevertReason!Stream!Occur,
     WatchUserOperationRevertReason!Stream!Deliver,
     WatchUserOperationRevertReason!Stream!End,
     WatchUserOperationRevertReason!Stream!Outcome,
     WatchUserOperationRevertReason!Stream!vars

LEMMA FilterWithdrawnTyped ==
    ASSUME FilterWithdrawn!Good
    PROVE  FilterTyped("Withdrawn")
<1>1. FilterWithdrawn!Log \subseteq Event
  BY DEF FilterWithdrawn!Log, Event, Declared
<1>2. \A s \in {expected, delivered, node, logs} : s \in Seq(Event)
  BY <1>1, FilterWithdrawn!GoodSeqs
<1> QED
  BY <1>2 DEF FilterTyped, StreamTyped, ToSet, FilterWithdrawn!Good,
     FilterWithdrawn!Typed, FilterWithdrawn!SubscriptionTyped,
     FilterWithdrawn!Query, FilterWithdrawn!ToSet

LEMMA FilterWithdrawnStep ==
    ASSUME FilterRests, binding = <<"Filter", "Withdrawn">>, FilterWithdrawn!Good, [Next]_vars
    PROVE  BindingInv' /\ [Stream!Next]_(Stream!vars)
<1>1. /\ FilterWithdrawn!Next \/ UNCHANGED <<subVars, iterVars>>
      /\ UNCHANGED <<watchVars, binding>>
  BY DEF Next, Filters, Watches, vars
<1>2. [FilterWithdrawn!Next]_(FilterWithdrawn!vars)
  BY <1>1 DEF FilterWithdrawn!vars, FilterWithdrawn!subVars,
     FilterWithdrawn!iterVars, subVars, iterVars
<1>3. FilterWithdrawn!Log \subseteq Event /\ Declared.Withdrawn = <<"account">>
  BY DEF FilterWithdrawn!Log, Event, Declared
<1>4. FilterWithdrawn!Good' /\ [FilterWithdrawn!Stream!Next]_(FilterWithdrawn!Stream!vars)
  BY <1>2, <1>3, EventBindingsAssumption, FilterWithdrawn!StepGood
<1>5. BindingInv'
  BY <1>1, <1>4 DEF BindingInv, FilterInv, FilterRests, watchVars
<1> QED
  BY <1>3, <1>4, <1>5 DEF Stream!Next, Stream!Occur, Stream!Deliver, Stream!End,
     Stream!Outcome, Stream!vars, FilterWithdrawn!Stream!Next,
     FilterWithdrawn!Stream!Occur, FilterWithdrawn!Stream!Deliver,
     FilterWithdrawn!Stream!End, FilterWithdrawn!Stream!Outcome,
     FilterWithdrawn!Stream!vars

LEMMA WatchWithdrawnTyped ==
    ASSUME WatchWithdrawn!Good
    PROVE  WatchTyped("Withdrawn")
<1>1. WatchWithdrawn!Log \subseteq Event
  BY DEF WatchWithdrawn!Log, Event, Declared
<1>2. \A s \in {expected, delivered, node, logs} : s \in Seq(Event)
  BY <1>1, WatchWithdrawn!GoodSeqs
<1>3. hand \in Seq(Event) /\ (goroutine = "send") = (hand # <<>>)
      /\ goroutine \in {"none", "select", "send", "returned"}
  BY <1>1, WatchWithdrawn!HandTyped
<1> QED
  BY <1>2, <1>3 DEF WatchTyped, StreamTyped, ToSet, WatchWithdrawn!Good,
     WatchWithdrawn!SubscriptionTyped, WatchWithdrawn!Query, WatchWithdrawn!ToSet

LEMMA WatchWithdrawnStep ==
    ASSUME WatchRests, binding = <<"Watch", "Withdrawn">>, WatchWithdrawn!Good, [Next]_vars
    PROVE  BindingInv' /\ [Stream!Next]_(Stream!vars)
<1>1. /\ WatchWithdrawn!Next \/ UNCHANGED <<subVars, watchVars>>
      /\ UNCHANGED <<iterVars, binding>>
  BY DEF Next, Filters, Watches, vars
<1>2. [WatchWithdrawn!Next]_(WatchWithdrawn!vars)
  BY <1>1 DEF WatchWithdrawn!vars, WatchWithdrawn!subVars, WatchWithdrawn!watchVars,
     subVars, watchVars
<1>3. WatchWithdrawn!Log \subseteq Event /\ Declared.Withdrawn = <<"account">>
  BY DEF WatchWithdrawn!Log, Event, Declared
<1>4. WatchWithdrawn!Good' /\ [WatchWithdrawn!Stream!Next]_(WatchWithdrawn!Stream!vars)
  BY <1>2, <1>3, EventBindingsAssumption, WatchWithdrawn!StepGood
<1>5. BindingInv'
  BY <1>1, <1>4 DEF BindingInv, WatchInv, WatchRests, iterVars
<1> QED
  BY <1>3, <1>4, <1>5 DEF Stream!Next, Stream!Occur, Stream!Deliver, Stream!End,
     Stream!Outcome, Stream!vars, WatchWithdrawn!Stream!Next,
     WatchWithdrawn!Stream!Occur, WatchWithdrawn!Stream!Deliver,
     WatchWithdrawn!Stream!End, WatchWithdrawn!Stream!Outcome,
     WatchWithdrawn!Stream!vars

LEMMA FilterApprovalTyped ==
    ASSUME FilterApproval!Good
    PROVE  FilterTyped("Approval")
<1>1. FilterApproval!Log \subseteq Event
  BY DEF FilterApproval!Log, Event, Declared
<1>2. \A s \in {expected, delivered, node, logs} : s \in Seq(Event)
  BY <1>1, FilterApproval!GoodSeqs
<1> QED
  BY <1>2 DEF FilterTyped, StreamTyped, ToSet, FilterApproval!Good,
     FilterApproval!Typed, FilterApproval!SubscriptionTyped, FilterApproval!Query,
     FilterApproval!ToSet

LEMMA FilterApprovalStep ==
    ASSUME FilterRests, binding = <<"Filter", "Approval">>, FilterApproval!Good, [Next]_vars
    PROVE  BindingInv' /\ [Stream!Next]_(Stream!vars)
<1>1. /\ FilterApproval!Next \/ UNCHANGED <<subVars, iterVars>>
      /\ UNCHANGED <<watchVars, binding>>
  BY DEF Next, Filters, Watches, vars
<1>2. [FilterApproval!Next]_(FilterApproval!vars)
  BY <1>1 DEF FilterApproval!vars, FilterApproval!subVars, FilterApproval!iterVars,
     subVars, iterVars
<1>3. FilterApproval!Log \subseteq Event /\ Declared.Approval = <<"owner", "spender">>
  BY DEF FilterApproval!Log, Event, Declared
<1>4. FilterApproval!Good' /\ [FilterApproval!Stream!Next]_(FilterApproval!Stream!vars)
  BY <1>2, <1>3, EventBindingsAssumption, FilterApproval!StepGood
<1>5. BindingInv'
  BY <1>1, <1>4 DEF BindingInv, FilterInv, FilterRests, watchVars
<1> QED
  BY <1>3, <1>4, <1>5 DEF Stream!Next, Stream!Occur, Stream!Deliver, Stream!End,
     Stream!Outcome, Stream!vars, FilterApproval!Stream!Next,
     FilterApproval!Stream!Occur, FilterApproval!Stream!Deliver,
     FilterApproval!Stream!End, FilterApproval!Stream!Outcome,
     FilterApproval!Stream!vars

LEMMA WatchApprovalTyped ==
    ASSUME WatchApproval!Good
    PROVE  WatchTyped("Approval")
<1>1. WatchApproval!Log \subseteq Event
  BY DEF WatchApproval!Log, Event, Declared
<1>2. \A s \in {expected, delivered, node, logs} : s \in Seq(Event)
  BY <1>1, WatchApproval!GoodSeqs
<1>3. hand \in Seq(Event) /\ (goroutine = "send") = (hand # <<>>)
      /\ goroutine \in {"none", "select", "send", "returned"}
  BY <1>1, WatchApproval!HandTyped
<1> QED
  BY <1>2, <1>3 DEF WatchTyped, StreamTyped, ToSet, WatchApproval!Good,
     WatchApproval!SubscriptionTyped, WatchApproval!Query, WatchApproval!ToSet

LEMMA WatchApprovalStep ==
    ASSUME WatchRests, binding = <<"Watch", "Approval">>, WatchApproval!Good, [Next]_vars
    PROVE  BindingInv' /\ [Stream!Next]_(Stream!vars)
<1>1. /\ WatchApproval!Next \/ UNCHANGED <<subVars, watchVars>>
      /\ UNCHANGED <<iterVars, binding>>
  BY DEF Next, Filters, Watches, vars
<1>2. [WatchApproval!Next]_(WatchApproval!vars)
  BY <1>1 DEF WatchApproval!vars, WatchApproval!subVars, WatchApproval!watchVars,
     subVars, watchVars
<1>3. WatchApproval!Log \subseteq Event /\ Declared.Approval = <<"owner", "spender">>
  BY DEF WatchApproval!Log, Event, Declared
<1>4. WatchApproval!Good' /\ [WatchApproval!Stream!Next]_(WatchApproval!Stream!vars)
  BY <1>2, <1>3, EventBindingsAssumption, WatchApproval!StepGood
<1>5. BindingInv'
  BY <1>1, <1>4 DEF BindingInv, WatchInv, WatchRests, iterVars
<1> QED
  BY <1>3, <1>4, <1>5 DEF Stream!Next, Stream!Occur, Stream!Deliver, Stream!End,
     Stream!Outcome, Stream!vars, WatchApproval!Stream!Next,
     WatchApproval!Stream!Occur, WatchApproval!Stream!Deliver,
     WatchApproval!Stream!End, WatchApproval!Stream!Outcome,
     WatchApproval!Stream!vars

LEMMA FilterTransferTyped ==
    ASSUME FilterTransfer!Good
    PROVE  FilterTyped("Transfer")
<1>1. FilterTransfer!Log \subseteq Event
  BY DEF FilterTransfer!Log, Event, Declared
<1>2. \A s \in {expected, delivered, node, logs} : s \in Seq(Event)
  BY <1>1, FilterTransfer!GoodSeqs
<1> QED
  BY <1>2 DEF FilterTyped, StreamTyped, ToSet, FilterTransfer!Good,
     FilterTransfer!Typed, FilterTransfer!SubscriptionTyped, FilterTransfer!Query,
     FilterTransfer!ToSet

LEMMA FilterTransferStep ==
    ASSUME FilterRests, binding = <<"Filter", "Transfer">>, FilterTransfer!Good, [Next]_vars
    PROVE  BindingInv' /\ [Stream!Next]_(Stream!vars)
<1>1. /\ FilterTransfer!Next \/ UNCHANGED <<subVars, iterVars>>
      /\ UNCHANGED <<watchVars, binding>>
  BY DEF Next, Filters, Watches, vars
<1>2. [FilterTransfer!Next]_(FilterTransfer!vars)
  BY <1>1 DEF FilterTransfer!vars, FilterTransfer!subVars, FilterTransfer!iterVars,
     subVars, iterVars
<1>3. FilterTransfer!Log \subseteq Event /\ Declared.Transfer = <<"from", "to">>
  BY DEF FilterTransfer!Log, Event, Declared
<1>4. FilterTransfer!Good' /\ [FilterTransfer!Stream!Next]_(FilterTransfer!Stream!vars)
  BY <1>2, <1>3, EventBindingsAssumption, FilterTransfer!StepGood
<1>5. BindingInv'
  BY <1>1, <1>4 DEF BindingInv, FilterInv, FilterRests, watchVars
<1> QED
  BY <1>3, <1>4, <1>5 DEF Stream!Next, Stream!Occur, Stream!Deliver, Stream!End,
     Stream!Outcome, Stream!vars, FilterTransfer!Stream!Next,
     FilterTransfer!Stream!Occur, FilterTransfer!Stream!Deliver,
     FilterTransfer!Stream!End, FilterTransfer!Stream!Outcome,
     FilterTransfer!Stream!vars

LEMMA WatchTransferTyped ==
    ASSUME WatchTransfer!Good
    PROVE  WatchTyped("Transfer")
<1>1. WatchTransfer!Log \subseteq Event
  BY DEF WatchTransfer!Log, Event, Declared
<1>2. \A s \in {expected, delivered, node, logs} : s \in Seq(Event)
  BY <1>1, WatchTransfer!GoodSeqs
<1>3. hand \in Seq(Event) /\ (goroutine = "send") = (hand # <<>>)
      /\ goroutine \in {"none", "select", "send", "returned"}
  BY <1>1, WatchTransfer!HandTyped
<1> QED
  BY <1>2, <1>3 DEF WatchTyped, StreamTyped, ToSet, WatchTransfer!Good,
     WatchTransfer!SubscriptionTyped, WatchTransfer!Query, WatchTransfer!ToSet

LEMMA WatchTransferStep ==
    ASSUME WatchRests, binding = <<"Watch", "Transfer">>, WatchTransfer!Good, [Next]_vars
    PROVE  BindingInv' /\ [Stream!Next]_(Stream!vars)
<1>1. /\ WatchTransfer!Next \/ UNCHANGED <<subVars, watchVars>>
      /\ UNCHANGED <<iterVars, binding>>
  BY DEF Next, Filters, Watches, vars
<1>2. [WatchTransfer!Next]_(WatchTransfer!vars)
  BY <1>1 DEF WatchTransfer!vars, WatchTransfer!subVars, WatchTransfer!watchVars,
     subVars, watchVars
<1>3. WatchTransfer!Log \subseteq Event /\ Declared.Transfer = <<"from", "to">>
  BY DEF WatchTransfer!Log, Event, Declared
<1>4. WatchTransfer!Good' /\ [WatchTransfer!Stream!Next]_(WatchTransfer!Stream!vars)
  BY <1>2, <1>3, EventBindingsAssumption, WatchTransfer!StepGood
<1>5. BindingInv'
  BY <1>1, <1>4 DEF BindingInv, WatchInv, WatchRests, iterVars
<1> QED
  BY <1>3, <1>4, <1>5 DEF Stream!Next, Stream!Occur, Stream!Deliver, Stream!End,
     Stream!Outcome, Stream!vars, WatchTransfer!Stream!Next,
     WatchTransfer!Stream!Occur, WatchTransfer!Stream!Deliver,
     WatchTransfer!Stream!End, WatchTransfer!Stream!Outcome,
     WatchTransfer!Stream!vars

-----------------------------------------------------------------------------
(* All of them. *)

LEMMA InitBindings == Init => BindingInv /\ Stream!Init
<1> SUFFICES ASSUME Init
             PROVE  BindingInv /\ Stream!Init
  OBVIOUS
<1>1. CASE FilterInit
  BY <1>1, EventBindingsAssumption,
     FilterDeposited!InitGood, FilterStakeLocked!InitGood,
     FilterStakeUnlocked!InitGood, FilterStakeWithdrawn!InitGood,
     FilterUserOperationEvent!InitGood,
     FilterUserOperationRevertReason!InitGood, FilterWithdrawn!InitGood,
     FilterApproval!InitGood, FilterTransfer!InitGood
  DEF FilterInit, FilterRests, FilterInv, BindingInv, Stream!Init,
     FilterDeposited!Stream!Init, FilterStakeLocked!Stream!Init,
     FilterStakeUnlocked!Stream!Init, FilterStakeWithdrawn!Stream!Init,
     FilterUserOperationEvent!Stream!Init,
     FilterUserOperationRevertReason!Stream!Init, FilterWithdrawn!Stream!Init,
     FilterApproval!Stream!Init, FilterTransfer!Stream!Init
<1>2. CASE WatchInit
  BY <1>2, EventBindingsAssumption,
     WatchDeposited!InitGood, WatchStakeLocked!InitGood,
     WatchStakeUnlocked!InitGood, WatchStakeWithdrawn!InitGood,
     WatchUserOperationEvent!InitGood, WatchUserOperationRevertReason!InitGood,
     WatchWithdrawn!InitGood, WatchApproval!InitGood, WatchTransfer!InitGood
  DEF WatchInit, WatchRests, WatchInv, BindingInv, Stream!Init,
     WatchDeposited!Stream!Init, WatchStakeLocked!Stream!Init,
     WatchStakeUnlocked!Stream!Init, WatchStakeWithdrawn!Stream!Init,
     WatchUserOperationEvent!Stream!Init,
     WatchUserOperationRevertReason!Stream!Init, WatchWithdrawn!Stream!Init,
     WatchApproval!Stream!Init, WatchTransfer!Stream!Init
<1> QED
  BY <1>1, <1>2 DEF Init

\* Every step keeps the invariant and is a step of the stream, or none.
LEMMA StepBindings ==
    ASSUME BindingInv, [Next]_vars
    PROVE  BindingInv' /\ [Stream!Next]_(Stream!vars)
<1>1. CASE FilterInv
  BY <1>1,
     FilterDepositedStep, FilterStakeLockedStep, FilterStakeUnlockedStep,
     FilterStakeWithdrawnStep, FilterUserOperationEventStep,
     FilterUserOperationRevertReasonStep, FilterWithdrawnStep,
     FilterApprovalStep, FilterTransferStep
  DEF FilterInv
<1>2. CASE WatchInv
  BY <1>2,
     WatchDepositedStep, WatchStakeLockedStep, WatchStakeUnlockedStep,
     WatchStakeWithdrawnStep, WatchUserOperationEventStep,
     WatchUserOperationRevertReasonStep, WatchWithdrawnStep, WatchApprovalStep,
     WatchTransferStep
  DEF WatchInv
<1> QED
  BY <1>1, <1>2 DEF BindingInv

\* The invariant has the types.
LEMMA BindingsTyped == BindingInv => TypeOK
<1> SUFFICES ASSUME BindingInv
             PROVE  TypeOK
  OBVIOUS
<1>1. DOMAIN Declared =
         {"Deposited", "StakeLocked", "StakeUnlocked", "StakeWithdrawn",
          "UserOperationEvent", "UserOperationRevertReason", "Withdrawn",
          "Approval", "Transfer"}
  BY DEF Declared
<1>2. CASE FilterInv
  <2>1. PICK event \in DOMAIN Declared :
            binding = <<"Filter", event>> /\ FilterTyped(event)
    BY <1>1, <1>2,
       FilterDepositedTyped, FilterStakeLockedTyped, FilterStakeUnlockedTyped,
       FilterStakeWithdrawnTyped, FilterUserOperationEventTyped,
       FilterUserOperationRevertReasonTyped, FilterWithdrawnTyped,
       FilterApprovalTyped, FilterTransferTyped
    DEF FilterInv
  <2>2. FilterRests
    BY <1>2 DEF FilterInv
  <2>3. hand \in Seq(Event)
    BY <2>2 DEF FilterRests
  <2> QED
    BY <2>1, <2>2, <2>3 DEF FilterRests, FilterTyped, StreamTyped, TypeOK
<1>3. CASE WatchInv
  <2>1. PICK event \in DOMAIN Declared :
            binding = <<"Watch", event>> /\ WatchTyped(event)
    BY <1>1, <1>3,
       WatchDepositedTyped, WatchStakeLockedTyped, WatchStakeUnlockedTyped,
       WatchStakeWithdrawnTyped, WatchUserOperationEventTyped,
       WatchUserOperationRevertReasonTyped, WatchWithdrawnTyped,
       WatchApprovalTyped, WatchTransferTyped
    DEF WatchInv
  <2>2. WatchRests
    BY <1>3 DEF WatchInv
  <2> QED
    BY <2>1, <2>2, Zenon DEF WatchRests, WatchTyped, StreamTyped, TypeOK
<1> QED
  BY <1>2, <1>3 DEF BindingInv

LEMMA BindingInvariant == Spec => []BindingInv
<1>1. BindingInv /\ [Next]_vars => BindingInv'
  BY StepBindings
<1>2. Init => BindingInv
  BY InitBindings
<1> QED
  BY <1>1, <1>2, PTL DEF Spec

\* Whatever binding a client uses, the channel of logs does not overflow, and the
\* goroutine of a watcher sends exactly when it has an event in its hand.
THEOREM BindingsTypeCorrect == Spec => []TypeOK
BY BindingInvariant, BindingsTyped, PTL

\* Every binding, with the order in which it passes its rules, gives its client
\* the events it asked for in order and without a gap.
THEOREM BindingsImplementStreams == Spec => ImplementsStream
<1>1. Init => Stream!Init
  BY InitBindings
<1>2. BindingInv /\ [Next]_vars => [Stream!Next]_(Stream!vars)
  BY StepBindings
<1> QED
  BY <1>1, <1>2, BindingInvariant, PTL DEF Spec, ImplementsStream, Stream!Spec
=============================================================================
