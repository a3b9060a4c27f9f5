------------------------------ MODULE TimeLock ------------------------------
(***************************************************************************)
(* What a stake promises, without the fields that implement it.  Each      *)
(* owner has a lock.  A locked value can only grow and its delay can only  *)
(* grow; the owner may start to cool it down, and takes it out when a      *)
(* whole delay has passed since then.  Locking again cancels the cool-down.*)
(***************************************************************************)
EXTENDS Integers

CONSTANTS
    Owner,     \* those who lock a value
    Value,     \* the amounts
    Delays,    \* the delays
    MinValue,  \* least value of a lock
    MinDelay   \* least delay of a lock

VARIABLES lock, now

Open == [mode |-> "open"]
Locked(v, d) == [mode |-> "locked", value |-> v, delay |-> d]
Cooling(v, d, t) == [mode |-> "cooling", value |-> v, delay |-> d, since |-> t]

Init == lock = [o \in Owner |-> Open] /\ now = 1

\* A new lock, or a lock renewed with more value or a longer delay.
Acquire(o) ==
    \E v \in Value, d \in Delays :
        /\ v >= MinValue
        /\ d >= MinDelay
        /\ lock[o].mode # "open" => v >= lock[o].value /\ d >= lock[o].delay
        /\ lock' = [lock EXCEPT ![o] = Locked(v, d)]
        /\ UNCHANGED now

CoolDown(o) ==
    /\ lock[o].mode = "locked"
    /\ lock' = [lock EXCEPT ![o] = Cooling(lock[o].value, lock[o].delay, now)]
    /\ UNCHANGED now

Release(o) ==
    /\ lock[o].mode = "cooling"
    /\ lock[o].since + lock[o].delay <= now
    /\ lock' = [lock EXCEPT ![o] = Open]
    /\ UNCHANGED now

Pass == now' = now + 1 /\ UNCHANGED lock

Next ==
    \/ \E o \in Owner : Acquire(o) \/ CoolDown(o) \/ Release(o)
    \/ Pass

Spec == Init /\ [][Next]_<<lock, now>>

=============================================================================
