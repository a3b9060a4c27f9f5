---------------------------- MODULE EventStream ----------------------------
(***************************************************************************)
(* What a client of the bundler's contract bindings relies on when it      *)
(* filters or watches an event: the events it asked for come one by one,   *)
(* in the order of the chain and without a gap, and the stream is called   *)
(* complete only when all of them came.                                    *)
(***************************************************************************)
EXTENDS Naturals, Sequences

CONSTANT Event

VARIABLES
    expected,   \* the events that were asked for, as they are on the chain
    delivered,  \* those the client received
    outcome     \* what the client was told of the stream's end

vars == <<expected, delivered, outcome>>

Outcome == {"open", "complete", "failed", "closed"}

Init ==
    /\ expected = <<>>
    /\ delivered = <<>>
    /\ outcome = "open"

Occur(e) ==
    /\ outcome = "open"
    /\ expected' = Append(expected, e)
    /\ UNCHANGED <<delivered, outcome>>

Deliver ==
    /\ outcome = "open"
    /\ Len(delivered) < Len(expected)
    /\ delivered' = Append(delivered, expected[Len(delivered) + 1])
    /\ UNCHANGED <<expected, outcome>>

End(o) ==
    /\ outcome = "open"
    /\ o = "complete" => delivered = expected
    /\ outcome' = o
    /\ UNCHANGED <<expected, delivered>>

Next ==
    \/ \E e \in Event : Occur(e)
    \/ Deliver
    \/ \E o \in Outcome \ {"open"} : End(o)

Spec == Init /\ [][Next]_vars
=============================================================================
