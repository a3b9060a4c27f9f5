--------------------------- MODULE MCStakeManager ---------------------------
(* StakeManager on two accounts and small integers, for TLC. *)
EXTENDS StakeManager, TLC

CONSTANTS a1, a2

MCAccount == {a1, a2}
MCAmount  == {0, 1, 2}
MCDelay   == {0, 1, 2}
=============================================================================
