------------------------------ MODULE MCLambda ------------------------------
(* Two instances of the bundler and requests about two wallets, for TLC. *)
EXTENDS Lambda

CONSTANTS a, b

Op(w, n) == [sender |-> w, nonce |-> n, form |-> "ok", signed |-> TRUE]

\* Two operations of a wallet, the same twice or in sequence; operations of two
\* wallets; and what is broken.
MCBodies == {<<>>,
             <<Op(a, 0), Op(a, 0)>>,
             <<Op(a, 0), Op(a, 1)>>,
             <<Op(a, 0), Op(b, 0)>>,
             <<[Op(a, 0) EXCEPT !.form = "missing"]>>,
             <<[Op(a, 0) EXCEPT !.form = "badNumber"]>>}

\* One operation.
OneOp == {<<Op(a, 0)>>}
=============================================================================
