------------------------------- MODULE Lambda -------------------------------
(***************************************************************************)
(* The bundler as it is deployed (bundler/template.yaml): a gateway hands  *)
(* each HTTP request to an instance of a Lambda function, which serves one *)
(* at a time.  An instance reads its configuration from a secret before    *)
(* its first request and keeps it until its process ends: by a panic, by a *)
(* time-out, or because Lambda needs it no longer.  The secret may change  *)
(* at any time.                                                            *)
(*                                                                         *)
(* What happens to user operations is described in module Bundler, whose   *)
(* actions are used here with the configuration of the instance.           *)
(***************************************************************************)
EXTENDS Bundler

CONSTANTS
    Instance,   \* instances of the Lambda function
    Secrets,    \* the values the secret may have
    MaxChanges  \* bound: changes of the secret

\* A configuration is no JSON, like the random password that the template
\* creates, or has a chain id or a key that does not parse, or is good.
ConfigKind == {"password", "badChain", "badKey", "good"}

None == "none"

ASSUME LambdaAssumption ==
    /\ Secrets \subseteq ConfigKind
    /\ MaxChanges \in Nat
    /\ None \notin Request

VARIABLES
    secret,   \* what is in the Secrets Manager
    changes,  \* how often it was changed
    C,        \* C[i]: the configuration instance i has read
    serving,  \* serving[i]: the request instance i serves
    status,   \* status[r]: what the gateway answers, "waiting" before
    vouched,  \* history: the configurations that passed a check
    crashed   \* history: crashed[i]: the configurations for which i panicked,
              \* one for each time, since the secret was changed

instanceVars == <<C, serving, status, crashed>>
lambdaVars   == <<secret, changes, vouched, instanceVars>>
allVars      == <<vars, lambdaVars>>

LInit ==
    /\ Init
    /\ secret \in Secrets
    /\ changes = 0
    /\ C = [i \in Instance |-> None]
    /\ serving = [i \in Instance |-> None]
    /\ status = [r \in Request |-> "none"]
    /\ vouched = {}
    /\ crashed = [i \in Instance |-> <<>>]

-----------------------------------------------------------------------------
(* The configuration. *)

\* GetChainID and GetBundler panic where these are false.
GetChainID(c) == c # "badChain"
GetBundler(c) == c # "badKey"

\* InitFromFile checks what it has read.
InitFromFile(c) == c # "password" /\ GetChainID(c) /\ GetBundler(c)

\* InitFromAWSSecret ends the process when there is no JSON in the secret, and
\* checks nothing else.
InitFromAWSSecret(c) == c # "password"

\* A developer checks a configuration with cmd/standalone.
Standalone(c) ==
    /\ InitFromFile(c)
    /\ vouched' = vouched \cup {c}
    /\ UNCHANGED <<vars, secret, changes, instanceVars>>

SetSecret(s) ==
    /\ changes < MaxChanges
    /\ secret' = s
    /\ changes' = changes + 1
    /\ crashed' = [i \in Instance |-> <<>>]
    /\ UNCHANGED <<vars, vouched, C, serving, status>>

-----------------------------------------------------------------------------
(* An instance. *)

\* The request of instance i is answered.
Ends(i, code) ==
    /\ status' = [status EXCEPT ![serving[i]] = code]
    /\ serving' = [serving EXCEPT ![i] = None]

\* A wrong handler that recovers from its panic, so that the process goes on.
Exit_goesOn(i, code) ==
    /\ Ends(i, code)
    /\ UNCHANGED C

\* Its process ends as well, and forgets what it has read.
Exit(i, code) ==
    /\ Ends(i, code)
    /\ C' = [C EXCEPT ![i] = None]

Panics(i) ==
    /\ Exit(i, "panic")
    /\ crashed' = [crashed EXCEPT ![i] = Append(@, C[i])]

\* The gateway picks an instance that is free.
Invoke(i, r) ==
    /\ serving[i] = None
    /\ status[r] = "none"
    /\ serving' = [serving EXCEPT ![i] = r]
    /\ status' = [status EXCEPT ![r] = "waiting"]
    /\ UNCHANGED <<vars, secret, changes, vouched, C, crashed>>

\* init reads the secret, which may fail, and connects to the node.
ColdStart(i) ==
    /\ serving[i] # None
    /\ C[i] = None
    /\ \/ /\ InitFromAWSSecret(secret)
          /\ C' = [C EXCEPT ![i] = secret]
          /\ UNCHANGED <<serving, status>>
       \/ Exit(i, "crash")
    /\ UNCHANGED <<vars, secret, changes, vouched, crashed>>

\* A request that its instance has not looked at.
Arrived(i) == serving[i] # None /\ C[i] # None /\ pc[serving[i]] = "idle"

\* A path that is missing, or not known.
BadPath(i) ==
    /\ Arrived(i)
    /\ Ends(i, "400") \/ Ends(i, "404")
    /\ UNCHANGED <<vars, secret, changes, vouched, C, crashed>>

\* A wrong health check that does not use the key.
Healthz_chainOnly(i) ==
    /\ Arrived(i)
    /\ IF GetChainID(C[i])
       THEN /\ Ends(i, "200")
            /\ vouched' = vouched \cup {C[i]}
            /\ UNCHANGED <<C, crashed>>
       ELSE Panics(i) /\ UNCHANGED vouched
    /\ UNCHANGED <<vars, secret, changes>>

\* Healthz shows the address that belongs to the key, and the chain id.
Healthz(i) ==
    /\ Arrived(i)
    /\ IF GetBundler(C[i]) /\ GetChainID(C[i])
       THEN /\ Ends(i, "200")
            /\ vouched' = vouched \cup {C[i]}
            /\ UNCHANGED <<C, crashed>>
       ELSE Panics(i) /\ UNCHANGED vouched
    /\ UNCHANGED <<vars, secret, changes>>

HandleOps(i) ==
    /\ Arrived(i)
    /\ \E ops \in Bodies : Receive(serving[i], ops)
    /\ UNCHANGED lambdaVars

\* Simulate panics on the chain id before it calls the node, and on the key when
\* it signs what was simulated.
BadConfig(i) ==
    LET r == serving[i]
    IN  /\ serving[i] # None
        /\ Misconfigured(r)
        /\ \/ ~GetChainID(C[i])
           \/ /\ ~GetBundler(C[i])
              /\ body[r][at[r]].form = "ok"
              /\ CanRun(<<body[r][at[r]]>>)
        /\ Panics(i)
        /\ UNCHANGED <<secret, changes, vouched>>

\* A wrong Simulate that does not sign.
SimulateWith_unsigned(r, c) == GetChainID(c) /\ Simulate(r)

\* With a bad key it ends, at the latest when it signs.
SimulateWith(r, c) ==
    /\ GetChainID(c)
    /\ Simulate(r)
    /\ GetBundler(c) \/ response'[r] # "none"

\* A step of the handler.
Serve(i) ==
    LET r == serving[i]
    IN  /\ serving[i] # None
        /\ \/ Parse(r)
           \/ SimulateWith(r, C[i])
           \/ EstimateGas(r)
           \/ PendingNonce(r)
           \/ SendTransaction(r)
           \/ TimesOut(r)
        /\ CASE response'[r] = "none" -> UNCHANGED <<C, serving, status>>
             [] response'[r] \in {"panic", "timeout"} -> Exit(i, response'[r])
             [] OTHER -> Ends(i, response'[r]) /\ UNCHANGED C
        /\ UNCHANGED <<secret, changes, vouched, crashed>>

InstanceStep(i) ==
    \/ ColdStart(i)
    \/ BadPath(i)
    \/ Healthz(i)
    \/ HandleOps(i)
    \/ BadConfig(i)
    \/ Serve(i)

\* An instance that serves nothing is removed.
Recycle(i) ==
    /\ serving[i] = None
    /\ C' = [C EXCEPT ![i] = None]
    /\ UNCHANGED <<vars, secret, changes, vouched, serving, status, crashed>>

-----------------------------------------------------------------------------
LNext ==
    \/ \E i \in Instance : InstanceStep(i)
                           \/ Recycle(i)
                           \/ (\E r \in Request : Invoke(i, r))
    \/ \E s \in Secrets : SetSecret(s) \/ Standalone(s)
    \/ /\ \/ \E t \in mempool, need \in GasNeeded : Mine(t, need)
          \/ \E w \in Wallet : HandledElsewhere(w)
       /\ UNCHANGED lambdaVars

\* An instance goes on with its request.
LSpec == LInit /\ [][LNext]_allVars /\ \A i \in Instance : WF_allVars(InstanceStep(i))

-----------------------------------------------------------------------------
(* Properties. *)

LTypeOK ==
    /\ TypeOK
    /\ secret \in Secrets
    /\ changes \in 0 .. MaxChanges
    /\ C \in [Instance -> (Secrets \ {"password"}) \cup {None}]
    /\ serving \in [Instance -> Request \cup {None}]
    /\ \A i, j \in Instance : serving[i] = serving[j] /\ serving[i] # None => i = j
    /\ \A r \in Request : /\ status[r] = "waiting" <=> \E i \in Instance : serving[i] = r
                          /\ status[r] = "none" => pc[r] = "idle"
    /\ status \in [Request -> Status \cup {"404", "crash", "waiting"}]
    /\ vouched \subseteq Secrets
    /\ crashed \in [Instance -> Seq(Secrets)]

\* A configuration that cmd/standalone or the health check of an instance found
\* good has no part that panics when a user operation is handled, in that
\* instance or in one that starts later.
VouchedConfigsWork ==
    \A i \in Instance : ToSet(crashed[i]) \cap vouched = {}

\* Once the secret is good an instance panics at most once for what it had read
\* before, however long it was kept.
BadConfigIsDropped ==
    secret = "good" => \A i \in Instance : Len(crashed[i]) <= 1

\* A transaction of the bundler is signed with its key, for its chain: what is
\* sent comes from a good configuration, although the secret may have become bad
\* since, and is so although HandleOps runs after the secret was read for
\* another request.
OnlyGoodConfigsSend ==
    \A i \in Instance :
        serving[i] # None /\ pc[serving[i]] \in {"estimate", "nonce", "send"}
            => C[i] = "good"

\* Every invocation ends and is answered, also when the process it is in ends.
EveryInvocationIsAnswered ==
    \A r \in Request : status[r] = "waiting" ~> status[r] \notin {"none", "waiting"}
=============================================================================
