-------------------------------- MODULE Rpc --------------------------------
(***************************************************************************)
(* What the psrpc layer promises its callers, with no bus and no claim      *)
(* flow: a call is made once, some server runs its handler at most once     *)
(* (possibly after the caller has given up), and the caller is told         *)
(* "response" only when a handler did run.                                  *)
(***************************************************************************)
EXTENDS Sequences

CONSTANTS Requests, Servers

VARIABLES
    result,   \* result[r]: what request_single returned for r
    runs,     \* runs[r]: the servers that ran r's handler, in order
    called    \* the requests made so far

rpcVars == <<result, runs, called>>

Init ==
    /\ result = [r \in Requests |-> "none"]
    /\ runs = [r \in Requests |-> <<>>]
    /\ called = {}

Call(r) ==
    /\ r \notin called
    /\ called' = called \cup {r}
    /\ result' \in {result, [result EXCEPT ![r] = "bus"]}
    /\ UNCHANGED runs

Run(r, s) ==
    /\ r \in called
    /\ runs[r] = <<>>
    /\ runs' = [runs EXCEPT ![r] = <<s>>]
    /\ UNCHANGED <<result, called>>

Return(r, x) ==
    /\ r \in called
    /\ result[r] = "none"
    /\ x = "response" => runs[r] # <<>>
    /\ result' = [result EXCEPT ![r] = x]
    /\ UNCHANGED <<runs, called>>

Next ==
    \E r \in Requests :
        \/ Call(r)
        \/ \E s \in Servers : Run(r, s)
        \/ \E x \in {"response", "timeout", "bus"} : Return(r, x)

Spec == Init /\ [][Next]_rpcVars
=============================================================================
