------------------------------- MODULE Psrpc -------------------------------
(***************************************************************************)
(* The claim protocol of lk-psrpc: PsrpcClient.request_single on one side,  *)
(* the loop PsrpcServer.register_topic spawns on the other, and the bus     *)
(* (Redis PubSub) between them.                                             *)
(*                                                                         *)
(* One method and one topic.  Requests are the request ids the client       *)
(* draws; every server of the service subscribes to the method's REQ and    *)
(* RCLAIM channels in one stream, and the client to its CLAIM and RES       *)
(* channels in one stream, so each stream is a FIFO queue.                  *)
(***************************************************************************)
EXTENDS Naturals, Sequences

CONSTANTS
    Requests,
    Servers,
    Settings   \* what the calls may meet:
               \*   requests  the requests that are made
               \*   servers   the servers that are subscribed
               \*   copies    how many copies of one published message a
               \*             subscriber can get: 0 when it is reconnecting, 2
               \*             when the publisher's retry follows an attempt
               \*             whose reply was lost

ASSUME SettingsAssumption ==
    Settings \subseteq [requests : SUBSET Requests, servers : SUBSET Servers,
                        copies : SUBSET Nat]

VARIABLES
    setting,        \* the one of Settings that the behaviour is about
    call,           \* call[r]: where the future of request_single(r) is
    granted,        \* granted[r]: the flag of request_single_inner
    result,         \* result[r]: what request_single returned
    pending,        \* PsrpcClient.pending, the requests that have an entry
    claims,         \* claims[r]: the channel behind claim_rx
    responses,      \* responses[r]: the channel behind resp_rx
    clientStream,   \* the client's subscription
    serverStream,   \* serverStream[s]: the subscription of server s
    serverPending,  \* serverPending[s]: the `pending` map of s's loop
    expired,        \* expired[s]: requests whose expiry is past on s's clock
    running,        \* <<s, r>>: a spawned handler task of s for r
    runs            \* runs[r]: the servers that started r's handler, in order

clientVars == <<call, granted, result, pending, claims, responses>>
serverVars == <<serverPending, expired, running, runs>>
callVars == <<clientVars, serverVars, clientStream, serverStream>>
vars == <<setting, callVars>>

-----------------------------------------------------------------------------

ServerMessage ==
    [type : {"REQ"}, req : Requests]
        \cup [type : {"RCLAIM"}, req : Requests, server : Servers]

ClientMessage ==
    [type : {"CLAIM", "RES"}, req : Requests, server : Servers]

Req(r) == [type |-> "REQ", req |-> r]
ClaimResponse(r, s) == [type |-> "RCLAIM", req |-> r, server |-> s]
ClaimRequest(r, s) == [type |-> "CLAIM", req |-> r, server |-> s]
Response(r, s) == [type |-> "RES", req |-> r, server |-> s]

\* What a subscription holds after n copies of m arrived on it.
Deliver(stream, m, n) == stream \o [i \in 1..n |-> m]

\* RedisBus.publish of m, seen by the servers: each gets its own number of
\* copies.  Whether publish returns Ok is independent of it.
PublishToServers(m) ==
    \E n \in [setting.servers -> setting.copies] :
        serverStream' = [s \in Servers |->
            IF s \in setting.servers THEN Deliver(serverStream[s], m, n[s])
            ELSE serverStream[s]]

PublishToClient(m) ==
    \E n \in setting.copies : clientStream' = Deliver(clientStream, m, n)

Init ==
    /\ setting \in Settings
    /\ call = [r \in Requests |-> "idle"]
    /\ granted = [r \in Requests |-> FALSE]
    /\ result = [r \in Requests |-> "none"]
    /\ pending = {}
    /\ claims = [r \in Requests |-> <<>>]
    /\ responses = [r \in Requests |-> <<>>]
    /\ clientStream = <<>>
    /\ serverStream = [s \in Servers |-> <<>>]
    /\ serverPending = [s \in Servers |-> {}]
    /\ expired = [s \in Servers |-> {}]
    /\ running = {}
    /\ runs = [r \in Requests |-> <<>>]

-----------------------------------------------------------------------------
(* The client *)

\* request_single is over for r: its receivers are dropped, and what they
\* held goes with them.
Finish(r, x) ==
    /\ call' = [call EXCEPT ![r] = "returned"]
    /\ result' = [result EXCEPT ![r] = x]
    /\ claims' = [claims EXCEPT ![r] = <<>>]
    /\ responses' = [responses EXCEPT ![r] = <<>>]

\* request_single up to the select loop: the pending entry goes in before the
\* request is published; a publish error returns and takes it out again.
RequestSingle(r) ==
    /\ r \in setting.requests
    /\ call[r] = "idle"
    /\ PublishToServers(Req(r))
    /\ \/ /\ call' = [call EXCEPT ![r] = "selecting"]
          /\ pending' = pending \cup {r}
          /\ UNCHANGED <<result, claims, responses>>
       \/ /\ Finish(r, "bus")
          /\ UNCHANGED pending
    /\ UNCHANGED <<granted, clientStream, serverVars>>

\* dispatch routes one message by request id.  A request that returned still
\* has an entry after a timeout, but the send to its dropped receiver fails.
Dispatch ==
    /\ clientStream # <<>>
    /\ LET m == Head(clientStream)
           live == m.req \in pending /\ call[m.req] = "selecting"
       IN /\ claims' = IF live /\ m.type = "CLAIM"
                         THEN [claims EXCEPT ![m.req] = Append(@, m.server)]
                         ELSE claims
          /\ responses' = IF live /\ m.type = "RES"
                            THEN [responses EXCEPT ![m.req] = Append(@, m.server)]
                            ELSE responses
    /\ clientStream' = Tail(clientStream)
    /\ UNCHANGED <<call, granted, result, pending, serverStream, serverVars>>

\* The first, biased, arm of the select: a response ends the call.
TakeResponse(r) ==
    /\ call[r] = "selecting"
    /\ responses[r] # <<>>
    /\ Finish(r, "response")
    /\ pending' = pending \ {r}
    /\ UNCHANGED <<granted, clientStream, serverStream, serverVars>>

\* A claim, taken when no response is ready, after a grant: `continue`.
IgnoreClaim(r) ==
    /\ call[r] = "selecting"
    /\ responses[r] = <<>>
    /\ claims[r] # <<>>
    /\ granted[r]
    /\ claims' = [claims EXCEPT ![r] = Tail(@)]
    /\ UNCHANGED <<call, granted, result, pending, responses, clientStream,
                   serverStream, serverVars>>

\* Mutant: the `granted` flag is not consulted.
GrantEveryClaim(r) ==
    /\ call[r] = "selecting"
    /\ responses[r] = <<>>
    /\ claims[r] # <<>>
    /\ PublishToServers(ClaimResponse(r, Head(claims[r])))
    /\ claims' = [claims EXCEPT ![r] = Tail(@)]
    /\ granted' = [granted EXCEPT ![r] = TRUE]
    /\ UNCHANGED <<call, result, pending, responses, clientStream, serverVars>>

\* Mutant: a failed publish of the grant is reported but does not return.
GrantAndGoOn(r) ==
    /\ call[r] = "selecting"
    /\ responses[r] = <<>>
    /\ claims[r] # <<>>
    /\ ~granted[r]
    /\ PublishToServers(ClaimResponse(r, Head(claims[r])))
    /\ claims' = [claims EXCEPT ![r] = Tail(@)]
    /\ granted' = [granted EXCEPT ![r] = TRUE]
    /\ result' \in {result, [result EXCEPT ![r] = "bus"]}
    /\ UNCHANGED <<call, pending, responses, clientStream, serverVars>>

\* The first claim: publish the grant; an error ends the call.
GrantClaim(r) ==
    /\ call[r] = "selecting"
    /\ responses[r] = <<>>
    /\ claims[r] # <<>>
    /\ ~granted[r]
    /\ PublishToServers(ClaimResponse(r, Head(claims[r])))
    /\ \/ /\ granted' = [granted EXCEPT ![r] = TRUE]
          /\ claims' = [claims EXCEPT ![r] = Tail(@)]
          /\ UNCHANGED <<call, result, pending, responses>>
       \/ /\ Finish(r, "bus")
          /\ pending' = pending \ {r}
          /\ UNCHANGED granted
    /\ UNCHANGED <<clientStream, serverVars>>

\* The timer of request_single: the inner future is polled first, so a
\* response that is ready wins.  The `?` returns before pending.remove.
Timeout(r) ==
    /\ call[r] = "selecting"
    /\ responses[r] = <<>>
    /\ Finish(r, "timeout")
    /\ UNCHANGED <<granted, pending, clientStream, serverStream, serverVars>>

-----------------------------------------------------------------------------
(* A server of the service *)

\* The request's expiry passes on the clock of s, which need not agree with
\* the client's timer.
Expire(s, r) ==
    /\ s \in setting.servers
    /\ call[r] # "idle"
    /\ r \notin expired[s]
    /\ expired' = [expired EXCEPT ![s] = @ \cup {r}]
    /\ UNCHANGED <<clientVars, clientStream, serverStream, serverPending,
                   running, runs>>

\* Mutant: the purge keeps the expired entries and drops the live ones.
PurgeLiveRequests(s) ==
    /\ serverStream[s] # <<>>
    /\ Head(serverStream[s]).type = "REQ"
    /\ serverStream' = [serverStream EXCEPT ![s] = Tail(@)]
    /\ LET r == Head(serverStream[s]).req
       IN /\ serverPending' =
                 [serverPending EXCEPT ![s] = (@ \cap expired[s]) \cup {r}]
          /\ PublishToClient(ClaimRequest(r, s))
    /\ UNCHANGED <<clientVars, expired, running, runs>>

\* A REQ message: skipped when expired, else stored and bid for.
ServerRequest(s) ==
    /\ serverStream[s] # <<>>
    /\ Head(serverStream[s]).type = "REQ"
    /\ serverStream' = [serverStream EXCEPT ![s] = Tail(@)]
    /\ LET r == Head(serverStream[s]).req
       IN \/ /\ r \in expired[s]
             /\ UNCHANGED <<serverPending, clientStream>>
          \/ /\ r \notin expired[s]
             /\ serverPending' =
                    [serverPending EXCEPT ![s] = (@ \ expired[s]) \cup {r}]
             /\ PublishToClient(ClaimRequest(r, s))
    /\ UNCHANGED <<clientVars, expired, running, runs>>

\* An RCLAIM message: another server's grant, or one for a request that is no
\* longer stored, is skipped; else the entry goes and the handler is spawned.
ServerGrant(s) ==
    /\ serverStream[s] # <<>>
    /\ Head(serverStream[s]).type = "RCLAIM"
    /\ serverStream' = [serverStream EXCEPT ![s] = Tail(@)]
    /\ LET m == Head(serverStream[s])
       IN \/ /\ m.server # s \/ m.req \notin serverPending[s]
             /\ UNCHANGED <<serverPending, running, runs>>
          \/ /\ m.server = s
             /\ m.req \in serverPending[s]
             /\ serverPending' = [serverPending EXCEPT ![s] = @ \ {m.req}]
             /\ running' = running \cup {<<s, m.req>>}
             /\ runs' = [runs EXCEPT ![m.req] = Append(@, s)]
    /\ UNCHANGED <<clientVars, clientStream, expired>>

\* The handler task ends and publishes its response (or its coded error).
HandlerDone(s, r) ==
    /\ <<s, r>> \in running
    /\ running' = running \ {<<s, r>>}
    /\ PublishToClient(Response(r, s))
    /\ UNCHANGED <<clientVars, serverStream, serverPending, expired, runs>>

-----------------------------------------------------------------------------

Next ==
    /\ \/ Dispatch
       \/ \E r \in Requests :
             \/ RequestSingle(r)
             \/ TakeResponse(r)
             \/ IgnoreClaim(r)
             \/ GrantClaim(r)
             \/ Timeout(r)
       \/ \E s \in Servers :
             \/ ServerRequest(s)
             \/ ServerGrant(s)
             \/ \E r \in Requests : Expire(s, r) \/ HandlerDone(s, r)
    /\ UNCHANGED setting

Spec == Init /\ [][Next]_vars

\* Tasks that can run are run by the tokio scheduler, and handlers return.
\* Nothing makes a caller call, a timer fire or a clock pass an expiry.
Fairness ==
    /\ WF_callVars(Dispatch)
    /\ \A r \in Requests :
          /\ WF_callVars(TakeResponse(r))
          /\ WF_callVars(IgnoreClaim(r))
          /\ WF_callVars(GrantClaim(r))
    /\ \A s \in Servers :
          /\ WF_callVars(ServerRequest(s))
          /\ WF_callVars(ServerGrant(s))
          /\ \A r \in Requests : WF_callVars(HandlerDone(s, r))

FairSpec == Spec /\ Fairness

-----------------------------------------------------------------------------
(* Properties *)

\* The state has its types, and a call has a result exactly when its future
\* completed (every `return` and `?` of request_single carries a result).
TypeOK ==
    /\ setting \in Settings
    /\ call \in [Requests -> {"idle", "selecting", "returned"}]
    /\ granted \in [Requests -> BOOLEAN]
    /\ result \in [Requests -> {"none", "response", "timeout", "bus"}]
    /\ pending \in SUBSET Requests
    /\ claims \in [Requests -> Seq(Servers)]
    /\ responses \in [Requests -> Seq(Servers)]
    /\ clientStream \in Seq(ClientMessage)
    /\ serverStream \in [Servers -> Seq(ServerMessage)]
    /\ serverPending \in [Servers -> SUBSET Requests]
    /\ expired \in [Servers -> SUBSET Requests]
    /\ running \in SUBSET (Servers \X Requests)
    /\ runs \in [Requests -> Seq(Servers)]
    /\ \A r \in Requests : call[r] = "returned" <=> result[r] # "none"

\* Of all servers that bid, at most one ever runs a request's handler, and it
\* runs it once, whatever the bus loses or duplicates and whenever the caller
\* gives up.  ("Only one server may be granted the request ... else every
\* egress node that bids would start the same recording".)
AtMostOnce ==
    \A r \in Requests : Len(runs[r]) <= 1

\* The claim flow implements a remote call that runs at most once and reports
\* a response only when a handler ran.
AbstractRpc == INSTANCE Rpc
                 WITH called <- {r \in Requests : call[r] # "idle"}

RpcSpec == AbstractRpc!Spec

\* On a bus that loses nothing, the claim flow never depends on the timer of
\* request_single: a call returns unless the request expired on some server
\* before that server read it.
CallReturns ==
    \A r \in Requests :
        call[r] = "selecting" /\ setting.copies = {1} ~>
            (call[r] = "returned" \/ \E s \in Servers : r \in expired[s])

\* PsrpcClient "routes incoming messages to in-flight requests by
\* `request_id`": the routing table holds no request that has returned.
OnlyInFlightPending ==
    \A r \in pending : call[r] = "selecting"

=============================================================================
