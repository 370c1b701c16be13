----------------------------- MODULE PsrpcProofs -----------------------------
(***************************************************************************)
(* At most one server runs a request, at most once, and the claim flow      *)
(* implements the remote call of Rpc: for any number of requests and        *)
(* servers, and whatever the bus loses or duplicates.                       *)
(***************************************************************************)
EXTENDS Psrpc, Integers, TLAPS

\* What the argument needs of the types.
ServerTypes ==
    /\ setting \in [requests : SUBSET Requests, servers : SUBSET Servers,
                    copies : SUBSET Nat]
    /\ call \in [Requests -> {"idle", "selecting", "returned"}]
    /\ granted \in [Requests -> BOOLEAN]
    /\ claims \in [Requests -> Seq(Servers)]
    /\ clientStream \in Seq(ClientMessage)
    /\ serverStream \in [Servers -> Seq(ServerMessage)]
    /\ serverPending \in [Servers -> SUBSET Requests]
    /\ runs \in [Requests -> Seq(Servers)]

IsReq(m, r) == m.type = "REQ" /\ m.req = r
IsGrant(m, r) == m.type = "RCLAIM" /\ m.req = r

\* A copy of the request r, of a grant of r to g, is still to be read by s.
HasReq(s, r) == \E i \in DOMAIN serverStream[s] : IsReq(serverStream[s][i], r)
HasGrant(s, r, g) ==
    \E i \in DOMAIN serverStream[s] :
        IsGrant(serverStream[s][i], r) /\ serverStream[s][i].server = g

\* The grants of r name one server.
OneGrantee ==
    \A r \in Requests : \A s, t, g, h \in Servers :
        HasGrant(s, r, g) /\ HasGrant(t, r, h) => g = h

\* ... and it is the one that runs r.
RunnerIsGrantee ==
    \A r \in Requests : \A s, g \in Servers :
        HasGrant(s, r, g) /\ runs[r] # <<>> => runs[r][1] = g

\* No grant exists before it is published, and none is published twice.
GrantedOnce ==
    \A r \in Requests :
        call[r] = "idle" \/ (call[r] = "selecting" /\ ~granted[r]) =>
            /\ runs[r] = <<>>
            /\ \A s, g \in Servers : ~HasGrant(s, r, g)

\* The request is published once, before its grant: no copy of it comes behind
\* a copy of the grant.
RequestBeforeGrant ==
    \A r \in Requests : \A s \in Servers :
        \A i, j \in DOMAIN serverStream[s] :
            IsReq(serverStream[s][i], r) /\ IsGrant(serverStream[s][j], r) => i < j

\* So the server that runs r holds neither r nor a copy of it.
RunnerIsDone ==
    \A r \in Requests : \A s \in Servers :
        runs[r] # <<>> /\ runs[r][1] = s => r \notin serverPending[s] /\ ~HasReq(s, r)

RpcInv ==
    /\ ServerTypes
    /\ AtMostOnce
    /\ OneGrantee
    /\ RunnerIsGrantee
    /\ GrantedOnce
    /\ RequestBeforeGrant
    /\ RunnerIsDone

-----------------------------------------------------------------------------
(* The subscriptions *)

\* Copies of m may have been added to the end of any subscription.
Published(m) ==
    /\ serverStream' \in [Servers -> Seq(ServerMessage)]
    /\ \A s \in Servers : \A i \in DOMAIN serverStream'[s] :
          \/ i \in DOMAIN serverStream[s] /\ serverStream'[s][i] = serverStream[s][i]
          \/ /\ serverStream'[s][i] = m
             /\ \A j \in DOMAIN serverStream[s] : j < i

\* The first message of s was taken.
Taken(s) ==
    /\ serverStream' \in [Servers -> Seq(ServerMessage)]
    /\ \A t \in Servers \ {s} : serverStream'[t] = serverStream[t]
    /\ \A i \in DOMAIN serverStream'[s] :
          /\ i + 1 \in DOMAIN serverStream[s]
          /\ serverStream'[s][i] = serverStream[s][i + 1]

LEMMA DeliverAppends ==
    ASSUME NEW M, NEW stream \in Seq(M), NEW m \in M, NEW n \in Nat
    PROVE  /\ Deliver(stream, m, n) \in Seq(M)
           /\ \A i \in DOMAIN Deliver(stream, m, n) :
                 \/ i \in DOMAIN stream /\ Deliver(stream, m, n)[i] = stream[i]
                 \/ /\ Deliver(stream, m, n)[i] = m
                    /\ \A j \in DOMAIN stream : j < i
  <1> DEFINE copies == [i \in 1 .. n |-> m]
  <1>1. copies \in Seq(M) /\ Len(copies) = n
    OBVIOUS
  <1> HIDE DEF copies
  <1>2. stream \o copies \in Seq(M)
    BY <1>1
  <1>3. ASSUME NEW i \in DOMAIN (stream \o copies)
        PROVE  \/ i \in DOMAIN stream /\ (stream \o copies)[i] = stream[i]
               \/ (stream \o copies)[i] = m /\ \A j \in DOMAIN stream : j < i
    <2>1. i \in 1 .. Len(stream) + n
      BY <1>1
    <2>2. CASE i \in 1 .. Len(stream)
      BY <2>2, <1>1
    <2>3. CASE i \in Len(stream) + 1 .. Len(stream) + n
      <3>1. (stream \o copies)[i] = copies[i - Len(stream)]
        BY <2>3, <1>1
      <3>2. i - Len(stream) \in 1 .. n
        BY <2>3
      <3>3. copies[i - Len(stream)] = m
        BY <3>2 DEF copies
      <3>4. \A j \in DOMAIN stream : j < i
        BY <2>3
      <3>5. QED
        BY <3>1, <3>3, <3>4
    <2>4. QED
      BY <2>1, <2>2, <2>3
  <1>4. QED
    BY <1>2, <1>3 DEF Deliver, copies

LEMMA PublishToServersAppends ==
    ASSUME ServerTypes, NEW m \in ServerMessage, PublishToServers(m)
    PROVE  Published(m)
  <1>1. PICK n \in [setting.servers -> setting.copies] :
            serverStream' = [s \in Servers |->
                IF s \in setting.servers THEN Deliver(serverStream[s], m, n[s])
                ELSE serverStream[s]]
    BY DEF PublishToServers
  <1>2. ASSUME NEW s \in Servers
        PROVE  /\ serverStream'[s] \in Seq(ServerMessage)
               /\ \A i \in DOMAIN serverStream'[s] :
                     \/ /\ i \in DOMAIN serverStream[s]
                        /\ serverStream'[s][i] = serverStream[s][i]
                     \/ /\ serverStream'[s][i] = m
                        /\ \A j \in DOMAIN serverStream[s] : j < i
    <2>1. serverStream[s] \in Seq(ServerMessage)
      BY DEF ServerTypes
    <2>2. CASE s \in setting.servers
      <3>1. n[s] \in Nat
        BY <2>2 DEF ServerTypes
      <3>2. serverStream'[s] = Deliver(serverStream[s], m, n[s])
        BY <1>1, <2>2
      <3>3. /\ Deliver(serverStream[s], m, n[s]) \in Seq(ServerMessage)
            /\ \A i \in DOMAIN Deliver(serverStream[s], m, n[s]) :
                  \/ /\ i \in DOMAIN serverStream[s]
                     /\ Deliver(serverStream[s], m, n[s])[i] = serverStream[s][i]
                  \/ /\ Deliver(serverStream[s], m, n[s])[i] = m
                     /\ \A j \in DOMAIN serverStream[s] : j < i
        BY <2>1, <3>1, DeliverAppends, Zenon
      <3>4. QED
        BY <3>2, <3>3, Zenon
    <2>3. CASE s \notin setting.servers
      BY <1>1, <2>1, <2>3
    <2>4. QED
      BY <2>2, <2>3
  <1>3. QED
    BY <1>1, <1>2 DEF Published

LEMMA PublishToClientTyped ==
    ASSUME ServerTypes, NEW m \in ClientMessage, PublishToClient(m)
    PROVE  clientStream' \in Seq(ClientMessage)
  <1>1. PICK n \in setting.copies : clientStream' = Deliver(clientStream, m, n)
    BY DEF PublishToClient
  <1>2. n \in Nat /\ clientStream \in Seq(ClientMessage)
    BY DEF ServerTypes
  <1>3. QED
    BY <1>1, <1>2, DeliverAppends

\* A grant in a subscription names a server.
LEMMA GrantNamesServer ==
    ASSUME ServerTypes, NEW s \in Servers, NEW i \in DOMAIN serverStream[s],
           serverStream[s][i].type = "RCLAIM"
    PROVE  serverStream[s][i].server \in Servers /\ serverStream[s][i].req \in Requests
  <1>1. serverStream[s][i] \in ServerMessage
    BY DEF ServerTypes
  <1>2. CASE serverStream[s][i] \in [type : {"REQ"}, req : Requests]
    BY <1>2
  <1>3. CASE serverStream[s][i]
                \in [type : {"RCLAIM"}, req : Requests, server : Servers]
    BY <1>3
  <1>4. QED
    BY <1>1, <1>2, <1>3 DEF ServerMessage

LEMMA TailIsTaken ==
    ASSUME ServerTypes, NEW s \in Servers, serverStream[s] # <<>>,
           serverStream' = [serverStream EXCEPT ![s] = Tail(@)]
    PROVE  Taken(s)
  <1>1. serverStream[s] \in Seq(ServerMessage)
    BY DEF ServerTypes
  <1>2. serverStream'[s] = Tail(serverStream[s])
    BY DEF ServerTypes
  <1>3. /\ Tail(serverStream[s]) \in Seq(ServerMessage)
        /\ \A i \in DOMAIN Tail(serverStream[s]) :
              /\ i + 1 \in DOMAIN serverStream[s]
              /\ Tail(serverStream[s])[i] = serverStream[s][i + 1]
    BY <1>1
  <1>4. QED
    BY <1>2, <1>3 DEF ServerTypes, Taken

\* What a step on the subscriptions can add to them.
LEMMA PublishedReq ==
    ASSUME NEW r \in Requests, Published(Req(r))
    PROVE  \A q \in Requests, s, g \in Servers :
              /\ HasReq(s, q)' => HasReq(s, q) \/ q = r
              /\ HasGrant(s, q, g)' => HasGrant(s, q, g)
  BY DEF Published, Req, HasReq, HasGrant, IsReq, IsGrant

LEMMA PublishedGrant ==
    ASSUME NEW r \in Requests, NEW h \in Servers, Published(ClaimResponse(r, h))
    PROVE  \A q \in Requests, s, g \in Servers :
              /\ HasReq(s, q)' => HasReq(s, q)
              /\ HasGrant(s, q, g)' => HasGrant(s, q, g) \/ (q = r /\ g = h)
  <1> DEFINE m == ClaimResponse(r, h)
  <1>1. m.type = "RCLAIM" /\ m.req = r /\ m.server = h
    BY DEF ClaimResponse
  <1> SUFFICES ASSUME NEW q \in Requests, NEW s \in Servers, NEW g \in Servers
               PROVE  /\ HasReq(s, q)' => HasReq(s, q)
                      /\ HasGrant(s, q, g)' => HasGrant(s, q, g) \/ (q = r /\ g = h)
    OBVIOUS
  <1>2. \A i \in DOMAIN serverStream'[s] :
           \/ i \in DOMAIN serverStream[s] /\ serverStream'[s][i] = serverStream[s][i]
           \/ serverStream'[s][i] = m
    BY DEF Published
  <1> HIDE DEF m
  <1>3. HasReq(s, q)' => HasReq(s, q)
    BY <1>1, <1>2 DEF HasReq, IsReq
  <1>4. HasGrant(s, q, g)' => HasGrant(s, q, g) \/ (q = r /\ g = h)
    BY <1>1, <1>2 DEF HasGrant, IsGrant
  <1>5. QED
    BY <1>3, <1>4

LEMMA TakenAdds ==
    ASSUME ServerTypes, NEW t \in Servers, Taken(t)
    PROVE  \A q \in Requests, s, g \in Servers :
              /\ HasReq(s, q)' => HasReq(s, q)
              /\ HasGrant(s, q, g)' => HasGrant(s, q, g)
  <1> SUFFICES ASSUME NEW q \in Requests, NEW s \in Servers, NEW g \in Servers
               PROVE  /\ HasReq(s, q)' => HasReq(s, q)
                      /\ HasGrant(s, q, g)' => HasGrant(s, q, g)
    OBVIOUS
  <1>1. \A i \in DOMAIN serverStream'[s] :
           \E j \in DOMAIN serverStream[s] : serverStream'[s][i] = serverStream[s][j]
    <2>1. CASE s = t
      BY <2>1 DEF Taken
    <2>2. CASE s # t
      BY <2>2 DEF Taken
    <2>3. QED
      BY <2>1, <2>2
  <1>2. QED
    BY <1>1, Zenon DEF HasReq, HasGrant, IsReq, IsGrant

-----------------------------------------------------------------------------
(* The three steps that matter, and the others *)

\* A step that neither publishes nor grants nor runs: subscriptions only shrink,
\* no call goes back, and nothing new is stored but what the stream held.
Quiet ==
    /\ \A q \in Requests, s, g \in Servers :
          /\ HasReq(s, q)' => HasReq(s, q)
          /\ HasGrant(s, q, g)' => HasGrant(s, q, g)
    /\ RequestBeforeGrant'
    /\ UNCHANGED runs
    /\ \A q \in Requests :
          (call[q] = "idle" \/ (call[q] = "selecting" /\ ~granted[q]))' =>
              call[q] = "idle" \/ (call[q] = "selecting" /\ ~granted[q])
    /\ \A q \in Requests, s \in Servers :
          q \in serverPending'[s] => q \in serverPending[s] \/ HasReq(s, q)

\* A call that has not granted.
Ungranted(r) == call[r] = "idle" \/ (call[r] = "selecting" /\ ~granted[r])

LEMMA QuietKeeps ==
    ASSUME RpcInv, ServerTypes', Quiet
    PROVE  RpcInv'
  <1>1. AtMostOnce'
    BY DEF RpcInv, AtMostOnce, Quiet
  <1>2. OneGrantee'
    <2> SUFFICES ASSUME NEW q \in Requests, NEW s \in Servers, NEW t \in Servers,
                        NEW g \in Servers, NEW h \in Servers,
                        HasGrant(s, q, g)', HasGrant(t, q, h)'
                 PROVE  g = h
      BY DEF OneGrantee
    <2>1. HasGrant(s, q, g) /\ HasGrant(t, q, h)
      BY Zenon DEF Quiet
    <2>2. QED
      BY <2>1 DEF RpcInv, OneGrantee
  <1>3. RunnerIsGrantee'
    BY Zenon DEF RpcInv, RunnerIsGrantee, Quiet
  <1>4. GrantedOnce'
    BY Zenon DEF RpcInv, GrantedOnce, Quiet
  <1>5. RunnerIsDone'
    BY Zenon DEF RpcInv, RunnerIsDone, Quiet
  <1>6. QED
    BY <1>1, <1>2, <1>3, <1>4, <1>5 DEF RpcInv, Quiet

\* When the subscriptions stay, so does their order.
LEMMA SameStreams ==
    ASSUME RpcInv, UNCHANGED serverStream
    PROVE  /\ \A q \in Requests, s, g \in Servers :
                 /\ HasReq(s, q)' => HasReq(s, q)
                 /\ HasGrant(s, q, g)' => HasGrant(s, q, g)
           /\ RequestBeforeGrant'
  BY DEF HasReq, HasGrant, RequestBeforeGrant, RpcInv

\* ... and when one message is taken.
LEMMA TakenOrder ==
    ASSUME RpcInv, NEW t \in Servers, Taken(t)
    PROVE  RequestBeforeGrant'
  <1> SUFFICES ASSUME NEW r \in Requests, NEW s \in Servers,
                      NEW i \in DOMAIN serverStream'[s],
                      NEW j \in DOMAIN serverStream'[s],
                      IsReq(serverStream'[s][i], r), IsGrant(serverStream'[s][j], r)
               PROVE  i < j
    BY DEF RequestBeforeGrant
  <1>1. CASE s # t
    BY SMTT(30), <1>1 DEF Taken, RpcInv, RequestBeforeGrant
  <1>2. CASE s = t
    <2>1. /\ i + 1 \in DOMAIN serverStream[s] /\ j + 1 \in DOMAIN serverStream[s]
          /\ serverStream'[s][i] = serverStream[s][i + 1]
          /\ serverStream'[s][j] = serverStream[s][j + 1]
      BY <1>2 DEF Taken
    <2>2. i + 1 < j + 1
      BY <2>1 DEF RpcInv, RequestBeforeGrant
    <2>3. i \in Int /\ j \in Int
      BY DEF Taken
    <2>4. QED
      BY <2>2, <2>3
  <1>3. QED
    BY <1>1, <1>2

\* RequestSingle: copies of the request, of which there is no grant yet.
LEMMA RequestKeeps ==
    ASSUME RpcInv, ServerTypes', NEW r \in Requests, RequestSingle(r)
    PROVE  RpcInv'
  <1>1. Published(Req(r))
    <2>1. Req(r) \in ServerMessage
      BY DEF Req, ServerMessage
    <2>2. QED
      BY <2>1, PublishToServersAppends DEF RequestSingle, RpcInv
  <1>2. /\ runs[r] = <<>>
        /\ \A s, g \in Servers : ~HasGrant(s, r, g)
    BY DEF RequestSingle, RpcInv, GrantedOnce
  <1>3. UNCHANGED <<granted, serverPending, runs>>
    BY DEF RequestSingle, serverVars
  <1>4. \A q \in Requests : q # r => call'[q] = call[q]
    BY DEF RequestSingle, Finish, RpcInv, ServerTypes
  <1>5. AtMostOnce'
    BY <1>3 DEF RpcInv, AtMostOnce
  <1>6. OneGrantee'
    <2> SUFFICES ASSUME NEW q \in Requests, NEW s \in Servers, NEW t \in Servers,
                        NEW g \in Servers, NEW h \in Servers,
                        HasGrant(s, q, g)', HasGrant(t, q, h)'
                 PROVE  g = h
      BY DEF OneGrantee
    <2>1. HasGrant(s, q, g) /\ HasGrant(t, q, h)
      BY <1>1, PublishedReq, Zenon
    <2>2. QED
      BY <2>1 DEF RpcInv, OneGrantee
  <1>7. RunnerIsGrantee'
    BY <1>1, <1>3, PublishedReq, Zenon DEF RpcInv, RunnerIsGrantee
  <1>8. GrantedOnce'
    <2>1. \A q \in Requests : q # r => (Ungranted(q)' => Ungranted(q))
      BY <1>3, <1>4 DEF Ungranted
    <2>2. QED
      BY <1>1, <1>2, <1>3, <2>1, PublishedReq, ZenonT(40)
         DEF RpcInv, GrantedOnce, Ungranted
  <1>9. RunnerIsDone'
    BY <1>1, <1>2, <1>3, PublishedReq, Zenon DEF RpcInv, RunnerIsDone
  <1>10. RequestBeforeGrant'
    <2> SUFFICES ASSUME NEW q \in Requests, NEW s \in Servers,
                        NEW i \in DOMAIN serverStream'[s],
                        NEW j \in DOMAIN serverStream'[s],
                        IsReq(serverStream'[s][i], q),
                        IsGrant(serverStream'[s][j], q)
                 PROVE  i < j
      BY DEF RequestBeforeGrant
    <2>1. j \in DOMAIN serverStream[s] /\ serverStream'[s][j] = serverStream[s][j]
      BY <1>1 DEF Published, Req, IsGrant
    <2>2. HasGrant(s, q, serverStream[s][j].server)
      BY <2>1 DEF HasGrant
    <2>3. serverStream[s][j].server \in Servers
      BY <2>1, GrantNamesServer DEF RpcInv, IsGrant
    <2>4. q # r
      BY <1>2, <2>2, <2>3
    <2>5. i \in DOMAIN serverStream[s] /\ serverStream'[s][i] = serverStream[s][i]
      BY <1>1, <2>4 DEF Published, Req, IsReq
    <2>6. QED
      BY <2>1, <2>5 DEF RpcInv, RequestBeforeGrant
  <1>11. QED
    BY <1>5, <1>6, <1>7, <1>8, <1>9, <1>10 DEF RpcInv

\* GrantClaim: copies of the first grant, behind the copies of the request.
LEMMA GrantKeeps ==
    ASSUME RpcInv, ServerTypes', NEW r \in Requests, GrantClaim(r)
    PROVE  RpcInv'
  <1> DEFINE h == Head(claims[r])
  <1>1. h \in Servers
    BY DEF GrantClaim, RpcInv, ServerTypes
  <1>2. Published(ClaimResponse(r, h))
    <2>1. ClaimResponse(r, h) \in ServerMessage
      BY <1>1 DEF ClaimResponse, ServerMessage
    <2>2. QED
      BY <2>1, PublishToServersAppends DEF GrantClaim, RpcInv
  <1>3. /\ runs[r] = <<>>
        /\ \A s, g \in Servers : ~HasGrant(s, r, g)
    BY DEF GrantClaim, RpcInv, GrantedOnce
  <1>4. UNCHANGED <<serverPending, runs>>
    BY DEF GrantClaim, serverVars
  <1>5. \A q \in Requests : q # r => call'[q] = call[q] /\ granted'[q] = granted[q]
    BY DEF GrantClaim, Finish, RpcInv, ServerTypes
  <1>6. ~Ungranted(r)'
    BY DEF Ungranted, GrantClaim, Finish, RpcInv, ServerTypes
  <1> HIDE DEF h
  <1>7. AtMostOnce'
    BY <1>4 DEF RpcInv, AtMostOnce
  <1>8. OneGrantee'
    <2> SUFFICES ASSUME NEW q \in Requests, NEW s \in Servers, NEW t \in Servers,
                        NEW f \in Servers, NEW g \in Servers,
                        HasGrant(s, q, f)', HasGrant(t, q, g)'
                 PROVE  f = g
      BY DEF OneGrantee
    <2>1. /\ HasGrant(s, q, f) \/ (q = r /\ f = h)
          /\ HasGrant(t, q, g) \/ (q = r /\ g = h)
      BY <1>1, <1>2, PublishedGrant, Zenon
    <2>2. CASE q = r
      BY <1>3, <2>1, <2>2
    <2>3. CASE q # r
      BY <2>1, <2>3 DEF RpcInv, OneGrantee
    <2>4. QED
      BY <2>2, <2>3
  <1>9. RunnerIsGrantee'
    <2> SUFFICES ASSUME NEW q \in Requests, NEW s \in Servers, NEW g \in Servers,
                        HasGrant(s, q, g)', runs[q] # <<>>
                 PROVE  runs[q][1] = g
      BY <1>4 DEF RunnerIsGrantee
    <2>1. HasGrant(s, q, g)
      BY <1>1, <1>2, <1>3, PublishedGrant, ZenonT(40)
    <2>2. QED
      BY <2>1 DEF RpcInv, RunnerIsGrantee
  <1>10. GrantedOnce'
    <2> SUFFICES ASSUME NEW q \in Requests, Ungranted(q)'
                 PROVE  runs[q] = <<>> /\ \A s, g \in Servers : ~HasGrant(s, q, g)'
      BY <1>4 DEF GrantedOnce, Ungranted
    <2>1. q # r /\ Ungranted(q)
      BY <1>5, <1>6 DEF Ungranted
    <2>2. runs[q] = <<>> /\ \A s, g \in Servers : ~HasGrant(s, q, g)
      BY <2>1 DEF RpcInv, GrantedOnce, Ungranted
    <2>3. QED
      BY <1>1, <1>2, <2>1, <2>2, PublishedGrant, Zenon
  <1>11. RunnerIsDone'
    BY <1>1, <1>2, <1>4, PublishedGrant, Zenon DEF RpcInv, RunnerIsDone
  <1>12. RequestBeforeGrant'
    <2> SUFFICES ASSUME NEW q \in Requests, NEW s \in Servers,
                        NEW i \in DOMAIN serverStream'[s],
                        NEW j \in DOMAIN serverStream'[s],
                        IsReq(serverStream'[s][i], q),
                        IsGrant(serverStream'[s][j], q)
                 PROVE  i < j
      BY DEF RequestBeforeGrant
    <2>1. i \in DOMAIN serverStream[s] /\ serverStream'[s][i] = serverStream[s][i]
      BY <1>2 DEF Published, ClaimResponse, IsReq
    <2>2. \/ j \in DOMAIN serverStream[s] /\ serverStream'[s][j] = serverStream[s][j]
          \/ \A k \in DOMAIN serverStream[s] : k < j
      BY <1>2 DEF Published
    <2>3. QED
      BY <2>1, <2>2 DEF RpcInv, RequestBeforeGrant
  <1>13. QED
    BY <1>7, <1>8, <1>9, <1>10, <1>11, <1>12 DEF RpcInv

\* ServerGrant: the server that is granted runs the request only if it still
\* holds it, so nobody ran it before, and no copy is left in its subscription.
LEMMA RunKeeps ==
    ASSUME RpcInv, ServerTypes', NEW s \in Servers, ServerGrant(s)
    PROVE  RpcInv'
  <1>0. /\ 1 \in DOMAIN serverStream[s]
        /\ serverStream[s][1] = Head(serverStream[s])
        /\ serverStream[s][1].type = "RCLAIM"
    BY DEF ServerGrant, RpcInv, ServerTypes
  <1>1. PICK r \in Requests, h \in Servers :
            r = Head(serverStream[s]).req /\ h = Head(serverStream[s]).server
    BY <1>0, GrantNamesServer DEF RpcInv
  <1>2. IsGrant(serverStream[s][1], r)
    BY <1>0, <1>1 DEF IsGrant
  <1>3. HasGrant(s, r, h)
    BY <1>0, <1>1, <1>2 DEF HasGrant
  <1>4. Taken(s)
    BY Zenon, TailIsTaken DEF ServerGrant, RpcInv
  <1>5. /\ \A q \in Requests, t, g \in Servers :
              /\ HasReq(t, q)' => HasReq(t, q)
              /\ HasGrant(t, q, g)' => HasGrant(t, q, g)
        /\ RequestBeforeGrant'
    BY <1>4, TakenAdds, TakenOrder, Zenon DEF RpcInv
  <1>6. UNCHANGED <<call, granted>>
    BY DEF ServerGrant, clientVars
  <1>7. CASE UNCHANGED <<serverPending, runs>>
    <2>1. Quiet
      BY <1>5, <1>6, <1>7 DEF Quiet
    <2>2. QED
      BY <2>1, QuietKeeps
  <1>8. CASE /\ h = s
             /\ r \in serverPending[s]
             /\ serverPending' = [serverPending EXCEPT ![s] = @ \ {r}]
             /\ runs' = [runs EXCEPT ![r] = Append(@, s)]
    <2>1. runs[r] = <<>>
      BY <1>3, <1>8 DEF RpcInv, RunnerIsGrantee, RunnerIsDone
    <2>2. runs'[r] = <<s>> /\ \A q \in Requests : q # r => runs'[q] = runs[q]
      BY <1>8, <2>1 DEF RpcInv, ServerTypes
    <2>3. r \notin serverPending'[s]
      BY <1>8 DEF RpcInv, ServerTypes
    <2>4. \A t \in Servers : serverPending'[t] \subseteq serverPending[t]
      BY <1>8 DEF RpcInv, ServerTypes
    <2>5. ~HasReq(s, r)'
      <3> SUFFICES ASSUME NEW i \in DOMAIN serverStream'[s],
                          IsReq(serverStream'[s][i], r)
                   PROVE  FALSE
        BY DEF HasReq
      <3>1. i + 1 \in DOMAIN serverStream[s] /\ IsReq(serverStream[s][i + 1], r)
        BY <1>4 DEF Taken
      <3>2. i + 1 < 1
        BY <1>0, <1>2, <3>1 DEF RpcInv, RequestBeforeGrant
      <3>3. i \in Nat \ {0}
        BY DEF ServerTypes
      <3>4. QED
        BY <3>2, <3>3
    <2>6. ~Ungranted(r)
      BY <1>3 DEF RpcInv, GrantedOnce, Ungranted
    <2>7. AtMostOnce'
      <3> SUFFICES ASSUME NEW q \in Requests PROVE Len(runs'[q]) <= 1
        BY DEF AtMostOnce
      <3>1. CASE q = r
        <4>1. Len(<<s>>) = 1
          OBVIOUS
        <4>2. runs'[q] = <<s>>
          BY <2>2, <3>1
        <4>3. Len(runs'[q]) = 1
          BY <4>1, <4>2, Zenon
        <4>4. QED
          BY <4>3
      <3>2. CASE q # r
        BY <2>2, <3>2 DEF RpcInv, AtMostOnce
      <3>3. QED
        BY <3>1, <3>2
    <2>8. OneGrantee'
      <3> SUFFICES ASSUME NEW q \in Requests, NEW t \in Servers, NEW u \in Servers,
                          NEW f \in Servers, NEW g \in Servers,
                          HasGrant(t, q, f)', HasGrant(u, q, g)'
                   PROVE  f = g
        BY DEF OneGrantee
      <3>1. HasGrant(t, q, f) /\ HasGrant(u, q, g)
        BY <1>5
      <3>2. QED
        BY <3>1 DEF RpcInv, OneGrantee
    <2>9. RunnerIsGrantee'
      <3> SUFFICES ASSUME NEW q \in Requests, NEW t \in Servers, NEW g \in Servers,
                          HasGrant(t, q, g)', runs'[q] # <<>>
                   PROVE  runs'[q][1] = g
        BY DEF RunnerIsGrantee
      <3>1. HasGrant(t, q, g)
        BY <1>5
      <3>2. CASE q = r
        <4>1. g = s
          BY <1>3, <1>8, <3>1, <3>2 DEF RpcInv, OneGrantee
        <4>2. QED
          BY <2>2, <3>2, <4>1
      <3>3. CASE q # r
        BY <2>2, <3>1, <3>3 DEF RpcInv, RunnerIsGrantee
      <3>4. QED
        BY <3>2, <3>3
    <2>10. GrantedOnce'
      <3> SUFFICES ASSUME NEW q \in Requests, Ungranted(q)'
                   PROVE  runs'[q] = <<>> /\ \A t, g \in Servers : ~HasGrant(t, q, g)'
        BY DEF GrantedOnce, Ungranted
      <3>1. Ungranted(q)
        BY <1>6 DEF Ungranted
      <3>2. q # r
        BY <2>6, <3>1
      <3>3. runs[q] = <<>> /\ \A t, g \in Servers : ~HasGrant(t, q, g)
        BY <3>1 DEF RpcInv, GrantedOnce, Ungranted
      <3>4. QED
        BY <1>5, <2>2, <3>2, <3>3
    <2>11. RunnerIsDone'
      <3> SUFFICES ASSUME NEW q \in Requests, NEW t \in Servers,
                          runs'[q] # <<>>, runs'[q][1] = t
                   PROVE  q \notin serverPending'[t] /\ ~HasReq(t, q)'
        BY DEF RunnerIsDone
      <3>1. CASE q = r
        BY <2>2, <2>3, <2>5, <3>1
      <3>2. CASE q # r
        <4>1. q \notin serverPending[t] /\ ~HasReq(t, q)
          BY <2>2, <3>2 DEF RpcInv, RunnerIsDone
        <4>2. QED
          BY <1>5, <2>4, <4>1
      <3>3. QED
        BY <3>1, <3>2
    <2>12. QED
      BY <1>5, <2>7, <2>8, <2>9, <2>10, <2>11 DEF RpcInv
  <1>9. QED
    BY Zenon, <1>1, <1>7, <1>8 DEF ServerGrant

\* ServerRequest: what is stored was in the subscription.
LEMMA BidKeeps ==
    ASSUME RpcInv, ServerTypes', NEW s \in Servers, ServerRequest(s)
    PROVE  RpcInv'
  <1>1. /\ 1 \in DOMAIN serverStream[s]
        /\ serverStream[s][1] = Head(serverStream[s])
        /\ serverStream[s][1].type = "REQ"
    BY DEF ServerRequest, RpcInv, ServerTypes
  <1>2. HasReq(s, Head(serverStream[s]).req)
    BY <1>1 DEF HasReq, IsReq
  <1>3. Taken(s)
    BY Zenon, TailIsTaken DEF ServerRequest, RpcInv
  <1>4. /\ \A q \in Requests, t, g \in Servers :
              /\ HasReq(t, q)' => HasReq(t, q)
              /\ HasGrant(t, q, g)' => HasGrant(t, q, g)
        /\ RequestBeforeGrant'
    BY <1>3, TakenAdds, TakenOrder, Zenon DEF RpcInv
  <1>5. UNCHANGED <<call, granted, runs>>
    BY DEF ServerRequest, clientVars
  <1>6. \A q \in Requests, t \in Servers :
           q \in serverPending'[t] => q \in serverPending[t] \/ HasReq(t, q)
    <2>1. \/ UNCHANGED serverPending
          \/ serverPending' = [serverPending EXCEPT
                ![s] = (@ \ expired[s]) \cup {Head(serverStream[s]).req}]
      BY DEF ServerRequest
    <2>2. serverPending \in [Servers -> SUBSET Requests]
      BY DEF RpcInv, ServerTypes
    <2>3. QED
      BY <1>2, <2>1, <2>2
  <1>7. Quiet
    BY <1>4, <1>5, <1>6 DEF Quiet
  <1>8. QED
    BY <1>7, QuietKeeps

\* The other steps of the client, and of the handlers and clocks: no message
\* reaches a server.
LEMMA OthersKeep ==
    ASSUME RpcInv, ServerTypes', UNCHANGED <<serverStream, serverPending, runs>>,
           \A q \in Requests : Ungranted(q)' => Ungranted(q)
    PROVE  RpcInv'
  <1>1. Quiet
    BY SameStreams DEF Quiet, Ungranted
  <1>2. QED
    BY <1>1, QuietKeeps

-----------------------------------------------------------------------------
(* The types *)

LEMMA ClientTypes ==
    ASSUME ServerTypes, UNCHANGED setting, NEW r \in Requests,
           RequestSingle(r) \/ GrantClaim(r)
    PROVE  ServerTypes'
  <1>1. serverStream' \in [Servers -> Seq(ServerMessage)]
    <2>1. CASE RequestSingle(r)
      <3>1. Req(r) \in ServerMessage
        BY DEF Req, ServerMessage
      <3>2. QED
        BY <2>1, <3>1, PublishToServersAppends DEF RequestSingle, Published
    <2>2. CASE GrantClaim(r)
      <3>1. Head(claims[r]) \in Servers
        BY <2>2 DEF GrantClaim, ServerTypes
      <3>2. ClaimResponse(r, Head(claims[r])) \in ServerMessage
        BY <3>1 DEF ClaimResponse, ServerMessage
      <3>3. QED
        BY <2>2, <3>2, PublishToServersAppends DEF GrantClaim, Published
    <2>3. QED
      BY <2>1, <2>2
  <1>2. claims' \in [Requests -> Seq(Servers)]
    <2>1. \/ UNCHANGED claims
          \/ claims' = [claims EXCEPT ![r] = <<>>]
          \/ claims' = [claims EXCEPT ![r] = Tail(@)] /\ claims[r] # <<>>
      BY DEF RequestSingle, GrantClaim, Finish
    <2>2. claims \in [Requests -> Seq(Servers)] /\ <<>> \in Seq(Servers)
      BY DEF ServerTypes
    <2>3. claims[r] # <<>> => Tail(claims[r]) \in Seq(Servers)
      BY <2>2
    <2>4. QED
      BY Zenon, <2>1, <2>2, <2>3
  <1>3. /\ call' \in [Requests -> {"idle", "selecting", "returned"}]
        /\ granted' \in [Requests -> BOOLEAN]
    BY Zenon DEF RequestSingle, GrantClaim, Finish, ServerTypes
  <1>4. UNCHANGED <<clientStream, serverPending, runs>>
    BY DEF RequestSingle, GrantClaim, serverVars
  <1>5. QED
    BY <1>1, <1>2, <1>3, <1>4 DEF ServerTypes

LEMMA DispatchTypes ==
    ASSUME ServerTypes, UNCHANGED setting, Dispatch
    PROVE  ServerTypes'
  <1>1. Head(clientStream) \in ClientMessage
    BY DEF Dispatch, ServerTypes
  <1>2. Head(clientStream).req \in Requests /\ Head(clientStream).server \in Servers
    BY <1>1 DEF ClientMessage
  <1>3. claims' \in [Requests -> Seq(Servers)]
    BY <1>2 DEF Dispatch, ServerTypes
  <1>4. clientStream' \in Seq(ClientMessage)
    BY DEF Dispatch, ServerTypes
  <1>5. UNCHANGED <<call, granted, serverStream, serverPending, runs>>
    BY DEF Dispatch, serverVars
  <1>6. QED
    BY <1>3, <1>4, <1>5 DEF ServerTypes

LEMMA ReturnTypes ==
    ASSUME ServerTypes, UNCHANGED setting, NEW r \in Requests,
           TakeResponse(r) \/ IgnoreClaim(r) \/ Timeout(r)
    PROVE  ServerTypes'
  <1>1. claims' \in [Requests -> Seq(Servers)]
    <2>1. \/ claims' = [claims EXCEPT ![r] = <<>>]
          \/ claims' = [claims EXCEPT ![r] = Tail(@)] /\ claims[r] # <<>>
      BY DEF TakeResponse, IgnoreClaim, Timeout, Finish
    <2>2. claims \in [Requests -> Seq(Servers)] /\ <<>> \in Seq(Servers)
      BY DEF ServerTypes
    <2>3. claims[r] # <<>> => Tail(claims[r]) \in Seq(Servers)
      BY <2>2
    <2>4. QED
      BY Zenon, <2>1, <2>2, <2>3
  <1>2. call' \in [Requests -> {"idle", "selecting", "returned"}]
    BY Zenon DEF TakeResponse, IgnoreClaim, Timeout, Finish, ServerTypes
  <1>3. UNCHANGED <<granted, clientStream, serverStream, serverPending, runs>>
    BY DEF TakeResponse, IgnoreClaim, Timeout, serverVars
  <1>4. QED
    BY <1>1, <1>2, <1>3 DEF ServerTypes

LEMMA ServerStepTypes ==
    ASSUME ServerTypes, UNCHANGED setting, NEW s \in Servers,
           ServerRequest(s) \/ ServerGrant(s)
    PROVE  ServerTypes'
  <1>1. Taken(s)
    BY Zenon, TailIsTaken DEF ServerRequest, ServerGrant
  <1>2. Head(serverStream[s]) \in ServerMessage
    BY SMTT(30) DEF ServerTypes, ServerRequest, ServerGrant
  <1>3. Head(serverStream[s]).req \in Requests
    <2>1. CASE Head(serverStream[s]) \in [type : {"REQ"}, req : Requests]
      BY <2>1
    <2>2. CASE Head(serverStream[s])
                  \in [type : {"RCLAIM"}, req : Requests, server : Servers]
      BY <2>2
    <2>3. QED
      BY <1>2, <2>1, <2>2 DEF ServerMessage
  <1>4. serverPending' \in [Servers -> SUBSET Requests]
    <2>1. \/ UNCHANGED serverPending
          \/ serverPending' = [serverPending EXCEPT
                ![s] = (@ \ expired[s]) \cup {Head(serverStream[s]).req}]
          \/ serverPending' = [serverPending EXCEPT
                ![s] = @ \ {Head(serverStream[s]).req}]
      BY Zenon DEF ServerRequest, ServerGrant
    <2>2. serverPending \in [Servers -> SUBSET Requests]
      BY DEF ServerTypes
    <2>3. QED
      BY <1>3, <2>1, <2>2
  <1>5. runs' \in [Requests -> Seq(Servers)]
    <2>1. \/ UNCHANGED runs
          \/ runs' = [runs EXCEPT ![Head(serverStream[s]).req] = Append(@, s)]
      BY Zenon DEF ServerRequest, ServerGrant
    <2>2. runs \in [Requests -> Seq(Servers)]
      BY DEF ServerTypes
    <2>3. Append(runs[Head(serverStream[s]).req], s) \in Seq(Servers)
      BY <1>3, <2>2
    <2>4. QED
      BY Zenon, <1>3, <2>1, <2>2, <2>3
  <1>6. clientStream' \in Seq(ClientMessage)
    <2>1. ClaimRequest(Head(serverStream[s]).req, s) \in ClientMessage
      BY <1>3 DEF ClaimRequest, ClientMessage
    <2>2. \/ UNCHANGED clientStream
          \/ PublishToClient(ClaimRequest(Head(serverStream[s]).req, s))
      BY Zenon DEF ServerRequest, ServerGrant
    <2>3. QED
      BY <2>1, <2>2, PublishToClientTyped DEF ServerTypes
  <1>7. UNCHANGED <<call, granted, claims>>
    BY Zenon DEF ServerRequest, ServerGrant, clientVars
  <1>8. QED
    BY <1>1, <1>4, <1>5, <1>6, <1>7 DEF ServerTypes, Taken

LEMMA HandlerTypes ==
    ASSUME ServerTypes, UNCHANGED setting, NEW s \in Servers, NEW r \in Requests,
           Expire(s, r) \/ HandlerDone(s, r)
    PROVE  ServerTypes'
  <1>1. clientStream' \in Seq(ClientMessage)
    <2>1. Response(r, s) \in ClientMessage
      BY DEF Response, ClientMessage
    <2>2. QED
      BY <2>1, PublishToClientTyped DEF Expire, HandlerDone, ServerTypes
  <1>2. UNCHANGED <<call, granted, claims, serverStream, serverPending, runs>>
    BY DEF Expire, HandlerDone, clientVars
  <1>3. QED
    BY <1>1, <1>2 DEF ServerTypes

-----------------------------------------------------------------------------

LEMMA RpcInvHolds == Spec => []RpcInv
  <1>1. Init => RpcInv
    <2> SUFFICES ASSUME Init PROVE RpcInv
      OBVIOUS
    <2>1. ServerTypes
      BY SettingsAssumption DEF Init, ServerTypes
    <2>2. \A s \in Servers : DOMAIN serverStream[s] = {}
      BY DEF Init
    <2>3. \A r \in Requests : runs[r] = <<>>
      BY DEF Init
    <2>4. AtMostOnce
      <3>1. Len(<<>>) = 0
        OBVIOUS
      <3>2. \A r \in Requests : Len(runs[r]) = 0
        BY <2>3, <3>1, Zenon
      <3>3. 0 <= 1
        OBVIOUS
      <3>4. QED
        BY <3>2, <3>3, Zenon DEF AtMostOnce
    <2>5. QED
      BY <2>1, <2>2, <2>3, <2>4
         DEF RpcInv, OneGrantee, RunnerIsGrantee, GrantedOnce,
             RequestBeforeGrant, RunnerIsDone, HasReq, HasGrant
  <1>2. RpcInv /\ [Next]_vars => RpcInv'
    <2> SUFFICES ASSUME RpcInv, [Next]_vars PROVE RpcInv'
      OBVIOUS
    <2>1. ServerTypes
      BY DEF RpcInv
    <2>2. CASE Dispatch /\ UNCHANGED setting
      <3>1. ServerTypes'
        BY <2>1, <2>2, DispatchTypes
      <3>2. UNCHANGED <<call, granted, serverStream, serverPending, runs>>
        BY <2>2 DEF Dispatch, serverVars
      <3>3. QED
        BY <3>1, <3>2, OthersKeep DEF Ungranted
    <2>3. ASSUME NEW r \in Requests, RequestSingle(r), UNCHANGED setting
          PROVE  RpcInv'
      BY <2>1, <2>3, ClientTypes, RequestKeeps
    <2>4. ASSUME NEW r \in Requests, GrantClaim(r), UNCHANGED setting
          PROVE  RpcInv'
      BY <2>1, <2>4, ClientTypes, GrantKeeps
    <2>5. ASSUME NEW r \in Requests, UNCHANGED setting,
                 TakeResponse(r) \/ IgnoreClaim(r) \/ Timeout(r)
          PROVE  RpcInv'
      <3>1. ServerTypes'
        BY <2>1, <2>5, ReturnTypes
      <3>2. UNCHANGED <<granted, serverStream, serverPending, runs>>
        BY <2>5 DEF TakeResponse, IgnoreClaim, Timeout, serverVars
      <3>3. \A q \in Requests : Ungranted(q)' => Ungranted(q)
        BY <2>1, <2>5, <3>2
           DEF Ungranted, TakeResponse, IgnoreClaim, Timeout, Finish, ServerTypes
      <3>4. QED
        BY <3>1, <3>2, <3>3, OthersKeep
    <2>6. ASSUME NEW s \in Servers, ServerRequest(s), UNCHANGED setting
          PROVE  RpcInv'
      BY <2>1, <2>6, ServerStepTypes, BidKeeps
    <2>7. ASSUME NEW s \in Servers, ServerGrant(s), UNCHANGED setting
          PROVE  RpcInv'
      BY <2>1, <2>7, ServerStepTypes, RunKeeps
    <2>8. ASSUME NEW s \in Servers, NEW r \in Requests, UNCHANGED setting,
                 Expire(s, r) \/ HandlerDone(s, r)
          PROVE  RpcInv'
      <3>1. ServerTypes'
        BY <2>1, <2>8, HandlerTypes
      <3>2. UNCHANGED <<call, granted, serverStream, serverPending, runs>>
        BY SMTT(30), <2>8 DEF Expire, HandlerDone, clientVars
      <3>3. QED
        BY <3>1, <3>2, OthersKeep DEF Ungranted
    <2>9. CASE UNCHANGED vars
      <3>1. UNCHANGED <<setting, call, granted, claims, clientStream, serverStream,
                        serverPending, runs>>
        BY <2>9 DEF vars, callVars, clientVars, serverVars
      <3>2. ServerTypes'
        BY <2>1, <3>1 DEF ServerTypes
      <3>3. QED
        BY <3>1, <3>2, OthersKeep DEF Ungranted
    <2>10. QED
      BY <2>2, <2>3, <2>4, <2>5, <2>6, <2>7, <2>8, <2>9 DEF Next
  <1>3. QED
    BY <1>1, <1>2, PTL DEF Spec

\* Of all servers that bid for a request at most one runs its handler, once:
\* PsrpcClient grants one claim, the copies of the request that a server is to
\* read come before the grant, and register_topic's loop drops the request when
\* it runs it, so no loss, duplication, expiry or timeout makes a second run.
THEOREM AtMostOnceAlways == Spec => []AtMostOnce
  BY RpcInvHolds, PTL DEF RpcInv

-----------------------------------------------------------------------------
(* The refinement of Rpc *)

\* A response, wherever it is, comes from a handler that ran; a call has a result
\* when its future has completed.
Answered ==
    /\ result \in [Requests -> {"none", "response", "timeout", "bus"}]
    /\ responses \in [Requests -> Seq(Servers)]
    /\ running \subseteq Servers \X Requests
    /\ \A r \in Requests : call[r] \in {"idle", "selecting"} => result[r] = "none"
    /\ \A r \in Requests : responses[r] # <<>> => runs[r] # <<>>
    /\ \A s \in Servers, r \in Requests : <<s, r>> \in running => runs[r] # <<>>
    /\ \A i \in DOMAIN clientStream :
          clientStream[i].type = "RES" => runs[clientStream[i].req] # <<>>

LEMMA AppendNotEmpty ==
    ASSUME NEW S, NEW q \in Seq(S), NEW x \in S
    PROVE  Append(q, x) # <<>>
  <1>1. Len(Append(q, x)) = Len(q) + 1 /\ Len(q) \in Nat
    OBVIOUS
  <1>2. Len(<<>>) = 0
    OBVIOUS
  <1>3. QED
    BY <1>1, <1>2

\* runs only grows.
LEMMA RunsGrow ==
    ASSUME ServerTypes, NEW s \in Servers, ServerGrant(s)
    PROVE  \A r \in Requests : runs[r] # <<>> => runs'[r] # <<>>
  <1>1. \/ UNCHANGED runs
        \/ runs' = [runs EXCEPT ![Head(serverStream[s]).req] = Append(@, s)]
    BY Zenon DEF ServerGrant
  <1>2. \A q \in Requests : Append(runs[q], s) # <<>>
    BY Zenon, AppendNotEmpty DEF ServerTypes
  <1>3. QED
    BY SMTT(30), <1>1, <1>2 DEF ServerTypes

\* Messages that are not responses may join the client's subscription, and a
\* response of a handler that ran.
LEMMA ClientStreamAnswered ==
    ASSUME ServerTypes, Answered, UNCHANGED runs, NEW m \in ClientMessage,
           PublishToClient(m), m.type = "RES" => runs[m.req] # <<>>
    PROVE  \A i \in DOMAIN clientStream' :
              clientStream'[i].type = "RES" => runs'[clientStream'[i].req] # <<>>
  <1>1. PICK n \in setting.copies : clientStream' = Deliver(clientStream, m, n)
    BY DEF PublishToClient
  <1>2. n \in Nat /\ clientStream \in Seq(ClientMessage)
    BY DEF ServerTypes
  <1>3. \A i \in DOMAIN Deliver(clientStream, m, n) :
           \/ /\ i \in DOMAIN clientStream
              /\ Deliver(clientStream, m, n)[i] = clientStream[i]
           \/ /\ Deliver(clientStream, m, n)[i] = m
              /\ \A j \in DOMAIN clientStream : j < i
    BY <1>2, DeliverAppends, Zenon
  <1>4. QED
    BY <1>1, <1>3 DEF Answered

LEMMA AnsweredKept ==
    ASSUME RpcInv, Answered, Next
    PROVE  Answered'
  <1>1. ServerTypes
    BY DEF RpcInv
  <1>2. CASE Dispatch
    <2>1. Head(clientStream) \in ClientMessage /\ 1 \in DOMAIN clientStream
          /\ Head(clientStream) = clientStream[1]
      BY <1>1, <1>2 DEF Dispatch, ServerTypes
    <2>2. Head(clientStream).req \in Requests /\ Head(clientStream).server \in Servers
      BY <2>1 DEF ClientMessage
    <2>3. Head(clientStream).type = "RES" => runs[Head(clientStream).req] # <<>>
      BY <2>1 DEF Answered
    <2>4. \/ UNCHANGED responses
          \/ /\ Head(clientStream).type = "RES"
             /\ responses' = [responses EXCEPT ![Head(clientStream).req] =
                                 Append(@, Head(clientStream).server)]
      BY <1>2 DEF Dispatch
    <2>5. Append(responses[Head(clientStream).req], Head(clientStream).server)
             \in Seq(Servers)
      BY <2>2 DEF Answered
    <2>6. UNCHANGED <<call, result, running, runs>>
      BY <1>2 DEF Dispatch, serverVars
    <2>7. /\ responses' \in [Requests -> Seq(Servers)]
          /\ \A r \in Requests : responses'[r] # <<>> => runs[r] # <<>>
      BY Zenon, <2>2, <2>3, <2>4, <2>5 DEF Answered
    <2>8. \A i \in DOMAIN clientStream' :
             i + 1 \in DOMAIN clientStream /\ clientStream'[i] = clientStream[i + 1]
      BY <1>1, <1>2 DEF Dispatch, ServerTypes
    <2>9. QED
      BY <2>6, <2>7, <2>8 DEF Answered
  <1>3. ASSUME NEW r \in Requests,
               RequestSingle(r) \/ TakeResponse(r) \/ IgnoreClaim(r) \/ GrantClaim(r)
                   \/ Timeout(r)
        PROVE  Answered'
    <2>1. UNCHANGED <<running, runs, clientStream>>
      BY <1>3 DEF RequestSingle, TakeResponse, IgnoreClaim, GrantClaim, Timeout,
                  serverVars
    <2>2. \/ UNCHANGED responses
          \/ responses' = [responses EXCEPT ![r] = <<>>]
      BY <1>3 DEF RequestSingle, TakeResponse, IgnoreClaim, GrantClaim, Timeout,
                  Finish
    <2>3. <<>> \in Seq(Servers)
      OBVIOUS
    <2>4. /\ responses' \in [Requests -> Seq(Servers)]
          /\ \A q \in Requests : responses'[q] # <<>> => runs[q] # <<>>
      BY Zenon, <2>2, <2>3 DEF Answered
    <2>5. /\ result' \in [Requests -> {"none", "response", "timeout", "bus"}]
          /\ \A q \in Requests :
                call'[q] \in {"idle", "selecting"} => result'[q] = "none"
      BY ZenonT(40), <1>1, <1>3
      DEF RequestSingle, TakeResponse, IgnoreClaim, GrantClaim, Timeout, Finish,
          Answered, ServerTypes
    <2>6. QED
      BY <2>1, <2>4, <2>5 DEF Answered
  <1>4. ASSUME NEW s \in Servers, ServerRequest(s) PROVE Answered'
    <2>1. UNCHANGED <<call, result, responses, running, runs>>
      BY <1>4 DEF ServerRequest, clientVars
    <2>2. Head(serverStream[s]).req \in Requests
      <3>1. Head(serverStream[s]) \in ServerMessage
        BY <1>1, <1>4 DEF ServerTypes, ServerRequest
      <3>2. CASE Head(serverStream[s]) \in [type : {"REQ"}, req : Requests]
        BY <3>2
      <3>3. CASE Head(serverStream[s])
                    \in [type : {"RCLAIM"}, req : Requests, server : Servers]
        BY <3>3
      <3>4. QED
        BY <3>1, <3>2, <3>3 DEF ServerMessage
    <2>3. /\ ClaimRequest(Head(serverStream[s]).req, s) \in ClientMessage
          /\ ClaimRequest(Head(serverStream[s]).req, s).type # "RES"
      BY <2>2 DEF ClaimRequest, ClientMessage
    <2>4. \/ UNCHANGED clientStream
          \/ PublishToClient(ClaimRequest(Head(serverStream[s]).req, s))
      BY <1>4 DEF ServerRequest
    <2>5. \A i \in DOMAIN clientStream' :
             clientStream'[i].type = "RES" => runs'[clientStream'[i].req] # <<>>
      BY <1>1, <2>1, <2>3, <2>4, ClientStreamAnswered DEF Answered
    <2>6. QED
      BY <2>1, <2>5 DEF Answered
  <1>5. ASSUME NEW s \in Servers, ServerGrant(s) PROVE Answered'
    <2>1. UNCHANGED <<call, result, responses, clientStream>>
      BY Zenon, <1>5 DEF ServerGrant, clientVars
    <2>2. \A r \in Requests : runs[r] # <<>> => runs'[r] # <<>>
      BY <1>1, <1>5, RunsGrow
    <2>3. PICK r \in Requests : r = Head(serverStream[s]).req
      <3>1. /\ 1 \in DOMAIN serverStream[s]
            /\ Head(serverStream[s]) = serverStream[s][1]
            /\ serverStream[s][1].type = "RCLAIM"
        <4>1. serverStream[s] # <<>> /\ Head(serverStream[s]).type = "RCLAIM"
          BY Zenon, <1>5 DEF ServerGrant
        <4>2. serverStream[s] \in Seq(ServerMessage)
          BY <1>1 DEF ServerTypes
        <4>3. QED
          BY <4>1, <4>2
      <3>2. QED
        BY <1>1, <3>1, GrantNamesServer
    <2>4. \/ UNCHANGED <<running, runs>>
          \/ /\ running' = running \cup {<<s, r>>}
             /\ runs' = [runs EXCEPT ![r] = Append(@, s)]
      BY Zenon, <1>5, <2>3 DEF ServerGrant
    <2>5. Append(runs[r], s) # <<>>
      BY Zenon, <1>1, AppendNotEmpty DEF ServerTypes
    <2>6. /\ running' \subseteq Servers \X Requests
          /\ \A t \in Servers, q \in Requests : <<t, q>> \in running' => runs'[q] # <<>>
      BY <1>1, <2>2, <2>4, <2>5 DEF Answered, ServerTypes
    <2>7. \A i \in DOMAIN clientStream : clientStream[i].req \in Requests
      <3>1. \A i \in DOMAIN clientStream : clientStream[i] \in ClientMessage
        BY <1>1 DEF ServerTypes
      <3>2. QED
        BY <3>1 DEF ClientMessage
    <2>8. QED
      BY <2>1, <2>2, <2>6, <2>7 DEF Answered
  <1>6. ASSUME NEW s \in Servers, NEW r \in Requests, HandlerDone(s, r)
        PROVE  Answered'
    <2>1. UNCHANGED <<call, result, responses, runs>> /\ running' \subseteq running
      BY <1>6 DEF HandlerDone, clientVars
    <2>2. Response(r, s) \in ClientMessage /\ runs[Response(r, s).req] # <<>>
      BY <1>6 DEF Response, ClientMessage, HandlerDone, Answered
    <2>3. PublishToClient(Response(r, s))
      BY <1>6 DEF HandlerDone
    <2>4. \A i \in DOMAIN clientStream' :
             clientStream'[i].type = "RES" => runs'[clientStream'[i].req] # <<>>
      BY SMTT(30), <1>1, <2>1, <2>2, <2>3, ClientStreamAnswered
    <2>5. QED
      BY <2>1, <2>4 DEF Answered
  <1>7. ASSUME NEW s \in Servers, NEW r \in Requests, Expire(s, r) PROVE Answered'
    BY SMTT(30), <1>7 DEF Expire, clientVars, Answered
  <1>8. QED
    BY <1>2, <1>3, <1>4, <1>5, <1>6, <1>7 DEF Next

\* A step of the claim flow is a step of Rpc, or changes nothing Rpc sees.
LEMMA StepRefines ==
    ASSUME RpcInv, Answered, Next, AtMostOnce'
    PROVE  AbstractRpc!Next \/ UNCHANGED AbstractRpc!rpcVars
  <1> DEFINE called == {r \in Requests : call[r] # "idle"}
  <1>1. ServerTypes
    BY DEF RpcInv
  <1>2. SUFFICES ASSUME ~UNCHANGED <<result, runs, called>>
                 PROVE  AbstractRpc!Next
    BY DEF AbstractRpc!rpcVars
  <1>3. CASE \/ Dispatch
             \/ \E r \in Requests : IgnoreClaim(r)
             \/ \E s \in Servers : ServerRequest(s)
             \/ \E s \in Servers, r \in Requests : Expire(s, r) \/ HandlerDone(s, r)
    BY Zenon, <1>2, <1>3
    DEF Dispatch, IgnoreClaim, ServerRequest, Expire, HandlerDone, clientVars, serverVars
  <1>4. ASSUME NEW r \in Requests, RequestSingle(r) PROVE AbstractRpc!Call(r)
    <2>1. call[r] = "idle" /\ UNCHANGED runs
      BY SMTT(30), <1>4 DEF RequestSingle, serverVars
    <2>2. \/ /\ call' = [call EXCEPT ![r] = "selecting"]
             /\ result' = result
          \/ /\ call' = [call EXCEPT ![r] = "returned"]
             /\ result' = [result EXCEPT ![r] = "bus"]
      BY <1>4 DEF RequestSingle, Finish
    <2>3. called' = called \cup {r}
      BY <1>1, <2>2 DEF ServerTypes
    <2>4. QED
      BY <2>1, <2>2, <2>3 DEF AbstractRpc!Call
  <1>5. ASSUME NEW r \in Requests, NEW x \in {"response", "timeout", "bus"},
               call[r] = "selecting", Finish(r, x), UNCHANGED runs,
               x = "response" => responses[r] # <<>>
        PROVE  AbstractRpc!Return(r, x)
    <2>1. UNCHANGED called
      BY <1>1, <1>5 DEF Finish, ServerTypes
    <2>2. result[r] = "none" /\ (x = "response" => runs[r] # <<>>)
      BY <1>5 DEF Answered
    <2>3. QED
      BY <1>5, <2>1, <2>2 DEF AbstractRpc!Return, Finish
  <1>6. ASSUME NEW r \in Requests, TakeResponse(r) \/ GrantClaim(r) \/ Timeout(r)
        PROVE  \E x \in {"response", "timeout", "bus"} : AbstractRpc!Return(r, x)
    <2>1. call[r] = "selecting" /\ UNCHANGED runs
      BY <1>6 DEF TakeResponse, GrantClaim, Timeout, serverVars
    <2>2. CASE TakeResponse(r)
      <3>1. Finish(r, "response") /\ responses[r] # <<>>
        BY <2>2 DEF TakeResponse
      <3>2. QED
        BY <1>5, <2>1, <3>1
    <2>3. CASE Timeout(r)
      <3>1. Finish(r, "timeout")
        BY <2>3 DEF Timeout
      <3>2. QED
        BY <1>5, <2>1, <3>1
    <2>4. CASE GrantClaim(r)
      <3>1. Finish(r, "bus") \/ UNCHANGED <<call, result>>
        BY <2>4 DEF GrantClaim
      <3>2. QED
        BY <1>2, <1>5, <2>1, <3>1
    <2>5. QED
      BY <1>6, <2>2, <2>3, <2>4
  <1>7. ASSUME NEW s \in Servers, ServerGrant(s)
        PROVE  \E r \in Requests : AbstractRpc!Run(r, s)
    <2>1. PICK r \in Requests : r = Head(serverStream[s]).req
      <3>1. /\ 1 \in DOMAIN serverStream[s]
            /\ Head(serverStream[s]) = serverStream[s][1]
            /\ serverStream[s][1].type = "RCLAIM"
        BY SMTT(30), <1>1, <1>7 DEF ServerGrant, ServerTypes
      <3>2. QED
        BY <1>1, <3>1, GrantNamesServer
    <2>2. UNCHANGED <<result, call>>
      BY SMTT(30), <1>7 DEF ServerGrant, clientVars
    <2>3. runs' = [runs EXCEPT ![r] = Append(@, s)]
      BY Zenon, <1>2, <1>7, <2>1, <2>2 DEF ServerGrant
    <2>4. runs[r] \in Seq(Servers) /\ runs'[r] = Append(runs[r], s)
      BY <1>1, <2>3 DEF ServerTypes
    <2>5. Len(Append(runs[r], s)) <= 1
      BY <2>4 DEF AtMostOnce
    <2>6. runs[r] = <<>>
      BY <2>4, <2>5
    <2>7. Append(runs[r], s) = <<s>>
      BY <2>6
    <2>8. call[r] # "idle"
      <3>1. 1 \in DOMAIN serverStream[s] /\ IsGrant(serverStream[s][1], r)
            /\ serverStream[s][1].server \in Servers
        <4>1. /\ 1 \in DOMAIN serverStream[s]
              /\ Head(serverStream[s]) = serverStream[s][1]
              /\ serverStream[s][1].type = "RCLAIM"
          BY <1>1, <1>7 DEF ServerGrant, ServerTypes
        <4>2. QED
          BY <1>1, <2>1, <4>1, GrantNamesServer DEF IsGrant
      <3>2. HasGrant(s, r, serverStream[s][1].server)
        BY <3>1 DEF HasGrant
      <3>3. QED
        BY <3>1, <3>2 DEF RpcInv, GrantedOnce
    <2>9. QED
      BY Zenon, <2>2, <2>3, <2>6, <2>7, <2>8 DEF AbstractRpc!Run
  <1>8. QED
    BY <1>3, <1>4, <1>6, <1>7 DEF Next, AbstractRpc!Next

\* The claim flow implements the remote call of Rpc, for any number of requests
\* and servers and whatever the bus loses or duplicates: request_single returns
\* once, a handler runs at most once and only for a call that was made, and a
\* response is reported only when a handler ran.
THEOREM ClaimFlowRefines == Spec => RpcSpec
  <1>1. Init => AbstractRpc!Init
    BY DEF Init, AbstractRpc!Init
  <1>2. Init => Answered
    BY DEF Init, Answered
  <1>3. RpcInv /\ Answered /\ [Next]_vars => Answered'
    <2>1. ASSUME Answered, UNCHANGED vars PROVE Answered'
      BY <2>1 DEF Answered, vars, callVars, clientVars, serverVars
    <2>2. QED
      BY <2>1, AnsweredKept
  <1>4. RpcInv /\ Answered /\ RpcInv' /\ [Next]_vars
           => [AbstractRpc!Next]_AbstractRpc!rpcVars
    <2>1. ASSUME UNCHANGED vars PROVE UNCHANGED AbstractRpc!rpcVars
      BY <2>1 DEF AbstractRpc!rpcVars, vars, callVars, clientVars, serverVars
    <2>2. QED
      BY <2>1, StepRefines DEF RpcInv
  <1>5. QED
    BY <1>1, <1>2, <1>3, <1>4, RpcInvHolds, PTL
       DEF Spec, RpcSpec, AbstractRpc!Spec

-----------------------------------------------------------------------------
(* The types of the rest, and the results *)

\* The variables that ServerTypes leaves out, and what a call returned with.
ResultTypes ==
    /\ setting \in Settings
    /\ result \in [Requests -> {"none", "response", "timeout", "bus"}]
    /\ pending \in SUBSET Requests
    /\ responses \in [Requests -> Seq(Servers)]
    /\ expired \in [Servers -> SUBSET Requests]
    /\ running \in SUBSET (Servers \X Requests)
    /\ \A r \in Requests : call[r] = "returned" <=> result[r] # "none"

\* request_single returns with a result, whichever return or ? it is.
LEMMA FinishTyped ==
    ASSUME ServerTypes, ResultTypes, NEW r \in Requests,
           NEW x \in {"response", "timeout", "bus"}, Finish(r, x)
    PROVE  /\ result' \in [Requests -> {"none", "response", "timeout", "bus"}]
           /\ responses' \in [Requests -> Seq(Servers)]
           /\ \A q \in Requests : call'[q] = "returned" <=> result'[q] # "none"
  <1>1. /\ call' = [call EXCEPT ![r] = "returned"]
        /\ result' = [result EXCEPT ![r] = x]
        /\ responses' = [responses EXCEPT ![r] = <<>>]
    BY Zenon DEF Finish
  <1>2. result' \in [Requests -> {"none", "response", "timeout", "bus"}]
    BY Zenon, <1>1 DEF ResultTypes
  <1>3. responses' \in [Requests -> Seq(Servers)]
    <2>1. <<>> \in Seq(Servers)
      OBVIOUS
    <2>2. QED
      BY Zenon, <1>1, <2>1 DEF ResultTypes
  <1>4. ASSUME NEW q \in Requests
        PROVE  call'[q] = "returned" <=> result'[q] # "none"
    BY <1>1 DEF ServerTypes, ResultTypes
  <1>5. QED
    BY Zenon, <1>2, <1>3, <1>4

\* A call that does not return leaves its result alone.
LEMMA ClientResults ==
    ASSUME ServerTypes, ResultTypes, UNCHANGED setting, NEW r \in Requests,
           \/ RequestSingle(r) \/ TakeResponse(r) \/ IgnoreClaim(r)
           \/ GrantClaim(r) \/ Timeout(r)
    PROVE  ResultTypes'
  <1>1. UNCHANGED <<expired, running>>
    BY Zenon DEF RequestSingle, TakeResponse, IgnoreClaim, GrantClaim, Timeout, serverVars
  <1>2. pending' \in SUBSET Requests
    <2>1. pending' = pending \/ pending' = pending \cup {r} \/ pending' = pending \ {r}
      BY Zenon DEF RequestSingle, TakeResponse, IgnoreClaim, GrantClaim, Timeout
    <2>2. QED
      BY <2>1 DEF ResultTypes
  <1>3. \/ \E x \in {"response", "timeout", "bus"} : Finish(r, x)
        \/ /\ UNCHANGED <<result, responses>>
           /\ \/ UNCHANGED call
              \/ call[r] = "idle" /\ call' = [call EXCEPT ![r] = "selecting"]
    BY Zenon DEF RequestSingle, TakeResponse, IgnoreClaim, GrantClaim, Timeout
  <1>4. /\ result' \in [Requests -> {"none", "response", "timeout", "bus"}]
        /\ responses' \in [Requests -> Seq(Servers)]
        /\ \A q \in Requests : call'[q] = "returned" <=> result'[q] # "none"
    <2>1. CASE \E x \in {"response", "timeout", "bus"} : Finish(r, x)
      BY Zenon, <2>1, FinishTyped
    <2>2. CASE UNCHANGED <<result, responses, call>>
      BY Zenon, <2>2 DEF ResultTypes
    <2>3. CASE /\ UNCHANGED <<result, responses>>
               /\ call[r] = "idle" /\ call' = [call EXCEPT ![r] = "selecting"]
      <3>1. ASSUME NEW q \in Requests
            PROVE  call'[q] = "returned" <=> call[q] = "returned"
        BY <2>3 DEF ServerTypes
      <3>2. QED
        BY Zenon, <2>3, <3>1 DEF ResultTypes
    <2>4. QED
      BY Zenon, <1>3, <2>1, <2>2, <2>3
  <1>5. QED
    BY Zenon, <1>1, <1>2, <1>4 DEF ResultTypes

LEMMA DispatchResults ==
    ASSUME ServerTypes, ResultTypes, UNCHANGED setting, Dispatch
    PROVE  ResultTypes'
  <1>1. Head(clientStream).req \in Requests /\ Head(clientStream).server \in Servers
    <2>1. Head(clientStream) \in ClientMessage
      BY DEF Dispatch, ServerTypes
    <2>2. QED
      BY <2>1 DEF ClientMessage
  <1>2. responses' \in [Requests -> Seq(Servers)]
    BY <1>1 DEF Dispatch, ResultTypes
  <1>3. UNCHANGED <<call, result, pending, expired, running>>
    BY Zenon DEF Dispatch, serverVars
  <1>4. QED
    BY Zenon, <1>2, <1>3 DEF ResultTypes

\* The servers know nothing of results; what they run are requests of theirs.
LEMMA ServerResults ==
    ASSUME ServerTypes, ResultTypes, UNCHANGED setting, NEW s \in Servers,
           \/ ServerRequest(s) \/ ServerGrant(s)
           \/ \E r \in Requests : Expire(s, r) \/ HandlerDone(s, r)
    PROVE  ResultTypes'
  <1>1. UNCHANGED <<call, result, pending, responses>>
    BY Zenon DEF ServerRequest, ServerGrant, Expire, HandlerDone, clientVars
  <1>2. expired' \in [Servers -> SUBSET Requests]
    <2>1. \/ UNCHANGED expired
          \/ \E r \in Requests : expired' = [expired EXCEPT ![s] = @ \cup {r}]
      BY Zenon DEF ServerRequest, ServerGrant, Expire, HandlerDone
    <2>2. QED
      BY <2>1 DEF ResultTypes
  <1>3. running' \in SUBSET (Servers \X Requests)
    <2>1. \/ UNCHANGED running
          \/ \E r \in Requests : running' = running \ {<<s, r>>}
          \/ /\ Head(serverStream[s]).req \in serverPending[s]
             /\ running' = running \cup {<<s, Head(serverStream[s]).req>>}
      BY Zenon DEF ServerRequest, ServerGrant, Expire, HandlerDone
    <2>2. serverPending[s] \in SUBSET Requests
      BY Zenon DEF ServerTypes
    <2>3. QED
      BY <2>1, <2>2 DEF ResultTypes
  <1>4. QED
    BY Zenon, <1>1, <1>2, <1>3 DEF ResultTypes

\* The state has its types, and a call has a result exactly when its future
\* completed: no return or ? of request_single loses its result, and none is
\* given to a call that still waits.
THEOREM TypeCorrect == Spec => []TypeOK
  <1>1. Init => ResultTypes
    <2> SUFFICES ASSUME Init PROVE ResultTypes
      OBVIOUS
    <2>1. responses \in [Requests -> Seq(Servers)]
      BY DEF Init
    <2>2. \A r \in Requests : call[r] = "idle" /\ result[r] = "none"
      BY Zenon DEF Init
    <2>3. \A r \in Requests : call[r] = "returned" <=> result[r] # "none"
      BY <2>2
    <2>4. /\ setting \in Settings /\ pending \in SUBSET Requests
          /\ result \in [Requests -> {"none", "response", "timeout", "bus"}]
          /\ expired \in [Servers -> SUBSET Requests]
          /\ running \in SUBSET (Servers \X Requests)
      BY Zenon DEF Init
    <2>5. QED
      BY Zenon, <2>1, <2>3, <2>4 DEF ResultTypes
  <1>2. RpcInv /\ ResultTypes /\ [Next]_vars => ResultTypes'
    <2> SUFFICES ASSUME RpcInv, ResultTypes, [Next]_vars PROVE ResultTypes'
      OBVIOUS
    <2>1. ServerTypes
      BY Zenon DEF RpcInv
    <2>2. CASE UNCHANGED vars
      BY Zenon, <2>2 DEF ResultTypes, vars, callVars, clientVars, serverVars
    <2>3. CASE Next
      BY Zenon, <2>1, <2>3, ClientResults, DispatchResults, ServerResults DEF Next
    <2>4. QED
      BY Zenon, <2>2, <2>3
  <1>3. RpcInv /\ ResultTypes => TypeOK
    BY Zenon DEF RpcInv, ServerTypes, ResultTypes, TypeOK
  <1>4. QED
    BY <1>1, <1>2, <1>3, RpcInvHolds, PTL DEF Spec

=============================================================================
