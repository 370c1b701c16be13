--------------------------- MODULE ClusterProofs ---------------------------
(***************************************************************************)
(* Proofs about cluster.rs: Cluster, for any number of nodes, of clients and *)
(* of rounds of route_room's loop, and Relay, for any number of requests and *)
(* responses.                                                               *)
(***************************************************************************)
EXTENDS Cluster, Relay, SequenceTheorems, WellFoundedInduction, TLAPS

\* Why claims alone never split a room: once it has an owner the entry stays
\* as it is, so whatever a route has read, or has decided, still holds.
RegistryDecides ==
    ~disturbed =>
        /\ alive = Nodes
        /\ \A n \in hosted : owner = n
        /\ \A j \in Joins : routePc[j] = "local" => owner = node[j]
        /\ \A j \in Joins :
              routePc[j] \in {"alive", "lastAlive", "remote"} => owner = seen[j]
        /\ \A j \in Joins : routePc[j] = "last" => owner # NoNode

-----------------------------------------------------------------------------

\* The types of the cluster's state are preserved by every step, and no route
\* relays a client to the node it is on.
THEOREM TypeCorrect == Spec => []TypeOK
<1>1. Init => TypeOK
  <2> SUFFICES ASSUME Init PROVE TypeOK
    OBVIOUS
  <2>1. /\ tries \in [Joins -> 0..MaxTries]
        /\ \A j \in Joins : tries[j] < MaxTries
    BY ClusterAssumption DEF Init, ClusterAssumption
  <2>2. disturbed \in BOOLEAN
    BY Zenon DEF Init
  <2> QED
    BY <2>1, <2>2 DEF Init, TypeOK, RoutePcs, ReleasePcs
<1>2. TypeOK /\ [Next]_vars => TypeOK'
  <2> SUFFICES ASSUME TypeOK, [Next]_vars PROVE TypeOK'
    OBVIOUS
  <2> USE ClusterAssumption DEF TypeOK, RoutePcs, ReleasePcs, Tasks, BusFails
  <2>1. ASSUME NEW j \in Joins, StartRoute(j) PROVE TypeOK'
    BY <2>1 DEF StartRoute, nodeVars
  <2>2. ASSUME NEW j \in Joins, ReadOwner(j) PROVE TypeOK'
    <3>1. PICK o \in {owner, NoNode} :
            /\ seen' = [seen EXCEPT ![j] = o]
            /\ \/ o = owner /\ UNCHANGED disturbed
               \/ disturbed' = TRUE
            /\ routePc' = [routePc EXCEPT ![j] =
                  CASE o = node[j] -> "local"
                    [] o # node[j] /\ o # NoNode ->
                          IF @ = "hget" THEN "alive" ELSE "lastAlive"
                    [] o = NoNode -> IF @ = "hget" THEN "claim" ELSE "local"]
      BY Zenon, <2>2 DEF ReadOwner
    <3>2. node[j] \in Nodes /\ o \in Nodes \cup {NoNode}
      OBVIOUS
    <3>3. \/ routePc'[j] = "local"
          \/ routePc'[j] = "alive" /\ routePc[j] = "hget" /\ o \in Nodes \ {node[j]}
          \/ routePc'[j] = "lastAlive" /\ o \in Nodes \ {node[j]}
          \/ routePc'[j] = "claim" /\ routePc[j] = "hget"
      BY <3>1, <3>2, <2>2 DEF ReadOwner, ClusterAssumption
    <3>4. /\ routePc' \in [Joins -> RoutePcs]
          /\ \A k \in Joins \ {j} : routePc'[k] = routePc[k] /\ seen'[k] = seen[k]
      BY <3>1, <3>3
    <3>5. /\ seen' \in [Joins -> Nodes \cup {NoNode}]
          /\ seen'[j] = o
          /\ disturbed' \in BOOLEAN
      BY Zenon, <3>1, <3>2
    <3> QED
      BY <2>2, <3>3, <3>4, <3>5 DEF ReadOwner, nodeVars
  <2>3. ASSUME NEW j \in Joins, OwnerAlive(j) PROVE TypeOK'
    BY Zenon, <2>3 DEF OwnerAlive, nodeVars
  <2>4. ASSUME NEW j \in Joins, ClaimRoom(j) PROVE TypeOK'
    <3>1. CASE owner = NoNode /\ owner' = node[j] /\ UNCHANGED <<tries, disturbed>>
                 /\ routePc' = [routePc EXCEPT ![j] = "local"]
      BY <2>4, <3>1 DEF ClaimRoom, nodeVars
    <3>2. CASE /\ tries' = [tries EXCEPT ![j] = @ + 1]
               /\ routePc' = [routePc EXCEPT ![j] =
                     IF tries[j] + 1 = MaxTries THEN "last" ELSE "hget"]
      <4>1. tries[j] + 1 \in 0..MaxTries
        BY <2>4 DEF ClaimRoom, ClusterAssumption
      <4>2. routePc'[j] = "hget" => tries'[j] < MaxTries
        BY <3>2, <4>1 DEF ClusterAssumption
      <4>3. owner' = owner \/ owner' = node[j]
        BY <2>4 DEF ClaimRoom
      <4>4. disturbed' = disturbed \/ disturbed' = TRUE
        BY <2>4 DEF ClaimRoom
      <4> QED
        BY ZenonT(60), <2>4, <3>2, <4>1, <4>2, <4>3, <4>4 DEF ClaimRoom, nodeVars
    <3> QED
      BY <2>4, <3>1, <3>2 DEF ClaimRoom
  <2>5. ASSUME NEW j \in Joins, RelayStarts(j) PROVE TypeOK'
    BY <2>5 DEF RelayStarts, nodeVars
  <2>6. ASSUME NEW j \in Joins, JoinLocal(j) PROVE TypeOK'
    BY <2>6 DEF JoinLocal, nodeVars
  <2>7. ASSUME NEW j \in Joins, JoinRejected(j) PROVE TypeOK'
    BY <2>7 DEF JoinRejected, nodeVars
  <2>8. ASSUME NEW t \in Tasks, ReleaseRead(t) PROVE TypeOK'
    BY ZenonT(60), <2>8 DEF ReleaseRead, nodeVars, routeVars
  <2>9. ASSUME NEW t \in Tasks, ReleaseDelete(t) PROVE TypeOK'
    BY <2>9 DEF ReleaseDelete, nodeVars, routeVars
  <2>10. ASSUME NEW n \in Nodes, CreateRoom(n) PROVE TypeOK'
    BY <2>10 DEF CreateRoom, nodeVars, routeVars
  <2>11. ASSUME NEW n \in Nodes, CloseRoom(n) PROVE TypeOK'
    BY <2>11 DEF CloseRoom, nodeVars, routeVars
  <2>12. ASSUME NEW n \in Nodes, Heartbeat(n) PROVE TypeOK'
    BY <2>12 DEF Heartbeat, routeVars
  <2>13. ASSUME NEW n \in Nodes, Lapse(n) PROVE TypeOK'
    BY <2>13 DEF Lapse, routeVars
  <2>14. ASSUME NEW n \in Nodes, Stop(n) PROVE TypeOK'
    BY <2>14 DEF Stop, routeVars
  <2>15. CASE UNCHANGED vars
    BY <2>15 DEF vars, nodeVars, routeVars
  <2> QED
    BY SMTT(30), <2>1, <2>2, <2>3, <2>4, <2>5, <2>6, <2>7, <2>8, <2>9, <2>10, <2>11,
       <2>12, <2>13, <2>14, <2>15 DEF Next
<1> QED
  BY <1>1, <1>2, PTL DEF Spec

-----------------------------------------------------------------------------

\* One step of any task preserves it.  Only ClaimRoom writes the entry of an
\* undisturbed cluster, and only where there was none: then no room is hosted
\* and no other route has decided.
LEMMA DecidesStep == TypeOK /\ RegistryDecides /\ [Next]_vars => RegistryDecides'
<1> SUFFICES ASSUME TypeOK, RegistryDecides, [Next]_vars, ~disturbed'
             PROVE  RegistryDecides'
  BY DEF RegistryDecides
<1> USE ClusterAssumption DEF TypeOK, RegistryDecides, BusFails
<1>1. ASSUME NEW j \in Joins, StartRoute(j) PROVE RegistryDecides'
  BY <1>1 DEF StartRoute, nodeVars
<1>2. ASSUME NEW j \in Joins, ReadOwner(j) PROVE RegistryDecides'
  BY <1>2 DEF ReadOwner, nodeVars
<1>3. ASSUME NEW j \in Joins, OwnerAlive(j) PROVE RegistryDecides'
  BY <1>3 DEF OwnerAlive, nodeVars
<1>4. ASSUME NEW j \in Joins, ClaimRoom(j) PROVE RegistryDecides'
  <2>1. ~disturbed
    BY <1>4 DEF ClaimRoom
  <2>2. CASE owner = NoNode
    <3>1. hosted = {} /\ \A k \in Joins : routePc[k] \notin
            {"local", "alive", "lastAlive", "remote", "last"}
      BY <2>1, <2>2 DEF ClusterAssumption, Tasks
    <3>2. /\ owner' = node[j]
          /\ routePc' = [routePc EXCEPT ![j] = "local"]
          /\ UNCHANGED <<alive, hosted, node, seen>>
      BY <1>4, <2>1, <2>2 DEF ClaimRoom, nodeVars
    <3> QED
      BY <2>1, <3>1, <3>2
  <2>3. CASE owner # NoNode
    <3>1. /\ UNCHANGED <<owner, alive, hosted, node, seen>>
          /\ routePc' = [routePc EXCEPT ![j] =
                IF tries[j] + 1 = MaxTries THEN "last" ELSE "hget"]
      BY <1>4, <2>1, <2>3 DEF ClaimRoom, nodeVars
    <3> QED
      BY <2>1, <2>3, <3>1
  <2> QED
    BY <2>2, <2>3
<1>5. ASSUME NEW j \in Joins, RelayStarts(j) PROVE RegistryDecides'
  <2>1. ~disturbed /\ owner = seen[j]
    BY <1>5 DEF RelayStarts
  <2>2. node'[j] = seen[j] /\ \A k \in Joins \ {j} : node'[k] = node[k]
    BY <1>5 DEF RelayStarts, Tasks
  <2> QED
    BY <1>5, <2>1, <2>2 DEF RelayStarts, nodeVars
<1>6. ASSUME NEW j \in Joins, JoinLocal(j) PROVE RegistryDecides'
  BY <1>6 DEF JoinLocal, nodeVars
<1>7. ASSUME NEW j \in Joins, JoinRejected(j) PROVE RegistryDecides'
  BY <1>7 DEF JoinRejected, nodeVars
<1>8. ASSUME NEW t \in Tasks, ReleaseRead(t) PROVE RegistryDecides'
  BY <1>8 DEF ReleaseRead, nodeVars, routeVars
<1>9. ASSUME NEW t \in Tasks, ReleaseDelete(t) PROVE RegistryDecides'
  BY <1>9 DEF ReleaseDelete, nodeVars, routeVars
<1>10. ASSUME NEW n \in Nodes, CreateRoom(n) PROVE RegistryDecides'
  BY <1>10 DEF CreateRoom, nodeVars, routeVars
<1>11. ASSUME NEW n \in Nodes, CloseRoom(n) PROVE RegistryDecides'
  BY <1>11 DEF CloseRoom, nodeVars, routeVars
<1>12. ASSUME NEW n \in Nodes, Heartbeat(n) PROVE RegistryDecides'
  BY <1>12 DEF Heartbeat, routeVars
<1>13. ASSUME NEW n \in Nodes, Lapse(n) PROVE RegistryDecides'
  BY <1>13 DEF Lapse, routeVars
<1>14. ASSUME NEW n \in Nodes, Stop(n) PROVE RegistryDecides'
  BY <1>14 DEF Stop, routeVars
<1>15. CASE UNCHANGED vars
  BY <1>15 DEF vars, nodeVars, routeVars
<1> HIDE DEF TypeOK, RegistryDecides, BusFails
<1> QED
  BY Zenon, <1>1, <1>2, <1>3, <1>4, <1>5, <1>6, <1>7, <1>8, <1>9, <1>10, <1>11,
     <1>12, <1>13, <1>14, <1>15 DEF Next

\* However many nodes and clients race, route_room never splits a room by
\* itself: a split takes a lapsed heartbeat, a failed command, a release or a
\* room created without routing.
THEOREM ClaimsNeverSplit == Spec => []SingleHostUndisturbed
<1>1. Init => RegistryDecides
  BY ClusterAssumption DEF Init, RegistryDecides
<1>2. RegistryDecides => SingleHostUndisturbed
  BY DEF RegistryDecides, SingleHostUndisturbed, SingleHost
<1> QED
  BY <1>1, <1>2, DecidesStep, TypeCorrect, PTL DEF Spec

-----------------------------------------------------------------------------
(* Relay: what RelayIoReader reads of relay_in *)

\* The session has begun and its reader is in its loop.
Reading == {"busy", "blocked", "answered"}

Entries == 1 .. MaxRequests \cup {CloseEntry}

\* The types that the reader's steps rest on.
ReaderTypes ==
    /\ inStream \in Seq(Entries)
    /\ reply \in Seq(Entries)
    /\ handled \in Seq(1 .. MaxRequests)
    /\ hostPc \notin {"closing", "over"} => pending \in Seq(1 .. MaxRequests)
    /\ anchored \in BOOLEAN
    /\ lastId \in Nat

\* Entry i of relay_in is request i, until the client's node ends it.
InOrder ==
    /\ \A i \in 1 .. Len(inStream) :
          \/ inStream[i] = i
          \/ /\ inStream[i] = CloseEntry
             /\ i = Len(inStream)
             /\ clientPc \notin {"new", "pumping"}
    /\ clientPc \in {"new", "pumping"} => Len(inStream) <= MaxRequests
    /\ clientPc = "new" => hostPc = "none"

\* The answer to an XREAD is a run of entries; once the reader has an id, the
\* one that follows it.
ReplyIsNext ==
    hostPc = "answered" =>
        \E s \in 0 .. Len(inStream) :
            /\ anchored => s = lastId
            /\ Len(reply) > 0
            /\ s + Len(reply) <= Len(inStream)
            /\ \A i \in 1 .. Len(reply) : reply[i] = inStream[s + i]

\* A read that is blocked has seen the whole stream, unless it is deleted.
BlockedAtEnd ==
    hostPc = "blocked" /\ anchored => lastId = Len(inStream) \/ clientPc = "gone"

\* What the reader handled and holds are the requests up to last_id.
RunSoFar ==
    /\ hostPc \in {"none", "told"} => ~anchored
    /\ hostPc \in {"none", "told"} \cup Reading /\ ~anchored =>
          Len(handled) = 0 /\ Len(pending) = 0
    /\ hostPc \in {"blocked", "answered"} => Len(pending) = 0
    /\ hostPc \in Reading /\ anchored =>
          /\ lastId <= Len(inStream)
          /\ 0 < Len(handled) /\ Len(handled) + Len(pending) <= lastId
          /\ \A i \in 1 .. lastId : inStream[i] = i
          /\ \A i \in 1 .. Len(handled) :
                handled[i] = (lastId - Len(handled) - Len(pending)) + i
          /\ \A i \in 1 .. Len(pending) : pending[i] = (lastId - Len(pending)) + i

ReaderInv == ReaderTypes /\ InOrder /\ ReplyIsNext /\ BlockedAtEnd /\ RunSoFar

\* The steps that leave relay_in, the reader's state and the hosting side alone,
\* or only move the session and its client on.
LEMMA ReaderFrame ==
    ASSUME ReaderInv,
           UNCHANGED <<inStream, reply, readerVars>>,
           \/ UNCHANGED <<clientPc, hostPc>>
           \/ clientPc' \notin {"new", "pumping"} /\ UNCHANGED hostPc
                /\ (clientPc = "gone" => clientPc' = "gone")
           \/ clientPc' = "pumping" /\ clientPc = "new" /\ hostPc' = "told"
           \/ UNCHANGED clientPc /\ hostPc' \in {"closing", "over"} /\ clientPc # "new"
           \/ UNCHANGED clientPc /\ hostPc = "told" /\ hostPc' = "busy"
           \/ UNCHANGED clientPc /\ hostPc = "blocked" /\ hostPc' = "busy"
    PROVE  ReaderInv'
  <1> USE DEF readerVars, Reading
  <1>1. ReaderTypes' /\ InOrder'
    BY DEF ReaderInv, ReaderTypes, InOrder
  <1>2. ReplyIsNext'
    BY Zenon DEF ReaderInv, ReplyIsNext
  <1>3. BlockedAtEnd'
    BY DEF ReaderInv, BlockedAtEnd
  <1>4. RunSoFar'
    <2>1. UNCHANGED <<inStream, anchored, lastId, pending, handled>> /\ RunSoFar
      BY DEF ReaderInv
    <2>2. CASE hostPc' = hostPc
      BY <2>1, <2>2 DEF RunSoFar
    <2>3. CASE hostPc' = "told" /\ hostPc = "none"
      BY <2>1, <2>3 DEF RunSoFar
    <2>4. CASE hostPc' \in {"closing", "over"}
      BY <2>1, <2>4 DEF RunSoFar
    <2>5. CASE hostPc' = "busy" /\ hostPc = "told"
      BY <2>1, <2>5 DEF RunSoFar
    <2>6. CASE hostPc' = "busy" /\ hostPc = "blocked"
      BY <2>1, <2>6 DEF RunSoFar
    <2>7. QED
      BY <2>2, <2>3, <2>4, <2>5, <2>6 DEF ReaderInv, InOrder
  <1>5. QED
    BY <1>1, <1>2, <1>3, <1>4 DEF ReaderInv

\* An XADD to relay_in: it may answer the blocked XREAD.
LEMMA AddInKeeps ==
    ASSUME ReaderInv, NEW entry \in Entries, AddIn(entry),
           clientPc = "pumping", UNCHANGED readerVars,
           \/ entry = Len(inStream) + 1 /\ entry \in 1 .. MaxRequests /\ UNCHANGED clientPc
           \/ entry = CloseEntry /\ clientPc' = "closed"
    PROVE  ReaderInv'
  <1> USE DEF readerVars
  <1>1. /\ inStream \in Seq(Entries) /\ Len(inStream) \in Nat
        /\ reply \in Seq(Entries) /\ Len(reply) \in Nat
        /\ lastId \in Nat
    BY LenProperties DEF ReaderInv, ReaderTypes
  <1>2. /\ inStream' \in Seq(Entries)
        /\ Len(inStream') = Len(inStream) + 1
        /\ \A i \in 1 .. Len(inStream) : inStream'[i] = inStream[i]
        /\ inStream'[Len(inStream) + 1] = entry
    BY <1>1, AppendProperties DEF AddIn
  <1>3. \/ hostPc = "blocked" /\ hostPc' = "answered" /\ reply' = <<entry>>
        \/ hostPc # "blocked" /\ UNCHANGED <<hostPc, reply>>
    BY DEF AddIn
  <1>4. ReaderTypes'
    <2>1. <<entry>> \in Seq(Entries)
      OBVIOUS
    <2>2. reply' \in Seq(Entries)
      BY Zenon, <1>3, <2>1, <1>1
    <2>3. QED
      BY <1>2, <1>3, <2>2 DEF ReaderInv, ReaderTypes
  <1>5. InOrder'
    <2>2. \A i \in 1 .. Len(inStream) : inStream[i] = i
      BY DEF ReaderInv, InOrder
    <2>3. Len(inStream) <= MaxRequests
      BY DEF ReaderInv, InOrder
    <2>4. \A i \in 1 .. Len(inStream') :
            \/ inStream'[i] = i
            \/ /\ inStream'[i] = CloseEntry
               /\ i = Len(inStream')
               /\ clientPc' \notin {"new", "pumping"}
      BY <1>1, <1>2, <2>2
    <2>5. clientPc' \in {"new", "pumping"} => Len(inStream') <= MaxRequests
      BY <1>1, <1>2, RelayAssumption
    <2>6. clientPc' # "new"
      OBVIOUS
    <2>7. QED
      BY <2>4, <2>5, <2>6 DEF InOrder
  <1>6. ReplyIsNext'
    <2>1. CASE hostPc = "blocked"
      <3>1. /\ hostPc' = "answered" /\ Len(reply') = 1 /\ reply'[1] = entry
            /\ \A i \in 1 .. Len(reply') : i = 1
        <4>1. Len(<<entry>>) = 1 /\ <<entry>>[1] = entry
          OBVIOUS
        <4>2. hostPc' = "answered" /\ reply' = <<entry>>
          BY <1>3, <2>1
        <4>3. \A i \in 1 .. 1 : i = 1
          OBVIOUS
        <4>4. QED
          BY <4>1, <4>2, <4>3
      <3>2. anchored => lastId = Len(inStream)
        BY <2>1 DEF ReaderInv, BlockedAtEnd
      <3>3. /\ Len(inStream) \in 0 .. Len(inStream')
            /\ anchored' => Len(inStream) = lastId'
            /\ Len(reply') > 0
            /\ Len(inStream) + Len(reply') <= Len(inStream')
            /\ \A i \in 1 .. Len(reply') : reply'[i] = inStream'[Len(inStream) + i]
        BY <1>1, <1>2, <3>1, <3>2
      <3>4. QED
        BY <3>3 DEF ReplyIsNext
    <2>2. CASE hostPc = "answered"
      <3>1. PICK s \in 0 .. Len(inStream) :
                /\ anchored => s = lastId
                /\ Len(reply) > 0
                /\ s + Len(reply) <= Len(inStream)
                /\ \A i \in 1 .. Len(reply) : reply[i] = inStream[s + i]
        BY <2>2 DEF ReaderInv, ReplyIsNext
      <3>2. UNCHANGED reply
        BY <1>3, <2>2
      <3>3. /\ s \in 0 .. Len(inStream')
            /\ s + Len(reply) <= Len(inStream')
            /\ \A i \in 1 .. Len(reply) : reply[i] = inStream'[s + i]
        BY <1>1, <1>2, <3>1
      <3>4. QED
        BY <3>1, <3>2, <3>3 DEF ReplyIsNext
    <2>3. CASE hostPc \notin {"blocked", "answered"}
      BY <1>3, <2>3 DEF ReplyIsNext
    <2>4. QED
      BY <2>1, <2>2, <2>3
  <1>7. BlockedAtEnd'
    BY <1>3 DEF BlockedAtEnd
  <1>8. RunSoFar'
    <2>1. /\ hostPc' \in Reading => hostPc \in Reading
          /\ hostPc' \in {"none", "told"} => hostPc = hostPc'
          /\ hostPc' \in {"blocked", "answered"} => hostPc \in {"blocked", "answered"}
      BY <1>3 DEF Reading
    <2>2. hostPc \in Reading /\ anchored =>
            /\ lastId <= Len(inStream')
            /\ \A i \in 1 .. lastId : inStream'[i] = i
      BY <1>1, <1>2 DEF ReaderInv, RunSoFar
    <2>3. QED
      BY <2>1, <2>2 DEF ReaderInv, RunSoFar
  <1>9. QED
    BY <1>4, <1>5, <1>6, <1>7, <1>8 DEF ReaderInv

\* next_request returns an entry of the last batch.
LEMMA PopPendingKeeps ==
    ASSUME ReaderInv, PopPending
    PROVE  ReaderInv'
  <1>1. /\ hostPc = "busy" /\ pending # <<>>
        /\ pending' = Tail(pending) /\ handled' = Append(handled, Head(pending))
        /\ UNCHANGED <<clientPc, inStream, hostPc, anchored, lastId, reply>>
    BY DEF PopPending
  <1>2. /\ pending \in Seq(1 .. MaxRequests) /\ handled \in Seq(1 .. MaxRequests)
        /\ Len(pending) \in Nat /\ Len(handled) \in Nat /\ lastId \in Nat
    BY <1>1, LenProperties DEF ReaderInv, ReaderTypes
  <1>3. /\ Len(pending) > 0 /\ Head(pending) = pending[1]
        /\ Head(pending) \in 1 .. MaxRequests
        /\ pending' \in Seq(1 .. MaxRequests)
        /\ Len(pending') = Len(pending) - 1
        /\ \A i \in 1 .. Len(pending') : pending'[i] = pending[i + 1]
    <2>1. Len(pending) > 0
      BY <1>1, <1>2, EmptySeq
    <2>2. Head(pending) = pending[1]
      BY <1>2, <2>1
    <2>3. QED
      BY Zenon, <1>1, <1>2, <2>1, <2>2, HeadTailProperties
  <1>4. /\ handled' \in Seq(1 .. MaxRequests)
        /\ Len(handled') = Len(handled) + 1
        /\ \A i \in 1 .. Len(handled) : handled'[i] = handled[i]
        /\ handled'[Len(handled) + 1] = pending[1]
    BY <1>1, <1>2, <1>3, AppendProperties
  <1>5. ReaderTypes' /\ InOrder' /\ ReplyIsNext' /\ BlockedAtEnd'
    BY <1>1, <1>2, <1>3, <1>4
       DEF ReaderInv, ReaderTypes, InOrder, ReplyIsNext, BlockedAtEnd
  <1>6. RunSoFar'
    <2>1. anchored
      BY <1>1, <1>2, <1>3 DEF ReaderInv, RunSoFar, Reading
    <2>2. /\ lastId <= Len(inStream)
          /\ 0 < Len(handled) /\ Len(handled) + Len(pending) <= lastId
          /\ \A i \in 1 .. lastId : inStream[i] = i
          /\ \A i \in 1 .. Len(handled) :
                handled[i] = (lastId - Len(handled) - Len(pending)) + i
          /\ \A i \in 1 .. Len(pending) : pending[i] = (lastId - Len(pending)) + i
      BY <1>1, <2>1 DEF ReaderInv, RunSoFar, Reading
    <2>3. \A i \in 1 .. Len(pending') : pending'[i] = (lastId - Len(pending')) + i
      BY <1>2, <1>3, <2>2
    <2>4. \A i \in 1 .. Len(handled') :
            handled'[i] = (lastId - Len(handled') - Len(pending')) + i
      <3>1. /\ Len(handled') + Len(pending') = Len(handled) + Len(pending)
            /\ pending[1] = (lastId - Len(pending)) + 1
        BY <1>2, <1>3, <1>4, <2>2
      <3>2. \A i \in 1 .. Len(handled') : i \in 1 .. Len(handled) \/ i = Len(handled) + 1
        BY <1>2, <1>4
      <3>3. lastId - Len(handled') - Len(pending') = lastId - Len(handled) - Len(pending)
        BY <1>2, <1>3, <1>4
      <3>4. QED
        <4>1. SUFFICES ASSUME NEW i \in 1 .. Len(handled')
                       PROVE  handled'[i] = (lastId - Len(handled) - Len(pending)) + i
          BY <3>3
        <4>2. CASE i \in 1 .. Len(handled)
          BY <1>4, <2>2, <4>2
        <4>3. CASE i = Len(handled) + 1
          BY <1>2, <1>4, <3>1, <4>3
        <4>4. QED
          BY <3>2, <4>2, <4>3
    <2>5. 0 < Len(handled') /\ Len(handled') + Len(pending') <= lastId
      BY <1>2, <1>3, <1>4, <2>2
    <2>6. QED
      BY <1>1, <2>1, <2>2, <2>3, <2>4, <2>5 DEF RunSoFar
  <1>7. QED
    BY <1>5, <1>6 DEF ReaderInv

\* XREAD is sent: Redis answers with all that follows the id, or blocks.
LEMMA XreadKeeps ==
    ASSUME ReaderInv, Xread
    PROVE  ReaderInv'
  <1> DEFINE id == IF anchored THEN lastId ELSE Len(inStream)
  <1>1. /\ hostPc = "busy" /\ pending = <<>>
        /\ \/ /\ clientPc # "gone" /\ id < Len(inStream)
              /\ hostPc' = "answered"
              /\ reply' = SubSeq(inStream, id + 1, Len(inStream))
           \/ /\ ~(clientPc # "gone" /\ id < Len(inStream))
              /\ hostPc' = "blocked" /\ UNCHANGED reply
        /\ UNCHANGED <<clientPc, inStream, anchored, lastId, pending, handled>>
    BY DEF Xread, ReadFrom, readerVars
  <1>2. /\ inStream \in Seq(Entries) /\ Len(inStream) \in Nat /\ lastId \in Nat
        /\ id \in Nat
        /\ Len(pending) = 0
    BY <1>1, LenProperties DEF ReaderInv, ReaderTypes
  <1>3. anchored => lastId <= Len(inStream)
    BY <1>1 DEF ReaderInv, RunSoFar, Reading
  <1>4. InOrder'
    BY <1>1 DEF ReaderInv, InOrder
  <1>5. RunSoFar'
    <2>1. /\ hostPc \in Reading /\ hostPc' \in {"blocked", "answered"}
          /\ UNCHANGED <<inStream, anchored, lastId, pending, handled>>
      BY <1>1 DEF Reading
    <2>2. QED
      BY <1>2, <2>1 DEF ReaderInv, RunSoFar, Reading
  <1>6. CASE /\ clientPc # "gone" /\ id < Len(inStream)
             /\ hostPc' = "answered"
             /\ reply' = SubSeq(inStream, id + 1, Len(inStream))
    <2>1. anchored /\ id = lastId
      BY <1>2, <1>6
    <2>2. \A i \in id + 1 .. Len(inStream) : inStream[i] \in Entries
      BY <1>2, ElementOfSeq
    <2>3. /\ reply' \in Seq(Entries)
          /\ Len(reply') = Len(inStream) - id
          /\ \A i \in 1 .. Len(inStream) - id : reply'[i] = inStream[id + i]
      <3> HIDE DEF id
      <3>1. /\ id + 1 \in Int /\ Len(inStream) \in Int /\ id + 1 <= Len(inStream)
            /\ Len(inStream) - (id + 1) + 1 = Len(inStream) - id
            /\ \A i \in 1 .. Len(inStream) - id : id + 1 + i - 1 = id + i
        BY <1>2, <1>6
      <3>2. QED
        BY <1>6, <2>2, <3>1, SubSeqProperties
    <2>4. ReplyIsNext'
      BY <1>1, <1>2, <1>3, <2>1, <2>3 DEF ReplyIsNext
    <2>5. QED
      BY Zenon, <1>1, <1>4, <1>5, <1>6, <2>3, <2>4
         DEF ReaderInv, ReaderTypes, BlockedAtEnd
  <1>7. CASE /\ ~(clientPc # "gone" /\ id < Len(inStream))
             /\ hostPc' = "blocked" /\ UNCHANGED reply
    <2>1. BlockedAtEnd'
      BY <1>1, <1>2, <1>3, <1>7 DEF BlockedAtEnd
    <2>2. QED
      BY <1>1, <1>4, <1>5, <1>7, <2>1 DEF ReaderInv, ReaderTypes, ReplyIsNext
  <1>8. QED
    BY <1>1, <1>6, <1>7

\* XREAD returns: last_id moves to the last entry, the first one is handled, the
\* others are held.
LEMMA XreadReturnsKeeps ==
    ASSUME ReaderInv, XreadReturns
    PROVE  ReaderInv'
  <1>1. hostPc = "answered" /\ reply' = <<>> /\ anchored' = TRUE
        /\ UNCHANGED <<clientPc, inStream>>
    BY DEF XreadReturns
  <1>2. /\ inStream \in Seq(Entries) /\ Len(inStream) \in Nat
        /\ reply \in Seq(Entries) /\ Len(reply) \in Nat
        /\ handled \in Seq(1 .. MaxRequests) /\ Len(handled) \in Nat
        /\ lastId \in Nat
    BY LenProperties DEF ReaderInv, ReaderTypes
  <1>3. reply' \in Seq(Entries)
    BY <1>1
  <1>4. CASE HasClose(reply)
    <2>1. /\ hostPc' = "closing" /\ lastId' = Len(inStream)
          /\ UNCHANGED handled
      BY <1>4 DEF XreadReturns
    <2>2. QED
      BY <1>1, <1>2, <1>3, <2>1
         DEF ReaderInv, ReaderTypes, InOrder, ReplyIsNext, BlockedAtEnd, RunSoFar,
             Reading
  <1>5. CASE ~HasClose(reply)
    <2> DEFINE h == Len(handled)
               n == Len(reply)
    <2>1. /\ hostPc' = "busy" /\ lastId' = reply[n]
          /\ pending' = Tail(reply) /\ handled' = Append(handled, Head(reply))
      BY <1>5 DEF XreadReturns
    <2>2. PICK s \in 0 .. Len(inStream) :
              /\ anchored => s = lastId
              /\ n > 0
              /\ s + n <= Len(inStream)
              /\ \A i \in 1 .. n : reply[i] = inStream[s + i]
      BY <1>1 DEF ReaderInv, ReplyIsNext
    <2>3. \A i \in 1 .. s + n : inStream[i] = i
      <3>1. \A i \in 1 .. Len(inStream) :
              inStream[i] = i \/ (inStream[i] = CloseEntry /\ i = Len(inStream))
        BY DEF ReaderInv, InOrder
      <3>2. reply[n] = inStream[s + n] /\ reply[n] # CloseEntry
        BY <1>2, <1>5, <2>2 DEF HasClose
      <3>3. QED
        BY <1>2, <2>2, <3>1, <3>2
    <2>4. \A i \in 1 .. n : reply[i] = s + i
      BY <1>2, <2>2, <2>3
    <2>5. reply \in Seq(1 .. MaxRequests)
      <3>1. \A i \in 1 .. n : reply[i] \in 1 .. MaxRequests
        BY <1>2, <1>5, ElementOfSeq DEF HasClose, Entries
      <3>2. \A i \in 1 .. n : reply[i] \in Entries
        BY <1>2, ElementOfSeq
      <3>3. 1 \in Int /\ n \in Int /\ 1 <= n /\ n - 1 + 1 = n
            /\ \A i \in 1 .. n : 1 + i - 1 = i
        BY <1>2, <2>2
      <3>4. SubSeq(reply, 1, n) \in Seq(1 .. MaxRequests)
        BY <3>1, <3>3, SubSeqProperties
      <3>5. /\ SubSeq(reply, 1, n) \in Seq(Entries)
            /\ Len(SubSeq(reply, 1, n)) = n
            /\ \A i \in 1 .. n : SubSeq(reply, 1, n)[i] = reply[i]
        BY <3>2, <3>3, SubSeqProperties
      <3>6. SubSeq(reply, 1, n) = reply
        BY <1>2, <3>5, SeqEqual
      <3>7. QED
        BY Zenon, <3>4, <3>6
    <2>6. /\ Head(reply) = s + 1 /\ Head(reply) \in 1 .. MaxRequests
          /\ pending' \in Seq(1 .. MaxRequests)
          /\ Len(pending') = n - 1
          /\ \A i \in 1 .. n - 1 : pending'[i] = s + 1 + i
      <3>1. reply # <<>>
        BY <2>2, EmptySeq
      <3>2. Head(reply) = s + 1
        <4>1. Head(reply) = reply[1]
          BY <1>2, <2>2
        <4>2. QED
          BY <1>2, <2>2, <2>4, <4>1
      <3>3. /\ Head(reply) \in 1 .. MaxRequests
            /\ pending' \in Seq(1 .. MaxRequests)
            /\ Len(pending') = n - 1
            /\ \A i \in 1 .. n - 1 : pending'[i] = reply[i + 1]
        BY Zenon, <2>1, <2>5, <3>1, HeadTailProperties
      <3>4. QED
        BY <1>2, <2>2, <2>4, <3>2, <3>3
    <2>7. /\ handled' \in Seq(1 .. MaxRequests)
          /\ Len(handled') = h + 1
          /\ \A i \in 1 .. h : handled'[i] = handled[i]
          /\ handled'[h + 1] = s + 1
      BY <1>2, <2>1, <2>6, AppendProperties
    <2>8. lastId' = s + n
      BY <1>2, <2>1, <2>2, <2>4
    <2>9. h <= s /\ \A i \in 1 .. h : handled[i] = (s - h) + i
      <3>1. Len(pending) = 0
        BY <1>1 DEF ReaderInv, RunSoFar
      <3>2. CASE ~anchored
        BY <1>1, <1>2, <2>2, <3>2 DEF ReaderInv, RunSoFar, Reading
      <3>3. CASE anchored
        <4>1. /\ h + Len(pending) <= lastId
              /\ \A i \in 1 .. h : handled[i] = (lastId - h - Len(pending)) + i
          BY <1>1, <3>3 DEF ReaderInv, RunSoFar, Reading
        <4>2. QED
          BY <1>2, <2>2, <3>1, <3>3, <4>1
      <3>4. QED
        BY <3>2, <3>3
    <2>10. RunSoFar'
      <3> HIDE DEF h, n
      <3>1. h \in Nat /\ n \in Nat /\ s \in Nat /\ n > 0
        BY <1>2, <2>2 DEF h, n
      <3>2. \A i \in 1 .. Len(pending') : pending'[i] = (lastId' - Len(pending')) + i
        BY <2>6, <2>8, <3>1
      <3>3. \A i \in 1 .. Len(handled') :
              handled'[i] = (lastId' - Len(handled') - Len(pending')) + i
        <4>1. lastId' - Len(handled') - Len(pending') = s - h
          BY <2>6, <2>7, <2>8, <3>1
        <4>2. \A i \in 1 .. h + 1 : i \in 1 .. h \/ i = h + 1
          BY <3>1
        <4>3. \A i \in 1 .. h + 1 : handled'[i] = (s - h) + i
          BY <2>7, <2>9, <3>1, <4>2
        <4>4. QED
          BY <2>7, <4>1, <4>3
      <3>4. /\ lastId' <= Len(inStream) /\ 0 < Len(handled')
            /\ Len(handled') + Len(pending') <= lastId'
            /\ \A i \in 1 .. lastId' : inStream[i] = i
        BY <2>2, <2>3, <2>6, <2>7, <2>8, <2>9, <3>1
      <3>5. QED
        BY Zenon, <1>1, <2>1, <3>2, <3>3, <3>4 DEF RunSoFar
    <2>11. lastId' \in Nat
      BY <1>2, <2>2, <2>8
    <2>12. QED
      BY <1>1, <1>2, <1>3, <2>1, <2>6, <2>7, <2>10, <2>11
         DEF ReaderInv, ReaderTypes, InOrder, ReplyIsNext, BlockedAtEnd
  <1>6. QED
    BY <1>4, <1>5

\* What ReaderInv says of the numbers is what NoGap says of the sequences.
LEMMA NoGapFollows ==
    ASSUME ReaderInv
    PROVE  NoGap
  <1>1. SUFFICES ASSUME anchored, hostPc \in Reading
                 PROVE  \E k \in 1 .. Len(inStream) :
                            handled \o pending = SubSeq(inStream, k, lastId)
    BY Zenon DEF NoGap, Reading
  <1> DEFINE h == Len(handled)
             p == Len(pending)
             k == (lastId - h - p) + 1
             got == handled \o pending
             sent == SubSeq(inStream, k, lastId)
  <1>2. /\ inStream \in Seq(Entries) /\ Len(inStream) \in Nat /\ lastId \in Nat
        /\ handled \in Seq(1 .. MaxRequests) /\ h \in Nat
        /\ pending \in Seq(1 .. MaxRequests) /\ p \in Nat
    BY <1>1, LenProperties DEF ReaderInv, ReaderTypes, Reading
  <1>3. /\ lastId <= Len(inStream) /\ 0 < h /\ h + p <= lastId
        /\ \A i \in 1 .. lastId : inStream[i] = i
        /\ \A i \in 1 .. h : handled[i] = (lastId - h - p) + i
        /\ \A i \in 1 .. p : pending[i] = (lastId - p) + i
    BY <1>1 DEF ReaderInv, RunSoFar
  <1>4. /\ got \in Seq(1 .. MaxRequests) /\ Len(got) = h + p
        /\ \A i \in 1 .. h + p : got[i] = IF i <= h THEN handled[i] ELSE pending[i - h]
    BY <1>2, ConcatProperties
  <1> HIDE DEF h, p, got
  <1>5. /\ k \in Int /\ lastId \in Int /\ k <= lastId /\ lastId - k + 1 = h + p
        /\ k \in 1 .. Len(inStream)
        /\ \A i \in k .. lastId : i \in 1 .. lastId
        /\ \A i \in 1 .. h + p : k + i - 1 = (lastId - h - p) + i
                                 /\ k + i - 1 \in 1 .. lastId
    BY <1>2, <1>3
  <1>6. \A i \in 1 .. h + p : got[i] = (lastId - h - p) + i
    <2>1. SUFFICES ASSUME NEW i \in 1 .. h + p
                   PROVE  got[i] = (lastId - h - p) + i
      OBVIOUS
    <2>2. CASE i <= h
      BY <1>2, <1>3, <1>4, <2>2
    <2>3. CASE ~(i <= h)
      <3>1. i - h \in 1 .. p
        BY <1>2, <2>3
      <3>2. pending[i - h] = (lastId - p) + (i - h)
        BY <1>3, <3>1
      <3>3. QED
        BY <1>2, <1>4, <2>3, <3>2
    <2>4. QED
      BY <2>2, <2>3
  <1>7. \A i \in k .. lastId : inStream[i] \in 1 .. MaxRequests
    <2>1. \A i \in 1 .. lastId : inStream[i] \in Entries
      BY <1>2, <1>3, ElementOfSeq
    <2>2. QED
      BY <1>2, <1>3, <1>5, <2>1, RelayAssumption DEF Entries
  <1> HIDE DEF k
  <1>8. /\ sent \in Seq(1 .. MaxRequests) /\ Len(sent) = h + p
        /\ \A i \in 1 .. h + p : sent[i] = inStream[k + i - 1]
    BY <1>5, <1>7, SubSeqProperties
  <1> HIDE DEF sent
  <1>9. \A i \in 1 .. h + p : sent[i] = (lastId - h - p) + i
    BY <1>3, <1>5, <1>8
  <1>10. got = sent
    BY <1>4, <1>6, <1>8, <1>9, SeqEqual
  <1>11. QED
    BY <1>5, <1>10 DEF got, sent

\* Every step of the relay keeps what the reader's correctness rests on.
LEMMA RelayStep ==
    ASSUME ReaderInv, [RelayNext]_relayVars
    PROVE  ReaderInv'
  <1>1. CASE ForwardRequest
    <2>1. Len(inStream) + 1 \in Entries /\ Len(inStream) + 1 \in 1 .. MaxRequests
      <3>1. Len(inStream) \in Nat
        BY LenProperties DEF ReaderInv, ReaderTypes
      <3>2. QED
        BY <1>1, <3>1, RelayAssumption DEF ForwardRequest, Entries
    <2>2. AddIn(Len(inStream) + 1) /\ clientPc = "pumping"
          /\ UNCHANGED <<clientPc, readerVars>>
      BY <1>1 DEF ForwardRequest
    <2>3. QED
      BY <2>1, <2>2, AddInKeeps
  <1>2. CASE SendClose
    <2>1. CloseEntry \in Entries
      BY DEF Entries
    <2>2. AddIn(CloseEntry) /\ clientPc = "pumping" /\ clientPc' = "closed"
          /\ UNCHANGED readerVars
      BY <1>2 DEF SendClose
    <2>3. QED
      BY <2>1, <2>2, AddInKeeps
  <1>3. CASE PopPending
    BY <1>3, PopPendingKeeps
  <1>4. CASE Xread
    BY <1>4, XreadKeeps
  <1>5. CASE XreadReturns
    BY <1>5, XreadReturnsKeeps
  <1>6. CASE XreadFails
    <2>1. /\ hostPc' = "closing" /\ reply' = <<>> /\ hostPc # "none"
          /\ UNCHANGED <<clientPc, inStream, anchored, lastId, pending, handled>>
      BY <1>6 DEF XreadFails, readerVars
    <2>2. QED
      BY <2>1 DEF ReaderInv, ReaderTypes, InOrder, ReplyIsNext, BlockedAtEnd, RunSoFar,
                  Reading
  <1>7. CASE StartRelay
    BY <1>7, ReaderFrame DEF StartRelay, readerVars
  <1>8. CASE StartFails \/ AbortOut \/ DeleteStreams
    BY <1>8, ReaderFrame DEF StartFails, AbortOut, DeleteStreams, readerVars
  <1>9. CASE OutRead \/ OutReadAgain \/ OutDeliver \/ OutSendFails
    BY <1>9, ReaderFrame DEF OutRead, OutReadAgain, OutDeliver, OutSendFails, readerVars
  <1>10. CASE StartSession
    BY <1>10, ReaderFrame DEF StartSession, readerVars, ReaderInv, InOrder
  <1>11. CASE SendResponse \/ EndParticipant
    BY <1>11, ReaderFrame DEF SendResponse, EndParticipant, readerVars
  <1>12. CASE SessionEnds \/ CloseOut
    BY <1>12, ReaderFrame DEF SessionEnds, CloseOut, readerVars, ReaderInv, InOrder
  <1>13. CASE XreadTimesOut
    BY <1>13, ReaderFrame DEF XreadTimesOut, readerVars
  <1>14. CASE UNCHANGED relayVars
    BY <1>14, ReaderFrame DEF relayVars, readerVars
  <1>15. QED
    BY Zenon, <1>1, <1>2, <1>3, <1>4, <1>5, <1>6, <1>7, <1>8, <1>9, <1>10, <1>11,
       <1>12, <1>13, <1>14 DEF RelayNext, NextRequest, OutConsumer

\* Once RelayIoReader has read an entry of relay_in it misses none and repeats
\* none, however its reads are answered, time out and race the client's XADDs.
THEOREM RelayHasNoGap == RelaySpec => []NoGap
<1>1. RelayInit => ReaderInv
  <2>1. <<>> \in Seq(Entries) /\ <<>> \in Seq(1 .. MaxRequests) /\ Len(<<>>) = 0
    OBVIOUS
  <2>2. RelayInit => ReaderTypes
    <3>1. 0 \in Nat /\ FALSE \in BOOLEAN
      OBVIOUS
    <3>2. QED
      BY Zenon, <2>1, <3>1 DEF RelayInit, ReaderTypes
  <2>3. RelayInit => InOrder
    BY <2>1, RelayAssumption DEF RelayInit, InOrder
  <2>4. RelayInit => ReplyIsNext /\ BlockedAtEnd /\ RunSoFar
    BY <2>1 DEF RelayInit, ReplyIsNext, BlockedAtEnd, RunSoFar, Reading
  <2>5. QED
    BY <2>2, <2>3, <2>4 DEF ReaderInv
<1>2. ReaderInv /\ [RelayNext]_relayVars => ReaderInv'
  BY RelayStep
<1>3. ReaderInv => NoGap
  BY NoGapFollows
<1>4. QED
  BY <1>1, <1>2, <1>3, PTL DEF RelaySpec

-----------------------------------------------------------------------------
(* Relay: what the out consumer reads of relay_out *)

\* The out consumer is in its loop.
Consuming == {"none", "reading", "blocked", "answered"}

Responses == 1 .. MaxResponses \cup {CloseEntry}

\* The types that the consumer's steps rest on.
OutTypes ==
    /\ outStream \in Seq(Responses)
    /\ outReply \in Seq(Responses)
    /\ told \in Seq(Responses)
    /\ outLast \in Nat
    /\ responses \in 0 .. MaxResponses
    /\ outPc \in Consuming \cup {"broken", "over"}

\* Entry i of relay_out is response i, up to the first close.  (The writer may
\* go on after the session has closed the stream.)
Numbered ==
    outPc \in Consuming =>
        /\ ~HasClose(outStream) => Len(outStream) = responses
        /\ \A i \in 1 .. Len(outStream) :
              \/ outStream[i] = i
              \/ \E j \in 1 .. i : outStream[j] = CloseEntry

\* The client was told the entries up to last_id, and the answer to an XREAD is
\* a run of those behind it.
ToldUpToLast ==
    outPc \in Consuming =>
        /\ Len(told) = outLast
        /\ outLast <= Len(outStream)
        /\ \A i \in 1 .. outLast : outStream[i] # CloseEntry
        /\ outPc = "blocked" => outLast = Len(outStream)
        /\ outPc = "answered" =>
              /\ Len(outReply) > 0
              /\ outLast + Len(outReply) <= Len(outStream)
              /\ \A i \in 1 .. Len(outReply) : outReply[i] = outStream[outLast + i]

\* The consumer begins once, and is over when the streams are deleted.
OutFirst ==
    /\ clientPc = "new" => outPc = "none"
    /\ clientPc = "sleeping" => outPc = "over"

OutInv == OutTypes /\ Numbered /\ ToldUpToLast /\ OutFirst /\ ToldInOrder

\* The steps that leave relay_out and its consumer alone.
LEMMA OutFrame ==
    ASSUME OutInv, UNCHANGED <<outStream, responses, clientVars>>, OutFirst'
    PROVE  OutInv'
  BY DEF OutInv, OutTypes, Numbered, ToldUpToLast, ToldInOrder, HasClose, clientVars

\* XADD to relay_out, of the next response or of the close.
LEMMA AddOutKeeps ==
    ASSUME OutInv, NEW entry \in Responses, AddOut(entry),
           responses' \in 0 .. MaxResponses,
           entry = CloseEntry \/ (entry = responses + 1 /\ responses' = responses + 1),
           UNCHANGED <<clientPc, outLast, told>>
    PROVE  OutInv'
  <1> DEFINE n == Len(outStream)
  <1>1. /\ outStream' \in Seq(Responses)
        /\ Len(outStream') = n + 1
        /\ outStream'[n + 1] = entry
        /\ \A i \in 1 .. n : outStream'[i] = outStream[i]
        /\ n \in Nat
    BY DEF OutInv, OutTypes, AddOut
  <1> HIDE DEF n
  <1>2. OutTypes'
    <2>1. outReply' \in Seq(Responses)
      <3>1. <<entry>> \in Seq(Responses)
        OBVIOUS
      <3>2. outReply' = <<entry>> \/ outReply' = outReply
        BY DEF AddOut
      <3>3. QED
        BY <3>1, <3>2 DEF OutInv, OutTypes
    <2>2. outPc' \in Consuming \cup {"broken", "over"}
      BY DEF OutInv, OutTypes, AddOut, Consuming
    <2>3. QED
      BY <1>1, <2>1, <2>2 DEF OutInv, OutTypes
  <1>3. outPc' \in Consuming => outPc \in Consuming
    BY DEF AddOut, Consuming
  <1>4. Numbered'
    <2> SUFFICES ASSUME outPc' \in Consuming
                 PROVE  /\ ~HasClose(outStream') => Len(outStream') = responses'
                        /\ \A i \in 1 .. Len(outStream') :
                              \/ outStream'[i] = i
                              \/ \E j \in 1 .. i : outStream'[j] = CloseEntry
      BY DEF Numbered, HasClose
    <2>1. ~HasClose(outStream) => n = responses
      BY <1>3 DEF OutInv, Numbered, n
    <2>2. ~HasClose(outStream') => ~HasClose(outStream) /\ entry # CloseEntry
      BY <1>1 DEF HasClose, n
    <2>3. ~HasClose(outStream') => Len(outStream') = responses'
      BY <2>1, <2>2, <1>1
    <2>4. ASSUME NEW i \in 1 .. n
          PROVE  outStream'[i] = i \/ \E j \in 1 .. i : outStream'[j] = CloseEntry
      <3>1. outStream[i] = i \/ \E j \in 1 .. i : outStream[j] = CloseEntry
        BY <1>3 DEF OutInv, Numbered, n
      <3>2. \A j \in 1 .. i : j \in 1 .. n
        BY <1>1
      <3>3. QED
        BY <3>1, <3>2, <1>1
    <2>5. outStream'[n + 1] = n + 1 \/ \E j \in 1 .. n + 1 : outStream'[j] = CloseEntry
      <3>1. CASE HasClose(outStream)
        <4>1. PICK j \in 1 .. n : outStream[j] = CloseEntry
          BY <3>1 DEF HasClose, n
        <4>2. QED
          BY <4>1, <1>1
      <3>2. CASE ~HasClose(outStream)
        BY <3>2, <2>1, <1>1
      <3>3. QED
        BY <3>1, <3>2
    <2>6. QED
      BY <2>3, <2>4, <2>5, <1>1
  <1>5. ToldUpToLast'
    <2> SUFFICES ASSUME outPc' \in Consuming
                 PROVE  ToldUpToLast'
      BY DEF ToldUpToLast
    <2>1. CASE outPc = "blocked"
      <3>1. outPc' = "answered" /\ outReply' = <<entry>> /\ outLast = n
        BY <2>1, <1>3 DEF AddOut, OutInv, ToldUpToLast, n
      <3>2. QED
        BY <2>1, <3>1, <1>1, <1>3 DEF OutInv, OutTypes, ToldUpToLast
    <2>2. CASE outPc # "blocked"
      BY <2>2, <1>1, <1>3 DEF AddOut, OutInv, OutTypes, ToldUpToLast, n
    <2>3. QED
      BY <2>1, <2>2
  <1>6. OutFirst' /\ ToldInOrder'
    BY DEF OutInv, OutFirst, ToldInOrder, AddOut
  <1>7. QED
    BY <1>2, <1>4, <1>5, <1>6 DEF OutInv

\* What the consumer tells the client of an answer continues what it told.
LEMMA ToldGoesOn ==
    ASSUME OutInv, outPc = "answered",
           NEW n \in 0 .. Len(outReply),
           \A i \in 1 .. n - 1 : outReply[i] # CloseEntry
    PROVE  /\ told \o SubSeq(outReply, 1, n) \in Seq(Responses)
           /\ Len(told \o SubSeq(outReply, 1, n)) = outLast + n
           /\ \A i \in 1 .. outLast + n :
                 (told \o SubSeq(outReply, 1, n))[i] \in {i, CloseEntry}
  <1>1. /\ told \in Seq(Responses) /\ Len(told) = outLast /\ outLast \in Nat
        /\ outReply \in Seq(Responses)
        /\ \A i \in 1 .. outLast : told[i] \in {i, CloseEntry}
    BY DEF OutInv, OutTypes, ToldUpToLast, ToldInOrder, Consuming
  <1>2. /\ SubSeq(outReply, 1, n) \in Seq(Responses)
        /\ Len(SubSeq(outReply, 1, n)) = n
        /\ \A i \in 1 .. n : SubSeq(outReply, 1, n)[i] = outReply[i]
    BY <1>1
  <1>3. ASSUME NEW i \in 1 .. n
        PROVE  outReply[i] \in {outLast + i, CloseEntry}
    <2>1. /\ outLast + i \in 1 .. Len(outStream)
          /\ outReply[i] = outStream[outLast + i]
          /\ \A j \in 1 .. outLast : outStream[j] # CloseEntry
          /\ \A j \in 1 .. i : outReply[j] = outStream[outLast + j]
      BY <1>1 DEF OutInv, OutTypes, ToldUpToLast, Consuming
    <2>2. \/ outStream[outLast + i] = outLast + i
          \/ \E j \in 1 .. outLast + i : outStream[j] = CloseEntry
      BY <2>1 DEF OutInv, Numbered, Consuming
    <2>3. ASSUME NEW j \in 1 .. outLast + i, outStream[j] = CloseEntry
          PROVE  j = outLast + i
      <3>1. j \in outLast + 1 .. outLast + i
        BY <2>3, <2>1, <1>1
      <3>2. j - outLast \in 1 .. i /\ outLast + (j - outLast) = j
        BY <3>1, <1>1
      <3>3. outReply[j - outLast] = CloseEntry
        BY <3>2, <2>1, <2>3
      <3>4. j - outLast \notin 1 .. n - 1
        BY <3>3
      <3>5. QED
        BY <3>4, <3>2, <1>1
    <2>4. QED
      BY <2>1, <2>2, <2>3
  <1>4. ASSUME NEW s \in Seq(Responses), Len(s) = n,
               \A i \in 1 .. n : s[i] \in {outLast + i, CloseEntry}
        PROVE  /\ told \o s \in Seq(Responses)
               /\ Len(told \o s) = outLast + n
               /\ \A i \in 1 .. outLast + n : (told \o s)[i] \in {i, CloseEntry}
    <2>1. told \o s \in Seq(Responses) /\ Len(told \o s) = outLast + n
      BY <1>1, <1>4
    <2>2. ASSUME NEW i \in 1 .. outLast + n
          PROVE  (told \o s)[i] \in {i, CloseEntry}
      <3>1. CASE i \in 1 .. outLast
        <4>1. (told \o s)[i] = told[i]
          BY <3>1, <1>1, <1>4
        <4>2. QED
          BY <4>1, <3>1, <1>1
      <3>2. CASE i \notin 1 .. outLast
        <4>1. i - outLast \in 1 .. n /\ outLast + (i - outLast) = i
          BY <3>2, <1>1
        <4>2. (told \o s)[i] = s[i - outLast]
          BY <4>1, <3>2, <1>1, <1>4
        <4>3. QED
          BY <4>1, <4>2, <1>4
      <3>3. QED
        BY <3>1, <3>2
    <2>3. QED
      BY <2>1, <2>2
  <1>5. QED
    BY <1>2, <1>3, <1>4

\* A set of naturals that is not empty has a least element.
LEMMA LeastNumber ==
    ASSUME NEW S \in SUBSET Nat, S # {}
    PROVE  \E n \in S : \A k \in S : n <= k
  <1> DEFINE R == {ss \in Nat \X Nat : ss[1] < ss[2]}
  <1>1. IsWellFoundedOn(R, Nat)
    BY Zenon, NatLessThanWellFounded DEF OpToRel
  <1>2. PICK n \in S : \A k \in S : <<k, n>> \notin R
    BY Zenon, <1>1, WFMin
  <1>3. ASSUME NEW k \in S
        PROVE  n <= k
    <2>1. k \in Nat /\ n \in Nat /\ <<k, n>> \notin R
      BY <1>2, <1>3
    <2>2. QED
      BY <2>1
  <1>4. QED
    BY <1>3

\* OutDeliver.
LEMMA OutDeliverKeeps ==
    ASSUME OutInv, OutDeliver
    PROVE  OutInv'
  <1>1. /\ outPc = "answered"
        /\ outReply \in Seq(Responses) /\ Len(outReply) \in Nat
        /\ outLast' = outLast + Len(outReply)
        /\ outReply' = <<>>
        /\ UNCHANGED <<clientPc, outStream, responses>>
    BY DEF OutDeliver, OutInv, OutTypes
  <1>2. CASE HasClose(outReply)
    <2> DEFINE First(i) == /\ outReply[i] = CloseEntry
                           /\ \A j \in 1 .. i - 1 : outReply[j] # CloseEntry
               n == CHOOSE i \in 1 .. Len(outReply) : First(i)
    <2>1. \E i \in 1 .. Len(outReply) : First(i)
      <3> DEFINE S == {i \in 1 .. Len(outReply) : outReply[i] = CloseEntry}
      <3>1. S # {} /\ S \in SUBSET Nat
        BY <1>2 DEF HasClose
      <3>2. PICK i \in S : \A j \in S : i <= j
        BY <3>1, LeastNumber
      <3>3. QED
        BY <3>2, <1>1
    <2>2. n \in 1 .. Len(outReply) /\ First(n)
      BY <2>1
    <2>3. told' = told \o SubSeq(outReply, 1, n) /\ outPc' = "over"
      BY <1>2 DEF OutDeliver
    <2> HIDE DEF n
    <2>4. /\ told' \in Seq(Responses)
          /\ Len(told') = outLast + n
          /\ \A i \in 1 .. outLast + n : told'[i] \in {i, CloseEntry}
      BY <1>1, <2>2, <2>3, ToldGoesOn
    <2>5. OutTypes'
      BY <1>1, <2>3, <2>4 DEF OutInv, OutTypes
    <2>6. Numbered' /\ ToldUpToLast'
      BY <2>3 DEF Numbered, ToldUpToLast, Consuming
    <2>7. OutFirst' /\ ToldInOrder'
      BY <1>1, <2>3, <2>4 DEF OutInv, OutFirst, ToldInOrder
    <2>8. QED
      BY <2>5, <2>6, <2>7 DEF OutInv
  <1>3. CASE ~HasClose(outReply)
    <2>1. told' = told \o outReply /\ outPc' = "reading"
      BY <1>3 DEF OutDeliver
    <2>2. SubSeq(outReply, 1, Len(outReply)) = outReply
      BY <1>1
    <2>3. /\ told' \in Seq(Responses)
          /\ Len(told') = outLast'
          /\ \A i \in 1 .. outLast' : told'[i] \in {i, CloseEntry}
      <3>1. \A i \in 1 .. Len(outReply) - 1 : outReply[i] # CloseEntry
        BY <1>1, <1>3 DEF HasClose
      <3>2. Len(outReply) \in 0 .. Len(outReply)
        BY <1>1
      <3>3. QED
        BY <1>1, <2>1, <2>2, <3>1, <3>2, ToldGoesOn
    <2>4. OutTypes'
      BY <1>1, <2>1, <2>3 DEF OutInv, OutTypes, Consuming
    <2>5. Numbered'
      BY <1>1, <2>1 DEF OutInv, Numbered, Consuming, HasClose
    <2>6. ToldUpToLast'
      <3>1. /\ outLast \in Nat /\ outLast' <= Len(outStream)
            /\ \A i \in 1 .. outLast : outStream[i] # CloseEntry
            /\ \A i \in 1 .. Len(outReply) : outReply[i] = outStream[outLast + i]
        BY <1>1 DEF OutInv, OutTypes, ToldUpToLast, Consuming
      <3>2. ASSUME NEW i \in 1 .. outLast'
            PROVE  outStream[i] # CloseEntry
        <4>1. CASE i \in 1 .. outLast
          BY <4>1, <3>1
        <4>2. CASE i \notin 1 .. outLast
          <5>1. i - outLast \in 1 .. Len(outReply) /\ outLast + (i - outLast) = i
            BY <4>2, <3>1, <1>1
          <5>2. QED
            BY <5>1, <3>1, <1>3 DEF HasClose
        <4>3. QED
          BY <4>1, <4>2
      <3>3. QED
        BY <1>1, <2>1, <2>3, <3>1, <3>2 DEF ToldUpToLast
    <2>7. OutFirst' /\ ToldInOrder'
      BY <1>1, <2>1, <2>3 DEF OutInv, OutFirst, ToldInOrder
    <2>8. QED
      BY <2>4, <2>5, <2>6, <2>7 DEF OutInv
  <1>4. QED
    BY <1>2, <1>3

\* OutSendFails.
LEMMA OutSendFailsKeeps ==
    ASSUME OutInv, OutSendFails
    PROVE  OutInv'
  <1>1. /\ outPc = "answered" /\ outPc' = "broken"
        /\ outReply \in Seq(Responses) /\ Len(outReply) \in Nat
        /\ outReply' = <<>>
        /\ UNCHANGED <<clientPc, outStream, responses, outLast>>
    BY DEF OutSendFails, OutInv, OutTypes
  <1>2. PICK n \in 1 .. Len(outReply) :
            /\ ~HasClose(SubSeq(outReply, 1, n))
            /\ told' = told \o SubSeq(outReply, 1, n - 1)
    BY DEF OutSendFails
  <1>3. /\ told' \in Seq(Responses)
        /\ Len(told') = outLast + (n - 1)
        /\ \A i \in 1 .. outLast + (n - 1) : told'[i] \in {i, CloseEntry}
    <2>1. n - 1 \in 0 .. Len(outReply)
      BY <1>1
    <2>2. \A i \in 1 .. (n - 1) - 1 : outReply[i] # CloseEntry
      BY <1>1, <1>2 DEF HasClose
    <2>3. QED
      BY <1>1, <1>2, <2>1, <2>2, ToldGoesOn
  <1>4. OutTypes'
    BY <1>1, <1>3 DEF OutInv, OutTypes
  <1>5. Numbered' /\ ToldUpToLast'
    BY <1>1 DEF Numbered, ToldUpToLast, Consuming
  <1>6. OutFirst' /\ ToldInOrder'
    BY <1>1, <1>3 DEF OutInv, OutFirst, ToldInOrder
  <1>7. QED
    BY <1>4, <1>5, <1>6 DEF OutInv

\* OutRead.
LEMMA OutReadKeeps ==
    ASSUME OutInv, OutRead
    PROVE  OutInv'
  <1>1. /\ outPc = "reading"
        /\ outStream \in Seq(Responses) /\ Len(outStream) \in Nat /\ outLast \in Nat
        /\ outLast <= Len(outStream)
        /\ UNCHANGED <<clientPc, outStream, responses, outLast, told>>
    BY DEF OutRead, OutInv, OutTypes, ToldUpToLast, Consuming
  <1>2. Numbered'
    BY <1>1 DEF OutInv, Numbered, Consuming, HasClose
  <1>3. OutFirst' /\ ToldInOrder'
    BY <1>1 DEF OutInv, OutFirst, ToldInOrder
  <1>4. CASE outLast < Len(outStream)
    <2>1. outPc' = "answered" /\ outReply' = SubSeq(outStream, outLast + 1, Len(outStream))
      BY <1>4 DEF OutRead
    <2>2. /\ outReply' \in Seq(Responses)
          /\ Len(outReply') = Len(outStream) - outLast
          /\ \A i \in 1 .. Len(outReply') : outReply'[i] = outStream[outLast + i]
      BY <1>1, <1>4, <2>1
    <2>3. OutTypes'
      BY <1>1, <2>1, <2>2 DEF OutInv, OutTypes, Consuming
    <2>4. ToldUpToLast'
      BY <1>1, <1>4, <2>1, <2>2 DEF OutInv, ToldUpToLast, Consuming
    <2>5. QED
      BY <1>2, <1>3, <2>3, <2>4 DEF OutInv
  <1>5. CASE ~(outLast < Len(outStream))
    <2>1. outPc' = "blocked" /\ outReply' = outReply
      BY <1>5 DEF OutRead
    <2>2. OutTypes'
      BY <1>1, <2>1 DEF OutInv, OutTypes, Consuming
    <2>3. ToldUpToLast'
      BY <1>1, <1>5, <2>1 DEF OutInv, ToldUpToLast, Consuming
    <2>4. QED
      BY <1>2, <1>3, <2>2, <2>3 DEF OutInv
  <1>6. QED
    BY <1>4, <1>5

\* Every step of the relay.
LEMMA OutStep ==
    OutInv /\ [RelayNext]_relayVars => OutInv'
  <1> SUFFICES ASSUME OutInv, [RelayNext]_relayVars
               PROVE  OutInv'
    OBVIOUS
  <1>1. CASE StartRelay
    BY <1>1 DEF StartRelay, OutInv, OutTypes, Numbered, ToldUpToLast, OutFirst, ToldInOrder,
                Consuming, HasClose
  <1>2. CASE StartFails \/ ForwardRequest \/ SendClose
    BY <1>2, OutFrame DEF StartFails, ForwardRequest, SendClose, OutInv, OutFirst, clientVars
  <1>3. CASE AbortOut
    BY <1>3 DEF AbortOut, OutInv, OutTypes, Numbered, ToldUpToLast, OutFirst, ToldInOrder,
                Consuming
  <1>4. CASE DeleteStreams
    BY <1>4 DEF DeleteStreams, OutInv, OutTypes, Numbered, ToldUpToLast, OutFirst, ToldInOrder,
                Consuming, clientVars
  <1>5. CASE OutRead
    BY <1>5, OutReadKeeps
  <1>6. CASE OutReadAgain
    BY <1>6 DEF OutReadAgain, OutInv, OutTypes, Numbered, ToldUpToLast, OutFirst, ToldInOrder,
                Consuming, HasClose
  <1>7. CASE OutDeliver
    BY <1>7, OutDeliverKeeps
  <1>8. CASE OutSendFails
    BY <1>8, OutSendFailsKeeps
  <1>9. CASE StartSession \/ EndParticipant \/ SessionEnds \/ NextRequest \/ XreadFails
    <2>1. UNCHANGED <<clientPc, outStream, responses, clientVars>>
      BY <1>9 DEF StartSession, EndParticipant, SessionEnds, NextRequest, XreadFails,
                  PopPending, Xread, ReadFrom, XreadReturns, XreadTimesOut
    <2>2. QED
      BY <2>1, OutFrame DEF OutInv, OutFirst, clientVars
  <1>10. CASE SendResponse
    <2>1. responses + 1 \in Responses /\ responses' \in 0 .. MaxResponses
      BY <1>10, RelayAssumption DEF SendResponse, OutInv, OutTypes, Responses
    <2>2. QED
      BY <1>10, <2>1, AddOutKeeps DEF SendResponse
  <1>11. CASE CloseOut
    <2>1. CloseEntry \in Responses /\ responses' \in 0 .. MaxResponses
      BY <1>11 DEF CloseOut, OutInv, OutTypes, Responses
    <2>2. QED
      BY <1>11, <2>1, AddOutKeeps DEF CloseOut
  <1>12. CASE UNCHANGED relayVars
    BY <1>12, OutFrame DEF relayVars, OutInv, OutFirst, clientVars
  <1>13. QED
    BY <1>1, <1>2, <1>3, <1>4, <1>5, <1>6, <1>7, <1>8, <1>9, <1>10, <1>11, <1>12
       DEF RelayNext, OutConsumer

\* However reads of relay_out block, time out and fail, and whenever the session
\* closes or goes on writing after it, the client gets the responses in order,
\* from the first on, without a gap or a repetition.
THEOREM ResponsesInOrder == RelaySpec => []ToldInOrder
  <1>1. RelayInit => OutInv
    BY RelayAssumption DEF RelayInit, OutInv, OutTypes, Numbered, ToldUpToLast, OutFirst,
                           ToldInOrder, Consuming, HasClose
  <1>2. OutInv => ToldInOrder
    BY DEF OutInv
  <1>3. QED
    BY <1>1, <1>2, OutStep, PTL DEF RelaySpec

=============================================================================
