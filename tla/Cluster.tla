------------------------------ MODULE Cluster ------------------------------
(***************************************************************************)
(* Which node hosts a room: Cluster.route_room, release_room and the node   *)
(* heartbeats of cluster.rs over the Redis hash of rooms, with what the     *)
(* nodes do on the answer (http::run_rtc_session, Room.close).              *)
(*                                                                         *)
(* One room name.  Every Redis command is one atomic step and tasks of all  *)
(* nodes interleave between them.  A client connection j is routed by the   *)
(* node it reached; Remote(m) relays it to m, which joins it without        *)
(* routing again.                                                           *)
(***************************************************************************)
EXTENDS Naturals

CONSTANTS
    Nodes,
    Joins,         \* client connections, one join each
    MaxTries,      \* rounds of route_room's loop (8 in the code)
    Disturbances,  \* what may happen beside joins, see below
    NoNode

\* "stop": a node crashes or shuts down.      "stall": the heartbeat of a
\* running node is late or does not reach Redis.
\* "bus": a Redis command fails.              "close": a room closes.
\* "reject": join_room refuses the token.     "create": a room is created by
\* RoomService.CreateRoom or CreateSIPParticipant, on the node that was asked.
AllDisturbances == {"stop", "stall", "bus", "close", "reject", "create"}

ASSUME ClusterAssumption ==
    /\ MaxTries \in Nat \ {0}
    /\ Disturbances \subseteq AllDisturbances
    /\ NoNode \notin Nodes
    /\ Nodes \cap Joins = {}

Tasks == Joins \cup Nodes

VARIABLES
    owner,      \* HGET rooms: the node of the room's registry entry
    alive,      \* nodes whose heartbeat key is set
    up,         \* nodes that run
    hosted,     \* nodes with an open Room of the name
    node,       \* node[t]: the node task t runs on
    routePc,    \* routePc[j]: the frame of run_rtc_session(j)
    seen,       \* seen[j]: the owner its last HGET returned
    tries,      \* tries[j]: rounds of the loop done
    releasePc,  \* releasePc[t]: the frame of release_room in t; a node
                \* stands for its Room.close
    disturbed   \* a lapse, a failed command, a release or an unrouted room
                \* has happened

routeVars == <<node, routePc, seen, tries>>
nodeVars == <<alive, up>>
vars == <<owner, nodeVars, hosted, routeVars, releasePc, disturbed>>

RoutePcs == {"idle", "hget", "alive", "claim", "last", "lastAlive", "local",
             "remote", "joined", "failed"}
ReleasePcs == {"idle", "hget", "hdel"}

Init ==
    /\ owner = NoNode
    /\ alive = Nodes
    /\ up = Nodes
    /\ hosted = {}
    /\ node \in [Tasks -> Nodes]
    /\ \A n \in Nodes : node[n] = n
    /\ routePc = [j \in Joins |-> "idle"]
    /\ seen = [j \in Joins |-> NoNode]
    /\ tries = [j \in Joins |-> 0]
    /\ releasePc = [t \in Tasks |-> "idle"]
    /\ disturbed = FALSE

-----------------------------------------------------------------------------
(* route_room, for the client connection j *)

StartRoute(j) ==
    /\ routePc[j] = "idle"
    /\ node[j] \in up
    /\ routePc' = [routePc EXCEPT ![j] = "hget"]
    /\ UNCHANGED <<owner, nodeVars, hosted, node, seen, tries, releasePc,
                   disturbed>>

\* A failed command counts as its empty answer (unwrap_or_default).
BusFails == "bus" \in Disturbances /\ disturbed' = TRUE

\* HGET, in the loop or after it: the node itself is Local, another owner is
\* asked for its heartbeat, none is claimed - or, after the loop, Local.
ReadOwner(j) ==
    /\ routePc[j] \in {"hget", "last"}
    /\ node[j] \in up
    /\ \E o \in {owner, NoNode} :
          /\ \/ o = owner /\ UNCHANGED disturbed
             \/ o = NoNode /\ BusFails
          /\ seen' = [seen EXCEPT ![j] = o]
          /\ routePc' = [routePc EXCEPT ![j] =
                CASE o = node[j] -> "local"
                  [] o # node[j] /\ o # NoNode ->
                        IF @ = "hget" THEN "alive" ELSE "lastAlive"
                  [] o = NoNode -> IF @ = "hget" THEN "claim" ELSE "local"]
    /\ UNCHANGED <<owner, nodeVars, hosted, node, tries, releasePc>>

\* Mutant: an owner without a heartbeat is taken for alive and the reverse.
OwnerAliveInverted(j) ==
    /\ routePc[j] \in {"alive", "lastAlive"}
    /\ node[j] \in up
    /\ routePc' = [routePc EXCEPT ![j] =
          IF seen[j] \notin alive THEN "remote"
          ELSE IF @ = "alive" THEN "claim" ELSE "local"]
    /\ UNCHANGED <<owner, nodeVars, hosted, node, seen, tries, releasePc,
                   disturbed>>

\* node_alive(owner).
OwnerAlive(j) ==
    /\ routePc[j] \in {"alive", "lastAlive"}
    /\ node[j] \in up
    /\ \/ /\ seen[j] \in alive
          /\ routePc' = [routePc EXCEPT ![j] = "remote"]
          /\ UNCHANGED disturbed
       \/ /\ \/ seen[j] \notin alive /\ UNCHANGED disturbed
             \/ BusFails
          /\ routePc' = [routePc EXCEPT ![j] =
                            IF @ = "alive" THEN "claim" ELSE "local"]
    /\ UNCHANGED <<owner, nodeVars, hosted, node, seen, tries, releasePc>>

\* HSETNX: it succeeds only when there is no entry, whoever it names.  An
\* error may hide a claim that took effect.
ClaimRoom(j) ==
    /\ routePc[j] = "claim"
    /\ node[j] \in up
    /\ \/ /\ owner = NoNode
          /\ owner' = node[j]
          /\ routePc' = [routePc EXCEPT ![j] = "local"]
          /\ UNCHANGED <<tries, disturbed>>
       \/ /\ \/ owner # NoNode /\ UNCHANGED <<owner, disturbed>>
             \/ BusFails /\ owner' \in {owner, IF owner = NoNode THEN node[j] ELSE owner}
          /\ tries' = [tries EXCEPT ![j] = @ + 1]
          /\ routePc' = [routePc EXCEPT ![j] =
                            IF tries[j] + 1 = MaxTries THEN "last" ELSE "hget"]
    /\ UNCHANGED <<nodeVars, hosted, node, seen, releasePc>>

-----------------------------------------------------------------------------
(* What run_rtc_session does with the answer *)

\* The start message reaches the relay consumer of the hosting node, which
\* runs the session there.
RelayStarts(j) ==
    /\ routePc[j] = "remote"
    /\ seen[j] \in up
    /\ node' = [node EXCEPT ![j] = seen[j]]
    /\ routePc' = [routePc EXCEPT ![j] = "local"]
    /\ UNCHANGED <<owner, nodeVars, hosted, seen, tries, releasePc, disturbed>>

\* join_room: get_or_create_room and the join.
JoinLocal(j) ==
    /\ routePc[j] = "local"
    /\ node[j] \in up
    /\ hosted' = hosted \cup {node[j]}
    /\ routePc' = [routePc EXCEPT ![j] = "joined"]
    /\ UNCHANGED <<owner, nodeVars, node, seen, tries, releasePc, disturbed>>

\* join_room returned an error: run_session_with_io releases the claim when
\* no room exists here.
JoinRejected(j) ==
    /\ "reject" \in Disturbances
    /\ routePc[j] = "local"
    /\ node[j] \in up
    /\ routePc' = [routePc EXCEPT ![j] = "failed"]
    /\ releasePc' = [releasePc EXCEPT ![j] =
                        IF node[j] \in hosted THEN "idle" ELSE "hget"]
    /\ UNCHANGED <<owner, nodeVars, hosted, node, seen, tries, disturbed>>

\* get_or_create_room from a room or SIP service call: nothing is routed.
CreateRoom(n) ==
    /\ "create" \in Disturbances
    /\ n \in up
    /\ hosted' = hosted \cup {n}
    /\ disturbed' = TRUE
    /\ UNCHANGED <<owner, nodeVars, routeVars, releasePc>>

-----------------------------------------------------------------------------
(* release_room *)

\* Room.close: the room is closed, then its entry released.
CloseRoom(n) ==
    /\ "close" \in Disturbances
    /\ n \in hosted
    /\ releasePc[n] = "idle"
    /\ hosted' = hosted \ {n}
    /\ releasePc' = [releasePc EXCEPT ![n] = "hget"]
    /\ UNCHANGED <<owner, nodeVars, routeVars, disturbed>>

\* HGET: go on only when the entry names this node.
ReleaseRead(t) ==
    /\ releasePc[t] = "hget"
    /\ node[t] \in up
    /\ \/ /\ owner = node[t]
          /\ releasePc' = [releasePc EXCEPT ![t] = "hdel"]
          /\ UNCHANGED disturbed
       \/ /\ \/ owner # node[t] /\ UNCHANGED disturbed
             \/ BusFails
          /\ releasePc' = [releasePc EXCEPT ![t] = "idle"]
    /\ UNCHANGED <<owner, nodeVars, hosted, routeVars>>

\* HDEL: of whatever the entry is by now.
ReleaseDelete(t) ==
    /\ releasePc[t] = "hdel"
    /\ node[t] \in up
    /\ \/ owner' = NoNode
       \/ "bus" \in Disturbances /\ UNCHANGED owner
    /\ disturbed' = TRUE
    /\ releasePc' = [releasePc EXCEPT ![t] = "idle"]
    /\ UNCHANGED <<nodeVars, hosted, routeVars>>

-----------------------------------------------------------------------------
(* The nodes *)

Heartbeat(n) ==
    /\ n \in up
    /\ alive' = alive \cup {n}
    /\ UNCHANGED <<owner, up, hosted, routeVars, releasePc, disturbed>>

\* The key's TTL passes without a heartbeat, or deregister deletes it.
Lapse(n) ==
    /\ n \in alive
    /\ n \notin up \/ "stall" \in Disturbances
    /\ alive' = alive \ {n}
    /\ disturbed' = TRUE
    /\ UNCHANGED <<owner, up, hosted, routeVars, releasePc>>

\* The process ends, with or without warning: its rooms are gone, its entries
\* stay, and its tasks take no further step.
Stop(n) ==
    /\ "stop" \in Disturbances
    /\ n \in up
    /\ up' = up \ {n}
    /\ hosted' = hosted \ {n}
    /\ UNCHANGED <<owner, alive, routeVars, releasePc, disturbed>>

-----------------------------------------------------------------------------

Next ==
    \/ \E j \in Joins :
          \/ StartRoute(j)
          \/ ReadOwner(j)
          \/ OwnerAlive(j)
          \/ ClaimRoom(j)
          \/ RelayStarts(j)
          \/ JoinLocal(j)
          \/ JoinRejected(j)
    \/ \E t \in Tasks : ReleaseRead(t) \/ ReleaseDelete(t)
    \/ \E n \in Nodes :
          \/ CreateRoom(n)
          \/ CloseRoom(n)
          \/ Heartbeat(n)
          \/ Lapse(n)
          \/ Stop(n)

Spec == Init /\ [][Next]_vars

-----------------------------------------------------------------------------
(* Properties *)

\* The state has its types, a route that goes on to ask about or relay to an
\* owner has one, never the node itself (a relay to oneself would start the
\* session twice), and a route in the loop has rounds left.
TypeOK ==
    /\ owner \in Nodes \cup {NoNode}
    /\ alive \in SUBSET Nodes
    /\ up \in SUBSET Nodes
    /\ hosted \in SUBSET up
    /\ node \in [Tasks -> Nodes]
    /\ routePc \in [Joins -> RoutePcs]
    /\ seen \in [Joins -> Nodes \cup {NoNode}]
    /\ tries \in [Joins -> 0..MaxTries]
    /\ releasePc \in [Tasks -> ReleasePcs]
    /\ disturbed \in BOOLEAN
    /\ \A j \in Joins : routePc[j] \in {"alive", "lastAlive", "remote"} =>
          seen[j] \in Nodes \ {node[j]}
    /\ \A j \in Joins : routePc[j] \in {"idle", "hget", "alive", "claim"} =>
          tries[j] < MaxTries

\* "each room is hosted on exactly one node" (the module comment of cluster.rs).
\* It does not hold, not even when nothing but a crash goes wrong: route_room is
\* to claim the room "when its previous owner is dead", but HSETNX leaves the
\* entry of the dead node as it is, and after the last round every node answers
\* Local.  Two nodes that ask after a crash both host the room, although the
\* rounds are there not to end in "silently splitting the room across nodes".
SingleHost ==
    \A m, n \in hosted : m = n

\* However many nodes race to claim and relay to each other, and even when
\* nodes crash, a room is never split as long as no heartbeat lapsed (of a node
\* that runs or of one that crashed), no command failed, no entry was released
\* and no room was created unrouted.
SingleHostUndisturbed ==
    disturbed \/ SingleHost

\* release_room "Releases the registry entry for a room, only if this node
\* owns it".
ReleasesOwnEntry ==
    [][\A t \in Tasks :
          releasePc[t] = "hdel" /\ releasePc'[t] = "idle" =>
              owner \in {node[t], NoNode}]_vars

=============================================================================
