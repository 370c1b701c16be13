--------------------------- MODULE RoomLifecycle ---------------------------
(***************************************************************************)
(* The life of the rooms of one name on one node: Server.get_or_create_room *)
(* and the registry, Room.join / remove_participant / should_close / close, *)
(* and the two handlers that drive them, signal::join_room and              *)
(* signal::end_participant.                                                 *)
(*                                                                         *)
(* The server is multi-threaded, so tasks interleave between any two lock   *)
(* or atomic accesses.  A step below is the code between two of them that   *)
(* other tasks can observe.  Three kinds of task:                           *)
(*   - the join of participant p (a Participant object, named by its sid);  *)
(*   - a call of end_participant, made by a join that meets its identity in *)
(*     the room, or by a remover: a leave request, the signal grace task,   *)
(*     a media failure, RoomService.RemoveParticipant;                      *)
(*   - a closer: check_room_timeouts or a RoomService.DeleteRoom.           *)
(*                                                                         *)
(* Times are abstract: emptySince is "None" or "Some", and a room that has  *)
(* a start to measure from may be past its timeout at any moment.  The      *)
(* participant_total gauge moves with announced and left and is not kept.   *)
(***************************************************************************)
EXTENDS Integers, FiniteSets

CONSTANTS
    Rooms,            \* Room objects, created one after the other
    Sids,             \* participants, one join each
    Identity,         \* Identity[p]: the token's identity
    Dependents,       \* participants of kind agent or egress
    Removers,         \* tasks that call end_participant
    Creators,         \* CreateRoom requests
    Deleters,         \* DeleteRoom requests
    Ticker,           \* the background task that runs check_room_timeouts
    MaxParticipants,  \* Room.max_participants, 0 is unlimited
    EmptyTimeout,     \* Room.empty_timeout, 0 is never
    DepartureTimeout, \* Room.departure_timeout, 0 is never
    NoRoom, NoSid

ASSUME RoomAssumption ==
    /\ Dependents \subseteq Sids
    /\ Sids \cap Removers = {}
    /\ Ticker \notin Deleters
    /\ MaxParticipants \in Nat
    /\ EmptyTimeout \in Nat
    /\ DepartureTimeout \in Nat
    /\ NoRoom \notin Rooms
    /\ NoSid \notin Sids

Enders == Sids \cup Removers
Closers == Deleters \cup {Ticker}

VARIABLES
    registered,       \* Server.rooms.get(name)
    created,          \* Room objects that exist
    roomTotal,        \* metrics.room_total
    onClose,          \* onClose[R]: the callback is still to be taken
    closed,           \* Room.closed
    participants,     \* participants[R]: Room.participants
    everJoined,       \* Room.ever_joined
    emptySince,       \* Room.empty_since
    disconnected,     \* participants in state Disconnected
    room,             \* room[p]: Participant.room
    joinPc, firstJoin,            \* the frame of join_room(p)
    createPc,                     \* the frame of CreateRoom
    endPc, endTarget,             \* the frame of end_participant
    closePc, closeRoom, closeTodo,\* the frame of Room.close
    started,          \* started[R]: room_started webhooks handed over
    finished,         \* finished[R]: room_finished webhooks handed over
    announced,        \* participants whose participant_joined was handed over
    left              \* left[p]: participant_left webhooks handed over

registryVars == <<registered, created, roomTotal, onClose>>
roomVars == <<closed, participants, everJoined, emptySince>>
participantVars == <<disconnected, room>>
joinVars == <<joinPc, firstJoin, createPc>>
endVars == <<endPc, endTarget>>
closeVars == <<closePc, closeRoom, closeTodo>>
ledger == <<started, finished, announced, left>>
vars == <<registryVars, roomVars, participantVars, joinVars, endVars,
          closeVars, ledger>>

JoinPcs == {"idle", "duplicate", "ending", "first", "closed", "full",
            "insert", "mark", "start", "announce", "joined", "failed"}
CreatePcs == {"idle", "existed", "absent", "done"}
EndPcs == {"idle", "check", "remove", "empty", "stamp", "left", "stampLeft",
           "account", "done"}
ClosePcs == {"idle", "lookup", "swap", "snapshot", "each", "unregister", "done"}

-----------------------------------------------------------------------------

NonDependents(R) == participants[R] \ Dependents

IsFull(R) ==
    /\ MaxParticipants # 0
    /\ Cardinality(NonDependents(R)) >= MaxParticipants

SameIdentity(R, p) == {q \in participants[R] : Identity[q] = Identity[p]}

Init ==
    /\ registered = NoRoom
    /\ created = {}
    /\ roomTotal = 0
    /\ onClose = [R \in Rooms |-> FALSE]
    /\ closed = [R \in Rooms |-> FALSE]
    /\ participants = [R \in Rooms |-> {}]
    /\ everJoined = [R \in Rooms |-> FALSE]
    /\ emptySince = [R \in Rooms |-> "None"]
    /\ disconnected = {}
    /\ room = [p \in Sids |-> NoRoom]
    /\ joinPc = [p \in Sids |-> "idle"]
    /\ firstJoin = [p \in Sids |-> FALSE]
    /\ endPc = [e \in Enders |-> "idle"]
    /\ endTarget = [e \in Enders |-> NoSid]
    /\ closePc = [c \in Closers |-> "idle"]
    /\ closeRoom = [c \in Closers |-> NoRoom]
    /\ closeTodo = [c \in Closers |-> {}]
    /\ createPc = [c \in Creators |-> "idle"]
    /\ started = [R \in Rooms |-> 0]
    /\ finished = [R \in Rooms |-> 0]
    /\ announced = {}
    /\ left = [p \in Sids |-> 0]

-----------------------------------------------------------------------------
(* Server.get_or_create_room and RoomService.CreateRoom *)

\* The registered room, or a new one registered by the entry().or_insert_with
\* under the registry lock.  Nothing reads the gauge, so its update is part of
\* the step.
GetOrCreateRoom(R) ==
    \/ /\ registered # NoRoom
       /\ R = registered
       /\ UNCHANGED registryVars
    \/ /\ registered = NoRoom
       /\ R \notin created
       /\ registered' = R
       /\ created' = created \cup {R}
       /\ onClose' = [onClose EXCEPT ![R] = TRUE]
       /\ roomTotal' = roomTotal + 1

\* CreateRoom reads whether the room exists before it creates it ...
RoomExisted(c) ==
    /\ createPc[c] = "idle"
    /\ createPc' = [createPc EXCEPT ![c] =
                       IF registered = NoRoom THEN "absent" ELSE "existed"]
    /\ UNCHANGED <<registryVars, roomVars, participantVars, joinPc, firstJoin,
                   endVars, closeVars, ledger>>

\* ... and reports room_started by what it read.
CreateRoom(c) ==
    /\ createPc[c] \in {"existed", "absent"}
    /\ createPc' = [createPc EXCEPT ![c] = "done"]
    /\ \E R \in Rooms :
          /\ GetOrCreateRoom(R)
          /\ started' = [started EXCEPT ![R] =
                            @ + IF createPc[c] = "absent" THEN 1 ELSE 0]
    /\ UNCHANGED <<roomVars, participantVars, joinPc, firstJoin, endVars,
                   closeVars, finished, announced, left>>

-----------------------------------------------------------------------------
(* signal::join_room for participant p *)

EnterRoom(p) ==
    /\ joinPc[p] = "idle"
    /\ joinPc' = [joinPc EXCEPT ![p] = "duplicate"]
    /\ \E R \in Rooms :
          /\ GetOrCreateRoom(R)
          /\ room' = [room EXCEPT ![p] = R]
    /\ UNCHANGED <<roomVars, disconnected, firstJoin, createPc, endVars,
                   closeVars, ledger>>

\* get_participant_by_identity: an existing session is told to leave
\* (close_signal) and this task runs end_participant on it.
FindDuplicate(p) ==
    /\ joinPc[p] = "duplicate"
    /\ LET same == SameIdentity(room[p], p)
       IN \/ /\ same = {}
             /\ joinPc' = [joinPc EXCEPT ![p] = "first"]
             /\ UNCHANGED <<disconnected, endVars>>
          \/ \E q \in same :
             /\ disconnected' = disconnected \cup {q}
             /\ joinPc' = [joinPc EXCEPT ![p] = "ending"]
             /\ endPc' = [endPc EXCEPT ![p] = "check"]
             /\ endTarget' = [endTarget EXCEPT ![p] = q]
    /\ UNCHANGED <<registryVars, roomVars, room, firstJoin, createPc,
                   closeVars, ledger>>

\* first_join is read when there was no duplicate, or it has ended.
ReadFirstJoin(p) ==
    /\ \/ joinPc[p] = "first"
       \/ joinPc[p] = "ending" /\ endPc[p] = "done"
    /\ joinPc' = [joinPc EXCEPT ![p] = "closed"]
    /\ firstJoin' = [firstJoin EXCEPT ![p] = ~everJoined[room[p]]]
    /\ UNCHANGED <<registryVars, roomVars, participantVars, createPc, endVars,
                   closeVars, ledger>>

\* Room.join before it takes the participants lock: the closed flag, then
\* is_full, which takes and releases that lock.
CheckClosed(p) ==
    /\ joinPc[p] = "closed"
    /\ joinPc' = [joinPc EXCEPT ![p] =
                     IF closed[room[p]] THEN "failed" ELSE "full"]
    /\ UNCHANGED <<registryVars, roomVars, participantVars, firstJoin,
                   createPc, endVars, closeVars, ledger>>

CheckFull(p) ==
    /\ joinPc[p] = "full"
    /\ joinPc' = [joinPc EXCEPT ![p] =
                     IF p \notin Dependents /\ IsFull(room[p])
                       THEN "failed" ELSE "insert"]
    /\ UNCHANGED <<registryVars, roomVars, participantVars, firstJoin,
                   createPc, endVars, closeVars, ledger>>

\* Mutant: the identity is looked up before the lock is taken, not under it.
InsertUnchecked(p) ==
    /\ joinPc[p] = "insert"
    /\ participants' = [participants EXCEPT ![room[p]] = @ \cup {p}]
    /\ joinPc' = [joinPc EXCEPT ![p] = "mark"]
    /\ UNCHANGED <<registryVars, closed, everJoined, emptySince,
                   participantVars, firstJoin, createPc, endVars, closeVars,
                   ledger>>

\* Room.join under the participants lock.
InsertParticipant(p) ==
    /\ joinPc[p] = "insert"
    /\ \/ /\ SameIdentity(room[p], p) # {}
          /\ joinPc' = [joinPc EXCEPT ![p] = "failed"]
          /\ UNCHANGED participants
       \/ /\ SameIdentity(room[p], p) = {}
          /\ participants' = [participants EXCEPT ![room[p]] = @ \cup {p}]
          /\ joinPc' = [joinPc EXCEPT ![p] = "mark"]
    /\ UNCHANGED <<registryVars, closed, everJoined, emptySince,
                   participantVars, firstJoin, createPc, endVars, closeVars,
                   ledger>>

\* Room.join after the lock: only a real participant marks the room.
MarkJoined(p) ==
    /\ joinPc[p] = "mark"
    /\ joinPc' = [joinPc EXCEPT ![p] = "start"]
    /\ IF p \in Dependents
         THEN UNCHANGED <<everJoined, emptySince>>
         ELSE /\ everJoined' = [everJoined EXCEPT ![room[p]] = TRUE]
              /\ emptySince' = [emptySince EXCEPT ![room[p]] = "None"]
    /\ UNCHANGED <<registryVars, closed, participants, participantVars,
                   firstJoin, createPc, endVars, closeVars, ledger>>

\* room_started on a first join ...
StartRoom(p) ==
    /\ joinPc[p] = "start"
    /\ joinPc' = [joinPc EXCEPT ![p] = "announce"]
    /\ started' = [started EXCEPT ![room[p]] = @ + IF firstJoin[p] THEN 1 ELSE 0]
    /\ UNCHANGED <<registryVars, roomVars, participantVars, firstJoin,
                   createPc, endVars, closeVars, finished, announced, left>>

\* ... then participant_joined, and the session runs.
Announce(p) ==
    /\ joinPc[p] = "announce"
    /\ joinPc' = [joinPc EXCEPT ![p] = "joined"]
    /\ announced' = announced \cup {p}
    /\ UNCHANGED <<registryVars, roomVars, participantVars, firstJoin,
                   createPc, endVars, closeVars, started, finished, left>>

-----------------------------------------------------------------------------
(* signal::end_participant *)

\* RoomService.RemoveParticipant: anyone in the registered room's map.
RemoveParticipant(e, p) ==
    /\ endPc[e] = "idle"
    /\ registered # NoRoom
    /\ p \in participants[registered]
    /\ endPc' = [endPc EXCEPT ![e] = "check"]
    /\ endTarget' = [endTarget EXCEPT ![e] = p]
    /\ UNCHANGED <<registryVars, roomVars, participantVars, joinVars,
                   closeVars, ledger>>

\* handle_leave, the grace task or on_media_disconnected, for a participant
\* whose session runs.
SessionEnds(e, p) ==
    /\ endPc[e] = "idle"
    /\ joinPc[p] = "joined"
    /\ endPc' = [endPc EXCEPT ![e] = "check"]
    /\ endTarget' = [endTarget EXCEPT ![e] = p]
    /\ UNCHANGED <<registryVars, roomVars, participantVars, joinVars,
                   closeVars, ledger>>

\* Mutant: a participant already marked disconnected is taken for torn down.
ReturnIfDisconnected(e) ==
    /\ endPc[e] = "check"
    /\ LET p == endTarget[e]
       IN \/ /\ p \notin participants[room[p]] \/ p \in disconnected
             /\ endPc' = [endPc EXCEPT ![e] = "done"]
             /\ UNCHANGED disconnected
          \/ /\ p \in participants[room[p]] \ disconnected
             /\ endPc' = [endPc EXCEPT ![e] = "remove"]
             /\ disconnected' = disconnected \cup {p}
    /\ UNCHANGED <<registryVars, roomVars, room, joinVars, endTarget,
                   closeVars, ledger>>

\* The already_removed test, and what is done to the participant before it is
\* taken out of the map.
CheckRemoved(e) ==
    /\ endPc[e] = "check"
    /\ LET p == endTarget[e]
       IN \/ /\ p \notin participants[room[p]]
             /\ endPc' = [endPc EXCEPT ![e] = "done"]
             /\ UNCHANGED disconnected
          \/ /\ p \in participants[room[p]]
             /\ endPc' = [endPc EXCEPT ![e] = "remove"]
             /\ disconnected' = disconnected \cup {p}
    /\ UNCHANGED <<registryVars, roomVars, room, joinVars, endTarget,
                   closeVars, ledger>>

\* Room.remove_participant: the removal, the is_empty test and the stamp take
\* a lock each.  end_participant does not look at the result.
RemoveFromRoom(e) ==
    /\ endPc[e] = "remove"
    /\ LET p == endTarget[e]
       IN /\ participants' = [participants EXCEPT ![room[p]] = @ \ {p}]
          /\ endPc' = [endPc EXCEPT ![e] =
                          IF p \in participants[room[p]] THEN "empty" ELSE "left"]
    /\ UNCHANGED <<registryVars, closed, everJoined, emptySince,
                   participantVars, joinVars, endTarget, closeVars, ledger>>

TestEmpty(e) ==
    /\ endPc[e] = "empty"
    /\ endPc' = [endPc EXCEPT ![e] =
                    IF participants[room[endTarget[e]]] = {}
                      THEN "stamp" ELSE "left"]
    /\ UNCHANGED <<registryVars, roomVars, participantVars, joinVars,
                   endTarget, closeVars, ledger>>

StampEmpty(e) ==
    /\ endPc[e] = "stamp"
    /\ emptySince' = [emptySince EXCEPT ![room[endTarget[e]]] = "Some"]
    /\ endPc' = [endPc EXCEPT ![e] = "left"]
    /\ UNCHANGED <<registryVars, closed, participants, everJoined,
                   participantVars, joinVars, endTarget, closeVars, ledger>>

\* on_participant_left: has_non_dependent, then the stamp.
OnParticipantLeft(e) ==
    /\ endPc[e] = "left"
    /\ endPc' = [endPc EXCEPT ![e] =
                    IF NonDependents(room[endTarget[e]]) = {}
                      THEN "stampLeft" ELSE "account"]
    /\ UNCHANGED <<registryVars, roomVars, participantVars, joinVars,
                   endTarget, closeVars, ledger>>

StampLeft(e) ==
    /\ endPc[e] = "stampLeft"
    /\ emptySince' = [emptySince EXCEPT ![room[endTarget[e]]] = "Some"]
    /\ endPc' = [endPc EXCEPT ![e] = "account"]
    /\ UNCHANGED <<registryVars, closed, participants, everJoined,
                   participantVars, joinVars, endTarget, closeVars, ledger>>

\* participant_left.
AccountLeft(e) ==
    /\ endPc[e] = "account"
    /\ endPc' = [endPc EXCEPT ![e] = "done"]
    /\ left' = [left EXCEPT ![endTarget[e]] = @ + 1]
    /\ UNCHANGED <<registryVars, roomVars, participantVars, joinVars,
                   endTarget, closeVars, started, finished, announced>>

EndParticipant(e) ==
    \/ CheckRemoved(e)
    \/ RemoveFromRoom(e)
    \/ TestEmpty(e)
    \/ StampEmpty(e)
    \/ OnParticipantLeft(e)
    \/ StampLeft(e)
    \/ AccountLeft(e)

-----------------------------------------------------------------------------
(* Room.close and its callers *)

ShouldClose(R) ==
    /\ ~closed[R]
    /\ NonDependents(R) = {}
    /\ IF everJoined[R]
         THEN DepartureTimeout # 0 /\ emptySince[R] = "Some"
         ELSE EmptyTimeout # 0

\* check_room_timeouts found R due; close is called later.
CheckRoomTimeouts ==
    /\ closePc[Ticker] = "idle"
    /\ registered # NoRoom
    /\ ShouldClose(registered)
    /\ closePc' = [closePc EXCEPT ![Ticker] = "swap"]
    /\ closeRoom' = [closeRoom EXCEPT ![Ticker] = registered]
    /\ UNCHANGED <<registryVars, roomVars, participantVars, joinVars, endVars,
                   closeTodo, ledger>>

\* DeleteRoom: the spawned task hands over room_finished for the room it
\* found, then calls close_room, which looks the name up again.
DeleteRoom(c) ==
    /\ closePc[c] = "idle"
    /\ registered # NoRoom
    /\ finished' = [finished EXCEPT ![registered] = @ + 1]
    /\ closePc' = [closePc EXCEPT ![c] = "lookup"]
    /\ UNCHANGED <<registryVars, roomVars, participantVars, joinVars, endVars,
                   closeRoom, closeTodo, started, announced, left>>

CloseRoom(c) ==
    /\ closePc[c] = "lookup"
    /\ closeRoom' = [closeRoom EXCEPT ![c] = registered]
    /\ closePc' = [closePc EXCEPT ![c] =
                      IF registered = NoRoom THEN "done" ELSE "swap"]
    /\ UNCHANGED <<registryVars, roomVars, participantVars, joinVars, endVars,
                   closeTodo, ledger>>

\* Where a closer goes when its call of close returns.
Returned(c) == IF c = Ticker THEN "idle" ELSE "done"

\* Mutant: closed is tested and set without the swap's result deciding.
CloseAgain(c) ==
    /\ closePc[c] = "swap"
    /\ closed' = [closed EXCEPT ![closeRoom[c]] = TRUE]
    /\ closePc' = [closePc EXCEPT ![c] = "snapshot"]
    /\ UNCHANGED <<registryVars, participants, everJoined, emptySince,
                   participantVars, joinVars, endVars, closeRoom, closeTodo,
                   ledger>>

SwapClosed(c) ==
    /\ closePc[c] = "swap"
    /\ closed' = [closed EXCEPT ![closeRoom[c]] = TRUE]
    /\ closePc' = [closePc EXCEPT ![c] =
                      IF closed[closeRoom[c]] THEN Returned(c) ELSE "snapshot"]
    /\ UNCHANGED <<registryVars, participants, everJoined, emptySince,
                   participantVars, joinVars, endVars, closeRoom, closeTodo,
                   ledger>>

\* After terminate_room_jobs and release_room.
SnapshotParticipants(c) ==
    /\ closePc[c] = "snapshot"
    /\ closeTodo' = [closeTodo EXCEPT ![c] = participants[closeRoom[c]]]
    /\ closePc' = [closePc EXCEPT ![c] = "each"]
    /\ UNCHANGED <<registryVars, roomVars, participantVars, joinVars, endVars,
                   closeRoom, ledger>>

\* One turn of the loop over the snapshot.
DisconnectOne(c) ==
    /\ closePc[c] = "each"
    /\ \E p \in closeTodo[c] :
          /\ closeTodo' = [closeTodo EXCEPT ![c] = @ \ {p}]
          /\ disconnected' = disconnected \cup {p}
          /\ left' = [left EXCEPT ![p] = @ + 1]
    /\ UNCHANGED <<registryVars, roomVars, room, joinVars, endVars, closePc,
                   closeRoom, started, finished, announced>>

\* The loop is over: the map is cleared and room_finished handed over.
ClearParticipants(c) ==
    /\ closePc[c] = "each"
    /\ closeTodo[c] = {}
    /\ participants' = [participants EXCEPT ![closeRoom[c]] = {}]
    /\ finished' = [finished EXCEPT ![closeRoom[c]] = @ + 1]
    /\ closePc' = [closePc EXCEPT ![c] = "unregister"]
    /\ UNCHANGED <<registryVars, closed, everJoined, emptySince,
                   participantVars, joinVars, endVars, closeRoom, closeTodo,
                   started, announced, left>>

\* Mutant: on_close is run without being taken.
UnregisterAlways(c) ==
    /\ closePc[c] = "unregister"
    /\ registered' = NoRoom
    /\ roomTotal' = roomTotal - 1
    /\ closePc' = [closePc EXCEPT ![c] = Returned(c)]
    /\ UNCHANGED <<created, onClose, roomVars, participantVars, joinVars,
                   endVars, closeRoom, closeTodo, ledger>>

\* on_close.take(): on_room_closed removes the registry entry of the name.
Unregister(c) ==
    /\ closePc[c] = "unregister"
    /\ closePc' = [closePc EXCEPT ![c] = Returned(c)]
    /\ IF onClose[closeRoom[c]]
         THEN /\ registered' = NoRoom
              /\ roomTotal' = roomTotal - 1
              /\ onClose' = [onClose EXCEPT ![closeRoom[c]] = FALSE]
         ELSE UNCHANGED <<registered, roomTotal, onClose>>
    /\ UNCHANGED <<created, roomVars, participantVars, joinVars, endVars,
                   closeRoom, closeTodo, ledger>>

Close(c) ==
    \/ CloseRoom(c)
    \/ SwapClosed(c)
    \/ SnapshotParticipants(c)
    \/ DisconnectOne(c)
    \/ ClearParticipants(c)
    \/ Unregister(c)

-----------------------------------------------------------------------------

Join(p) ==
    \/ EnterRoom(p)
    \/ FindDuplicate(p)
    \/ ReadFirstJoin(p)
    \/ CheckClosed(p)
    \/ CheckFull(p)
    \/ InsertParticipant(p)
    \/ MarkJoined(p)
    \/ StartRoom(p)
    \/ Announce(p)

Next ==
    \/ \E p \in Sids : Join(p)
    \/ \E e \in Removers, p \in Sids : RemoveParticipant(e, p) \/ SessionEnds(e, p)
    \/ \E e \in Enders : EndParticipant(e)
    \/ \E c \in Creators : RoomExisted(c) \/ CreateRoom(c)
    \/ CheckRoomTimeouts
    \/ \E c \in Deleters : DeleteRoom(c)
    \/ \E c \in Closers : Close(c)

Spec == Init /\ [][Next]_vars

-----------------------------------------------------------------------------
(* Properties *)

\* The state has its types, and a task that is past its lookup has what it
\* looked up: a join its room, an end its participant, a close its room.
TypeOK ==
    /\ registered \in Rooms \cup {NoRoom}
    /\ created \in SUBSET Rooms
    /\ roomTotal \in Int
    /\ onClose \in [Rooms -> BOOLEAN]
    /\ closed \in [Rooms -> BOOLEAN]
    /\ participants \in [Rooms -> SUBSET Sids]
    /\ everJoined \in [Rooms -> BOOLEAN]
    /\ emptySince \in [Rooms -> {"None", "Some"}]
    /\ disconnected \in SUBSET Sids
    /\ room \in [Sids -> Rooms \cup {NoRoom}]
    /\ joinPc \in [Sids -> JoinPcs]
    /\ firstJoin \in [Sids -> BOOLEAN]
    /\ endPc \in [Enders -> EndPcs]
    /\ endTarget \in [Enders -> Sids \cup {NoSid}]
    /\ closePc \in [Closers -> ClosePcs]
    /\ closeRoom \in [Closers -> Rooms \cup {NoRoom}]
    /\ closeTodo \in [Closers -> SUBSET Sids]
    /\ createPc \in [Creators -> CreatePcs]
    /\ started \in [Rooms -> Nat]
    /\ finished \in [Rooms -> Nat]
    /\ announced \in SUBSET Sids
    /\ left \in [Sids -> Nat]
    /\ \A p \in Sids : joinPc[p] # "idle" => room[p] \in Rooms
    /\ \A e \in Enders :
          endPc[e] # "idle" => endTarget[e] \in Sids /\ room[endTarget[e]] \in Rooms
    /\ \A c \in Closers :
          closePc[c] \notin {"idle", "lookup", "done"} => closeRoom[c] \in Rooms

\* A room never holds two participants of one identity, although join_room
\* looks for the duplicate long before Room.join inserts, and two joins of
\* that identity can both find none.
UniqueIdentity ==
    \A R \in Rooms : \A p, q \in participants[R] :
        Identity[p] = Identity[q] => p = q

\* The registry and room_total follow the life of each Room object: on_close
\* removes an entry by name, yet never that of a successor room.
RegistryExact ==
    /\ \A R \in Rooms : onClose[R] <=> registered = R
    /\ roomTotal = IF registered = NoRoom THEN 0 ELSE 1

\* Whoever calls close and however often, the body of Room.close runs once
\* for a room ("terminates room-level agent jobs once, regardless of caller").
CloseRunsOnce ==
    \A c, d \in Closers :
        /\ closePc[c] \in {"snapshot", "each", "unregister"}
        /\ closePc[d] \in {"snapshot", "each", "unregister"}
        /\ closeRoom[c] = closeRoom[d]
        => c = d

\* In an open room a participant in state Disconnected is on its way out: some
\* call of end_participant that will remove it is under way.
DisconnectedIsLeaving ==
    \A R \in Rooms : \A p \in participants[R] \cap disconnected :
        \/ closed[R]
        \/ \E e \in Enders :
              endTarget[e] = p /\ endPc[e] \in {"check", "remove"}

\* A participant that was announced and is gone from a room that stays open
\* has its participant_left sent or about to be sent.
LeaveIsReported ==
    \A p \in announced :
        p \in participants[room[p]] \/ closed[room[p]] \/ left[p] > 0
            \/ \E e \in Enders :
                  /\ endTarget[e] = p
                  /\ endPc[e] \in {"empty", "stamp", "left", "stampLeft", "account"}

\* A room that is closed but still registered, so that its name cannot be
\* used, is being unregistered: the one call of Room.close that won the swap
\* is on its way to on_close.
ClosedIsLeaving ==
    \A R \in Rooms :
        closed[R] /\ registered = R =>
            \E c \in Closers :
                /\ closeRoom[c] = R
                /\ closePc[c] \in {"snapshot", "each", "unregister"}

\* A close that began is carried through, once.
CloseCompletes == CloseRunsOnce /\ ClosedIsLeaving

\* A leave that began is carried through: the participant goes, and is reported.
LeaveCompletes == DisconnectedIsLeaving /\ LeaveIsReported

\* Room.join "Returns false if the room is closed/full": nobody enters a room
\* that is closed.
ClosedRoomRejects ==
    [][\A R \in Rooms : closed[R] => participants'[R] \subseteq participants[R]]_vars

\* Room.join "Returns false if the room is closed/full": the participants
\* that count never exceed max_participants.
CapacityRespected ==
    MaxParticipants # 0 =>
        \A R \in Rooms : Cardinality(NonDependents(R)) <= MaxParticipants

\* end_participant returns early when "the teardown already ran": a
\* participant's teardown is reported once.
TeardownOnce ==
    \A p \in Sids : left[p] <= 1

\* Room.close "Fires `room_finished` ... once, regardless of caller".
RoomFinishedOnce ==
    \A R \in Rooms : finished[R] <= 1

\* join_room: "Fire room_started before participant_joined".
RoomStartedFirst ==
    \A p \in announced : started[room[p]] > 0

\* should_close: "empty (no non-dependent participants) past departure
\* timeout": once no task is at work, a room that was joined and has no real
\* participant left has a time its departure timeout is measured from.
EmptyRoomIsTimed ==
    \A R \in created :
        (/\ everJoined[R]
         /\ ~closed[R]
         /\ NonDependents(R) = {}
         /\ \A p \in Sids : joinPc[p] \in {"idle", "joined", "failed"}
         /\ \A e \in Enders : endPc[e] \in {"idle", "done"})
        => emptySince[R] = "Some"

=============================================================================
