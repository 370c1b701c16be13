---------------------------- MODULE RoomProofs ----------------------------
(***************************************************************************)
(* Proofs about RoomLifecycle, for any number of rooms, participants and    *)
(* tasks, and for every value of the timeouts and of the capacity: first    *)
(* the registry and Room.close, then how participants leave.                *)
(***************************************************************************)
EXTENDS RoomLifecycle, TLAPS

\* A participant that Room.join has inserted, at some time.
Inserted == {"mark", "start", "announce", "joined"}

\* A call of Room.close that won the swap and has not returned.
InClose == {"snapshot", "each", "unregister"}

\* The registry only names rooms that exist, and only those are closed; the
\* calls inside the body of Room.close are for distinct closed rooms.
ClosedIsClosing ==
    /\ registered \in created \cup {NoRoom}
    /\ \A R \in Rooms : closed[R] => R \in created
    /\ \A c \in Closers : closePc[c] \in InClose => closed[closeRoom[c]]
    /\ \A c \in Closers :
          closePc[c] \notin {"idle", "lookup", "done"} => closeRoom[c] \in created
    /\ CloseRunsOnce
    /\ ClosedIsLeaving

\* Only an inserted participant is in a room's map, marked disconnected or in
\* the snapshot of a call of Room.close, and the map is that of its room; a
\* join calls end_participant only when it has looked for its duplicate.
InsertedFirst ==
    /\ \A p \in Sids : joinPc[p] \in {"idle", "duplicate"} => endPc[p] = "idle"
    /\ \A R \in Rooms : \A p \in participants[R] :
          room[p] = R /\ joinPc[p] \in Inserted
    /\ \A p \in disconnected : joinPc[p] \in Inserted
    /\ \A c \in Closers : \A p \in closeTodo[c] :
          /\ joinPc[p] \in Inserted
          /\ closePc[c] = "each"
          /\ room[p] = closeRoom[c]

-----------------------------------------------------------------------------

\* get_or_create_room leaves a registry of the right types.
LEMMA RegistryTypes ==
    ASSUME TypeOK, NEW R \in Rooms, GetOrCreateRoom(R)
    PROVE  /\ registered' \in Rooms \cup {NoRoom}
         /\ created' \in SUBSET Rooms
         /\ roomTotal' \in Int
         /\ onClose' \in [Rooms -> BOOLEAN]
<1>1. CASE UNCHANGED registryVars
  BY Zenon, <1>1 DEF TypeOK, registryVars
<1>2. CASE ~UNCHANGED registryVars
  <2>1. onClose' = [onClose EXCEPT ![R] = TRUE]
  BY Zenon, <1>2 DEF GetOrCreateRoom
  <2>2. onClose' \in [Rooms -> BOOLEAN]
  BY Zenon, <2>1 DEF TypeOK
  <2> QED
  BY <1>2, <2>2 DEF TypeOK, GetOrCreateRoom
<1> QED
  BY Zenon, <1>1, <1>2

\* A step keeps the types of a state whose maps only hold participants that
\* joined that very room: a task takes its participant from such a map.
LEMMA TypeStep == TypeOK /\ InsertedFirst /\ [Next]_vars => TypeOK'
<1> SUFFICES ASSUME TypeOK, InsertedFirst, [Next]_vars PROVE TypeOK'
  OBVIOUS
<1> USE RoomAssumption DEF TypeOK, RoomAssumption, JoinPcs, CreatePcs,
        EndPcs, ClosePcs, Enders, Closers
<1>1. ASSUME NEW p \in Sids, EnterRoom(p) PROVE TypeOK'
  <2>1. PICK R \in Rooms : GetOrCreateRoom(R) /\ room' = [room EXCEPT ![p] = R]
    BY Zenon, <1>1 DEF EnterRoom
  <2>2. room' \in [Sids -> Rooms \cup {NoRoom}]
    BY Zenon, <2>1
  <2>3. \A q \in Sids : room[q] \in Rooms => room'[q] \in Rooms
    BY Zenon, <2>1
  <2> QED
    BY Zenon, <1>1, <2>1, <2>2, <2>3, RegistryTypes
       DEF EnterRoom, roomVars, endVars, closeVars, ledger
<1>2. ASSUME NEW p \in Sids, FindDuplicate(p) PROVE TypeOK'
  <2>1. \A q \in SameIdentity(room[p], p) : q \in Sids /\ room[q] \in Rooms
    BY <1>2 DEF FindDuplicate, SameIdentity, InsertedFirst
  <2> QED
    BY <1>2, <2>1
       DEF FindDuplicate, registryVars, roomVars, endVars, closeVars, ledger
<1>3. ASSUME NEW p \in Sids, ReadFirstJoin(p) PROVE TypeOK'
  BY Zenon, <1>3 DEF ReadFirstJoin, registryVars, roomVars, participantVars,
     endVars, closeVars, ledger
<1>4. ASSUME NEW p \in Sids, CheckClosed(p) PROVE TypeOK'
  BY Zenon, <1>4 DEF CheckClosed, registryVars, roomVars, participantVars,
     endVars, closeVars, ledger
<1>5. ASSUME NEW p \in Sids, CheckFull(p) PROVE TypeOK'
  BY Zenon, <1>5 DEF CheckFull, registryVars, roomVars, participantVars, endVars,
     closeVars, ledger
<1>6. ASSUME NEW p \in Sids, InsertParticipant(p) PROVE TypeOK'
  BY SMTT(60), <1>6 DEF InsertParticipant, registryVars, participantVars, endVars,
     closeVars, ledger
<1>7. ASSUME NEW p \in Sids, MarkJoined(p) PROVE TypeOK'
  BY Zenon, <1>7 DEF MarkJoined, registryVars, participantVars, endVars,
     closeVars, ledger
<1>8. ASSUME NEW p \in Sids, StartRoom(p) PROVE TypeOK'
  BY <1>8 DEF StartRoom, registryVars, roomVars, participantVars, endVars,
     closeVars
<1>9. ASSUME NEW p \in Sids, Announce(p) PROVE TypeOK'
  BY Zenon, <1>9 DEF Announce, registryVars, roomVars, participantVars, endVars,
     closeVars
<1>10. ASSUME NEW e \in Removers, NEW p \in Sids, RemoveParticipant(e, p)
       PROVE  TypeOK'
  <2>1. room[p] \in Rooms
    BY <1>10 DEF RemoveParticipant, InsertedFirst
  <2> QED
    BY Zenon, <1>10, <2>1
       DEF RemoveParticipant, registryVars, roomVars, participantVars,
           joinVars, closeVars, ledger
<1>11. ASSUME NEW e \in Removers, NEW p \in Sids, SessionEnds(e, p)
       PROVE  TypeOK'
  BY Zenon, <1>11 DEF SessionEnds, registryVars, roomVars, participantVars,
     joinVars, closeVars, ledger
<1>12. ASSUME NEW e \in Enders, CheckRemoved(e) PROVE TypeOK'
  BY <1>12 DEF CheckRemoved, registryVars, roomVars, joinVars, closeVars,
     ledger
<1>13. ASSUME NEW e \in Enders, RemoveFromRoom(e) PROVE TypeOK'
  BY Zenon, <1>13 DEF RemoveFromRoom, registryVars, participantVars, joinVars,
     closeVars, ledger
<1>14. ASSUME NEW e \in Enders, TestEmpty(e) PROVE TypeOK'
  BY Zenon, <1>14 DEF TestEmpty, registryVars, roomVars, participantVars,
     joinVars, closeVars, ledger
<1>15. ASSUME NEW e \in Enders, StampEmpty(e) PROVE TypeOK'
  BY Zenon, <1>15 DEF StampEmpty, registryVars, participantVars, joinVars,
     closeVars, ledger
<1>16. ASSUME NEW e \in Enders, OnParticipantLeft(e) PROVE TypeOK'
  BY Zenon, <1>16 DEF OnParticipantLeft, registryVars, roomVars, participantVars,
     joinVars, closeVars, ledger
<1>17. ASSUME NEW e \in Enders, StampLeft(e) PROVE TypeOK'
  BY Zenon, <1>17 DEF StampLeft, registryVars, participantVars, joinVars,
     closeVars, ledger
<1>18. ASSUME NEW e \in Enders, AccountLeft(e) PROVE TypeOK'
  BY <1>18 DEF AccountLeft, registryVars, roomVars, participantVars,
     joinVars, closeVars
<1>19. ASSUME NEW c \in Creators, RoomExisted(c) PROVE TypeOK'
  BY Zenon, <1>19 DEF RoomExisted, registryVars, roomVars, participantVars,
     endVars, closeVars, ledger
<1>20. ASSUME NEW c \in Creators, CreateRoom(c) PROVE TypeOK'
  <2>1. PICK R \in Rooms :
          /\ GetOrCreateRoom(R)
          /\ started' = [started EXCEPT ![R] =
                            @ + IF createPc[c] = "absent" THEN 1 ELSE 0]
    BY Zenon, <1>20 DEF CreateRoom
  <2>2. started' \in [Rooms -> Nat]
    BY <2>1
  <2> QED
    BY Zenon, <1>20, <2>1, <2>2, RegistryTypes
       DEF CreateRoom, roomVars, participantVars, endVars, closeVars
<1>21. ASSUME CheckRoomTimeouts PROVE TypeOK'
  BY Zenon, <1>21 DEF CheckRoomTimeouts, registryVars, roomVars, participantVars,
     joinVars, endVars, ledger
<1>22. ASSUME NEW c \in Deleters, DeleteRoom(c) PROVE TypeOK'
  BY <1>22 DEF DeleteRoom, registryVars, roomVars, participantVars,
     joinVars, endVars
<1>23. ASSUME NEW c \in Closers, CloseRoom(c) PROVE TypeOK'
  BY Zenon, <1>23 DEF CloseRoom, registryVars, roomVars, participantVars,
     joinVars, endVars, ledger
<1>24. ASSUME NEW c \in Closers, SwapClosed(c) PROVE TypeOK'
  BY Zenon, <1>24 DEF SwapClosed, registryVars, participantVars, joinVars,
     endVars, ledger, Returned
<1>25. ASSUME NEW c \in Closers, SnapshotParticipants(c) PROVE TypeOK'
  BY Zenon, <1>25 DEF SnapshotParticipants, registryVars, roomVars,
     participantVars, joinVars, endVars, ledger
<1>26. ASSUME NEW c \in Closers, DisconnectOne(c) PROVE TypeOK'
  BY <1>26 DEF DisconnectOne, registryVars, roomVars, joinVars, endVars
<1>27. ASSUME NEW c \in Closers, ClearParticipants(c) PROVE TypeOK'
  BY <1>27 DEF ClearParticipants, registryVars, participantVars, joinVars,
     endVars
<1>28. ASSUME NEW c \in Closers, Unregister(c) PROVE TypeOK'
  <2>1. registered' \in Rooms \cup {NoRoom} /\ roomTotal' \in Int
    BY <1>28 DEF Unregister
  <2>3. onClose' \in [Rooms -> BOOLEAN]
    <3>1. \/ onClose' = onClose
          \/ onClose' = [onClose EXCEPT ![closeRoom[c]] = FALSE]
      BY Zenon, <1>28 DEF Unregister
    <3> QED
      BY Zenon, <3>1
  <2>2. /\ closePc' \in [Closers -> ClosePcs]
        /\ \A d \in Closers : closePc'[d] \in {closePc[d], "idle", "done"}
    BY Zenon, <1>28 DEF Unregister, Returned
  <2> QED
    BY Zenon, <1>28, <2>1, <2>2, <2>3
       DEF Unregister, roomVars, participantVars, joinVars, endVars, ledger
<1>29. CASE UNCHANGED vars
  BY Zenon, <1>29 DEF vars, registryVars, roomVars, participantVars, joinVars,
     endVars, closeVars, ledger
<1> QED
  BY Zenon, <1>1, <1>2, <1>3, <1>4, <1>5, <1>6, <1>7, <1>8, <1>9, <1>10, <1>11,
     <1>12, <1>13, <1>14, <1>15, <1>16, <1>17, <1>18, <1>19, <1>20, <1>21,
     <1>22, <1>23, <1>24, <1>25, <1>26, <1>27, <1>28, <1>29
     DEF Next, Join, EndParticipant, Close

\* Nobody is in a room's map, disconnected or in a snapshot before it was
\* inserted, and joins and maps agree on the room.
LEMMA InsertedStep == TypeOK /\ InsertedFirst /\ [Next]_vars => InsertedFirst'
<1> SUFFICES ASSUME TypeOK, InsertedFirst, [Next]_vars PROVE InsertedFirst'
  OBVIOUS
<1>0. /\ DOMAIN participants = Rooms /\ participants \in [Rooms -> SUBSET Sids]
      /\ DOMAIN joinPc = Sids /\ DOMAIN endPc = Enders /\ DOMAIN closePc = Closers
      /\ room \in [Sids -> Rooms \cup {NoRoom}] /\ disconnected \in SUBSET Sids
      /\ endTarget \in [Enders -> Sids \cup {NoSid}]
      /\ closeRoom \in [Closers -> Rooms \cup {NoRoom}]
      /\ closeTodo \in [Closers -> SUBSET Sids]
      /\ \A p \in Sids : joinPc[p] # "idle" => room[p] \in Rooms
      /\ \A e \in Enders :
            endPc[e] # "idle" => endTarget[e] \in Sids /\ room[endTarget[e]] \in Rooms
      /\ \A c \in Closers :
            closePc[c] \notin {"idle", "lookup", "done"} => closeRoom[c] \in Rooms
  BY Zenon DEF TypeOK
<1> USE RoomAssumption, <1>0 DEF RoomAssumption, InsertedFirst, Inserted,
        Enders, Closers
<1>1. ASSUME NEW p \in Sids, EnterRoom(p) PROVE InsertedFirst'
  BY <1>1 DEF EnterRoom, GetOrCreateRoom, registryVars, roomVars, endVars,
     closeVars, ledger
<1>2. ASSUME NEW p \in Sids, FindDuplicate(p) PROVE InsertedFirst'
  <2>1. \A q \in SameIdentity(room[p], p) : q \in Sids /\ joinPc[q] \in Inserted
    BY <1>2 DEF FindDuplicate, SameIdentity
  <2>2. /\ \A q \in Sids : joinPc[q] \in Inserted => joinPc'[q] = joinPc[q]
        /\ \A q \in Sids : joinPc'[q] \in {"idle", "duplicate"} => endPc'[q] = "idle"
        /\ UNCHANGED <<participants, room, closePc, closeRoom, closeTodo>>
    BY <1>2 DEF FindDuplicate, roomVars, closeVars, endVars
  <2>3. \A q \in disconnected' : joinPc'[q] \in Inserted
    <3>1. \A q \in disconnected' : q \in disconnected \/ q \in SameIdentity(room[p], p)
      BY <1>2 DEF FindDuplicate
    <3> QED
      BY <2>1, <2>2, <3>1 DEF SameIdentity
  <2> QED
    BY <2>2, <2>3 DEF closeVars
<1>3. ASSUME NEW p \in Sids, ReadFirstJoin(p) PROVE InsertedFirst'
  BY <1>3 DEF ReadFirstJoin, registryVars, roomVars, participantVars,
     endVars, closeVars, ledger
<1>4. ASSUME NEW p \in Sids, CheckClosed(p) PROVE InsertedFirst'
  BY <1>4 DEF CheckClosed, registryVars, roomVars, participantVars,
     endVars, closeVars, ledger
<1>5. ASSUME NEW p \in Sids, CheckFull(p) PROVE InsertedFirst'
  BY <1>5 DEF CheckFull, registryVars, roomVars, participantVars, endVars,
     closeVars, ledger
<1>6. ASSUME NEW p \in Sids, InsertParticipant(p) PROVE InsertedFirst'
  <2>1. /\ joinPc[p] \notin Inserted
        /\ \A q \in Sids \ {p} : joinPc'[q] = joinPc[q]
        /\ \A q \in Sids : joinPc'[q] \in {"idle", "duplicate"} => endPc'[q] = "idle"
        /\ UNCHANGED <<disconnected, room, closePc, closeRoom, closeTodo>>
    BY <1>6 DEF InsertParticipant, participantVars, endVars, closeVars
  <2>2. ASSUME NEW R \in Rooms, NEW q \in participants'[R]
        PROVE  room'[q] = R /\ joinPc'[q] \in Inserted
    <3>1. CASE q = p /\ p \notin participants[R]
      BY <1>6, <3>1 DEF InsertParticipant, participantVars
    <3>2. CASE q \in participants[R]
      BY <2>1, <3>2
    <3> QED
      BY <1>6, <3>1, <3>2 DEF InsertParticipant
  <2> QED
    BY SMTT(60), <2>1, <2>2
<1>7. ASSUME NEW p \in Sids, MarkJoined(p) PROVE InsertedFirst'
  BY <1>7 DEF MarkJoined, registryVars, participantVars, endVars,
     closeVars, ledger
<1>8. ASSUME NEW p \in Sids, StartRoom(p) PROVE InsertedFirst'
  BY <1>8 DEF StartRoom, registryVars, roomVars, participantVars, endVars,
     closeVars
<1>9. ASSUME NEW p \in Sids, Announce(p) PROVE InsertedFirst'
  BY <1>9 DEF Announce, registryVars, roomVars, participantVars, endVars,
     closeVars
<1>10. ASSUME NEW e \in Removers, NEW p \in Sids, RemoveParticipant(e, p)
       PROVE  InsertedFirst'
  BY <1>10 DEF RemoveParticipant, registryVars, roomVars, participantVars,
     joinVars, closeVars, ledger
<1>11. ASSUME NEW e \in Removers, NEW p \in Sids, SessionEnds(e, p)
       PROVE  InsertedFirst'
  BY <1>11 DEF SessionEnds, registryVars, roomVars, participantVars,
     joinVars, closeVars, ledger
<1>12. ASSUME NEW e \in Enders, CheckRemoved(e) PROVE InsertedFirst'
  BY <1>12 DEF CheckRemoved, registryVars, roomVars, joinVars, closeVars,
     ledger
<1>13. ASSUME NEW e \in Enders, RemoveFromRoom(e) PROVE InsertedFirst'
  BY <1>13 DEF RemoveFromRoom, registryVars, participantVars, joinVars,
     closeVars, ledger
<1>14. ASSUME NEW e \in Enders, TestEmpty(e) PROVE InsertedFirst'
  BY <1>14 DEF TestEmpty, registryVars, roomVars, participantVars,
     joinVars, closeVars, ledger
<1>15. ASSUME NEW e \in Enders, StampEmpty(e) PROVE InsertedFirst'
  BY <1>15 DEF StampEmpty, registryVars, participantVars, joinVars,
     closeVars, ledger
<1>16. ASSUME NEW e \in Enders, OnParticipantLeft(e) PROVE InsertedFirst'
  BY <1>16 DEF OnParticipantLeft, registryVars, roomVars, participantVars,
     joinVars, closeVars, ledger
<1>17. ASSUME NEW e \in Enders, StampLeft(e) PROVE InsertedFirst'
  BY <1>17 DEF StampLeft, registryVars, participantVars, joinVars,
     closeVars, ledger
<1>18. ASSUME NEW e \in Enders, AccountLeft(e) PROVE InsertedFirst'
  BY <1>18 DEF AccountLeft, registryVars, roomVars, participantVars,
     joinVars, closeVars
<1>19. ASSUME NEW c \in Creators, RoomExisted(c) PROVE InsertedFirst'
  BY <1>19 DEF RoomExisted, registryVars, roomVars, participantVars,
     endVars, closeVars, ledger
<1>20. ASSUME NEW c \in Creators, CreateRoom(c) PROVE InsertedFirst'
  BY <1>20 DEF CreateRoom, GetOrCreateRoom, registryVars, roomVars,
     participantVars, endVars, closeVars
<1>21. ASSUME CheckRoomTimeouts PROVE InsertedFirst'
  BY <1>21 DEF CheckRoomTimeouts, registryVars, roomVars, participantVars,
     joinVars, endVars, ledger
<1>22. ASSUME NEW c \in Deleters, DeleteRoom(c) PROVE InsertedFirst'
  BY <1>22 DEF DeleteRoom, registryVars, roomVars, participantVars,
     joinVars, endVars
<1>23. ASSUME NEW c \in Closers, CloseRoom(c) PROVE InsertedFirst'
  BY <1>23 DEF CloseRoom, registryVars, roomVars, participantVars,
     joinVars, endVars, ledger
<1>24. ASSUME NEW c \in Closers, SwapClosed(c) PROVE InsertedFirst'
  BY <1>24 DEF SwapClosed, registryVars, participantVars, joinVars,
     endVars, ledger, Returned
<1>25. ASSUME NEW c \in Closers, SnapshotParticipants(c) PROVE InsertedFirst'
  BY <1>25 DEF SnapshotParticipants, registryVars, roomVars,
     participantVars, joinVars, endVars, ledger
<1>26. ASSUME NEW c \in Closers, DisconnectOne(c) PROVE InsertedFirst'
  BY <1>26 DEF DisconnectOne, registryVars, roomVars, joinVars, endVars
<1>27. ASSUME NEW c \in Closers, ClearParticipants(c) PROVE InsertedFirst'
  BY <1>27 DEF ClearParticipants, registryVars, participantVars, joinVars,
     endVars
<1>28. ASSUME NEW c \in Closers, Unregister(c) PROVE InsertedFirst'
  BY <1>28 DEF Unregister, roomVars, participantVars, joinVars, endVars,
     ledger, Returned
<1>29. CASE UNCHANGED vars
  BY Zenon, <1>29 DEF vars, registryVars, roomVars, participantVars, joinVars,
     endVars, closeVars, ledger
<1> QED
  BY Zenon, <1>1, <1>2, <1>3, <1>4, <1>5, <1>6, <1>7, <1>8, <1>9, <1>10, <1>11,
     <1>12, <1>13, <1>14, <1>15, <1>16, <1>17, <1>18, <1>19, <1>20, <1>21,
     <1>22, <1>23, <1>24, <1>25, <1>26, <1>27, <1>28, <1>29
     DEF Next, Join, EndParticipant, Close

\* Every step of every task keeps the state in its types, and a task that is
\* past its lookup keeps what it looked up.
THEOREM TypeCorrect == Spec => [](TypeOK /\ InsertedFirst)
<1>1. Init => TypeOK /\ InsertedFirst
  BY RoomAssumption DEF Init, TypeOK, InsertedFirst, RoomAssumption, JoinPcs,
   CreatePcs, EndPcs, ClosePcs, Enders, Closers
<1> QED
  BY <1>1, TypeStep, InsertedStep, PTL DEF Spec

\* on_close removes an entry by name only while its own room is registered.
LEMMA RegistryStep == TypeOK /\ RegistryExact /\ [Next]_vars => RegistryExact'
<1> SUFFICES ASSUME TypeOK, RegistryExact, [Next]_vars PROVE RegistryExact'
  OBVIOUS
<1>0. /\ registered \in Rooms \cup {NoRoom} /\ roomTotal \in Int
      /\ onClose \in [Rooms -> BOOLEAN]
      /\ \A c \in Closers :
            closePc[c] \notin {"idle", "lookup", "done"} => closeRoom[c] \in Rooms
  BY Zenon DEF TypeOK
<1> USE RoomAssumption, <1>0 DEF RegistryExact
<1>1. ASSUME NEW p \in Sids, EnterRoom(p) PROVE RegistryExact'
  BY <1>1 DEF EnterRoom, GetOrCreateRoom, registryVars, roomVars, endVars,
     closeVars, ledger
<1>2. ASSUME NEW p \in Sids, FindDuplicate(p) PROVE RegistryExact'
  BY Zenon, <1>2 DEF FindDuplicate, registryVars, roomVars, endVars, closeVars,
     ledger
<1>3. ASSUME NEW p \in Sids, ReadFirstJoin(p) PROVE RegistryExact'
  BY Zenon, <1>3 DEF ReadFirstJoin, registryVars, roomVars, participantVars,
     endVars, closeVars, ledger
<1>4. ASSUME NEW p \in Sids, CheckClosed(p) PROVE RegistryExact'
  BY Zenon, <1>4 DEF CheckClosed, registryVars, roomVars, participantVars,
     endVars, closeVars, ledger
<1>5. ASSUME NEW p \in Sids, CheckFull(p) PROVE RegistryExact'
  BY Zenon, <1>5 DEF CheckFull, registryVars, roomVars, participantVars, endVars,
     closeVars, ledger
<1>6. ASSUME NEW p \in Sids, InsertParticipant(p) PROVE RegistryExact'
  BY Zenon, <1>6 DEF InsertParticipant, registryVars, participantVars, endVars,
     closeVars, ledger
<1>7. ASSUME NEW p \in Sids, MarkJoined(p) PROVE RegistryExact'
  BY Zenon, <1>7 DEF MarkJoined, registryVars, participantVars, endVars,
     closeVars, ledger
<1>8. ASSUME NEW p \in Sids, StartRoom(p) PROVE RegistryExact'
  BY Zenon, <1>8 DEF StartRoom, registryVars, roomVars, participantVars, endVars,
     closeVars
<1>9. ASSUME NEW p \in Sids, Announce(p) PROVE RegistryExact'
  BY Zenon, <1>9 DEF Announce, registryVars, roomVars, participantVars, endVars,
     closeVars
<1>10. ASSUME NEW e \in Removers, NEW p \in Sids, RemoveParticipant(e, p)
       PROVE  RegistryExact'
  BY Zenon, <1>10 DEF RemoveParticipant, registryVars, roomVars, participantVars,
     joinVars, closeVars, ledger
<1>11. ASSUME NEW e \in Removers, NEW p \in Sids, SessionEnds(e, p)
       PROVE  RegistryExact'
  BY Zenon, <1>11 DEF SessionEnds, registryVars, roomVars, participantVars,
     joinVars, closeVars, ledger
<1>12. ASSUME NEW e \in Enders, CheckRemoved(e) PROVE RegistryExact'
  BY Zenon, <1>12 DEF CheckRemoved, registryVars, roomVars, joinVars, closeVars,
     ledger
<1>13. ASSUME NEW e \in Enders, RemoveFromRoom(e) PROVE RegistryExact'
  BY Zenon, <1>13 DEF RemoveFromRoom, registryVars, participantVars, joinVars,
     closeVars, ledger
<1>14. ASSUME NEW e \in Enders, TestEmpty(e) PROVE RegistryExact'
  BY Zenon, <1>14 DEF TestEmpty, registryVars, roomVars, participantVars,
     joinVars, closeVars, ledger
<1>15. ASSUME NEW e \in Enders, StampEmpty(e) PROVE RegistryExact'
  BY Zenon, <1>15 DEF StampEmpty, registryVars, participantVars, joinVars,
     closeVars, ledger
<1>16. ASSUME NEW e \in Enders, OnParticipantLeft(e) PROVE RegistryExact'
  BY Zenon, <1>16 DEF OnParticipantLeft, registryVars, roomVars, participantVars,
     joinVars, closeVars, ledger
<1>17. ASSUME NEW e \in Enders, StampLeft(e) PROVE RegistryExact'
  BY Zenon, <1>17 DEF StampLeft, registryVars, participantVars, joinVars,
     closeVars, ledger
<1>18. ASSUME NEW e \in Enders, AccountLeft(e) PROVE RegistryExact'
  BY Zenon, <1>18 DEF AccountLeft, registryVars, roomVars, participantVars,
     joinVars, closeVars
<1>19. ASSUME NEW c \in Creators, RoomExisted(c) PROVE RegistryExact'
  BY Zenon, <1>19 DEF RoomExisted, registryVars, roomVars, participantVars,
     endVars, closeVars, ledger
<1>20. ASSUME NEW c \in Creators, CreateRoom(c) PROVE RegistryExact'
  BY <1>20 DEF CreateRoom, GetOrCreateRoom, registryVars, roomVars,
     participantVars, endVars, closeVars
<1>21. ASSUME CheckRoomTimeouts PROVE RegistryExact'
  BY Zenon, <1>21 DEF CheckRoomTimeouts, registryVars, roomVars, participantVars,
     joinVars, endVars, ledger
<1>22. ASSUME NEW c \in Deleters, DeleteRoom(c) PROVE RegistryExact'
  BY Zenon, <1>22 DEF DeleteRoom, registryVars, roomVars, participantVars,
     joinVars, endVars
<1>23. ASSUME NEW c \in Closers, CloseRoom(c) PROVE RegistryExact'
  BY Zenon, <1>23 DEF CloseRoom, registryVars, roomVars, participantVars,
     joinVars, endVars, ledger
<1>24. ASSUME NEW c \in Closers, SwapClosed(c) PROVE RegistryExact'
  BY Zenon, <1>24 DEF SwapClosed, registryVars, participantVars, joinVars,
     endVars, ledger, Returned
<1>25. ASSUME NEW c \in Closers, SnapshotParticipants(c) PROVE RegistryExact'
  BY Zenon, <1>25 DEF SnapshotParticipants, registryVars, roomVars,
     participantVars, joinVars, endVars, ledger
<1>26. ASSUME NEW c \in Closers, DisconnectOne(c) PROVE RegistryExact'
  BY Zenon, <1>26 DEF DisconnectOne, registryVars, roomVars, joinVars, endVars
<1>27. ASSUME NEW c \in Closers, ClearParticipants(c) PROVE RegistryExact'
  BY Zenon, <1>27 DEF ClearParticipants, registryVars, participantVars, joinVars,
     endVars
<1>28. ASSUME NEW c \in Closers, Unregister(c) PROVE RegistryExact'
  BY <1>28 DEF Unregister, roomVars, participantVars, joinVars, endVars,
     ledger, Returned
<1>29. CASE UNCHANGED vars
  BY Zenon, <1>29 DEF vars, registryVars, roomVars, participantVars, joinVars,
     endVars, closeVars, ledger
<1> QED
  BY Zenon, <1>1, <1>2, <1>3, <1>4, <1>5, <1>6, <1>7, <1>8, <1>9, <1>10, <1>11,
     <1>12, <1>13, <1>14, <1>15, <1>16, <1>17, <1>18, <1>19, <1>20, <1>21,
     <1>22, <1>23, <1>24, <1>25, <1>26, <1>27, <1>28, <1>29
     DEF Next, Join, EndParticipant, Close

\* The lock of Room.join spans the lookup of the identity and the insertion.
LEMMA UniqueStep == TypeOK /\ UniqueIdentity /\ [Next]_vars => UniqueIdentity'
<1> SUFFICES ASSUME TypeOK, UniqueIdentity, [Next]_vars PROVE UniqueIdentity'
  OBVIOUS
<1>0. /\ participants \in [Rooms -> SUBSET Sids]
      /\ \A p \in Sids : joinPc[p] # "idle" => room[p] \in Rooms
      /\ \A e \in Enders :
            endPc[e] # "idle" => endTarget[e] \in Sids /\ room[endTarget[e]] \in Rooms
      /\ \A c \in Closers :
            closePc[c] \notin {"idle", "lookup", "done"} => closeRoom[c] \in Rooms
  BY Zenon DEF TypeOK
<1> USE RoomAssumption, <1>0 DEF UniqueIdentity
<1>1. ASSUME NEW p \in Sids, EnterRoom(p) PROVE UniqueIdentity'
  BY Zenon, <1>1 DEF EnterRoom, GetOrCreateRoom, registryVars, roomVars, endVars,
     closeVars, ledger
<1>2. ASSUME NEW p \in Sids, FindDuplicate(p) PROVE UniqueIdentity'
  BY Zenon, <1>2 DEF FindDuplicate, registryVars, roomVars, endVars, closeVars,
     ledger
<1>3. ASSUME NEW p \in Sids, ReadFirstJoin(p) PROVE UniqueIdentity'
  BY Zenon, <1>3 DEF ReadFirstJoin, registryVars, roomVars, participantVars,
     endVars, closeVars, ledger
<1>4. ASSUME NEW p \in Sids, CheckClosed(p) PROVE UniqueIdentity'
  BY Zenon, <1>4 DEF CheckClosed, registryVars, roomVars, participantVars,
     endVars, closeVars, ledger
<1>5. ASSUME NEW p \in Sids, CheckFull(p) PROVE UniqueIdentity'
  BY Zenon, <1>5 DEF CheckFull, registryVars, roomVars, participantVars, endVars,
     closeVars, ledger
<1>6. ASSUME NEW p \in Sids, InsertParticipant(p) PROVE UniqueIdentity'
  <2>1. CASE participants' = participants
    BY Zenon, <2>1
  <2>2. CASE /\ SameIdentity(room[p], p) = {}
             /\ participants' = [participants EXCEPT ![room[p]] = @ \cup {p}]
    <3>1. \A q \in participants[room[p]] : Identity[q] # Identity[p]
      BY Zenon, <2>2 DEF SameIdentity
    <3> QED
      BY Zenon, <2>2, <3>1
  <2> QED
    BY SMTT(30), <1>6, <2>1, <2>2 DEF InsertParticipant
<1>7. ASSUME NEW p \in Sids, MarkJoined(p) PROVE UniqueIdentity'
  BY Zenon, <1>7 DEF MarkJoined, registryVars, participantVars, endVars,
     closeVars, ledger
<1>8. ASSUME NEW p \in Sids, StartRoom(p) PROVE UniqueIdentity'
  BY Zenon, <1>8 DEF StartRoom, registryVars, roomVars, participantVars, endVars,
     closeVars
<1>9. ASSUME NEW p \in Sids, Announce(p) PROVE UniqueIdentity'
  BY Zenon, <1>9 DEF Announce, registryVars, roomVars, participantVars, endVars,
     closeVars
<1>10. ASSUME NEW e \in Removers, NEW p \in Sids, RemoveParticipant(e, p)
       PROVE  UniqueIdentity'
  BY Zenon, <1>10 DEF RemoveParticipant, registryVars, roomVars, participantVars,
     joinVars, closeVars, ledger
<1>11. ASSUME NEW e \in Removers, NEW p \in Sids, SessionEnds(e, p)
       PROVE  UniqueIdentity'
  BY Zenon, <1>11 DEF SessionEnds, registryVars, roomVars, participantVars,
     joinVars, closeVars, ledger
<1>12. ASSUME NEW e \in Enders, CheckRemoved(e) PROVE UniqueIdentity'
  BY Zenon, <1>12 DEF CheckRemoved, registryVars, roomVars, joinVars, closeVars,
     ledger
<1>13. ASSUME NEW e \in Enders, RemoveFromRoom(e) PROVE UniqueIdentity'
  BY Zenon, <1>13 DEF RemoveFromRoom, registryVars, participantVars, joinVars,
     closeVars, ledger
<1>14. ASSUME NEW e \in Enders, TestEmpty(e) PROVE UniqueIdentity'
  BY Zenon, <1>14 DEF TestEmpty, registryVars, roomVars, participantVars,
     joinVars, closeVars, ledger
<1>15. ASSUME NEW e \in Enders, StampEmpty(e) PROVE UniqueIdentity'
  BY Zenon, <1>15 DEF StampEmpty, registryVars, participantVars, joinVars,
     closeVars, ledger
<1>16. ASSUME NEW e \in Enders, OnParticipantLeft(e) PROVE UniqueIdentity'
  BY Zenon, <1>16 DEF OnParticipantLeft, registryVars, roomVars, participantVars,
     joinVars, closeVars, ledger
<1>17. ASSUME NEW e \in Enders, StampLeft(e) PROVE UniqueIdentity'
  BY Zenon, <1>17 DEF StampLeft, registryVars, participantVars, joinVars,
     closeVars, ledger
<1>18. ASSUME NEW e \in Enders, AccountLeft(e) PROVE UniqueIdentity'
  BY Zenon, <1>18 DEF AccountLeft, registryVars, roomVars, participantVars,
     joinVars, closeVars
<1>19. ASSUME NEW c \in Creators, RoomExisted(c) PROVE UniqueIdentity'
  BY Zenon, <1>19 DEF RoomExisted, registryVars, roomVars, participantVars,
     endVars, closeVars, ledger
<1>20. ASSUME NEW c \in Creators, CreateRoom(c) PROVE UniqueIdentity'
  BY Zenon, <1>20 DEF CreateRoom, GetOrCreateRoom, registryVars, roomVars,
     participantVars, endVars, closeVars
<1>21. ASSUME CheckRoomTimeouts PROVE UniqueIdentity'
  BY Zenon, <1>21 DEF CheckRoomTimeouts, registryVars, roomVars, participantVars,
     joinVars, endVars, ledger
<1>22. ASSUME NEW c \in Deleters, DeleteRoom(c) PROVE UniqueIdentity'
  BY Zenon, <1>22 DEF DeleteRoom, registryVars, roomVars, participantVars,
     joinVars, endVars
<1>23. ASSUME NEW c \in Closers, CloseRoom(c) PROVE UniqueIdentity'
  BY Zenon, <1>23 DEF CloseRoom, registryVars, roomVars, participantVars,
     joinVars, endVars, ledger
<1>24. ASSUME NEW c \in Closers, SwapClosed(c) PROVE UniqueIdentity'
  BY Zenon, <1>24 DEF SwapClosed, registryVars, participantVars, joinVars,
     endVars, ledger, Returned
<1>25. ASSUME NEW c \in Closers, SnapshotParticipants(c) PROVE UniqueIdentity'
  BY Zenon, <1>25 DEF SnapshotParticipants, registryVars, roomVars,
     participantVars, joinVars, endVars, ledger
<1>26. ASSUME NEW c \in Closers, DisconnectOne(c) PROVE UniqueIdentity'
  BY Zenon, <1>26 DEF DisconnectOne, registryVars, roomVars, joinVars, endVars
<1>27. ASSUME NEW c \in Closers, ClearParticipants(c) PROVE UniqueIdentity'
  BY Zenon, <1>27 DEF ClearParticipants, registryVars, participantVars, joinVars,
     endVars
<1>28. ASSUME NEW c \in Closers, Unregister(c) PROVE UniqueIdentity'
  BY Zenon, <1>28 DEF Unregister, roomVars, participantVars, joinVars, endVars,
     ledger, Returned
<1>29. CASE UNCHANGED vars
  BY Zenon, <1>29 DEF vars, registryVars, roomVars, participantVars, joinVars,
     endVars, closeVars, ledger
<1> QED
  BY Zenon, <1>1, <1>2, <1>3, <1>4, <1>5, <1>6, <1>7, <1>8, <1>9, <1>10, <1>11,
     <1>12, <1>13, <1>14, <1>15, <1>16, <1>17, <1>18, <1>19, <1>20, <1>21,
     <1>22, <1>23, <1>24, <1>25, <1>26, <1>27, <1>28, <1>29
     DEF Next, Join, EndParticipant, Close

\* The swap of the closed flag lets one call of Room.close through, and that
\* call stays on its way until the registry has forgotten the room.
LEMMA ClosingStep ==
    TypeOK /\ RegistryExact /\ ClosedIsClosing /\ [Next]_vars => ClosedIsClosing'
<1> SUFFICES ASSUME TypeOK, RegistryExact, ClosedIsClosing, [Next]_vars
             PROVE  ClosedIsClosing'
  OBVIOUS
<1>1. /\ registered \in Rooms \cup {NoRoom} /\ created \in SUBSET Rooms
      /\ closed \in [Rooms -> BOOLEAN]
      /\ closePc \in [Closers -> ClosePcs]
      /\ closeRoom \in [Closers -> Rooms \cup {NoRoom}]
      /\ \A c \in Closers :
            closePc[c] \notin {"idle", "lookup", "done"} => closeRoom[c] \in Rooms
      /\ NoRoom \notin Rooms
  BY Zenon, RoomAssumption DEF TypeOK
<1>2. ASSUME UNCHANGED <<registered, created, closed, closePc, closeRoom>>
      PROVE  ClosedIsClosing'
  BY Zenon, <1>2 DEF ClosedIsClosing, CloseRunsOnce, ClosedIsLeaving
<1>3. ASSUME NEW R \in Rooms, GetOrCreateRoom(R), UNCHANGED <<closed, closePc, closeRoom>>
      PROVE  ClosedIsClosing'
  <2>1. /\ created \subseteq created'
        /\ registered' = registered \/ registered' \in created' \ created
    BY Zenon, <1>3 DEF GetOrCreateRoom, registryVars
  <2>2. CloseRunsOnce'
    BY Zenon, <1>3 DEF ClosedIsClosing, CloseRunsOnce
  <2>3. ClosedIsLeaving'
    BY <1>3, <2>1 DEF ClosedIsClosing, ClosedIsLeaving
  <2> QED
    BY Zenon, <1>3, <2>1, <2>2, <2>3 DEF ClosedIsClosing
\* A call of close moves on without entering or leaving its body.
<1>4. ASSUME NEW c \in Closers,
             UNCHANGED <<registered, created, closed, closeRoom>>,
             \A d \in Closers \ {c} : closePc'[d] = closePc[d],
             closePc[c] \in InClose <=> closePc'[c] \in InClose,
             closePc'[c] \in InClose \cup {"idle", "lookup", "done"}
      PROVE  ClosedIsClosing'
  <2>1. \A d \in Closers : closePc'[d] \in InClose <=> closePc[d] \in InClose
    BY Zenon, <1>4
  <2>2. CloseRunsOnce'
    BY Zenon, <1>4, <2>1 DEF ClosedIsClosing, CloseRunsOnce, InClose
  <2>3. ClosedIsLeaving'
    BY Zenon, <1>4, <2>1 DEF ClosedIsClosing, ClosedIsLeaving, InClose
  <2>4. \A d \in Closers : closePc'[d] \notin {"idle", "lookup", "done"} =>
          closePc[d] \notin {"idle", "lookup", "done"}
    BY Zenon, <1>4 DEF InClose
  <2> QED
    BY Zenon, <1>4, <2>1, <2>2, <2>3, <2>4 DEF ClosedIsClosing
\* A call of close is about to swap the closed flag of the registered room.
<1>5. ASSUME NEW c \in Closers, closePc[c] \notin InClose,
             closePc' = [closePc EXCEPT ![c] =
                            IF registered = NoRoom THEN "done" ELSE "swap"],
             closeRoom' = [closeRoom EXCEPT ![c] = registered],
             UNCHANGED <<registered, created, closed>>
      PROVE  ClosedIsClosing'
  <2>1. \A d \in Closers : closePc'[d] \in InClose =>
          d # c /\ closePc'[d] = closePc[d] /\ closeRoom'[d] = closeRoom[d]
    BY Zenon, <1>1, <1>5 DEF InClose
  <2>2. \A d \in Closers : closePc[d] \in InClose =>
          d # c /\ closePc'[d] = closePc[d] /\ closeRoom'[d] = closeRoom[d]
    BY Zenon, <1>1, <1>5 DEF InClose
  <2>3. \A d \in Closers : closePc'[d] \notin {"idle", "lookup", "done"} =>
          closeRoom'[d] \in created
    BY Zenon, <1>1, <1>5 DEF ClosedIsClosing
  <2>4. CloseRunsOnce'
    BY Zenon, <2>1 DEF ClosedIsClosing, CloseRunsOnce, InClose
  <2>5. ClosedIsLeaving'
    BY <1>5, <2>2 DEF ClosedIsClosing, ClosedIsLeaving, InClose
  <2> QED
    BY Zenon, <1>5, <2>1, <2>3, <2>4, <2>5 DEF ClosedIsClosing
<1>6. ASSUME NEW p \in Sids, EnterRoom(p) PROVE ClosedIsClosing'
  BY Zenon, <1>6, <1>3 DEF EnterRoom, roomVars, closeVars
<1>7. ASSUME NEW p \in Sids, FindDuplicate(p) PROVE ClosedIsClosing'
  BY Zenon, <1>7, <1>2 DEF FindDuplicate, registryVars, roomVars, closeVars
<1>8. ASSUME NEW p \in Sids, ReadFirstJoin(p) PROVE ClosedIsClosing'
  BY SMTT(30), <1>8, <1>2 DEF ReadFirstJoin, registryVars, roomVars, closeVars
<1>9. ASSUME NEW p \in Sids, CheckClosed(p) PROVE ClosedIsClosing'
  BY Zenon, <1>9, <1>2 DEF CheckClosed, registryVars, roomVars, closeVars
<1>10. ASSUME NEW p \in Sids, CheckFull(p) PROVE ClosedIsClosing'
  BY Zenon, <1>10, <1>2 DEF CheckFull, registryVars, roomVars, closeVars
<1>11. ASSUME NEW p \in Sids, InsertParticipant(p) PROVE ClosedIsClosing'
  BY Zenon, <1>11, <1>2 DEF InsertParticipant, registryVars, roomVars, closeVars
<1>12. ASSUME NEW p \in Sids, MarkJoined(p) PROVE ClosedIsClosing'
  BY Zenon, <1>12, <1>2 DEF MarkJoined, registryVars, roomVars, closeVars
<1>13. ASSUME NEW p \in Sids, StartRoom(p) PROVE ClosedIsClosing'
  BY Zenon, <1>13, <1>2 DEF StartRoom, registryVars, roomVars, closeVars
<1>14. ASSUME NEW p \in Sids, Announce(p) PROVE ClosedIsClosing'
  BY Zenon, <1>14, <1>2 DEF Announce, registryVars, roomVars, closeVars
<1>15. ASSUME NEW e \in Removers, NEW p \in Sids, RemoveParticipant(e, p)
       PROVE  ClosedIsClosing'
  BY Zenon, <1>15, <1>2 DEF RemoveParticipant, registryVars, roomVars, closeVars
<1>16. ASSUME NEW e \in Removers, NEW p \in Sids, SessionEnds(e, p)
       PROVE  ClosedIsClosing'
  BY Zenon, <1>16, <1>2 DEF SessionEnds, registryVars, roomVars, closeVars
<1>17. ASSUME NEW e \in Enders, CheckRemoved(e) PROVE ClosedIsClosing'
  BY Zenon, <1>17, <1>2 DEF CheckRemoved, registryVars, roomVars, closeVars
<1>18. ASSUME NEW e \in Enders, RemoveFromRoom(e) PROVE ClosedIsClosing'
  BY Zenon, <1>18, <1>2 DEF RemoveFromRoom, registryVars, roomVars, closeVars
<1>19. ASSUME NEW e \in Enders, TestEmpty(e) PROVE ClosedIsClosing'
  BY Zenon, <1>19, <1>2 DEF TestEmpty, registryVars, roomVars, closeVars
<1>20. ASSUME NEW e \in Enders, StampEmpty(e) PROVE ClosedIsClosing'
  BY Zenon, <1>20, <1>2 DEF StampEmpty, registryVars, roomVars, closeVars
<1>21. ASSUME NEW e \in Enders, OnParticipantLeft(e) PROVE ClosedIsClosing'
  BY Zenon, <1>21, <1>2 DEF OnParticipantLeft, registryVars, roomVars, closeVars
<1>22. ASSUME NEW e \in Enders, StampLeft(e) PROVE ClosedIsClosing'
  BY Zenon, <1>22, <1>2 DEF StampLeft, registryVars, roomVars, closeVars
<1>23. ASSUME NEW e \in Enders, AccountLeft(e) PROVE ClosedIsClosing'
  BY Zenon, <1>23, <1>2 DEF AccountLeft, registryVars, roomVars, closeVars
<1>24. ASSUME NEW c \in Creators, RoomExisted(c) PROVE ClosedIsClosing'
  BY Zenon, <1>24, <1>2 DEF RoomExisted, registryVars, roomVars, closeVars
<1>25. ASSUME NEW c \in Closers, DisconnectOne(c) PROVE ClosedIsClosing'
  BY Zenon, <1>25, <1>2 DEF DisconnectOne, registryVars, roomVars, closeVars
<1>26. ASSUME NEW c \in Creators, CreateRoom(c) PROVE ClosedIsClosing'
  BY Zenon, <1>26, <1>3 DEF CreateRoom, roomVars, closeVars
<1>27. ASSUME CheckRoomTimeouts PROVE ClosedIsClosing'
  BY Zenon, <1>27, <1>1, <1>5 DEF CheckRoomTimeouts, registryVars, roomVars, Closers, InClose
<1>28. ASSUME NEW c \in Deleters, DeleteRoom(c) PROVE ClosedIsClosing'
  BY Zenon, <1>28, <1>1, <1>4 DEF DeleteRoom, registryVars, roomVars, Closers, InClose
<1>29. ASSUME NEW c \in Closers, CloseRoom(c) PROVE ClosedIsClosing'
  BY Zenon, <1>29, <1>5 DEF CloseRoom, registryVars, roomVars, InClose
<1>30. ASSUME NEW c \in Closers, SwapClosed(c) PROVE ClosedIsClosing'
  <2>1. /\ closePc[c] = "swap" /\ closeRoom[c] \in created
        /\ closed' = [closed EXCEPT ![closeRoom[c]] = TRUE]
        /\ \A d \in Closers \ {c} : closePc'[d] = closePc[d]
        /\ UNCHANGED <<registered, created, closeRoom>>
    BY Zenon, <1>1, <1>30 DEF SwapClosed, registryVars, ClosedIsClosing
  <2>2. CASE closed[closeRoom[c]]
    <3>1. closed' = closed
      BY Zenon, <1>1, <2>1, <2>2
    <3>2. closePc'[c] \in {"idle", "done"}
      BY Zenon, <1>1, <1>30, <2>2 DEF SwapClosed, Returned
    <3> QED
      BY Zenon, <1>4, <2>1, <3>1, <3>2 DEF InClose
  <2>3. CASE ~closed[closeRoom[c]]
    <3>1. closePc'[c] = "snapshot"
      BY Zenon, <1>1, <1>30, <2>3 DEF SwapClosed
    <3>2. /\ closed'[closeRoom[c]]
          /\ \A R \in Rooms \ {closeRoom[c]} : closed'[R] = closed[R]
      BY Zenon, <1>1, <2>1
    <3>3. \A d \in Closers \ {c} : closePc[d] \in InClose => closeRoom[d] # closeRoom[c]
      BY Zenon, <2>3 DEF ClosedIsClosing
    <3>4. CloseRunsOnce'
      BY SMTT(30), <2>1, <3>3 DEF ClosedIsClosing, CloseRunsOnce, InClose
    <3>5. ClosedIsLeaving'
      <4> SUFFICES ASSUME NEW R \in Rooms, closed'[R], registered = R
                   PROVE  \E d \in Closers : closeRoom[d] = R /\ closePc'[d] \in InClose
        BY Zenon, <2>1 DEF ClosedIsLeaving, InClose
      <4>1. CASE R = closeRoom[c]
        BY Zenon, <3>1, <4>1 DEF InClose
      <4>2. CASE R # closeRoom[c]
        <5>1. PICK d \in Closers : closeRoom[d] = R /\ closePc[d] \in InClose
          BY Zenon, <3>2, <4>2 DEF ClosedIsClosing, ClosedIsLeaving, InClose
        <5> QED
          BY Zenon, <2>1, <4>2, <5>1
      <4> QED
        BY Zenon, <4>1, <4>2
    <3>6. \A R \in Rooms : closed'[R] => R \in created
      BY Zenon, <2>1, <3>2 DEF ClosedIsClosing
    <3>7. \A d \in Closers : closePc'[d] \in InClose => closed'[closeRoom[d]]
      BY Zenon, <1>1, <2>1, <3>2 DEF ClosedIsClosing, InClose
    <3>8. \A d \in Closers : closePc'[d] \notin {"idle", "lookup", "done"} =>
            closeRoom[d] \in created
      BY Zenon, <2>1 DEF ClosedIsClosing
    <3> QED
      BY SMTT(30), <2>1, <3>4, <3>5, <3>6, <3>7, <3>8 DEF ClosedIsClosing
  <2> QED
    BY Zenon, <2>2, <2>3
<1>31. ASSUME NEW c \in Closers, SnapshotParticipants(c) PROVE ClosedIsClosing'
  BY Zenon, <1>31, <1>1, <1>4 DEF SnapshotParticipants, registryVars, roomVars, InClose
<1>32. ASSUME NEW c \in Closers, ClearParticipants(c) PROVE ClosedIsClosing'
  BY Zenon, <1>32, <1>1, <1>4 DEF ClearParticipants, registryVars, InClose
<1>33. ASSUME NEW c \in Closers, Unregister(c) PROVE ClosedIsClosing'
  <2>1. /\ closePc[c] = "unregister" /\ closePc'[c] \in {"idle", "done"}
        /\ \A d \in Closers \ {c} : closePc'[d] = closePc[d]
        /\ UNCHANGED <<created, closed, closeRoom>>
    BY Zenon, <1>1, <1>33 DEF Unregister, Returned, roomVars
  <2>2. \/ registered' = NoRoom
        \/ registered' = registered /\ registered # closeRoom[c]
    BY Zenon, <1>33, <1>1 DEF Unregister, RegistryExact, ClosedIsClosing
  <2>3. \A d \in Closers : closePc'[d] \notin {"idle", "lookup", "done"} =>
          closePc'[d] = closePc[d]
    BY Zenon, <2>1
  <2>4. CloseRunsOnce'
    BY Zenon, <2>1, <2>3 DEF ClosedIsClosing, CloseRunsOnce
  <2>5. ClosedIsLeaving'
    <3> SUFFICES ASSUME NEW R \in Rooms, closed[R], registered = R, R # closeRoom[c]
                 PROVE  \E d \in Closers : closeRoom[d] = R /\ closePc'[d] \in InClose
      BY <1>1, <2>1, <2>2 DEF ClosedIsLeaving, InClose
    <3>1. PICK d \in Closers : closeRoom[d] = R /\ closePc[d] \in InClose
      BY Zenon DEF ClosedIsClosing, ClosedIsLeaving, InClose
    <3> QED
      BY Zenon, <2>1, <3>1
  <2>6. \A d \in Closers :
          /\ closePc'[d] \in InClose => closed[closeRoom[d]]
          /\ closePc'[d] \notin {"idle", "lookup", "done"} => closeRoom[d] \in created
    BY Zenon, <2>3 DEF ClosedIsClosing, InClose
  <2> QED
    BY Zenon, <2>1, <2>2, <2>4, <2>5, <2>6 DEF ClosedIsClosing
<1>34. CASE UNCHANGED vars
  BY Zenon, <1>34, <1>2 DEF vars, registryVars, roomVars, closeVars
<1> QED
  BY Zenon, <1>6, <1>7, <1>8, <1>9, <1>10, <1>11, <1>12, <1>13, <1>14, <1>15,
     <1>16, <1>17, <1>18, <1>19, <1>20, <1>21, <1>22, <1>23, <1>24,
     <1>25, <1>26, <1>27, <1>28, <1>29, <1>30, <1>31, <1>32, <1>33,
     <1>34
     DEF Next, Join, EndParticipant, Close

\* Whatever the interleaving of joins, removals and timeouts, Room.join leaves no
\* identity twice in a room: the old participant is ended before the new one is
\* inserted.
THEOREM IdentitiesUnique == Spec => []UniqueIdentity
<1>1. Init => UniqueIdentity
  BY Zenon, RoomAssumption DEF Init, UniqueIdentity, RoomAssumption
<1> QED
  BY <1>1, TypeCorrect, UniqueStep, PTL DEF Spec

\* The registry of the room manager and room_total follow the Room objects,
\* although on_close removes an entry by name and a room of that name may have
\* been created anew.
THEOREM RegistryAlwaysExact == Spec => []RegistryExact
<1>1. Init => RegistryExact
  BY RoomAssumption DEF Init, RegistryExact, RoomAssumption
<1> QED
  BY <1>1, TypeCorrect, RegistryStep, PTL DEF Spec

\* Room.close runs its body once per room, and a closed room that is still
\* registered is on its way out of the registry.
THEOREM ClosesOnce == Spec => []CloseCompletes
<1>1. Init => ClosedIsClosing
  BY Zenon, RoomAssumption DEF Init, ClosedIsClosing, CloseRunsOnce, ClosedIsLeaving,
   RoomAssumption, InClose
<1>2. ClosedIsClosing => CloseCompletes
  BY Zenon DEF ClosedIsClosing, CloseCompletes
<1> QED
  BY <1>1, <1>2, TypeCorrect, RegistryAlwaysExact, ClosingStep, PTL DEF Spec

-----------------------------------------------------------------------------

\* LeaveIsReported from the insertion on, before the join is announced.
GoneIsReported ==
    /\ \A p \in announced : joinPc[p] \in Inserted
    /\ \A p \in Sids : joinPc[p] \in Inserted =>
          p \in participants[room[p]] \/ closed[room[p]] \/ left[p] > 0
            \/ \E e \in Enders :
                  /\ endTarget[e] = p
                  /\ endPc[e] \in {"empty", "stamp", "left", "stampLeft", "account"}

-----------------------------------------------------------------------------

\* A participant is marked disconnected by a call of end_participant that has
\* yet to remove it, or by Room.close.
LEMMA LeavingStep ==
    TypeOK /\ InsertedFirst /\ ClosedIsClosing /\ DisconnectedIsLeaving /\ [Next]_vars =>
        DisconnectedIsLeaving'
<1> SUFFICES ASSUME TypeOK, InsertedFirst, ClosedIsClosing, DisconnectedIsLeaving, [Next]_vars
             PROVE  DisconnectedIsLeaving'
  OBVIOUS
<1>0. /\ DOMAIN participants = Rooms /\ participants \in [Rooms -> SUBSET Sids]
      /\ closed \in [Rooms -> BOOLEAN]
      /\ room \in [Sids -> Rooms \cup {NoRoom}]
      /\ DOMAIN joinPc = Sids /\ DOMAIN endPc = Enders /\ DOMAIN endTarget = Enders
      /\ left \in [Sids -> Nat]
      /\ announced \in SUBSET Sids /\ disconnected \in SUBSET Sids
      /\ \A p \in Sids : joinPc[p] # "idle" => room[p] \in Rooms
      /\ \A e \in Enders :
            endPc[e] # "idle" => endTarget[e] \in Sids /\ room[endTarget[e]] \in Rooms
      /\ \A c \in Closers :
            closePc[c] \notin {"idle", "lookup", "done"} => closeRoom[c] \in Rooms
  BY Zenon DEF TypeOK
<1> USE RoomAssumption, <1>0 DEF InsertedFirst, Inserted, DisconnectedIsLeaving, Enders,
      Closers
<1>1. ASSUME NEW p \in Sids, EnterRoom(p) PROVE DisconnectedIsLeaving'
  BY <1>1 DEF EnterRoom, GetOrCreateRoom, registryVars, roomVars, endVars,
     closeVars, ledger
<1>2. ASSUME NEW p \in Sids, FindDuplicate(p) PROVE DisconnectedIsLeaving'
  <2>1. endPc[p] = "idle"
    BY Zenon, <1>2 DEF FindDuplicate
  <2>2. CASE UNCHANGED <<disconnected, endVars>>
    BY <1>2, <2>2 DEF FindDuplicate, roomVars, endVars
  <2>3. CASE ~UNCHANGED <<disconnected, endVars>>
    <3>1. PICK q \in Sids :
            /\ disconnected' = disconnected \cup {q}
            /\ endPc' = [endPc EXCEPT ![p] = "check"]
            /\ endTarget' = [endTarget EXCEPT ![p] = q]
      <4>1. PICK q \in SameIdentity(room[p], p) :
              /\ disconnected' = disconnected \cup {q}
              /\ endPc' = [endPc EXCEPT ![p] = "check"]
              /\ endTarget' = [endTarget EXCEPT ![p] = q]
        BY Zenon, <1>2, <2>3 DEF FindDuplicate
      <4>2. q \in Sids
        BY <1>2 DEF FindDuplicate, SameIdentity
      <4> QED
        BY Zenon, <4>1, <4>2
    <3>2. UNCHANGED <<participants, closed>>
      BY Zenon, <1>2 DEF FindDuplicate, roomVars
    <3>3. \A f \in Enders :
            endTarget[f] \in Sids /\ endPc[f] \in {"check", "remove"} =>
              endTarget'[f] = endTarget[f] /\ endPc'[f] = endPc[f]
      BY Zenon, <2>1, <3>1
    <3>4. endTarget'[p] = q /\ endPc'[p] = "check"
      BY Zenon, <3>1
    <3> QED
      BY <3>1, <3>2, <3>3, <3>4
  <2> QED
    BY Zenon, <2>2, <2>3
<1>3. ASSUME NEW p \in Sids, ReadFirstJoin(p) PROVE DisconnectedIsLeaving'
  BY <1>3 DEF ReadFirstJoin, registryVars, roomVars, participantVars,
     endVars, closeVars, ledger
<1>4. ASSUME NEW p \in Sids, CheckClosed(p) PROVE DisconnectedIsLeaving'
  BY <1>4 DEF CheckClosed, registryVars, roomVars, participantVars,
     endVars, closeVars, ledger
<1>5. ASSUME NEW p \in Sids, CheckFull(p) PROVE DisconnectedIsLeaving'
  BY <1>5 DEF CheckFull, registryVars, roomVars, participantVars, endVars,
     closeVars, ledger
<1>6. ASSUME NEW p \in Sids, InsertParticipant(p) PROVE DisconnectedIsLeaving'
  BY SMTT(60), <1>6 DEF InsertParticipant, registryVars, participantVars, endVars,
     closeVars, ledger
<1>7. ASSUME NEW p \in Sids, MarkJoined(p) PROVE DisconnectedIsLeaving'
  BY <1>7 DEF MarkJoined, registryVars, participantVars, endVars,
     closeVars, ledger
<1>8. ASSUME NEW p \in Sids, StartRoom(p) PROVE DisconnectedIsLeaving'
  BY <1>8 DEF StartRoom, registryVars, roomVars, participantVars, endVars,
     closeVars
<1>9. ASSUME NEW p \in Sids, Announce(p) PROVE DisconnectedIsLeaving'
  BY <1>9 DEF Announce, registryVars, roomVars, participantVars, endVars,
     closeVars
<1>10. ASSUME NEW e \in Removers, NEW p \in Sids, RemoveParticipant(e, p)
       PROVE  DisconnectedIsLeaving'
  BY <1>10 DEF RemoveParticipant, registryVars, roomVars, participantVars,
     joinVars, closeVars, ledger
<1>11. ASSUME NEW e \in Removers, NEW p \in Sids, SessionEnds(e, p)
       PROVE  DisconnectedIsLeaving'
  BY <1>11 DEF SessionEnds, registryVars, roomVars, participantVars,
     joinVars, closeVars, ledger
<1>12. ASSUME NEW e \in Enders, CheckRemoved(e) PROVE DisconnectedIsLeaving'
  BY <1>12 DEF CheckRemoved, registryVars, roomVars, joinVars, closeVars,
     ledger
<1>13. ASSUME NEW e \in Enders, RemoveFromRoom(e) PROVE DisconnectedIsLeaving'
  BY <1>13 DEF RemoveFromRoom, registryVars, participantVars, joinVars,
     closeVars, ledger
<1>14. ASSUME NEW e \in Enders, TestEmpty(e) PROVE DisconnectedIsLeaving'
  BY <1>14 DEF TestEmpty, registryVars, roomVars, participantVars,
     joinVars, closeVars, ledger
<1>15. ASSUME NEW e \in Enders, StampEmpty(e) PROVE DisconnectedIsLeaving'
  BY SMTT(60), <1>15 DEF StampEmpty, registryVars, participantVars, joinVars,
     closeVars, ledger
<1>16. ASSUME NEW e \in Enders, OnParticipantLeft(e)
       PROVE  DisconnectedIsLeaving'
  BY <1>16 DEF OnParticipantLeft, registryVars, roomVars, participantVars,
     joinVars, closeVars, ledger
<1>17. ASSUME NEW e \in Enders, StampLeft(e) PROVE DisconnectedIsLeaving'
  BY <1>17 DEF StampLeft, registryVars, participantVars, joinVars,
     closeVars, ledger
<1>18. ASSUME NEW e \in Enders, AccountLeft(e) PROVE DisconnectedIsLeaving'
  BY <1>18 DEF AccountLeft, registryVars, roomVars, participantVars,
     joinVars, closeVars
<1>19. ASSUME NEW c \in Creators, RoomExisted(c) PROVE DisconnectedIsLeaving'
  BY <1>19 DEF RoomExisted, registryVars, roomVars, participantVars,
     endVars, closeVars, ledger
<1>20. ASSUME NEW c \in Creators, CreateRoom(c) PROVE DisconnectedIsLeaving'
  BY <1>20 DEF CreateRoom, GetOrCreateRoom, registryVars, roomVars,
     participantVars, endVars, closeVars
<1>21. ASSUME CheckRoomTimeouts PROVE DisconnectedIsLeaving'
  BY <1>21 DEF CheckRoomTimeouts, registryVars, roomVars, participantVars,
     joinVars, endVars, ledger
<1>22. ASSUME NEW c \in Deleters, DeleteRoom(c) PROVE DisconnectedIsLeaving'
  BY <1>22 DEF DeleteRoom, registryVars, roomVars, participantVars,
     joinVars, endVars
<1>23. ASSUME NEW c \in Closers, CloseRoom(c) PROVE DisconnectedIsLeaving'
  BY <1>23 DEF CloseRoom, registryVars, roomVars, participantVars,
     joinVars, endVars, ledger
<1>24. ASSUME NEW c \in Closers, SwapClosed(c) PROVE DisconnectedIsLeaving'
  BY <1>24 DEF SwapClosed, registryVars, participantVars, joinVars,
     endVars, ledger, Returned
<1>25. ASSUME NEW c \in Closers, SnapshotParticipants(c)
       PROVE  DisconnectedIsLeaving'
  BY <1>25 DEF SnapshotParticipants, registryVars, roomVars,
     participantVars, joinVars, endVars, ledger
<1>26. ASSUME NEW c \in Closers, DisconnectOne(c) PROVE DisconnectedIsLeaving'
  <2>1. closed[closeRoom[c]] /\ closeTodo[c] \subseteq Sids
    BY Zenon, <1>26 DEF DisconnectOne, ClosedIsClosing, InClose, TypeOK
  <2>2. PICK p \in closeTodo[c] : disconnected' = disconnected \cup {p}
    BY Zenon, <1>26 DEF DisconnectOne
  <2>3. \A R \in Rooms : p \in participants[R] => R = closeRoom[c]
    BY <1>26, <2>1, <2>2 DEF DisconnectOne
  <2>4. UNCHANGED <<participants, closed, endPc, endTarget>>
    BY Zenon, <1>26 DEF DisconnectOne, roomVars, endVars
  <2> QED
    BY <2>1, <2>2, <2>3, <2>4
<1>27. ASSUME NEW c \in Closers, ClearParticipants(c)
       PROVE  DisconnectedIsLeaving'
  BY <1>27 DEF ClearParticipants, registryVars, participantVars, joinVars,
     endVars
<1>28. ASSUME NEW c \in Closers, Unregister(c) PROVE DisconnectedIsLeaving'
  BY <1>28 DEF Unregister, roomVars, participantVars, joinVars, endVars,
     ledger, Returned
<1>29. CASE UNCHANGED vars
  BY <1>29 DEF vars, registryVars, roomVars, participantVars, joinVars,
     endVars, closeVars, ledger
<1> HIDE DEF TypeOK, InsertedFirst, DisconnectedIsLeaving
<1> QED
  BY Zenon, <1>1, <1>2, <1>3, <1>4, <1>5, <1>6, <1>7, <1>8, <1>9, <1>10, <1>11,
     <1>12, <1>13, <1>14, <1>15, <1>16, <1>17, <1>18, <1>19, <1>20, <1>21,
     <1>22, <1>23, <1>24, <1>25, <1>26, <1>27, <1>28, <1>29
     DEF Next, Join, EndParticipant, Close

\* Whoever takes a participant out of an open room's map goes on to report it.
LEMMA GoneStep ==
    TypeOK /\ InsertedFirst /\ ClosedIsClosing /\ GoneIsReported /\ [Next]_vars
        => GoneIsReported'
<1> SUFFICES ASSUME TypeOK, InsertedFirst, ClosedIsClosing, GoneIsReported, [Next]_vars
             PROVE  GoneIsReported'
  OBVIOUS
<1>0. /\ DOMAIN participants = Rooms /\ participants \in [Rooms -> SUBSET Sids]
      /\ closed \in [Rooms -> BOOLEAN]
      /\ room \in [Sids -> Rooms \cup {NoRoom}]
      /\ DOMAIN joinPc = Sids /\ DOMAIN endPc = Enders /\ DOMAIN endTarget = Enders
      /\ left \in [Sids -> Nat]
      /\ announced \in SUBSET Sids /\ disconnected \in SUBSET Sids
      /\ \A p \in Sids : joinPc[p] # "idle" => room[p] \in Rooms
      /\ \A e \in Enders :
            endPc[e] # "idle" => endTarget[e] \in Sids /\ room[endTarget[e]] \in Rooms
      /\ \A c \in Closers :
            closePc[c] \notin {"idle", "lookup", "done"} => closeRoom[c] \in Rooms
  BY Zenon DEF TypeOK
<1> USE RoomAssumption, <1>0 DEF InsertedFirst, Inserted, GoneIsReported, Enders,
      Closers
<1>1. ASSUME NEW p \in Sids, EnterRoom(p) PROVE GoneIsReported'
  BY <1>1 DEF EnterRoom, GetOrCreateRoom, registryVars, roomVars, endVars,
     closeVars, ledger
<1>2. ASSUME NEW p \in Sids, FindDuplicate(p) PROVE GoneIsReported'
  <2>1. endPc[p] = "idle"
    BY Zenon, <1>2 DEF FindDuplicate
  <2>2. \A f \in Enders :
          endPc[f] \in {"empty", "stamp", "left", "stampLeft", "account"} =>
            endTarget'[f] = endTarget[f] /\ endPc'[f] = endPc[f]
    BY <1>2, <2>1 DEF FindDuplicate, endVars
  <2>3. /\ \A q \in Sids : joinPc'[q] \in Inserted => joinPc'[q] = joinPc[q]
        /\ joinPc[p] \notin Inserted
        /\ \A q \in Sids \ {p} : joinPc'[q] = joinPc[q]
        /\ UNCHANGED <<participants, closed, room, left, announced>>
    BY <1>2 DEF FindDuplicate, roomVars, ledger
  <2> QED
    <3>1. ASSUME NEW q \in Sids, joinPc'[q] \in Inserted
          PROVE  /\ joinPc[q] \in Inserted
                 /\ \A f \in Enders :
                       endPc[f] \in {"empty", "stamp", "left", "stampLeft", "account"} =>
                         endTarget'[f] = endTarget[f] /\ endPc'[f] = endPc[f]
      BY Zenon, <2>2, <2>3, <3>1
    <3>2. ASSUME NEW q \in announced' PROVE joinPc'[q] \in Inserted
      BY Zenon, <2>3, <3>2
    <3> QED
      BY <2>3, <3>1, <3>2
<1>3. ASSUME NEW p \in Sids, ReadFirstJoin(p) PROVE GoneIsReported'
  BY <1>3 DEF ReadFirstJoin, registryVars, roomVars, participantVars,
     endVars, closeVars, ledger
<1>4. ASSUME NEW p \in Sids, CheckClosed(p) PROVE GoneIsReported'
  BY <1>4 DEF CheckClosed, registryVars, roomVars, participantVars,
     endVars, closeVars, ledger
<1>5. ASSUME NEW p \in Sids, CheckFull(p) PROVE GoneIsReported'
  BY <1>5 DEF CheckFull, registryVars, roomVars, participantVars, endVars,
     closeVars, ledger
<1>6. ASSUME NEW p \in Sids, InsertParticipant(p) PROVE GoneIsReported'
  <2>1. /\ \A q \in Sids \ {p} : joinPc'[q] = joinPc[q]
        /\ joinPc[p] \notin Inserted
        /\ UNCHANGED <<closed, room, left, announced, endPc, endTarget>>
    BY <1>6 DEF InsertParticipant, participantVars, ledger, endVars
  <2>2. \A q \in Sids : room[q] \in Rooms /\ q \in participants[room[q]] =>
          q \in participants'[room[q]]
    BY <1>6 DEF InsertParticipant
  <2>3. joinPc'[p] \in Inserted => p \in participants'[room[p]]
    BY <1>6 DEF InsertParticipant
  <2> QED
    <3>1. \A q \in announced' : joinPc'[q] \in Inserted
      BY Zenon, <2>1
    <3>2. ASSUME NEW q \in Sids \ {p}, joinPc'[q] \in Inserted
          PROVE  \/ q \in participants'[room'[q]] \/ closed'[room'[q]] \/ left'[q] > 0
                 \/ \E e \in Enders :
                       /\ endTarget'[e] = q
                       /\ endPc'[e] \in {"empty", "stamp", "left", "stampLeft", "account"}
      <4>1. joinPc[q] \in Inserted /\ room[q] \in Rooms
        BY <2>1, <3>2
      <4> QED
        BY <2>1, <2>2, <4>1
    <3> QED
      BY <2>1, <2>3, <3>1, <3>2
<1>7. ASSUME NEW p \in Sids, MarkJoined(p) PROVE GoneIsReported'
  BY <1>7 DEF MarkJoined, registryVars, participantVars, endVars,
     closeVars, ledger
<1>8. ASSUME NEW p \in Sids, StartRoom(p) PROVE GoneIsReported'
  BY <1>8 DEF StartRoom, registryVars, roomVars, participantVars, endVars,
     closeVars
<1>9. ASSUME NEW p \in Sids, Announce(p) PROVE GoneIsReported'
  BY <1>9 DEF Announce, registryVars, roomVars, participantVars, endVars,
     closeVars
<1>10. ASSUME NEW e \in Removers, NEW p \in Sids, RemoveParticipant(e, p)
       PROVE  GoneIsReported'
  BY SMTT(60), <1>10 DEF RemoveParticipant, registryVars, roomVars, participantVars,
     joinVars, closeVars, ledger
<1>11. ASSUME NEW e \in Removers, NEW p \in Sids, SessionEnds(e, p)
       PROVE  GoneIsReported'
  <2>1. \A f \in Enders :
          endPc[f] \in {"empty", "stamp", "left", "stampLeft", "account"} =>
            endTarget'[f] = endTarget[f] /\ endPc'[f] = endPc[f]
    BY Zenon, <1>11 DEF SessionEnds
  <2> QED
    BY <1>11, <2>1
       DEF SessionEnds, roomVars, participantVars, joinVars, ledger
<1>12. ASSUME NEW e \in Enders, CheckRemoved(e) PROVE GoneIsReported'
  BY SMTT(60), <1>12 DEF CheckRemoved, registryVars, roomVars, joinVars, closeVars,
     ledger
<1>13. ASSUME NEW e \in Enders, RemoveFromRoom(e) PROVE GoneIsReported'
  BY <1>13 DEF RemoveFromRoom, registryVars, participantVars, joinVars,
     closeVars, ledger
<1>14. ASSUME NEW e \in Enders, TestEmpty(e) PROVE GoneIsReported'
  BY <1>14 DEF TestEmpty, registryVars, roomVars, participantVars,
     joinVars, closeVars, ledger
<1>15. ASSUME NEW e \in Enders, StampEmpty(e) PROVE GoneIsReported'
  BY <1>15 DEF StampEmpty, registryVars, participantVars, joinVars,
     closeVars, ledger
<1>16. ASSUME NEW e \in Enders, OnParticipantLeft(e) PROVE GoneIsReported'
  BY <1>16 DEF OnParticipantLeft, registryVars, roomVars, participantVars,
     joinVars, closeVars, ledger
<1>17. ASSUME NEW e \in Enders, StampLeft(e) PROVE GoneIsReported'
  BY <1>17 DEF StampLeft, registryVars, participantVars, joinVars,
     closeVars, ledger
<1>18. ASSUME NEW e \in Enders, AccountLeft(e) PROVE GoneIsReported'
  BY SMTT(60), <1>18 DEF AccountLeft, registryVars, roomVars, participantVars,
     joinVars, closeVars
<1>19. ASSUME NEW c \in Creators, RoomExisted(c) PROVE GoneIsReported'
  BY <1>19 DEF RoomExisted, registryVars, roomVars, participantVars,
     endVars, closeVars, ledger
<1>20. ASSUME NEW c \in Creators, CreateRoom(c) PROVE GoneIsReported'
  BY <1>20 DEF CreateRoom, GetOrCreateRoom, registryVars, roomVars,
     participantVars, endVars, closeVars
<1>21. ASSUME CheckRoomTimeouts PROVE GoneIsReported'
  BY <1>21 DEF CheckRoomTimeouts, registryVars, roomVars, participantVars,
     joinVars, endVars, ledger
<1>22. ASSUME NEW c \in Deleters, DeleteRoom(c) PROVE GoneIsReported'
  BY <1>22 DEF DeleteRoom, registryVars, roomVars, participantVars,
     joinVars, endVars
<1>23. ASSUME NEW c \in Closers, CloseRoom(c) PROVE GoneIsReported'
  BY <1>23 DEF CloseRoom, registryVars, roomVars, participantVars,
     joinVars, endVars, ledger
<1>24. ASSUME NEW c \in Closers, SwapClosed(c) PROVE GoneIsReported'
  BY <1>24 DEF SwapClosed, registryVars, participantVars, joinVars,
     endVars, ledger, Returned
<1>25. ASSUME NEW c \in Closers, SnapshotParticipants(c) PROVE GoneIsReported'
  BY <1>25 DEF SnapshotParticipants, registryVars, roomVars,
     participantVars, joinVars, endVars, ledger
<1>26. ASSUME NEW c \in Closers, DisconnectOne(c) PROVE GoneIsReported'
  BY <1>26 DEF DisconnectOne, registryVars, roomVars, joinVars, endVars
<1>27. ASSUME NEW c \in Closers, ClearParticipants(c) PROVE GoneIsReported'
  <2>1. closed[closeRoom[c]]
    BY Zenon, <1>27 DEF ClearParticipants, ClosedIsClosing, InClose
  <2>2. \A R \in Rooms : participants'[R] = participants[R] \/ closed[R]
    BY <1>27, <2>1 DEF ClearParticipants
  <2>3. UNCHANGED <<closed, room, left, announced, joinPc, endPc, endTarget>>
    BY Zenon, <1>27 DEF ClearParticipants, participantVars, joinVars, endVars
  <2> QED
    BY <2>2, <2>3
<1>28. ASSUME NEW c \in Closers, Unregister(c) PROVE GoneIsReported'
  BY <1>28 DEF Unregister, roomVars, participantVars, joinVars, endVars,
     ledger, Returned
<1>29. CASE UNCHANGED vars
  BY <1>29 DEF vars, registryVars, roomVars, participantVars, joinVars,
     endVars, closeVars, ledger
<1> HIDE DEF TypeOK, InsertedFirst, GoneIsReported
<1> QED
  BY Zenon, <1>1, <1>2, <1>3, <1>4, <1>5, <1>6, <1>7, <1>8, <1>9, <1>10, <1>11,
     <1>12, <1>13, <1>14, <1>15, <1>16, <1>17, <1>18, <1>19, <1>20, <1>21,
     <1>22, <1>23, <1>24, <1>25, <1>26, <1>27, <1>28, <1>29
     DEF Next, Join, EndParticipant, Close

\* In a room that stays open, a participant that is marked disconnected is
\* being removed, and one that is gone from the map has its leave reported or
\* about to be.
THEOREM LeavesComplete == Spec => []LeaveCompletes
<1>1. Init => ClosedIsClosing /\ DisconnectedIsLeaving /\ GoneIsReported
  BY Zenon, RoomAssumption DEF Init, ClosedIsClosing, CloseRunsOnce, ClosedIsLeaving,
   DisconnectedIsLeaving, GoneIsReported, RoomAssumption, InClose, Inserted
<1>2. TypeOK /\ DisconnectedIsLeaving /\ GoneIsReported => LeaveCompletes
  BY Zenon DEF GoneIsReported, LeaveIsReported, LeaveCompletes, TypeOK
<1> QED
  BY <1>1, <1>2, TypeCorrect, RegistryAlwaysExact, ClosingStep, LeavingStep,
   GoneStep, PTL DEF Spec

=============================================================================
