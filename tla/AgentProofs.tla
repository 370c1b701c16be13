--------------------------- MODULE AgentProofs ---------------------------
(***************************************************************************)
(* Proofs about AgentDispatch, for any number of rooms, dispatches, joins   *)
(* and workers.                                                             *)
(***************************************************************************)
EXTENDS AgentDispatch, FiniteSetTheorems, TLAPS

\* Why no dispatch is missed: a dispatch in the registry is stored, and a Room
\* object has no list of dispatches before it is created.
StoredFirst ==
    /\ \A d \in dispatches : dispatchPc[d] # "idle"
    /\ \A R \in Rooms : roomPc[R] = "none" => pendingPc[R] = "idle"
    /\ NoDispatchMissed

\* The join that added the agent to the room, or launched it.
Adder(t, R) ==
    \/ joinPc[t] = "new" /\ joinRoom[t] = R
    \/ jobPc[<<t, R, "token">>] # "none"

\* Why a token's agent is launched once: the one join that added it launches.
OneAdder ==
    /\ \A t \in Joins, R \in Rooms :
          jobPc[<<t, R, "token">>] # "none" => joinPc[t] = "joined"
    /\ \A t \in Joins, R \in Rooms : Adder(t, R) => agents[R]
    /\ \A t, u \in Joins, R \in Rooms : Adder(t, R) /\ Adder(u, R) => t = u

-----------------------------------------------------------------------------

\* Every step keeps the types, and a job past the pick keeps its worker.
LEMMA TypeStep == TypeOK /\ [Next]_vars => TypeOK'
<1> SUFFICES ASSUME TypeOK, [Next]_vars PROVE TypeOK'
  OBVIOUS
<1> USE DEF TypeOK, RoomPcs, JobPcs
<1>1. ASSUME NEW R \in Rooms, CreateRoom(R) PROVE TypeOK'
  BY <1>1 DEF CreateRoom, joinVars, dispatchVars, jobVars, workerVars
<1>2. ASSUME NEW R \in Rooms, LaunchRoomDispatches(R) PROVE TypeOK'
  BY <1>2 DEF LaunchRoomDispatches, joinVars, dispatchVars, workerVars
<1>3. ASSUME NEW R \in Rooms, CloseRoom(R) PROVE TypeOK'
  BY <1>3 DEF CloseRoom, joinVars, dispatchVars, jobVars, workerVars
<1>4. ASSUME NEW R \in Rooms, TerminateRoomJobs(R) PROVE TypeOK'
  BY <1>4 DEF TerminateRoomJobs, joinVars, dispatchVars, jobVars, workerVars
<1>5. ASSUME NEW R \in Rooms, OnRoomClosed(R) PROVE TypeOK'
  BY <1>5 DEF OnRoomClosed, joinVars, dispatchVars, jobVars, workerVars
<1>6. ASSUME NEW t \in Joins, AddAgentDispatch(t) PROVE TypeOK'
  BY <1>6 DEF AddAgentDispatch, dispatchVars, jobVars, workerVars
<1>7. ASSUME NEW t \in Joins, JoinRefused(t) PROVE TypeOK'
  BY <1>7 DEF JoinRefused, roomVars, dispatchVars, jobVars, workerVars
<1>8. ASSUME NEW t \in Joins, Joined(t) PROVE TypeOK'
  BY Zenon, <1>8 DEF Joined, roomVars, dispatchVars, workerVars
<1>9. ASSUME NEW d \in Dispatches, CreateDispatch(d) PROVE TypeOK'
  BY <1>9 DEF CreateDispatch, roomVars, joinVars, jobVars, workerVars
<1>10. ASSUME NEW d \in Dispatches, LaunchIfRoom(d) PROVE TypeOK'
  BY Zenon, <1>10 DEF LaunchIfRoom, roomVars, joinVars, workerVars
<1>11. ASSUME NEW d \in Dispatches, DeleteDispatch(d) PROVE TypeOK'
  BY <1>11 DEF DeleteDispatch, roomVars, joinVars, jobVars, workerVars
<1>12. ASSUME NEW j \in Jobs, PickWorker(j) PROVE TypeOK'
  BY <1>12 DEF PickWorker, roomVars, joinVars, dispatchVars, workerVars
<1>13. ASSUME NEW j \in Jobs, TestAvailability(j) PROVE TypeOK'
  BY <1>13 DEF TestAvailability, roomVars, joinVars, dispatchVars, workerVars
<1>14. ASSUME NEW j \in Jobs, RequestAvailability(j) PROVE TypeOK'
  BY <1>14 DEF RequestAvailability, roomVars, joinVars, dispatchVars
<1>15. ASSUME NEW j \in Jobs, DispatchTimeout(j) PROVE TypeOK'
  BY <1>15 DEF DispatchTimeout, roomVars, joinVars, dispatchVars, workerVars
<1>16. ASSUME NEW j \in Jobs, Assign(j) PROVE TypeOK'
  BY <1>16 DEF Assign, roomVars, joinVars, dispatchVars, workerVars
<1>17. ASSUME NEW j \in Jobs, TrackJob(j) PROVE TypeOK'
  BY <1>17 DEF TrackJob, roomVars, joinVars, workerVars
<1>18. ASSUME NEW w \in Workers, Register(w) PROVE TypeOK'
  BY <1>18 DEF Register, roomVars, joinVars, dispatchVars, jobVars
<1>19. ASSUME NEW w \in Workers, UpdateWorker(w) PROVE TypeOK'
  BY <1>19 DEF UpdateWorker, roomVars, joinVars, dispatchVars, jobVars
<1>20. ASSUME NEW w \in Workers, Unregister(w) PROVE TypeOK'
  BY <1>20 DEF Unregister, roomVars, joinVars, dispatchVars, jobVars
<1>21. ASSUME NEW w \in Workers, NEW j \in Jobs, FulfillAvailability(w, j)
       PROVE  TypeOK'
  BY <1>21 DEF FulfillAvailability, roomVars, joinVars, dispatchVars
<1>22. CASE UNCHANGED vars
  BY <1>22 DEF vars, roomVars, joinVars, dispatchVars, jobVars, workerVars
<1> QED
  BY Zenon, <1>1, <1>2, <1>3, <1>4, <1>5, <1>6, <1>7, <1>8, <1>9, <1>10, <1>11,
     <1>12, <1>13, <1>14, <1>15, <1>16, <1>17, <1>18, <1>19, <1>20, <1>21,
     <1>22
     DEF Next, LaunchRoomJob

\* Every step of every task keeps the state in its types.
THEOREM TypeCorrect == Spec => []TypeOK
<1>1. Init => TypeOK
  BY DEF Init, TypeOK, RoomPcs, JobPcs
<1> QED
  BY <1>1, TypeStep, PTL DEF Spec

\* CreateDispatch stores before it looks for the room, and the room is
\* registered before it lists the dispatches: one of the two sees the other.
LEMMA StoredStep == TypeOK /\ StoredFirst /\ [Next]_vars => StoredFirst'
<1> SUFFICES ASSUME TypeOK, StoredFirst, [Next]_vars PROVE StoredFirst'
  OBVIOUS
<1> USE DEF TypeOK, StoredFirst,
      NoDispatchMissed, Launched
<1>1. ASSUME NEW R \in Rooms, CreateRoom(R) PROVE StoredFirst'
  BY <1>1 DEF CreateRoom, joinVars, dispatchVars, jobVars, workerVars
<1>2. ASSUME NEW R \in Rooms, LaunchRoomDispatches(R) PROVE StoredFirst'
  <2>1. \A e \in Dispatches, S \in Rooms, how \in {"create", "pending"} :
          <<e, S, how>> \in Jobs
    BY DEF Jobs, DispatchJobs
  <2>2. \A k \in Jobs : jobPc[k] # "none" => jobPc'[k] # "none"
    BY <1>2 DEF LaunchRoomDispatches
  <2>3. \A e \in dispatches : jobPc'[<<e, R, "pending">>] # "none"
    BY Zenon, <1>2, <2>1 DEF LaunchRoomDispatches
  <2>4. /\ UNCHANGED <<registered, roomPc, dispatches, dispatchPc>>
        /\ pendingPc' = [pendingPc EXCEPT ![R] = "done"]
        /\ pendingPc[R] = "list"
    BY <1>2 DEF LaunchRoomDispatches, dispatchVars
  <2> QED
    BY <2>1, <2>2, <2>3, <2>4
<1>3. ASSUME NEW R \in Rooms, CloseRoom(R) PROVE StoredFirst'
  BY <1>3 DEF CloseRoom, joinVars, dispatchVars, jobVars, workerVars
<1>4. ASSUME NEW R \in Rooms, TerminateRoomJobs(R) PROVE StoredFirst'
  BY <1>4 DEF TerminateRoomJobs, joinVars, dispatchVars, jobVars, workerVars
<1>5. ASSUME NEW R \in Rooms, OnRoomClosed(R) PROVE StoredFirst'
  BY <1>5, AgentAssumption
     DEF OnRoomClosed, dispatchVars, jobVars, AgentAssumption
<1>6. ASSUME NEW t \in Joins, AddAgentDispatch(t) PROVE StoredFirst'
  BY <1>6 DEF AddAgentDispatch, dispatchVars, jobVars, workerVars
<1>7. ASSUME NEW t \in Joins, JoinRefused(t) PROVE StoredFirst'
  BY <1>7 DEF JoinRefused, roomVars, dispatchVars, jobVars, workerVars
<1>8. ASSUME NEW t \in Joins, Joined(t) PROVE StoredFirst'
  BY <1>8 DEF Joined, roomVars, dispatchVars, workerVars
<1>9. ASSUME NEW d \in Dispatches, CreateDispatch(d) PROVE StoredFirst'
  BY <1>9 DEF CreateDispatch, roomVars, joinVars, jobVars, workerVars
<1>10. ASSUME NEW d \in Dispatches, LaunchIfRoom(d) PROVE StoredFirst'
  <2>1. \A e \in Dispatches, S \in Rooms, how \in {"create", "pending"} :
          <<e, S, how>> \in Jobs
    BY DEF Jobs, DispatchJobs
  <2>2. \A k \in Jobs : jobPc[k] # "none" => jobPc'[k] # "none"
    BY <1>10 DEF LaunchIfRoom
  <2>3. registered \in Rooms => jobPc'[<<d, registered, "create">>] # "none"
    BY Zenon, <1>10, <2>1, AgentAssumption DEF LaunchIfRoom, AgentAssumption
  <2>4. /\ UNCHANGED <<registered, roomPc, pendingPc, dispatches>>
        /\ dispatchPc' = [dispatchPc EXCEPT ![d] = "done"]
    BY <1>10 DEF LaunchIfRoom, roomVars
  <2> QED
    BY <2>1, <2>2, <2>3, <2>4
<1>11. ASSUME NEW d \in Dispatches, DeleteDispatch(d) PROVE StoredFirst'
  BY <1>11 DEF DeleteDispatch, roomVars, joinVars, jobVars, workerVars
<1>12. ASSUME NEW j \in Jobs, PickWorker(j) PROVE StoredFirst'
  <2>1. \A e \in Dispatches, S \in Rooms, how \in {"create", "pending"} :
          <<e, S, how>> \in Jobs
    BY DEF Jobs, DispatchJobs
  <2>2. \A k \in Jobs : jobPc'[k] = "none" <=> jobPc[k] = "none"
    BY <1>12 DEF PickWorker
  <2> QED
    BY <1>12, <2>1, <2>2 DEF PickWorker, roomVars, joinVars, dispatchVars
<1>13. ASSUME NEW j \in Jobs, TestAvailability(j) PROVE StoredFirst'
  BY <1>13 DEF TestAvailability, roomVars, joinVars, dispatchVars, workerVars
<1>14. ASSUME NEW j \in Jobs, RequestAvailability(j) PROVE StoredFirst'
  <2>1. \A e \in Dispatches, S \in Rooms, how \in {"create", "pending"} :
          <<e, S, how>> \in Jobs
    BY DEF Jobs, DispatchJobs
  <2>2. \A k \in Jobs : jobPc'[k] = "none" <=> jobPc[k] = "none"
    BY <1>14 DEF RequestAvailability
  <2> QED
    BY <1>14, <2>1, <2>2 DEF RequestAvailability, roomVars, joinVars,
       dispatchVars
<1>15. ASSUME NEW j \in Jobs, DispatchTimeout(j) PROVE StoredFirst'
  BY <1>15 DEF DispatchTimeout, roomVars, joinVars, dispatchVars, workerVars
<1>16. ASSUME NEW j \in Jobs, Assign(j) PROVE StoredFirst'
  BY <1>16 DEF Assign, roomVars, joinVars, dispatchVars, workerVars
<1>17. ASSUME NEW j \in Jobs, TrackJob(j) PROVE StoredFirst'
  BY <1>17 DEF TrackJob, roomVars, joinVars, workerVars
<1>18. ASSUME NEW w \in Workers, Register(w) PROVE StoredFirst'
  BY <1>18 DEF Register, roomVars, joinVars, dispatchVars, jobVars
<1>19. ASSUME NEW w \in Workers, UpdateWorker(w) PROVE StoredFirst'
  BY <1>19 DEF UpdateWorker, roomVars, joinVars, dispatchVars, jobVars
<1>20. ASSUME NEW w \in Workers, Unregister(w) PROVE StoredFirst'
  BY <1>20 DEF Unregister, roomVars, joinVars, dispatchVars, jobVars
<1>21. ASSUME NEW w \in Workers, NEW j \in Jobs, FulfillAvailability(w, j)
       PROVE  StoredFirst'
  <2>1. \A e \in Dispatches, S \in Rooms, how \in {"create", "pending"} :
          <<e, S, how>> \in Jobs
    BY DEF Jobs, DispatchJobs
  <2>2. \A k \in Jobs : jobPc'[k] = "none" <=> jobPc[k] = "none"
    BY <1>21 DEF FulfillAvailability
  <2> QED
    BY <1>21, <2>1, <2>2 DEF FulfillAvailability, roomVars, joinVars,
       dispatchVars
<1>22. CASE UNCHANGED vars
  BY <1>22 DEF vars, roomVars, joinVars, dispatchVars, jobVars, workerVars
<1> QED
  BY Zenon, <1>1, <1>2, <1>3, <1>4, <1>5, <1>6, <1>7, <1>8, <1>9, <1>10, <1>11,
     <1>12, <1>13, <1>14, <1>15, <1>16, <1>17, <1>18, <1>19, <1>20, <1>21,
     <1>22
     DEF Next, LaunchRoomJob

\* A step that leaves joins and Room.agents alone, and launches no job for a
\* token, keeps OneAdder.
LEMMA AdderFrame ==
  ASSUME OneAdder,
         UNCHANGED <<agents, joinPc, joinRoom>>,
         \A u \in Joins, S \in Rooms :
            jobPc'[<<u, S, "token">>] = "none" <=> jobPc[<<u, S, "token">>] = "none"
  PROVE  OneAdder'
<1>1. agents' = agents /\ joinPc' = joinPc /\ joinRoom' = joinRoom
  OBVIOUS
<1>2. \A u \in Joins, S \in Rooms : Adder(u, S)' <=> Adder(u, S)
  BY <1>1 DEF Adder
<1>3. (\A t \in Joins, R \in Rooms :
          jobPc[<<t, R, "token">>] # "none" => joinPc[t] = "joined")'
  BY <1>1 DEF OneAdder
<1>4. (\A t \in Joins, R \in Rooms : Adder(t, R) => agents[R])'
  BY <1>1, <1>2 DEF OneAdder
<1>5. (\A t, u \in Joins, R \in Rooms : Adder(t, R) /\ Adder(u, R) => t = u)'
  BY <1>2 DEF OneAdder
<1> QED
  BY <1>3, <1>4, <1>5 DEF OneAdder

\* The lock of Room.agents lets one join add the agent.
LEMMA AdderStep == TypeOK /\ OneAdder /\ [Next]_vars => OneAdder'
<1> SUFFICES ASSUME TypeOK, OneAdder, [Next]_vars PROVE OneAdder'
  OBVIOUS
<1>a. \A u \in Joins, S \in Rooms : <<u, S, "token">> \in Jobs
  BY DEF Jobs, TokenJobs
<1>1. ASSUME NEW R \in Rooms, CreateRoom(R) PROVE OneAdder'
  BY <1>1, AdderFrame DEF CreateRoom, joinVars, dispatchVars, jobVars, workerVars
<1>2. ASSUME NEW R \in Rooms, LaunchRoomDispatches(R) PROVE OneAdder'
  <2>1. UNCHANGED <<agents, joinPc, joinRoom>>
    BY <1>2 DEF LaunchRoomDispatches, roomVars, joinVars
  <2>2. \A k \in Jobs : k[3] = "token" => (jobPc'[k] = "none" <=> jobPc[k] = "none")
    BY <1>2 DEF TypeOK, LaunchRoomDispatches
  <2> QED
    BY <1>a, <2>1, <2>2, AdderFrame
<1>3. ASSUME NEW R \in Rooms, CloseRoom(R) PROVE OneAdder'
  BY <1>3, AdderFrame DEF CloseRoom, joinVars, dispatchVars, jobVars, workerVars
<1>4. ASSUME NEW R \in Rooms, TerminateRoomJobs(R) PROVE OneAdder'
  BY <1>4, AdderFrame DEF TerminateRoomJobs, joinVars, dispatchVars, jobVars, workerVars
<1>5. ASSUME NEW R \in Rooms, OnRoomClosed(R) PROVE OneAdder'
  BY <1>5, AdderFrame DEF OnRoomClosed, joinVars, dispatchVars, jobVars, workerVars
<1>6. ASSUME NEW t \in Joins, AddAgentDispatch(t) PROVE OneAdder'
  BY <1>6 DEF TypeOK, OneAdder, Adder, AddAgentDispatch, dispatchVars, jobVars, workerVars
<1>7. ASSUME NEW t \in Joins, JoinRefused(t) PROVE OneAdder'
  BY <1>7 DEF TypeOK, OneAdder, Adder, JoinRefused, roomVars, dispatchVars, jobVars, workerVars
<1>8. ASSUME NEW t \in Joins, Joined(t) PROVE OneAdder'
  BY <1>8 DEF TypeOK, OneAdder, Adder, Joined, roomVars, dispatchVars, workerVars
<1>9. ASSUME NEW d \in Dispatches, CreateDispatch(d) PROVE OneAdder'
  BY SMTT(30), <1>9, AdderFrame DEF CreateDispatch, roomVars, joinVars, jobVars, workerVars
<1>10. ASSUME NEW d \in Dispatches, LaunchIfRoom(d) PROVE OneAdder'
  <2>1. UNCHANGED <<agents, joinPc, joinRoom>>
    BY <1>10 DEF LaunchIfRoom, roomVars, joinVars
  <2>2. \A k \in Jobs : k[3] = "token" => (jobPc'[k] = "none" <=> jobPc[k] = "none")
    BY <1>10 DEF TypeOK, LaunchIfRoom
  <2> QED
    BY <1>a, <2>1, <2>2, AdderFrame
<1>11. ASSUME NEW d \in Dispatches, DeleteDispatch(d) PROVE OneAdder'
  BY <1>11, AdderFrame DEF DeleteDispatch, roomVars, joinVars, jobVars, workerVars
<1>12. ASSUME NEW j \in Jobs, PickWorker(j) PROVE OneAdder'
  <2>1. UNCHANGED <<agents, joinPc, joinRoom>>
    BY <1>12 DEF PickWorker, roomVars, joinVars
  <2>2. \A k \in Jobs : k[3] = "token" => (jobPc'[k] = "none" <=> jobPc[k] = "none")
    BY <1>12 DEF TypeOK, PickWorker
  <2> QED
    BY <1>a, <2>1, <2>2, AdderFrame
<1>13. ASSUME NEW j \in Jobs, TestAvailability(j) PROVE OneAdder'
  <2>1. UNCHANGED <<agents, joinPc, joinRoom>>
    BY <1>13 DEF TestAvailability, roomVars, joinVars
  <2>2. \A k \in Jobs : k[3] = "token" => (jobPc'[k] = "none" <=> jobPc[k] = "none")
    BY <1>13 DEF TypeOK, TestAvailability
  <2> QED
    BY <1>a, <2>1, <2>2, AdderFrame
<1>14. ASSUME NEW j \in Jobs, RequestAvailability(j) PROVE OneAdder'
  <2>1. UNCHANGED <<agents, joinPc, joinRoom>>
    BY <1>14 DEF RequestAvailability, roomVars, joinVars
  <2>2. \A k \in Jobs : k[3] = "token" => (jobPc'[k] = "none" <=> jobPc[k] = "none")
    BY <1>14 DEF TypeOK, RequestAvailability
  <2> QED
    BY <1>a, <2>1, <2>2, AdderFrame
<1>15. ASSUME NEW j \in Jobs, DispatchTimeout(j) PROVE OneAdder'
  <2>1. UNCHANGED <<agents, joinPc, joinRoom>>
    BY <1>15 DEF DispatchTimeout, roomVars, joinVars
  <2>2. \A k \in Jobs : k[3] = "token" => (jobPc'[k] = "none" <=> jobPc[k] = "none")
    BY <1>15 DEF TypeOK, DispatchTimeout
  <2> QED
    BY <1>a, <2>1, <2>2, AdderFrame
<1>16. ASSUME NEW j \in Jobs, Assign(j) PROVE OneAdder'
  <2>1. UNCHANGED <<agents, joinPc, joinRoom>>
    BY <1>16 DEF Assign, roomVars, joinVars
  <2>2. \A k \in Jobs : k[3] = "token" => (jobPc'[k] = "none" <=> jobPc[k] = "none")
    BY <1>16 DEF TypeOK, Assign
  <2> QED
    BY <1>a, <2>1, <2>2, AdderFrame
<1>17. ASSUME NEW j \in Jobs, TrackJob(j) PROVE OneAdder'
  <2>1. UNCHANGED <<agents, joinPc, joinRoom>>
    BY <1>17 DEF TrackJob, roomVars, joinVars
  <2>2. \A k \in Jobs : k[3] = "token" => (jobPc'[k] = "none" <=> jobPc[k] = "none")
    BY <1>17 DEF TypeOK, TrackJob
  <2> QED
    BY <1>a, <2>1, <2>2, AdderFrame
<1>18. ASSUME NEW w \in Workers, Register(w) PROVE OneAdder'
  BY <1>18, AdderFrame DEF Register, roomVars, joinVars, dispatchVars, jobVars
<1>19. ASSUME NEW w \in Workers, UpdateWorker(w) PROVE OneAdder'
  BY <1>19, AdderFrame DEF UpdateWorker, roomVars, joinVars, dispatchVars, jobVars
<1>20. ASSUME NEW w \in Workers, Unregister(w) PROVE OneAdder'
  BY <1>20, AdderFrame DEF Unregister, roomVars, joinVars, dispatchVars, jobVars
<1>21. ASSUME NEW w \in Workers, NEW j \in Jobs, FulfillAvailability(w, j)
       PROVE  OneAdder'
  <2>1. UNCHANGED <<agents, joinPc, joinRoom>>
    BY <1>21 DEF FulfillAvailability, roomVars, joinVars
  <2>2. \A k \in Jobs : k[3] = "token" => (jobPc'[k] = "none" <=> jobPc[k] = "none")
    BY <1>21 DEF TypeOK, FulfillAvailability
  <2> QED
    BY <1>a, <2>1, <2>2, AdderFrame
<1>22. CASE UNCHANGED vars
  BY SMTT(30), <1>22, AdderFrame DEF vars, roomVars, joinVars, dispatchVars, jobVars, workerVars
<1> QED
  BY <1>1, <1>2, <1>3, <1>4, <1>5, <1>6, <1>7, <1>8, <1>9, <1>10, <1>11,
     <1>12, <1>13, <1>14, <1>15, <1>16, <1>17, <1>18, <1>19, <1>20, <1>21,
     <1>22
     DEF Next, LaunchRoomJob

\* A dispatch that is stored is launched for the registered room, for every
\* interleaving of CreateDispatch with the creation of the room.
THEOREM DispatchesLaunched == Spec => []NoDispatchMissed
<1>1. Init => StoredFirst
  BY DEF Init, StoredFirst, NoDispatchMissed
<1>2. StoredFirst => NoDispatchMissed
  BY DEF StoredFirst
<1> QED
  BY <1>1, <1>2, TypeCorrect, StoredStep, PTL DEF Spec

\* Of any number of joins whose tokens name the agent one launches it.
THEOREM TokenAgentsOnce == Spec => []TokenAgentOnce
<1>1. Init => OneAdder
  BY DEF Init, OneAdder, Adder, Jobs, TokenJobs
<1>2. OneAdder => TokenAgentOnce
  BY DEF OneAdder, TokenAgentOnce, Adder
<1> QED
  BY <1>1, <1>2, TypeCorrect, AdderStep, PTL DEF Spec

-----------------------------------------------------------------------------
(* One job per yes *)

\* A job is launched once: not before its launcher has come to it.
LaunchedOnce ==
    /\ \A R \in Rooms : roomPc[R] = "none" => pendingPc[R] = "idle"
    /\ \A R \in Rooms, d \in Dispatches :
          pendingPc[R] # "done" => jobPc[<<d, R, "pending">>] = "none"
    /\ \A R \in Rooms, d \in Dispatches :
          dispatchPc[d] # "done" => jobPc[<<d, R, "create">>] = "none"
    /\ \A R \in Rooms, t \in Joins :
          joinPc[t] # "joined" => jobPc[<<t, R, "token">>] = "none"

\* A job whose worker has not been asked yet.
Unasked == {"none", "pick", "test", "request"}

\* What a request and a responder know of their job: the worker is the one that
\* was picked for it, and it has not answered the request.
RequestsKnow ==
    /\ \A j \in Jobs :
          jobPc[j] \in Unasked =>
              /\ said[j] = "nothing"
              /\ \A w \in Workers : <<w, j>> \notin inquiries /\ availability[w] # j
    /\ \A w \in Workers, j \in Jobs :
          <<w, j>> \in inquiries => jobWorker[j] = w /\ said[j] = "nothing"
    /\ \A w \in Workers, j \in Jobs : availability[w] = j => jobWorker[j] = w

\* The jobs a worker got, and those it said yes to.
Got(w) == {j \in Jobs : /\ jobWorker[j] = w
                        /\ jobPc[j] \in {"accepted", "assigned", "tracked"}}
SaidYes(w) == {j \in Jobs : jobWorker[j] = w /\ said[j] = "yes"}

\* OneJobPerYes, of sets that are finite whatever the constants.
Paired ==
    \A w \in Workers :
        /\ IsFiniteSet(Got(w))
        /\ IsFiniteSet(SaidYes(w))
        /\ Cardinality(Got(w)) <= Cardinality(SaidYes(w))

YesInv == LaunchedOnce /\ RequestsKnow /\ Paired

\* The triples that name jobs.
LEMMA JobNames ==
    /\ \A d \in Dispatches, R \in Rooms : <<d, R, "pending">> \in Jobs
    /\ \A d \in Dispatches, R \in Rooms : <<d, R, "create">> \in Jobs
    /\ \A t \in Joins, R \in Rooms : <<t, R, "token">> \in Jobs
  BY DEF Jobs, DispatchJobs, TokenJobs

\* A step that launches nothing and moves no launcher keeps LaunchedOnce.
LEMMA LaunchFrame ==
    ASSUME LaunchedOnce,
           UNCHANGED <<roomPc, pendingPc, dispatchPc, joinPc>>,
           \A k \in Jobs : jobPc[k] = "none" => jobPc'[k] = "none"
    PROVE  LaunchedOnce'
  BY JobNames DEF LaunchedOnce

\* No job is gained and no yes is lost or added.
LEMMA PairedFrame ==
    ASSUME Paired,
           \A w \in Workers : Got(w)' \in SUBSET Got(w) /\ SaidYes(w)' = SaidYes(w)
    PROVE  Paired'
  <1> SUFFICES ASSUME NEW w \in Workers
               PROVE  /\ IsFiniteSet(Got(w)')
                      /\ IsFiniteSet(SaidYes(w)')
                      /\ Cardinality(Got(w)') <= Cardinality(SaidYes(w)')
    BY DEF Paired
  <1>1. /\ IsFiniteSet(Got(w)) /\ IsFiniteSet(SaidYes(w))
        /\ Cardinality(Got(w)) <= Cardinality(SaidYes(w))
    BY DEF Paired
  <1>2. IsFiniteSet(Got(w)') /\ Cardinality(Got(w)') <= Cardinality(Got(w))
    BY <1>1, FS_Subset
  <1>3. /\ Cardinality(Got(w)) \in Nat /\ Cardinality(Got(w)') \in Nat
        /\ Cardinality(SaidYes(w)) \in Nat
    BY <1>1, <1>2, FS_CardinalityType
  <1>4. SaidYes(w)' = SaidYes(w)
    OBVIOUS
  <1>5. QED
    BY <1>1, <1>2, <1>3, <1>4

\* A step of a task that asks nobody and is told nothing.
LEMMA RequestFrame ==
    ASSUME RequestsKnow, Paired,
           UNCHANGED <<inquiries, said, availability>>,
           \A k \in Jobs : jobPc'[k] \in Unasked => jobPc[k] \in Unasked,
           \A k \in Jobs : jobPc'[k] \in {"accepted", "assigned", "tracked"} =>
                              jobPc[k] \in {"accepted", "assigned", "tracked"},
           \A k \in Jobs : \/ jobWorker'[k] = jobWorker[k]
                           \/ jobPc[k] \in Unasked /\ jobPc'[k] \in Unasked
    PROVE  RequestsKnow' /\ Paired'
  <1>1. RequestsKnow'
    BY Zenon DEF RequestsKnow
  <1>2. \A w \in Workers : Got(w)' \in SUBSET Got(w)
    BY DEF Got, Unasked
  <1>3. \A w \in Workers : SaidYes(w)' = SaidYes(w)
    BY DEF SaidYes, RequestsKnow
  <1>4. QED
    BY <1>1, <1>2, <1>3, PairedFrame

\* The responder goes into the slot and the request out to the worker.
LEMMA RequestKeeps ==
    ASSUME TypeOK, RequestsKnow, Paired, NEW j \in Jobs, RequestAvailability(j)
    PROVE  RequestsKnow' /\ Paired'
  <1> DEFINE w == jobWorker[j]
  <1>1. /\ DOMAIN jobPc = Jobs /\ DOMAIN availability = Workers
        /\ w \in Workers /\ jobPc[j] = "request"
    BY DEF TypeOK, RequestAvailability
  <1>2. /\ availability' = [availability EXCEPT ![w] = j]
        /\ inquiries' \in {inquiries, inquiries \cup {<<w, j>>}}
        /\ UNCHANGED <<jobWorker, said>>
    BY SMTT(30) DEF RequestAvailability
  <1>3. /\ jobPc'[j] = "waiting"
        /\ \A k \in Jobs : k # j => jobPc'[k] \in {jobPc[k], "failed"}
    BY DEF RequestAvailability
  <1>4. said[j] = "nothing"
    BY <1>1 DEF RequestsKnow, Unasked
  <1> HIDE DEF w
  <1>5. \A k \in Jobs : jobPc'[k] \in Unasked => k # j /\ jobPc[k] \in Unasked
    BY <1>3 DEF Unasked
  <1>6. \A k \in Jobs, v \in Workers :
          /\ <<v, k>> \in inquiries' => <<v, k>> \in inquiries \/ (v = w /\ k = j)
          /\ availability'[v] = k => availability[v] = k \/ (v = w /\ k = j)
    BY <1>1, <1>2
  <1>7. RequestsKnow'
    <2>1. (\A k \in Jobs :
              jobPc[k] \in Unasked =>
                  /\ said[k] = "nothing"
                  /\ \A v \in Workers : <<v, k>> \notin inquiries /\ availability[v] # k)'
      BY <1>2, <1>5, <1>6 DEF RequestsKnow
    <2>2. (\A v \in Workers, k \in Jobs :
              <<v, k>> \in inquiries => jobWorker[k] = v /\ said[k] = "nothing")'
      BY <1>2, <1>4, <1>6 DEF RequestsKnow, w
    <2>3. (\A v \in Workers, k \in Jobs : availability[v] = k => jobWorker[k] = v)'
      BY <1>2, <1>6 DEF RequestsKnow, w
    <2>4. QED
      BY <2>1, <2>2, <2>3 DEF RequestsKnow
  <1>8. \A v \in Workers : Got(v)' \in SUBSET Got(v)
    BY <1>2, <1>3 DEF Got
  <1>9. \A v \in Workers : SaidYes(v)' = SaidYes(v)
    BY <1>2 DEF SaidYes
  <1>10. QED
    BY <1>7, <1>8, <1>9, PairedFrame

\* An answer is one yes at most, for one job at most, of the same worker.
LEMMA FulfillKeeps ==
    ASSUME TypeOK, RequestsKnow, Paired,
           NEW w \in Workers, NEW j \in Jobs, FulfillAvailability(w, j)
    PROVE  RequestsKnow' /\ Paired'
  <1> DEFINE k == availability[w]
  <1>1. /\ DOMAIN jobPc = Jobs /\ DOMAIN availability = Workers /\ DOMAIN said = Jobs
        /\ \A i \in Jobs : said[i] \in {"nothing", "yes", "no"}
    BY DEF TypeOK
  <1>2. PICK answer \in {"yes", "no"} :
            /\ said' = [said EXCEPT ![j] = answer]
            /\ jobPc' = [i \in Jobs |->
                            IF i = k /\ jobPc[i] = "waiting"
                              THEN IF answer = "yes" THEN "accepted" ELSE "failed"
                              ELSE jobPc[i]]
    BY Zenon DEF FulfillAvailability
  <1>3. /\ <<w, j>> \in inquiries /\ inquiries' = inquiries \ {<<w, j>>}
        /\ availability' = [availability EXCEPT ![w] = NoJob]
        /\ UNCHANGED jobWorker
    BY DEF FulfillAvailability
  <1>4. jobWorker[j] = w /\ said[j] = "nothing" /\ jobPc[j] \notin Unasked
    BY <1>3 DEF RequestsKnow
  <1>5. k \in Jobs => jobWorker[k] = w
    BY DEF RequestsKnow
  <1> HIDE DEF k
  <1>6. \A i \in Jobs : jobPc'[i] \in Unasked => i # j /\ jobPc[i] \in Unasked
    BY <1>2, <1>4 DEF Unasked
  <1>7. /\ \A v \in Workers, i \in Jobs :
              <<v, i>> \in inquiries' => <<v, i>> \in inquiries /\ (v # w \/ i # j)
        /\ \A v \in Workers, i \in Jobs : availability'[v] = i => availability[v] = i
        /\ \A i \in Jobs : i # j => said'[i] = said[i]
    BY <1>1, <1>2, <1>3, NoJobAssumption
  <1>8. RequestsKnow'
    <2>1. (\A i \in Jobs :
              jobPc[i] \in Unasked =>
                  /\ said[i] = "nothing"
                  /\ \A v \in Workers : <<v, i>> \notin inquiries /\ availability[v] # i)'
      BY <1>6, <1>7 DEF RequestsKnow
    <2>2. (\A v \in Workers, i \in Jobs :
              <<v, i>> \in inquiries => jobWorker[i] = v /\ said[i] = "nothing")'
      BY <1>3, <1>4, <1>7 DEF RequestsKnow
    <2>3. (\A v \in Workers, i \in Jobs : availability[v] = i => jobWorker[i] = v)'
      BY <1>3, <1>7 DEF RequestsKnow
    <2>4. QED
      BY <2>1, <2>2, <2>3 DEF RequestsKnow
  <1>9. ASSUME NEW v \in Workers, v # w
        PROVE  Got(v)' \in SUBSET Got(v) /\ SaidYes(v)' = SaidYes(v)
    <2>1. Got(v)' \in SUBSET Got(v)
      BY <1>2, <1>3, <1>5, <1>9 DEF Got
    <2>2. SaidYes(v)' = SaidYes(v)
      BY <1>3, <1>4, <1>7, <1>9 DEF SaidYes
    <2>3. QED
      BY <2>1, <2>2
  <1>10. CASE answer = "no"
    <2>1. Got(w)' \in SUBSET Got(w)
      BY <1>2, <1>3, <1>10 DEF Got
    <2>2. SaidYes(w)' = SaidYes(w)
      BY <1>1, <1>2, <1>3, <1>4, <1>10 DEF SaidYes
    <2>3. QED
      BY <1>8, <1>9, <2>1, <2>2, PairedFrame
  <1>11. CASE answer = "yes"
    <2>1. Got(w)' \in SUBSET (Got(w) \cup {k})
      BY <1>2, <1>3 DEF Got
    <2>2. SaidYes(w)' = SaidYes(w) \cup {j} /\ j \notin SaidYes(w)
      BY <1>1, <1>2, <1>3, <1>4, <1>11 DEF SaidYes
    <2>3. /\ IsFiniteSet(Got(w)) /\ IsFiniteSet(SaidYes(w))
          /\ Cardinality(Got(w)) <= Cardinality(SaidYes(w))
      BY DEF Paired
    <2>4. /\ IsFiniteSet(SaidYes(w)')
          /\ Cardinality(SaidYes(w)') = Cardinality(SaidYes(w)) + 1
      BY <2>2, <2>3, FS_AddElement
    <2>5. /\ IsFiniteSet(Got(w) \cup {k})
          /\ Cardinality(Got(w) \cup {k}) =
               IF k \in Got(w) THEN Cardinality(Got(w)) ELSE Cardinality(Got(w)) + 1
      BY <2>3, FS_AddElement
    <2>6. IsFiniteSet(Got(w)') /\ Cardinality(Got(w)') <= Cardinality(Got(w) \cup {k})
      BY <2>1, <2>5, FS_Subset
    <2>7. /\ Cardinality(Got(w)) \in Nat /\ Cardinality(Got(w)') \in Nat
          /\ Cardinality(SaidYes(w)) \in Nat
      BY <2>3, <2>6, FS_CardinalityType
    <2>8. Cardinality(Got(w)') <= Cardinality(SaidYes(w)')
      BY <2>3, <2>4, <2>5, <2>6, <2>7
    <2>9. ASSUME NEW v \in Workers, v # w
          PROVE  /\ IsFiniteSet(Got(v)') /\ IsFiniteSet(SaidYes(v)')
                 /\ Cardinality(Got(v)') <= Cardinality(SaidYes(v)')
      <3>1. /\ IsFiniteSet(Got(v)) /\ IsFiniteSet(SaidYes(v))
            /\ Cardinality(Got(v)) <= Cardinality(SaidYes(v))
        BY DEF Paired
      <3>2. Got(v)' \in SUBSET Got(v) /\ SaidYes(v)' = SaidYes(v)
        BY <1>9, <2>9
      <3>3. IsFiniteSet(Got(v)') /\ Cardinality(Got(v)') <= Cardinality(Got(v))
        BY <3>1, <3>2, FS_Subset
      <3>4. /\ Cardinality(Got(v)) \in Nat /\ Cardinality(Got(v)') \in Nat
            /\ Cardinality(SaidYes(v)) \in Nat
        BY <3>1, <3>3, FS_CardinalityType
      <3>5. QED
        BY <3>1, <3>2, <3>3, <3>4
    <2>10. Paired'
      BY Zenon, <2>4, <2>6, <2>8, <2>9 DEF Paired
    <2>11. QED
      BY <1>8, <2>10
  <1>12. QED
    BY <1>2, <1>10, <1>11

\* Each of the launches comes to its jobs once.
LEMMA LaunchKeeps ==
    ASSUME TypeOK, LaunchedOnce,
           \/ \E R \in Rooms : LaunchRoomDispatches(R)
           \/ \E t \in Joins : Joined(t)
           \/ \E d \in Dispatches : LaunchIfRoom(d)
    PROVE  /\ LaunchedOnce'
           /\ \A k \in Jobs : jobPc'[k] = jobPc[k] \/ (jobPc[k] = "none" /\ jobPc'[k] = "pick")
           /\ UNCHANGED <<inquiries, said, availability, jobWorker>>
  <1>0. /\ DOMAIN jobPc = Jobs /\ DOMAIN pendingPc = Rooms /\ DOMAIN joinPc = Joins
        /\ DOMAIN dispatchPc = Dispatches /\ dispatches \in SUBSET Dispatches
        /\ registered \in Rooms \cup {NoRoom}
        /\ \A t \in Joins : joinPc[t] # "idle" => joinRoom[t] \in Rooms
    BY DEF TypeOK
  <1> USE <1>0
  <1>1. ASSUME NEW R \in Rooms, LaunchRoomDispatches(R)
        PROVE  /\ LaunchedOnce'
               /\ \A k \in Jobs : jobPc'[k] = jobPc[k]
                                  \/ (jobPc[k] = "none" /\ jobPc'[k] = "pick")
               /\ UNCHANGED <<inquiries, said, availability, jobWorker>>
    <2>1. /\ pendingPc[R] = "list" /\ pendingPc' = [pendingPc EXCEPT ![R] = "done"]
          /\ jobPc' = [j \in Jobs |-> IF j \in dispatches \X {R} \X {"pending"}
                                        THEN "pick" ELSE jobPc[j]]
          /\ UNCHANGED <<roomPc, joinPc, dispatchPc, jobWorker, inquiries, said, availability>>
      BY <1>1 DEF LaunchRoomDispatches, joinVars, dispatchVars, workerVars
    <2>2. \A d \in Dispatches : jobPc[<<d, R, "pending">>] = "none"
      BY SMTT(30), <2>1 DEF LaunchedOnce
    <2>3. \A k \in Jobs : jobPc'[k] = jobPc[k]
                          \/ (jobPc[k] = "none" /\ jobPc'[k] = "pick")
      BY <2>1, <2>2
    <2>4. \A k \in Jobs : k[3] # "pending" \/ k[2] # R => jobPc'[k] = jobPc[k]
      BY <2>1
    <2>5. LaunchedOnce'
      BY <2>1, <2>4, JobNames DEF LaunchedOnce
    <2>6. QED
      BY SMTT(30), <2>1, <2>3, <2>5
  <1>2. ASSUME NEW t \in Joins, Joined(t)
        PROVE  /\ LaunchedOnce'
               /\ \A k \in Jobs : jobPc'[k] = jobPc[k]
                                  \/ (jobPc[k] = "none" /\ jobPc'[k] = "pick")
               /\ UNCHANGED <<inquiries, said, availability, jobWorker>>
    <2> DEFINE j == <<t, joinRoom[t], "token">>
    <2>1. /\ joinPc[t] \in {"known", "new"} /\ joinPc' = [joinPc EXCEPT ![t] = "joined"]
          /\ jobPc' = (IF joinPc[t] = "new" THEN [jobPc EXCEPT ![j] = "pick"] ELSE jobPc)
          /\ UNCHANGED <<roomPc, pendingPc, dispatchPc, jobWorker, inquiries, said, availability>>
      BY <1>2 DEF Joined, roomVars, dispatchVars, workerVars
    <2>2. j \in Jobs /\ jobPc[j] = "none" /\ j[1] = t /\ j[3] = "token"
      BY SMTT(30), <2>1, JobNames DEF LaunchedOnce
    <2> HIDE DEF j
    <2>3. \A k \in Jobs : jobPc'[k] = jobPc[k]
                          \/ (jobPc[k] = "none" /\ jobPc'[k] = "pick")
      BY <2>1, <2>2
    <2>4. \A k \in Jobs : k[3] # "token" \/ k[1] # t => jobPc'[k] = jobPc[k]
      BY <2>1, <2>2
    <2>5. LaunchedOnce'
      BY <2>1, <2>4, JobNames DEF LaunchedOnce
    <2>6. QED
      BY Zenon, <2>1, <2>3, <2>5
  <1>3. ASSUME NEW d \in Dispatches, LaunchIfRoom(d)
        PROVE  /\ LaunchedOnce'
               /\ \A k \in Jobs : jobPc'[k] = jobPc[k]
                                  \/ (jobPc[k] = "none" /\ jobPc'[k] = "pick")
               /\ UNCHANGED <<inquiries, said, availability, jobWorker>>
    <2> DEFINE j == <<d, registered, "create">>
    <2>1. /\ dispatchPc[d] = "stored" /\ dispatchPc' = [dispatchPc EXCEPT ![d] = "done"]
          /\ jobPc' = (IF registered # NoRoom THEN [jobPc EXCEPT ![j] = "pick"] ELSE jobPc)
          /\ UNCHANGED <<roomPc, pendingPc, joinPc, jobWorker, inquiries, said, availability>>
      BY <1>3 DEF LaunchIfRoom, roomVars, joinVars, workerVars
    <2>2. registered # NoRoom =>
             j \in Jobs /\ jobPc[j] = "none" /\ j[1] = d /\ j[3] = "create"
      BY SMTT(30), <2>1, JobNames DEF LaunchedOnce
    <2> HIDE DEF j
    <2>3. \A k \in Jobs : jobPc'[k] = jobPc[k]
                          \/ (jobPc[k] = "none" /\ jobPc'[k] = "pick")
      BY <2>1, <2>2
    <2>4. \A k \in Jobs : k[3] # "create" \/ k[1] # d => jobPc'[k] = jobPc[k]
      BY <2>1, <2>2
    <2>5. LaunchedOnce'
      BY <2>1, <2>4, JobNames DEF LaunchedOnce
    <2>6. QED
      BY Zenon, <2>1, <2>3, <2>5
  <1>4. QED
    BY Zenon, <1>1, <1>2, <1>3

\* A launcher that has not come to its jobs may get nearer to them.
LEMMA LauncherMoves ==
    ASSUME LaunchedOnce, UNCHANGED jobPc,
           \A R \in Rooms : roomPc'[R] = "none" =>
                               roomPc[R] = "none" /\ pendingPc'[R] = pendingPc[R],
           \A R \in Rooms : pendingPc'[R] # "done" => pendingPc[R] # "done",
           \A d \in Dispatches : dispatchPc'[d] # "done" => dispatchPc[d] # "done",
           \A t \in Joins : joinPc'[t] # "joined" => joinPc[t] # "joined"
    PROVE  LaunchedOnce'
  <1>1. jobPc' = jobPc
    OBVIOUS
  <1>2. \A R \in Rooms : roomPc'[R] = "none" => pendingPc'[R] = "idle"
    BY DEF LaunchedOnce
  <1>3. \A R \in Rooms, d \in Dispatches :
          pendingPc'[R] # "done" => jobPc'[<<d, R, "pending">>] = "none"
    BY <1>1 DEF LaunchedOnce
  <1>4. \A R \in Rooms, d \in Dispatches :
          dispatchPc'[d] # "done" => jobPc'[<<d, R, "create">>] = "none"
    BY <1>1 DEF LaunchedOnce
  <1>5. \A R \in Rooms, t \in Joins :
          joinPc'[t] # "joined" => jobPc'[<<t, R, "token">>] = "none"
    BY <1>1 DEF LaunchedOnce
  <1>6. QED
    BY Zenon, <1>2, <1>3, <1>4, <1>5 DEF LaunchedOnce

\* A launcher moves on without a launch, or a worker comes and goes.
LEMMA QuietKeeps ==
    ASSUME TypeOK, YesInv,
           \/ \E R \in Rooms : CreateRoom(R) \/ CloseRoom(R) \/ TerminateRoomJobs(R)
                               \/ OnRoomClosed(R)
           \/ \E t \in Joins : AddAgentDispatch(t) \/ JoinRefused(t)
           \/ \E d \in Dispatches : CreateDispatch(d) \/ DeleteDispatch(d)
           \/ \E w \in Workers : Register(w) \/ UpdateWorker(w) \/ Unregister(w)
           \/ UNCHANGED vars
    PROVE  YesInv'
  <1> USE DEF roomVars, joinVars, dispatchVars, jobVars, workerVars
  <1>0. /\ DOMAIN roomPc = Rooms /\ DOMAIN pendingPc = Rooms
        /\ DOMAIN joinPc = Joins /\ DOMAIN dispatchPc = Dispatches
    BY DEF TypeOK
  <1>1. UNCHANGED <<jobPc, jobWorker, inquiries, said, availability>>
    BY SMTT(30) DEF vars, CreateRoom, CloseRoom, TerminateRoomJobs, OnRoomClosed,
           AddAgentDispatch, JoinRefused, CreateDispatch, DeleteDispatch, Register,
           UpdateWorker, Unregister
  <1>2. RequestsKnow' /\ Paired'
    BY Zenon, <1>1, RequestFrame DEF YesInv
  <1>3. LaunchedOnce /\ UNCHANGED jobPc
    BY Zenon, <1>1 DEF YesInv
  <1>4. /\ \A R \in Rooms : roomPc'[R] = "none" =>
                               roomPc[R] = "none" /\ pendingPc'[R] = pendingPc[R]
        /\ \A R \in Rooms : pendingPc'[R] # "done" => pendingPc[R] # "done"
        /\ \A d \in Dispatches : dispatchPc'[d] # "done" => dispatchPc[d] # "done"
        /\ \A t \in Joins : joinPc'[t] # "joined" => joinPc[t] # "joined"
    <2>1. ASSUME NEW R \in Rooms,
                 CreateRoom(R) \/ CloseRoom(R) \/ TerminateRoomJobs(R) \/ OnRoomClosed(R)
          PROVE  <1>4!:
      <3>1. CASE CreateRoom(R)
        <4>1. pendingPc[R] = "idle"
          BY Zenon, <1>3, <3>1 DEF CreateRoom, LaunchedOnce
        <4>2. QED
          BY <1>0, <3>1, <4>1 DEF CreateRoom
      <3>2. CASE CloseRoom(R) \/ TerminateRoomJobs(R) \/ OnRoomClosed(R)
        BY <1>0, <3>2 DEF CloseRoom, TerminateRoomJobs, OnRoomClosed
      <3>3. QED
        BY Zenon, <2>1, <3>1, <3>2
    <2>2. ASSUME NEW t \in Joins, AddAgentDispatch(t) \/ JoinRefused(t)
          PROVE  <1>4!:
      BY Zenon, <1>0, <2>2 DEF AddAgentDispatch, JoinRefused
    <2>3. ASSUME NEW d \in Dispatches, CreateDispatch(d) \/ DeleteDispatch(d)
          PROVE  <1>4!:
      BY Zenon, <1>0, <2>3 DEF CreateDispatch, DeleteDispatch
    <2>4. CASE \/ \E w \in Workers : Register(w) \/ UpdateWorker(w) \/ Unregister(w)
               \/ UNCHANGED vars
      BY Zenon, <2>4 DEF Register, UpdateWorker, Unregister, vars
    <2>5. QED
      BY Zenon, <2>1, <2>2, <2>3, <2>4
  <1>5. LaunchedOnce'
    BY Zenon, <1>3, <1>4, LauncherMoves
  <1>6. QED
    BY <1>2, <1>5 DEF YesInv

\* Every step keeps the jobs and the answers paired.
LEMMA YesStep == TypeOK /\ YesInv /\ [Next]_vars => YesInv'
<1> SUFFICES ASSUME TypeOK, YesInv, [Next]_vars PROVE YesInv'
  OBVIOUS
<1>0. DOMAIN jobPc = Jobs /\ DOMAIN jobWorker = Jobs
  BY DEF TypeOK
<1>1. CASE \/ \E R \in Rooms : LaunchRoomDispatches(R)
           \/ \E t \in Joins : Joined(t)
           \/ \E d \in Dispatches : LaunchIfRoom(d)
  <2>1. /\ LaunchedOnce'
        /\ \A k \in Jobs : jobPc'[k] = jobPc[k] \/ (jobPc[k] = "none" /\ jobPc'[k] = "pick")
        /\ UNCHANGED <<inquiries, said, availability, jobWorker>>
    BY Zenon, <1>1, LaunchKeeps DEF YesInv
  <2>2. /\ \A k \in Jobs : jobPc'[k] \in Unasked => jobPc[k] \in Unasked
        /\ \A k \in Jobs : jobPc'[k] \in {"accepted", "assigned", "tracked"} =>
                              jobPc[k] \in {"accepted", "assigned", "tracked"}
    BY <2>1 DEF Unasked
  <2>3. QED
    BY Zenon, <2>1, <2>2, RequestFrame DEF YesInv
<1>2. ASSUME NEW j \in Jobs,
             \/ PickWorker(j) \/ TestAvailability(j)
             \/ DispatchTimeout(j) \/ Assign(j) \/ TrackJob(j)
      PROVE  YesInv'
  <2>1. UNCHANGED <<inquiries, said, availability, roomPc, pendingPc, dispatchPc, joinPc>>
    BY <1>2 DEF PickWorker, TestAvailability, DispatchTimeout, Assign, TrackJob, roomVars,
                joinVars, dispatchVars, workerVars
  <2>2. /\ \A k \in Jobs : jobPc'[k] \in Unasked => jobPc[k] \in Unasked
        /\ \A k \in Jobs : jobPc'[k] \in {"accepted", "assigned", "tracked"} =>
                              jobPc[k] \in {"accepted", "assigned", "tracked"}
        /\ \A k \in Jobs : jobPc[k] = "none" => jobPc'[k] = "none"
    BY SMTT(30), <1>0, <1>2 DEF PickWorker, TestAvailability, DispatchTimeout, Assign, TrackJob, Unasked
  <2>3. \A k \in Jobs : \/ jobWorker'[k] = jobWorker[k]
                        \/ jobPc[k] \in Unasked /\ jobPc'[k] \in Unasked
    BY <1>0, <1>2 DEF PickWorker, TestAvailability, DispatchTimeout, Assign, TrackJob, Unasked
  <2>4. RequestsKnow' /\ Paired'
    BY Zenon, <2>1, <2>2, <2>3, RequestFrame DEF YesInv
  <2>5. LaunchedOnce'
    BY Zenon, <2>1, <2>2, LaunchFrame DEF YesInv
  <2>6. QED
    BY <2>4, <2>5 DEF YesInv
<1>3. ASSUME NEW j \in Jobs, RequestAvailability(j) PROVE YesInv'
  <2>1. /\ \A k \in Jobs : jobPc[k] = "none" => jobPc'[k] = "none"
        /\ UNCHANGED <<roomPc, pendingPc, dispatchPc, joinPc>>
    BY <1>3 DEF RequestAvailability, roomVars, joinVars, dispatchVars
  <2>2. LaunchedOnce'
    BY Zenon, <2>1, LaunchFrame DEF YesInv
  <2>3. QED
    BY <1>3, <2>2, RequestKeeps DEF YesInv
<1>4. ASSUME NEW w \in Workers, NEW j \in Jobs, FulfillAvailability(w, j) PROVE YesInv'
  <2>1. /\ \A k \in Jobs : jobPc[k] = "none" => jobPc'[k] = "none"
        /\ UNCHANGED <<roomPc, pendingPc, dispatchPc, joinPc>>
    BY <1>4 DEF FulfillAvailability, roomVars, joinVars, dispatchVars
  <2>2. LaunchedOnce'
    BY Zenon, <2>1, LaunchFrame DEF YesInv
  <2>3. QED
    BY <1>4, <2>2, FulfillKeeps DEF YesInv
<1>5. QED
  BY Zenon, <1>1, <1>2, <1>3, <1>4, QuietKeeps DEF Next, LaunchRoomJob

\* Although fulfill_availability matches no answer with the job it is about, and
\* requests time out and overtake one another, a worker is never given more jobs
\* than it said yes to.
THEOREM JobsMatchYes == Spec => []OneJobPerYes
<1>1. Init => YesInv
  <2> SUFFICES ASSUME Init PROVE YesInv
    OBVIOUS
  <2>1. LaunchedOnce
    BY JobNames DEF Init, LaunchedOnce
  <2>2. RequestsKnow
    BY NoJobAssumption DEF Init, RequestsKnow
  <2>3. \A w \in Workers : Got(w) = {} /\ SaidYes(w) = {}
    BY DEF Init, Got, SaidYes
  <2>4. Paired
    BY <2>3, FS_EmptySet DEF Paired
  <2>5. QED
    BY <2>1, <2>2, <2>4 DEF YesInv
<1>2. YesInv => OneJobPerYes
  BY DEF YesInv, Paired, OneJobPerYes, Got, SaidYes
<1>3. QED
  BY <1>1, <1>2, TypeCorrect, YesStep, PTL DEF Spec

=============================================================================
