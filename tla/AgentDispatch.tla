--------------------------- MODULE AgentDispatch ---------------------------
(***************************************************************************)
(* Agent jobs of the rooms of one name: AgentManager (agent.rs), the        *)
(* AgentDispatchService, and the three places that launch a job.            *)
(*                                                                         *)
(* A job is launched in a task of its own, for a Room object and            *)
(*   - for a dispatch, by the CreateDispatch that found the room ("create"),*)
(*     or by the creation of the room that found the dispatch ("pending");  *)
(*   - for an agent named in a token's roomConfig, by a join ("token").     *)
(* The task asks a worker whether it is available over the worker's         *)
(* websocket, and assigns the job on the answer.                            *)
(*                                                                         *)
(* One agent name is served by all workers and named by all tokens.  A      *)
(* Worker is one registration; a session that registers once is modelled.   *)
(* Load and job type do not decide anything in the code and are left out.   *)
(***************************************************************************)
EXTENDS Naturals, FiniteSets

CONSTANTS
    Rooms,        \* Room objects, created one after the other
    Dispatches,   \* dispatch ids, one CreateDispatch each
    Joins,        \* joins whose token names the agent
    Workers,      \* Worker objects
    NoRoom, NoJob, NoWorker

ASSUME AgentAssumption ==
    NoRoom \notin Rooms /\ NoWorker \notin Workers

\* What a job is launched for, the room, and which code launched it.
DispatchJobs == Dispatches \X Rooms \X {"create", "pending"}
TokenJobs == Joins \X Rooms \X {"token"}
Jobs == DispatchJobs \cup TokenJobs

ASSUME NoJobAssumption == NoJob \notin Jobs

VARIABLES
    registered,   \* Server.rooms.get(name)
    roomPc,       \* the life of each Room object, up to its close
    pendingPc,    \* launch_pending_dispatches, spawned with the room
    agents,       \* agents[R]: Room.agents holds the tokens' agent
    joinPc,       \* the frame of a join
    joinRoom,
    dispatches,   \* AgentManager.dispatches
    jobsOf,       \* jobsOf[d]: AgentDispatch.jobs
    dispatchPc,   \* the frame of CreateDispatch
    jobPc,        \* the frame of launch_room_job
    jobWorker,    \* the worker that was picked
    worker,       \* worker[w]: before, during or after its registration
    available,    \* Worker.is_available
    availability, \* availability[w]: the job whose responder is in the slot
    inquiries,    \* requests on their way to a worker or waiting for it
    said          \* what the worker answered about a job

roomVars == <<registered, roomPc, pendingPc, agents>>
joinVars == <<joinPc, joinRoom>>
dispatchVars == <<dispatches, jobsOf, dispatchPc>>
jobVars == <<jobPc, jobWorker>>
workerVars == <<worker, available, availability, inquiries, said>>
vars == <<roomVars, joinVars, dispatchVars, jobVars, workerVars>>

RoomPcs == {"none", "open", "closed", "terminated", "gone"}
JobPcs == {"none", "pick", "test", "request", "waiting", "accepted",
           "assigned", "tracked", "failed"}

Init ==
    /\ registered = NoRoom
    /\ roomPc = [R \in Rooms |-> "none"]
    /\ pendingPc = [R \in Rooms |-> "idle"]
    /\ agents = [R \in Rooms |-> FALSE]
    /\ joinPc = [t \in Joins |-> "idle"]
    /\ joinRoom = [t \in Joins |-> NoRoom]
    /\ dispatches = {}
    /\ jobsOf = [d \in Dispatches |-> {}]
    /\ dispatchPc = [d \in Dispatches |-> "idle"]
    /\ jobPc = [j \in Jobs |-> "none"]
    /\ jobWorker = [j \in Jobs |-> NoWorker]
    /\ worker = [w \in Workers |-> "new"]
    /\ available = [w \in Workers |-> FALSE]
    /\ availability = [w \in Workers |-> NoJob]
    /\ inquiries = {}
    /\ said = [j \in Jobs |-> "nothing"]

-----------------------------------------------------------------------------
(* Rooms *)

\* get_or_create_room, when it creates.
CreateRoom(R) ==
    /\ registered = NoRoom
    /\ roomPc[R] = "none"
    /\ registered' = R
    /\ roomPc' = [roomPc EXCEPT ![R] = "open"]
    /\ pendingPc' = [pendingPc EXCEPT ![R] = "list"]
    /\ UNCHANGED <<agents, joinVars, dispatchVars, jobVars, workerVars>>

\* launch_room_dispatches: list_dispatches, and a task for each.
LaunchRoomDispatches(R) ==
    /\ pendingPc[R] = "list"
    /\ pendingPc' = [pendingPc EXCEPT ![R] = "done"]
    /\ jobPc' = [j \in Jobs |->
                    IF j \in dispatches \X {R} \X {"pending"}
                      THEN "pick" ELSE jobPc[j]]
    /\ UNCHANGED <<registered, roomPc, agents, joinVars, dispatchVars,
                   jobWorker, workerVars>>

\* Room.close: the flag, terminate_room_jobs, and at the end on_close.
CloseRoom(R) ==
    /\ roomPc[R] = "open"
    /\ roomPc' = [roomPc EXCEPT ![R] = "closed"]
    /\ UNCHANGED <<registered, pendingPc, agents, joinVars, dispatchVars,
                   jobVars, workerVars>>

\* The jobs that terminate_room_jobs sends a Termination for: those tracked
\* under any dispatch for a room of the name.
RoomJobs == UNION {jobsOf[d] : d \in dispatches}

TerminateRoomJobs(R) ==
    /\ roomPc[R] = "closed"
    /\ roomPc' = [roomPc EXCEPT ![R] = "terminated"]
    /\ UNCHANGED <<registered, pendingPc, agents, joinVars, dispatchVars,
                   jobVars, workerVars>>

OnRoomClosed(R) ==
    /\ roomPc[R] = "terminated"
    /\ roomPc' = [roomPc EXCEPT ![R] = "gone"]
    /\ registered' = NoRoom
    /\ UNCHANGED <<pendingPc, agents, joinVars, dispatchVars, jobVars,
                   workerVars>>

-----------------------------------------------------------------------------
(* A join whose token names the agent *)

\* Mutant: the agents are looked up in one lock and added in another.
AddWithoutLooking(t) ==
    /\ joinPc[t] = "idle"
    /\ registered # NoRoom
    /\ joinRoom' = [joinRoom EXCEPT ![t] = registered]
    /\ agents' = [agents EXCEPT ![registered] = TRUE]
    /\ joinPc' = [joinPc EXCEPT ![t] = "new"]
    /\ UNCHANGED <<registered, roomPc, pendingPc, dispatchVars, jobVars,
                   workerVars>>

\* join_room: add_agent_dispatch, under the lock of Room.agents.
AddAgentDispatch(t) ==
    /\ joinPc[t] = "idle"
    /\ registered # NoRoom
    /\ joinRoom' = [joinRoom EXCEPT ![t] = registered]
    /\ agents' = [agents EXCEPT ![registered] = TRUE]
    /\ joinPc' = [joinPc EXCEPT ![t] = IF agents[registered] THEN "known" ELSE "new"]
    /\ UNCHANGED <<registered, roomPc, pendingPc, dispatchVars, jobVars,
                   workerVars>>

\* Room.join refuses, or the session launches what this join added.
JoinRefused(t) ==
    /\ joinPc[t] \in {"known", "new"}
    /\ joinPc' = [joinPc EXCEPT ![t] = "refused"]
    /\ UNCHANGED <<roomVars, joinRoom, dispatchVars, jobVars, workerVars>>

Joined(t) ==
    /\ joinPc[t] \in {"known", "new"}
    /\ joinPc' = [joinPc EXCEPT ![t] = "joined"]
    /\ jobPc' = IF joinPc[t] = "new"
                  THEN [jobPc EXCEPT ![<<t, joinRoom[t], "token">>] = "pick"]
                  ELSE jobPc
    /\ UNCHANGED <<roomVars, joinRoom, dispatchVars, jobWorker, workerVars>>

-----------------------------------------------------------------------------
(* AgentDispatchService *)

\* CreateDispatch stores the dispatch ...
CreateDispatch(d) ==
    /\ dispatchPc[d] = "idle"
    /\ dispatches' = dispatches \cup {d}
    /\ dispatchPc' = [dispatchPc EXCEPT ![d] = "stored"]
    /\ UNCHANGED <<jobsOf, roomVars, joinVars, jobVars, workerVars>>

\* Mutant: the room is looked up before the dispatch is stored, so that this
\* step launches nothing.
LaunchStale(d) ==
    /\ dispatchPc[d] = "stored"
    /\ dispatchPc' = [dispatchPc EXCEPT ![d] = "done"]
    /\ UNCHANGED <<dispatches, jobsOf, roomVars, joinVars, jobVars, workerVars>>

\* ... then looks for the room, and launches the job when there is one.
LaunchIfRoom(d) ==
    /\ dispatchPc[d] = "stored"
    /\ dispatchPc' = [dispatchPc EXCEPT ![d] = "done"]
    /\ jobPc' = IF registered # NoRoom
                  THEN [jobPc EXCEPT ![<<d, registered, "create">>] = "pick"]
                  ELSE jobPc
    /\ UNCHANGED <<dispatches, jobsOf, roomVars, joinVars, jobWorker,
                   workerVars>>

\* DeleteDispatch: the dispatch is taken out, and a Termination sent for each
\* job in jobsOf[d].
DeleteDispatch(d) ==
    /\ d \in dispatches
    /\ dispatches' = dispatches \ {d}
    /\ jobsOf' = [jobsOf EXCEPT ![d] = {}]
    /\ UNCHANGED <<dispatchPc, roomVars, joinVars, jobVars, workerVars>>

-----------------------------------------------------------------------------
(* launch_room_job *)

\* pick_worker, at random among those that are available.
PickWorker(j) ==
    /\ jobPc[j] = "pick"
    /\ LET free == {w \in Workers : worker[w] = "up" /\ available[w]}
       IN \/ /\ free = {}
             /\ jobPc' = [jobPc EXCEPT ![j] = "failed"]
             /\ UNCHANGED jobWorker
          \/ \E w \in free :
             /\ jobPc' = [jobPc EXCEPT ![j] = "test"]
             /\ jobWorker' = [jobWorker EXCEPT ![j] = w]
    /\ UNCHANGED <<roomVars, joinVars, dispatchVars, workerVars>>

\* The slot of the worker is tested under its lock ...
TestAvailability(j) ==
    /\ jobPc[j] = "test"
    /\ jobPc' = [jobPc EXCEPT ![j] =
                    IF availability[jobWorker[j]] # NoJob THEN "failed" ELSE "request"]
    /\ UNCHANGED <<roomVars, joinVars, dispatchVars, jobWorker, workerVars>>

\* ... and set under another: a responder that came in between is dropped, and
\* the task that waits on it fails.  The request is sent, or dropped when the
\* worker's queue is full.
RequestAvailability(j) ==
    /\ jobPc[j] = "request"
    /\ LET w == jobWorker[j]
           dropped == {k \in Jobs : k = availability[w] /\ jobPc[k] = "waiting"}
       IN /\ availability' = [availability EXCEPT ![w] = j]
          /\ jobPc' = [k \in Jobs |->
                          IF k = j THEN "waiting"
                          ELSE IF k \in dropped THEN "failed" ELSE jobPc[k]]
          /\ \/ inquiries' = inquiries \cup {<<w, j>>}
             \/ UNCHANGED inquiries
    /\ UNCHANGED <<roomVars, joinVars, dispatchVars, jobWorker, worker,
                   available, said>>

\* Mutant: a worker that does not answer is taken for available.
AssignOnTimeout(j) ==
    /\ jobPc[j] = "waiting"
    /\ jobPc' = [jobPc EXCEPT ![j] = "accepted"]
    /\ UNCHANGED <<roomVars, joinVars, dispatchVars, jobWorker, workerVars>>

\* DISPATCH_TIMEOUT.  The responder stays in the slot.
DispatchTimeout(j) ==
    /\ jobPc[j] = "waiting"
    /\ jobPc' = [jobPc EXCEPT ![j] = "failed"]
    /\ UNCHANGED <<roomVars, joinVars, dispatchVars, jobWorker, workerVars>>

\* The worker accepted: the job is assigned, unless the worker's API key is
\* not known or the token cannot be built.
Assign(j) ==
    /\ jobPc[j] = "accepted"
    /\ \E r \in {"assigned", "failed"} : jobPc' = [jobPc EXCEPT ![j] = r]
    /\ UNCHANGED <<roomVars, joinVars, dispatchVars, jobWorker, workerVars>>

\* track_job: a job with a dispatch id, while the dispatch exists.
TrackJob(j) ==
    /\ jobPc[j] = "assigned"
    /\ jobPc' = [jobPc EXCEPT ![j] = "tracked"]
    /\ jobsOf' = [d \in Dispatches |->
                     IF j \in DispatchJobs /\ d = j[1] /\ d \in dispatches
                       THEN jobsOf[d] \cup {j} ELSE jobsOf[d]]
    /\ UNCHANGED <<dispatches, dispatchPc, roomVars, joinVars, jobWorker,
                   workerVars>>

LaunchRoomJob(j) ==
    \/ PickWorker(j)
    \/ TestAvailability(j)
    \/ RequestAvailability(j)
    \/ DispatchTimeout(j)
    \/ Assign(j)
    \/ TrackJob(j)

-----------------------------------------------------------------------------
(* run_worker_session *)

Register(w) ==
    /\ worker[w] = "new"
    /\ worker' = [worker EXCEPT ![w] = "up"]
    /\ available' = [available EXCEPT ![w] = TRUE]
    /\ UNCHANGED <<availability, inquiries, said, roomVars, joinVars, dispatchVars,
                   jobVars>>

UpdateWorker(w) ==
    /\ worker[w] = "up"
    /\ available' = [available EXCEPT ![w] = ~@]
    /\ UNCHANGED <<worker, availability, inquiries, said, roomVars, joinVars,
                   dispatchVars, jobVars>>

\* The worker's answer about job j: whichever responder is in the slot gets it.
FulfillAvailability(w, j) ==
    /\ worker[w] = "up"
    /\ <<w, j>> \in inquiries
    /\ inquiries' = inquiries \ {<<w, j>>}
    /\ \E answer \in {"yes", "no"} :
          /\ said' = [said EXCEPT ![j] = answer]
          /\ jobPc' = [k \in Jobs |->
                          IF k = availability[w] /\ jobPc[k] = "waiting"
                            THEN IF answer = "yes" THEN "accepted" ELSE "failed"
                            ELSE jobPc[k]]
    /\ availability' = [availability EXCEPT ![w] = NoJob]
    /\ UNCHANGED <<roomVars, joinVars, dispatchVars, jobWorker, worker,
                   available>>

\* The session ends; a task that waits for its answer runs into the timeout.
Unregister(w) ==
    /\ worker[w] = "up"
    /\ worker' = [worker EXCEPT ![w] = "down"]
    /\ UNCHANGED <<available, availability, inquiries, said, roomVars, joinVars,
                   dispatchVars, jobVars>>

-----------------------------------------------------------------------------

Next ==
    \/ \E R \in Rooms : \/ CreateRoom(R) \/ LaunchRoomDispatches(R)
                        \/ CloseRoom(R) \/ TerminateRoomJobs(R) \/ OnRoomClosed(R)
    \/ \E t \in Joins : AddAgentDispatch(t) \/ JoinRefused(t) \/ Joined(t)
    \/ \E d \in Dispatches : CreateDispatch(d) \/ LaunchIfRoom(d) \/ DeleteDispatch(d)
    \/ \E j \in Jobs : LaunchRoomJob(j)
    \/ \E w \in Workers : Register(w) \/ UpdateWorker(w) \/ Unregister(w)
    \/ \E w \in Workers, j \in Jobs : FulfillAvailability(w, j)

Spec == Init /\ [][Next]_vars

-----------------------------------------------------------------------------
(* Properties *)

\* The state has its types, a job past the pick has its worker, and a deleted
\* dispatch tracks no job.
TypeOK ==
    /\ registered \in Rooms \cup {NoRoom}
    /\ roomPc \in [Rooms -> RoomPcs]
    /\ pendingPc \in [Rooms -> {"idle", "list", "done"}]
    /\ agents \in [Rooms -> BOOLEAN]
    /\ joinPc \in [Joins -> {"idle", "known", "new", "refused", "joined"}]
    /\ joinRoom \in [Joins -> Rooms \cup {NoRoom}]
    /\ dispatches \in SUBSET Dispatches
    /\ jobsOf \in [Dispatches -> SUBSET Jobs]
    /\ dispatchPc \in [Dispatches -> {"idle", "stored", "done"}]
    /\ jobPc \in [Jobs -> JobPcs]
    /\ jobWorker \in [Jobs -> Workers \cup {NoWorker}]
    /\ worker \in [Workers -> {"new", "up", "down"}]
    /\ available \in [Workers -> BOOLEAN]
    /\ availability \in [Workers -> Jobs \cup {NoJob}]
    /\ inquiries \in SUBSET (Workers \X Jobs)
    /\ said \in [Jobs -> {"nothing", "yes", "no"}]
    /\ \A t \in Joins : joinPc[t] # "idle" => joinRoom[t] \in Rooms
    /\ \A j \in Jobs :
          jobPc[j] \notin {"none", "pick", "failed"} => jobWorker[j] \in Workers
    /\ \A d \in Dispatches : d \notin dispatches => jobsOf[d] = {}

Launched(d, R) == \E how \in {"create", "pending"} : jobPc[<<d, R, how>>] # "none"

\* No dispatch falls between the two launches: whether CreateDispatch or the
\* creation of the room comes first, and however their steps interleave, a
\* stored dispatch is launched for the room once both have looked.
NoDispatchMissed ==
    \A d \in dispatches, R \in Rooms :
        /\ registered = R
        /\ dispatchPc[d] = "done"
        /\ pendingPc[R] = "done"
        => Launched(d, R)

\* "Launch room-level agent dispatches added by this join (once each)": of all
\* joins whose tokens name the agent, one launches it for a room.
TokenAgentOnce ==
    \A R \in Rooms, t, u \in Joins :
        jobPc[<<t, R, "token">>] # "none" /\ jobPc[<<u, R, "token">>] # "none" => t = u

\* A worker never gets more jobs than it said yes to, although an answer is
\* not matched with the job it is about and requests time out and overtake
\* one another.
OneJobPerYes ==
    \A w \in Workers :
        Cardinality({j \in Jobs : /\ jobWorker[j] = w
                                  /\ jobPc[j] \in {"accepted", "assigned", "tracked"}})
        <= Cardinality({j \in Jobs : jobWorker[j] = w /\ said[j] = "yes"})

\* Room.close "terminates room-level agent jobs": a job that was running for
\* the room when terminate_room_jobs runs is among those it terminates.
RoomJobsTerminated ==
    [][\A R \in Rooms : TerminateRoomJobs(R) =>
          \A j \in Jobs : j[2] = R /\ jobPc[j] = "tracked" => j \in RoomJobs]_vars

\* dispatch_job "Sends an availability request to a suitable worker and, if
\* accepted, assigns the job": no job that its worker declined is assigned.
DeclinedNotAssigned ==
    \A j \in Jobs : said[j] = "no" => jobPc[j] \notin {"assigned", "tracked"}

\* add_agent_dispatch: "Returns true if the dispatch is new (and should be
\* launched)": an agent in Room.agents is launched once no join is under way.
TokenAgentLaunched ==
    \A R \in Rooms :
        agents[R] /\ (\A t \in Joins : joinPc[t] \notin {"known", "new"}) =>
            \E t \in Joins : jobPc[<<t, R, "token">>] # "none"

\* A worker whose slot is taken has a request pending ("worker already has a
\* pending availability request").
SlotIsPending ==
    \A w \in Workers :
        availability[w] # NoJob => jobPc[availability[w]] = "waiting"

\* A dispatch is launched once for a room.
DispatchOnce ==
    \A d \in Dispatches, R \in Rooms :
        jobPc[<<d, R, "create">>] = "none" \/ jobPc[<<d, R, "pending">>] = "none"

=============================================================================
