------------------------------- MODULE Egress -------------------------------
(***************************************************************************)
(* Recordings: the Egress service of the server (services_sip.rs), the      *)
(* EgressInternal and EgressHandler services of one recorder (lk-egress),   *)
(* and the IOInfo service through which the recorder reports to the nodes   *)
(* of the server, which share the store.                                    *)
(*                                                                         *)
(* The three talk over psrpc.  A call is handled at most once, perhaps      *)
(* after its caller timed out, and perhaps never: the promise of module Rpc.*)
(* The recorder ignores the result of its reports.                          *)
(*                                                                         *)
(* The commands of the store succeed here; Cluster has failing ones.  Audio *)
(* and files are outside: a recording ends when its stream does.            *)
(***************************************************************************)
EXTENDS Naturals, FiniteSets

CONSTANTS
    Egresses,     \* egress ids, one StartEgress each
    Stopped,      \* those that get a StopEgress
    Nodes,        \* nodes of the server, any of which handles a report
    Capacity      \* recordings that fit the recorder by their cpu_cost

ASSUME EgressAssumption == Stopped \subseteq Egresses /\ Capacity \in Nat

Reports == {"CreateEgress", "ACTIVE", "COMPLETE", "FAILED"}
Terminal == {"COMPLETE", "FAILED"}
Statuses == {"None", "STARTING", "ACTIVE"} \cup Terminal

\* The senders of a recording's audio: none before it is connected, then the
\* signalling loop ("open"), from the first offer on also the callback of the peer
\* connection and its track readers ("tracks"), which may outlive the loop ("tail").
Streams == {"none", "open", "tracks", "tail", "over"}

VARIABLES
    startPc,    \* the frame of a Start*Egress request
    stopPc,     \* the frame of a StopEgress request
    stopReply,  \* what StopHandler replied
    handlerPc,  \* the frame of the recorder's StartEgress handler
    stopHandler,\* the frame of its StopHandler
    jobPc,      \* the frame of run_one and of the task around it
    active,     \* Handlers.active
    infos,      \* Handlers.infos
    stop,       \* stop[e]: the watch channel holds true, unseen
    topic,      \* topic[e]: the StopEgress topic is served
    stream,     \* stream[e]: who still holds a sender of the room's audio
    report,     \* report[e][r]: a report to IOInfo
    store,      \* store[e]: the stored EgressInfo
    ended,      \* ended[n]: EgressIoHandlers.ended of a node
    webhooks    \* webhooks[e]: what was handed over, by kind

serviceVars == <<startPc, stopPc, stopReply>>
recorderVars == <<handlerPc, stopHandler, jobPc, active, infos, stop, topic, stream>>
ioVars == <<ended, webhooks>>
vars == <<serviceVars, recorderVars, report, store, ioVars>>

Init ==
    /\ startPc = [e \in Egresses |-> "idle"]
    /\ stopPc = [e \in Egresses |-> "idle"]
    /\ stopReply = [e \in Egresses |-> "None"]
    /\ handlerPc = [e \in Egresses |-> "none"]
    /\ stopHandler = [e \in Egresses |-> "none"]
    /\ jobPc = [e \in Egresses |-> "none"]
    /\ active = {}
    /\ infos = [e \in Egresses |-> "None"]
    /\ stop = [e \in Egresses |-> FALSE]
    /\ topic = [e \in Egresses |-> FALSE]
    /\ stream = [e \in Egresses |-> "none"]
    /\ report = [e \in Egresses |-> [r \in Reports |-> "none"]]
    /\ store = [e \in Egresses |-> "None"]
    /\ ended = [n \in Nodes |-> {}]
    /\ webhooks = [e \in Egresses |-> [started |-> 0, updated |-> 0, ended |-> 0]]

-----------------------------------------------------------------------------
(* The Egress service *)

\* Mutant: the service stores the egress before it calls the recorder.
StoreThenCall(e) ==
    /\ startPc[e] = "idle"
    /\ startPc' = [startPc EXCEPT ![e] = "calling"]
    /\ handlerPc' = [handlerPc EXCEPT ![e] = "called"]
    /\ store' = [store EXCEPT ![e] = "STARTING"]
    /\ UNCHANGED <<stopPc, stopReply, stopHandler, jobPc, active, infos, stop,
                   topic, stream, report, ioVars>>

\* A Start*Egress request: start_egress calls the recorder ...
StartRequest(e) ==
    /\ startPc[e] = "idle"
    /\ startPc' = [startPc EXCEPT ![e] = "calling"]
    /\ handlerPc' = [handlerPc EXCEPT ![e] = "called"]
    /\ UNCHANGED <<stopPc, stopReply, stopHandler, jobPc, active, infos, stop,
                   topic, stream, report, store, ioVars>>

\* ... which replies, with an error or with what it is starting, or the call
\* times out ...
StartReturns(e) ==
    /\ startPc[e] = "calling"
    /\ \/ /\ handlerPc[e] = "replied"
          /\ startPc' = [startPc EXCEPT ![e] = "store"]
       \/ startPc' = [startPc EXCEPT ![e] = "failed"]
    /\ UNCHANGED <<stopPc, stopReply, recorderVars, report, store, ioVars>>

\* ... and the reply is stored.
StoreStarted(e) ==
    /\ startPc[e] = "store"
    /\ startPc' = [startPc EXCEPT ![e] = "done"]
    /\ store' = [store EXCEPT ![e] = "STARTING"]
    /\ UNCHANGED <<stopPc, stopReply, recorderVars, report, ioVars>>

\* A StopEgress request is refused by what is stored, or calls the topic.
StopRequest(e) ==
    /\ stopPc[e] = "idle"
    /\ \/ /\ store[e] \in {"STARTING", "ACTIVE"}
          /\ stopPc' = [stopPc EXCEPT ![e] = "calling"]
          /\ stopHandler' = [stopHandler EXCEPT ![e] = "called"]
       \/ /\ store[e] \notin {"STARTING", "ACTIVE"}
          /\ stopPc' = [stopPc EXCEPT ![e] = "failed"]
          /\ UNCHANGED stopHandler
    /\ UNCHANGED <<startPc, stopReply, handlerPc, jobPc, active, infos, stop,
                   topic, stream, report, store, ioVars>>

StopReturns(e) ==
    /\ stopPc[e] = "calling"
    /\ \/ /\ stopHandler[e] = "replied"
          /\ stopPc' = [stopPc EXCEPT ![e] = "store"]
       \/ stopPc' = [stopPc EXCEPT ![e] = "failed"]
    /\ UNCHANGED <<startPc, stopReply, recorderVars, report, store, ioVars>>

StoreStopped(e) ==
    /\ stopPc[e] = "store"
    /\ stopPc' = [stopPc EXCEPT ![e] = "done"]
    /\ store' = [store EXCEPT ![e] = stopReply[e]]
    /\ UNCHANGED <<startPc, stopReply, recorderVars, report, ioVars>>

-----------------------------------------------------------------------------
(* The recorder's StartEgress and StopEgress handlers *)

Admitted == Cardinality(active) + 1 <= Capacity

Send(e, r) == report' = [report EXCEPT ![e][r] = "sent"]

\* The request is checked for admission and CreateEgress is called.
Admit(e) ==
    /\ handlerPc[e] = "called"
    /\ \/ /\ Admitted
          /\ handlerPc' = [handlerPc EXCEPT ![e] = "create"]
          /\ Send(e, "CreateEgress")
       \/ /\ ~Admitted
          /\ handlerPc' = [handlerPc EXCEPT ![e] = "refused"]
          /\ UNCHANGED report
    /\ UNCHANGED <<serviceVars, stopHandler, jobPc, active, infos, stop, topic,
                   stream, store, ioVars>>

\* CreateEgress returned, or timed out.
Reserve(e) ==
    /\ handlerPc[e] = "create"
    /\ handlerPc' = [handlerPc EXCEPT ![e] = "register"]
    /\ infos' = [infos EXCEPT ![e] = "STARTING"]
    /\ active' = active \cup {e}
    /\ UNCHANGED <<serviceVars, stopHandler, jobPc, stop, topic, stream,
                   report, store, ioVars>>

\* register_topic, then the recording is spawned and the reply sent.
RegisterTopic(e) ==
    /\ handlerPc[e] = "register"
    /\ handlerPc' = [handlerPc EXCEPT ![e] = "replied"]
    /\ topic' = [topic EXCEPT ![e] = TRUE]
    /\ jobPc' = [jobPc EXCEPT ![e] = "connect"]
    /\ UNCHANGED <<serviceVars, stopHandler, active, infos, stop, stream,
                   report, store, ioVars>>

\* register_topic fails and the handler returns its error.
RegisterFails(e) ==
    /\ handlerPc[e] = "register"
    /\ handlerPc' = [handlerPc EXCEPT ![e] = "failed"]
    /\ UNCHANGED <<serviceVars, stopHandler, jobPc, active, infos, stop, topic,
                   stream, report, store, ioVars>>

\* StopHandler: the signal, then the info.
SignalStop(e) ==
    /\ stopHandler[e] = "called"
    /\ topic[e]
    /\ stopHandler' = [stopHandler EXCEPT ![e] = "signalled"]
    /\ stop' = [stop EXCEPT ![e] = TRUE]
    /\ UNCHANGED <<serviceVars, handlerPc, jobPc, active, infos, topic,
                   stream, report, store, ioVars>>

ReplyStop(e) ==
    /\ stopHandler[e] = "signalled"
    /\ stopHandler' = [stopHandler EXCEPT ![e] = "replied"]
    /\ stopReply' = [stopReply EXCEPT ![e] = infos[e]]
    /\ UNCHANGED <<startPc, stopPc, handlerPc, jobPc, active, infos, stop,
                   topic, stream, report, store, ioVars>>

-----------------------------------------------------------------------------
(* The recording *)

\* Where the task goes when run_one returns an error: FAILED is reported.
Fail(e) ==
    /\ jobPc' = [jobPc EXCEPT ![e] = "failed"]
    /\ Send(e, "FAILED")

\* client::connect, then ACTIVE is reported.  The socket has a timeout, the wait for
\* the JoinResponse has none, and the stop is not looked at meanwhile.
Connect(e) ==
    /\ jobPc[e] = "connect"
    /\ \/ /\ jobPc' = [jobPc EXCEPT ![e] = "active"]
          /\ stream' = [stream EXCEPT ![e] = "open"]
          /\ Send(e, "ACTIVE")
       \/ Fail(e) /\ UNCHANGED stream
    /\ UNCHANGED <<serviceVars, handlerPc, stopHandler, active, infos, stop,
                   topic, store, ioVars>>

\* Mutant: the receiver of the watch channel takes what it holds as seen.
ForgetStop(e) ==
    /\ jobPc[e] = "active"
    /\ jobPc' = [jobPc EXCEPT ![e] = "recording"]
    /\ infos' = [infos EXCEPT ![e] = "ACTIVE"]
    /\ stop' = [stop EXCEPT ![e] = FALSE]
    /\ UNCHANGED <<serviceVars, handlerPc, stopHandler, active, topic,
                   stream, report, store, ioVars>>

\* The report of ACTIVE returned, or timed out.
StartRecording(e) ==
    /\ jobPc[e] = "active"
    /\ jobPc' = [jobPc EXCEPT ![e] = "recording"]
    /\ infos' = [infos EXCEPT ![e] = "ACTIVE"]
    /\ UNCHANGED <<serviceVars, handlerPc, stopHandler, active, stop, topic,
                   stream, report, store, ioVars>>

\* run_recording sees the stop ...
Cancelled(e) ==
    /\ jobPc[e] = "recording"
    /\ stop[e]
    /\ jobPc' = [jobPc EXCEPT ![e] = "upload"]
    /\ UNCHANGED <<serviceVars, handlerPc, stopHandler, active, infos, stop,
                   topic, stream, report, store, ioVars>>

\* ... or the end of the stream, when every sender is dropped ...
StreamEnds(e) ==
    /\ jobPc[e] = "recording"
    /\ stream[e] = "over"
    /\ jobPc' = [jobPc EXCEPT ![e] = "upload"]
    /\ UNCHANGED <<serviceVars, handlerPc, stopHandler, active, infos, stop,
                   topic, stream, report, store, ioVars>>

\* ... or an error of the encoder or of the file.
RecordingFails(e) ==
    /\ jobPc[e] = "recording"
    /\ Fail(e)
    /\ UNCHANGED <<serviceVars, handlerPc, stopHandler, active, infos, stop,
                   topic, stream, store, ioVars>>

\* The upload, then COMPLETE is reported.
Upload(e) ==
    /\ jobPc[e] = "upload"
    /\ \/ jobPc' = [jobPc EXCEPT ![e] = "complete"] /\ Send(e, "COMPLETE")
       \/ Fail(e)
    /\ UNCHANGED <<serviceVars, handlerPc, stopHandler, active, infos, stop,
                   topic, stream, store, ioVars>>

\* Mutant: the timeout of the last report is an error of run_one.
FailAfterComplete(e) ==
    /\ \/ /\ jobPc[e] = "failed"
          /\ jobPc' = [jobPc EXCEPT ![e] = "abort"]
          /\ infos' = [infos EXCEPT ![e] = "FAILED"]
          /\ active' = active \ {e}
          /\ UNCHANGED report
       \/ /\ jobPc[e] = "complete"
          /\ Fail(e)
          /\ UNCHANGED <<infos, active>>
    /\ UNCHANGED <<serviceVars, handlerPc, stopHandler, stop, topic, stream,
                   store, ioVars>>

\* Mutant: a failed recording keeps its place.
KeepPlace(e) ==
    /\ jobPc[e] \in {"complete", "failed"}
    /\ jobPc' = [jobPc EXCEPT ![e] = "abort"]
    /\ infos' = [infos EXCEPT ![e] = IF jobPc[e] = "complete" THEN "COMPLETE" ELSE "FAILED"]
    /\ active' = IF jobPc[e] = "complete" THEN active \ {e} ELSE active
    /\ UNCHANGED <<serviceVars, handlerPc, stopHandler, stop, topic, stream,
                   report, store, ioVars>>

\* The last report returned, or timed out.
Finish(e) ==
    /\ jobPc[e] \in {"complete", "failed"}
    /\ jobPc' = [jobPc EXCEPT ![e] = "abort"]
    /\ infos' = [infos EXCEPT ![e] = IF jobPc[e] = "complete" THEN "COMPLETE" ELSE "FAILED"]
    /\ active' = active \ {e}
    /\ UNCHANGED <<serviceVars, handlerPc, stopHandler, stop, topic, stream,
                   report, store, ioVars>>

AbortTopic(e) ==
    /\ jobPc[e] = "abort"
    /\ jobPc' = [jobPc EXCEPT ![e] = "done"]
    /\ topic' = [topic EXCEPT ![e] = FALSE]
    /\ UNCHANGED <<serviceVars, handlerPc, stopHandler, active, infos, stop,
                   stream, report, store, ioVars>>

\* The first offer: the peer connection is made, whose on_track gives every track
\* reader a sender.
FirstOffer(e) ==
    /\ stream[e] = "open"
    /\ stream' = [stream EXCEPT ![e] = "tracks"]
    /\ UNCHANGED <<serviceVars, handlerPc, stopHandler, jobPc, active, infos,
                   stop, topic, report, store, ioVars>>

\* The server closes the recorder's session, as when the room closes, or the
\* signalling loop gives up, and drops its sender and the peer connection.  Nothing
\* else in the recorder ends the loop: it does not look at the receiver that
\* run_recording drops.
Disconnected(e) ==
    /\ stream[e] \in {"open", "tracks"}
    /\ stream' = [stream EXCEPT ![e] = IF @ = "open" THEN "over" ELSE "tail"]
    /\ UNCHANGED <<serviceVars, handlerPc, stopHandler, jobPc, active, infos,
                   stop, topic, report, store, ioVars>>

\* The peer connection was dropped without close(): whether and when its library
\* drops the callback and ends the reads of the tracks is not in this code.
TracksEnd(e) ==
    /\ stream[e] = "tail"
    /\ stream' = [stream EXCEPT ![e] = "over"]
    /\ UNCHANGED <<serviceVars, handlerPc, stopHandler, jobPc, active, infos,
                   stop, topic, report, store, ioVars>>

-----------------------------------------------------------------------------
(* EgressIoHandlers, on node n *)

Handled(e, r) == report' = [report EXCEPT ![e][r] = "handled"]

Hand(e, kind) == webhooks' = [webhooks EXCEPT ![e][kind] = @ + 1]

\* CreateEgress of an egress that is stored is a retry.
LoadEgress(e) ==
    /\ report[e]["CreateEgress"] = "sent"
    /\ report' = [report EXCEPT ![e]["CreateEgress"] =
                     IF store[e] # "None" THEN "handled" ELSE "loaded"]
    /\ UNCHANGED <<serviceVars, recorderVars, store, ioVars>>

\* It is stored and egress_started handed over.
CreateEgress(e) ==
    /\ report[e]["CreateEgress"] = "loaded"
    /\ Handled(e, "CreateEgress")
    /\ store' = [store EXCEPT ![e] = "STARTING"]
    /\ Hand(e, "started")
    /\ UNCHANGED <<serviceVars, recorderVars, ended>>

\* UpdateEgress stores the status; a terminal one ends the egress once per node.
UpdateEgress(n, e, status) ==
    /\ report[e][status] = "sent"
    /\ Handled(e, status)
    /\ store' = [store EXCEPT ![e] = status]
    /\ \/ /\ status \notin Terminal
          /\ Hand(e, "updated")
          /\ UNCHANGED ended
       \/ /\ status \in Terminal /\ e \notin ended[n]
          /\ Hand(e, "ended")
          /\ ended' = [ended EXCEPT ![n] = @ \cup {e}]
       \/ /\ status \in Terminal /\ e \in ended[n]
          /\ UNCHANGED ioVars
    /\ UNCHANGED <<serviceVars, recorderVars>>

-----------------------------------------------------------------------------

RunOne(e) ==
    \/ Connect(e)
    \/ StartRecording(e)
    \/ Cancelled(e)
    \/ StreamEnds(e)
    \/ RecordingFails(e)
    \/ Upload(e)
    \/ Finish(e)
    \/ AbortTopic(e)

RoomClient(e) == FirstOffer(e) \/ Disconnected(e) \/ TracksEnd(e)

\* The steps of a recording that wait for nothing but a report, which has a timeout.
Proceed(e) ==
    \/ StartRecording(e)
    \/ Cancelled(e)
    \/ StreamEnds(e)
    \/ Finish(e)
    \/ AbortTopic(e)

Next ==
    \/ \E e \in Egresses :
          \/ StartRequest(e) \/ StartReturns(e) \/ StoreStarted(e)
          \/ Admit(e) \/ Reserve(e) \/ RegisterTopic(e) \/ RegisterFails(e)
          \/ RunOne(e) \/ RoomClient(e)
          \/ LoadEgress(e) \/ CreateEgress(e)
    \/ \E e \in Stopped :
          \/ StopRequest(e) \/ StopReturns(e) \/ StoreStopped(e)
          \/ SignalStop(e) \/ ReplyStop(e)
    \/ \E n \in Nodes, e \in Egresses, status \in Reports \ {"CreateEgress"} :
          UpdateEgress(n, e, status)

Spec == Init /\ [][Next]_vars

\* The task of a recording is run by the scheduler, and its select takes the stop or
\* the end of the stream although packets go on coming.  Nothing is assumed of
\* Connect, which waits for the JoinResponse without a timer, of Upload, whose
\* request to STS has none either, and of the room and the WebRTC library.
FairSpec == Spec /\ \A e \in Egresses : WF_vars(Proceed(e))

-----------------------------------------------------------------------------
(* Properties *)

Running == {"connect", "active", "recording", "upload", "complete", "failed"}

\* Types.
TypeOK ==
    /\ startPc \in [Egresses -> {"idle", "calling", "store", "done", "failed"}]
    /\ stopPc \in [Egresses -> {"idle", "calling", "store", "done", "failed"}]
    /\ stopReply \in [Egresses -> Statuses]
    /\ handlerPc \in [Egresses -> {"none", "called", "create", "register",
                                   "replied", "refused", "failed"}]
    /\ stopHandler \in [Egresses -> {"none", "called", "signalled", "replied"}]
    /\ jobPc \in [Egresses -> Running \cup {"none", "abort", "done"}]
    /\ active \subseteq Egresses
    /\ infos \in [Egresses -> Statuses]
    /\ stop \in [Egresses -> BOOLEAN]
    /\ topic \in [Egresses -> BOOLEAN]
    /\ stream \in [Egresses -> Streams]
    /\ report \in [Egresses -> [Reports -> {"none", "sent", "loaded", "handled"}]]
    /\ store \in [Egresses -> Statuses]
    /\ ended \in [Nodes -> SUBSET Egresses]
    /\ webhooks \in [Egresses -> [started : Nat, updated : Nat, ended : Nat]]

\* The places of the recorder are accounted for: `active` is exactly the recordings
\* on their way to or in run_one, whose last report has not returned, and those whose
\* register_topic failed, which keep their place for good.  An info is terminal
\* exactly when its recording gave its place back, and it is kept before the topic is
\* served: a StopEgress that reaches the recorder is answered with it.
PlacesAccounted ==
    /\ active = {e \in Egresses : handlerPc[e] \in {"register", "failed"}
                                     \/ jobPc[e] \in Running}
    /\ \A e \in Egresses :
          /\ infos[e] \in Terminal <=> jobPc[e] \in {"abort", "done"}
          /\ stopHandler[e] = "replied" => stopReply[e] # "None"

\* A recording ends once: it reports COMPLETE or FAILED and not both, so that
\* egress_ended is handed over once although `ended` is kept per node.
EndedOnce ==
    \A e \in Egresses :
        /\ webhooks[e].ended <= 1
        /\ report[e]["COMPLETE"] = "none" \/ report[e]["FAILED"] = "none"

\* A CreateEgress handled while the recorder waits for it hands egress_started
\* over, and no egress does so twice: nobody stores the egress before that.
StartedReported ==
    \A e \in Egresses :
        /\ webhooks[e].started <= 1
        /\ handlerPc[e] = "create" /\ report[e]["CreateEgress"] = "handled"
              => webhooks[e].started = 1

\* A stop that reached the recorder ends the recording once it is connected, whether
\* it came before the connection, before the loop listened or while it ran, and so
\* does the end of the audio: the last report is made and the place given back, or
\* the upload waits for its storage for ever.
StopsRecording ==
    \A e \in Egresses :
        (jobPc[e] \in {"active", "recording"} /\ (stop[e] \/ stream[e] = "over"))
           ~> (jobPc[e] = "done" \/ [](jobPc[e] = "upload"))

-----------------------------------------------------------------------------
(* What the code's documentation says and the code does not keep *)

\* "the stored info is not left in a stale STARTING/ACTIVE state": a terminal
\* status stays.  The reply of StartEgress and of StopEgress is stored after it,
\* and a report of ACTIVE that timed out may be handled after it.
TerminalStays ==
    [][\A e \in Egresses : store[e] \in Terminal => store'[e] \in Terminal]_vars

\* "reserves room_composite_cpu_cost per active recording": admission is checked
\* before CreateEgress is awaited and the place taken after it.
CapacityRespected == Cardinality(active) <= Capacity

\* A place that was taken is returned: not if register_topic fails.
PlaceReturned == \A e \in Egresses : handlerPc[e] = "failed" => e \notin active

\* The connections "stay alive until the returned receiver is dropped": the loop goes
\* on until the server closes them.
ConnectionReleased ==
    \A e \in Egresses : (jobPc[e] = "done") ~> (stream[e] \notin {"open", "tracks"})

\* A stop ends a recording that still connects: not if no JoinResponse comes.
StopsConnecting ==
    \A e \in Egresses : (stop[e] /\ jobPc[e] = "connect") ~> (jobPc[e] # "connect")

=============================================================================
