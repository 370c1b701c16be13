---------------------------- MODULE EgressProofs ----------------------------
(***************************************************************************)
(* Proofs about the recorder: Egress, for any number of recordings, of      *)
(* nodes of the server and of places in the recorder; Upload, for any       *)
(* requests and configurations; Mixer, for any tracks, packets and          *)
(* timeouts.                                                                *)
(***************************************************************************)
EXTENDS Egress, Upload, Mixer, WellFoundedInduction, TLAPS

-----------------------------------------------------------------------------
(* Egress *)

\* How far the recorder's StartEgress handler, StopHandler and the task of the
\* recording can be apart: the task exists once the handler has replied, the
\* place and the info once it registers the topic.
FramesInStep ==
    \A e \in Egresses :
        /\ startPc[e] = "idle" <=> handlerPc[e] = "none"
        /\ handlerPc[e] = "replied" <=> jobPc[e] # "none"
        /\ handlerPc[e] = "register" => e \in active /\ infos[e] = "STARTING"
        /\ handlerPc[e] = "replied" => infos[e] # "None"
        /\ topic[e] => handlerPc[e] = "replied"
        /\ stopHandler[e] \in {"signalled", "replied"} => handlerPc[e] = "replied"
        /\ startPc[e] = "store" => handlerPc[e] = "replied"
        /\ stopPc[e] = "store" => stopHandler[e] = "replied"
        /\ stopPc[e] = "idle" => stopHandler[e] = "none"
        /\ stopPc[e] = "calling" => stopHandler[e] # "none"

\* A report was sent only by the frame that is past it, and egress_ended was
\* handed over only for a terminal report that was handled.
ReportsInStep ==
    \A e \in Egresses :
        /\ report[e]["ACTIVE"] # "none" => jobPc[e] \notin {"none", "connect"}
        /\ report[e]["COMPLETE"] # "none" => jobPc[e] \in {"complete", "abort", "done"}
        /\ report[e]["FAILED"] # "none" => jobPc[e] \in {"failed", "abort", "done"}
        /\ webhooks[e].ended = 0
              \/ "handled" \in {report[e]["COMPLETE"], report[e]["FAILED"]}

\* Until the recorder has replied only CreateEgress stores the egress, and that
\* hands egress_started over.
StoredByCreate ==
    \A e \in Egresses :
        /\ report[e]["CreateEgress"] # "handled" => webhooks[e].started = 0
        /\ handlerPc[e] # "replied" =>
              /\ store[e] # "None" => report[e]["CreateEgress"] = "handled"
              /\ report[e]["CreateEgress"] = "handled" => webhooks[e].started = 1
        /\ handlerPc[e] \in {"none", "called"} => report[e]["CreateEgress"] = "none"

\* The places of `active`, one recording at a time.
EachPlaced ==
    /\ active \subseteq Egresses
    /\ \A e \in Egresses :
          /\ e \in active <=> handlerPc[e] \in {"register", "failed"} \/ jobPc[e] \in Running
          /\ infos[e] \in Terminal <=> jobPc[e] \in {"abort", "done"}
          /\ stopHandler[e] = "replied" => stopReply[e] # "None"

EgressInv ==
    /\ TypeOK
    /\ FramesInStep
    /\ EachPlaced
    /\ ReportsInStep
    /\ EndedOnce
    /\ StoredByCreate
    /\ StartedReported

-----------------------------------------------------------------------------
(* One step *)

\* What sending a report does, and what handling one does.
LEMMA ReportSent ==
    ASSUME TypeOK, NEW e \in Egresses, NEW r \in Reports, Send(e, r)
    PROVE  /\ report' \in [Egresses -> [Reports -> {"none", "sent", "loaded", "handled"}]]
           /\ \A f \in Egresses, q \in Reports :
                 report'[f][q] = IF f = e /\ q = r THEN "sent" ELSE report[f][q]
  BY DEF TypeOK, Send

LEMMA ReportHandled ==
    ASSUME TypeOK, NEW e \in Egresses, NEW r \in Reports, Handled(e, r)
    PROVE  /\ report' \in [Egresses -> [Reports -> {"none", "sent", "loaded", "handled"}]]
           /\ \A f \in Egresses, q \in Reports :
                 report'[f][q] = IF f = e /\ q = r THEN "handled" ELSE report[f][q]
  BY DEF TypeOK, Handled

\* What handing a webhook over does.
LEMMA WebhookHanded ==
    ASSUME TypeOK, NEW e \in Egresses, NEW kind \in {"started", "updated", "ended"},
           Hand(e, kind)
    PROVE  /\ webhooks' \in [Egresses -> [started : Nat, updated : Nat, ended : Nat]]
           /\ \A f \in Egresses :
                 /\ webhooks'[f].started =
                       IF f = e /\ kind = "started" THEN webhooks[f].started + 1
                       ELSE webhooks[f].started
                 /\ webhooks'[f].ended =
                       IF f = e /\ kind = "ended" THEN webhooks[f].ended + 1
                       ELSE webhooks[f].ended
  BY DEF TypeOK, Hand

\* The room, its tracks and the WebRTC library touch only the stream.
LEMMA RoomClientFrame ==
    ASSUME NEW e, RoomClient(e)
    PROVE  UNCHANGED <<serviceVars, handlerPc, stopHandler, jobPc, active, infos, stop,
                       topic, report, store, ioVars>>
  BY Zenon DEF RoomClient, FirstOffer, Disconnected, TracksEnd

\* Every step keeps the types.
LEMMA TypeStep ==
    TypeOK /\ [Next]_vars => TypeOK'
  <1> SUFFICES ASSUME TypeOK, [Next]_vars
               PROVE  TypeOK'
    OBVIOUS
  <1> USE DEF Statuses, Running, Reports, Terminal
  <1>h. handlerPc \in [Egresses -> {"none", "called", "create", "register",
                                      "replied", "refused", "failed"}]
    BY DEF TypeOK
  <1>j. jobPc \in [Egresses -> Running \cup {"none", "abort", "done"}]
    BY DEF TypeOK
  <1>c. stream \in [Egresses -> Streams]
    BY DEF TypeOK
  <1>s. /\ startPc \in [Egresses -> {"idle", "calling", "store", "done", "failed"}]
        /\ stopPc \in [Egresses -> {"idle", "calling", "store", "done", "failed"}]
        /\ stopHandler \in [Egresses -> {"none", "called", "signalled", "replied"}]
    BY DEF TypeOK
  <1>i. /\ report \in [Egresses -> [Reports -> {"none", "sent", "loaded", "handled"}]]
        /\ store \in [Egresses -> Statuses]
        /\ ended \in [Nodes -> SUBSET Egresses]
        /\ webhooks \in [Egresses -> [started : Nat, updated : Nat, ended : Nat]]
    BY DEF TypeOK
  <1>1. ASSUME NEW e \in Egresses, StartRequest(e)
        PROVE  TypeOK'
    BY <1>1 DEF StartRequest, TypeOK, serviceVars, recorderVars, ioVars
  <1>2. ASSUME NEW e \in Egresses, StartReturns(e)
        PROVE  TypeOK'
    <2>1. startPc' \in [Egresses -> {"idle", "calling", "store", "done", "failed"}]
      BY <1>2, <1>s DEF StartReturns
    <2>2. QED
      BY <1>2, <2>1 DEF TypeOK, StartReturns, recorderVars, ioVars
  <1>3. ASSUME NEW e \in Egresses, StoreStarted(e)
        PROVE  TypeOK'
    BY <1>3 DEF StoreStarted, TypeOK, serviceVars, recorderVars, ioVars
  <1>4. ASSUME NEW e \in Egresses, Admit(e)
        PROVE  TypeOK'
    <2>1. report' \in [Egresses -> [Reports -> {"none", "sent", "loaded", "handled"}]]
      BY <1>4, <1>i, ReportSent DEF Admit
    <2>2. handlerPc' \in [Egresses -> {"none", "called", "create", "register",
                                      "replied", "refused", "failed"}]
      BY <1>4, <1>h DEF Admit
    <2>3. QED
      BY <1>4, <2>1, <2>2 DEF TypeOK, Admit, serviceVars, ioVars
  <1>5. ASSUME NEW e \in Egresses, Reserve(e)
        PROVE  TypeOK'
    BY <1>5 DEF Reserve, TypeOK, serviceVars, recorderVars, ioVars
  <1>6. ASSUME NEW e \in Egresses, RegisterTopic(e)
        PROVE  TypeOK'
    BY <1>6 DEF RegisterTopic, TypeOK, serviceVars, recorderVars, ioVars
  <1>7. ASSUME NEW e \in Egresses, RegisterFails(e)
        PROVE  TypeOK'
    BY <1>7 DEF RegisterFails, TypeOK, serviceVars, recorderVars, ioVars
  <1>8. ASSUME NEW e \in Egresses, Connect(e)
        PROVE  TypeOK'
    <2>1. report' \in [Egresses -> [Reports -> {"none", "sent", "loaded", "handled"}]]
      BY <1>8, ReportSent DEF Connect, Fail
    <2>2. jobPc' \in [Egresses -> Running \cup {"none", "abort", "done"}]
      BY <1>8, <1>j DEF Connect, Fail
    <2>3. stream' \in [Egresses -> Streams]
      BY <1>8, <1>c DEF Connect, Streams
    <2>4. QED
      BY <1>8, <2>1, <2>2, <2>3 DEF TypeOK, Connect, serviceVars, ioVars
  <1>9. ASSUME NEW e \in Egresses, StartRecording(e)
        PROVE  TypeOK'
    BY <1>9 DEF StartRecording, TypeOK, serviceVars, recorderVars, ioVars
  <1>10. ASSUME NEW e \in Egresses, Cancelled(e)
        PROVE  TypeOK'
    BY <1>10 DEF Cancelled, TypeOK, serviceVars, recorderVars, ioVars
  <1>11. ASSUME NEW e \in Egresses, StreamEnds(e)
        PROVE  TypeOK'
    BY <1>11 DEF StreamEnds, TypeOK, serviceVars, recorderVars, ioVars
  <1>12. ASSUME NEW e \in Egresses, Upload(e)
        PROVE  TypeOK'
    <2>1. report' \in [Egresses -> [Reports -> {"none", "sent", "loaded", "handled"}]]
      BY <1>12, ReportSent DEF Upload, Fail
    <2>2. jobPc' \in [Egresses -> Running \cup {"none", "abort", "done"}]
      BY <1>12, <1>j DEF Upload, Fail
    <2>3. QED
      BY <1>12, <2>1, <2>2 DEF TypeOK, Upload, serviceVars, ioVars
  <1>13. ASSUME NEW e \in Egresses, Finish(e)
        PROVE  TypeOK'
    BY <1>13 DEF Finish, TypeOK, serviceVars, recorderVars, ioVars
  <1>14. ASSUME NEW e \in Egresses, AbortTopic(e)
        PROVE  TypeOK'
    BY <1>14 DEF AbortTopic, TypeOK, serviceVars, recorderVars, ioVars
  <1>15. ASSUME NEW e \in Egresses, RecordingFails(e)
        PROVE  TypeOK'
    <2>1. report' \in [Egresses -> [Reports -> {"none", "sent", "loaded", "handled"}]]
      BY <1>15, ReportSent DEF RecordingFails, Fail
    <2>2. jobPc' \in [Egresses -> Running \cup {"none", "abort", "done"}]
      BY <1>15, <1>j DEF RecordingFails, Fail
    <2>3. QED
      BY <1>15, <2>1, <2>2 DEF TypeOK, RecordingFails, serviceVars, ioVars
  <1>16. ASSUME NEW e \in Egresses, RoomClient(e)
        PROVE  TypeOK'
    <2>1. stream' \in [Egresses -> Streams]
      BY <1>16, <1>c DEF RoomClient, FirstOffer, Disconnected, TracksEnd, Streams
    <2>2. QED
      BY <1>16, <2>1, RoomClientFrame DEF TypeOK, serviceVars, ioVars
  <1>17. ASSUME NEW e \in Egresses, LoadEgress(e)
        PROVE  TypeOK'
    <2>1. report' \in [Egresses -> [Reports -> {"none", "sent", "loaded", "handled"}]]
      BY <1>17, <1>i DEF LoadEgress
    <2>2. QED
      BY <1>17, <2>1 DEF TypeOK, LoadEgress, serviceVars, recorderVars, ioVars
  <1>18. ASSUME NEW e \in Egresses, CreateEgress(e)
        PROVE  TypeOK'
    <2>1. report' \in [Egresses -> [Reports -> {"none", "sent", "loaded", "handled"}]]
      BY <1>18, ReportHandled DEF CreateEgress
    <2>2. webhooks' \in [Egresses -> [started : Nat, updated : Nat, ended : Nat]]
      BY <1>18, WebhookHanded DEF CreateEgress
    <2>3. store' \in [Egresses -> Statuses]
      BY <1>18, <1>i DEF CreateEgress
    <2>4. QED
      BY <1>18, <2>1, <2>2, <2>3 DEF TypeOK, CreateEgress, serviceVars, recorderVars
  <1>19. ASSUME NEW e \in Egresses, StopRequest(e)
        PROVE  TypeOK'
    <2>1. stopPc' \in [Egresses -> {"idle", "calling", "store", "done", "failed"}]
      BY <1>19, <1>s DEF StopRequest
    <2>2. stopHandler' \in [Egresses -> {"none", "called", "signalled", "replied"}]
      BY <1>19, <1>s DEF StopRequest
    <2>3. QED
      BY <1>19, <2>1, <2>2 DEF TypeOK, StopRequest, ioVars
  <1>20. ASSUME NEW e \in Egresses, StopReturns(e)
        PROVE  TypeOK'
    <2>1. stopPc' \in [Egresses -> {"idle", "calling", "store", "done", "failed"}]
      BY <1>20, <1>s DEF StopReturns
    <2>2. QED
      BY Zenon, <1>20, <2>1 DEF TypeOK, StopReturns, recorderVars, ioVars
  <1>21. ASSUME NEW e \in Egresses, StoreStopped(e)
        PROVE  TypeOK'
    BY <1>21 DEF StoreStopped, TypeOK, serviceVars, recorderVars, ioVars
  <1>22. ASSUME NEW e \in Egresses, SignalStop(e)
        PROVE  TypeOK'
    BY <1>22 DEF SignalStop, TypeOK, serviceVars, recorderVars, ioVars
  <1>23. ASSUME NEW e \in Egresses, ReplyStop(e)
        PROVE  TypeOK'
    BY <1>23 DEF ReplyStop, TypeOK, serviceVars, recorderVars, ioVars
  <1>24. ASSUME NEW n \in Nodes, NEW e \in Egresses,
               NEW status \in Reports \ {"CreateEgress"}, UpdateEgress(n, e, status)
        PROVE  TypeOK'
    <2>1. report' \in [Egresses -> [Reports -> {"none", "sent", "loaded", "handled"}]]
      BY <1>24, ReportHandled DEF UpdateEgress
    <2>2. store' \in [Egresses -> Statuses]
      BY <1>24, <1>i DEF UpdateEgress
    <2>3. ended' \in [Nodes -> SUBSET Egresses]
      BY <1>24, <1>i DEF UpdateEgress, ioVars
    <2>4. webhooks' \in [Egresses -> [started : Nat, updated : Nat, ended : Nat]]
      BY <1>24, <1>i, WebhookHanded DEF UpdateEgress, ioVars
    <2>5. QED
      BY <1>24, <2>1, <2>2, <2>3, <2>4 DEF TypeOK, UpdateEgress, serviceVars, recorderVars
  <1>25. CASE UNCHANGED vars
    BY <1>25 DEF TypeOK, vars, serviceVars, recorderVars, ioVars
  <1>26. QED
    BY EgressAssumption, <1>1, <1>2, <1>3, <1>4, <1>5, <1>6,
           <1>7, <1>8, <1>9, <1>10, <1>11, <1>12, <1>13, <1>14, <1>15, <1>16,
           <1>17, <1>18, <1>19, <1>20, <1>21, <1>22, <1>23, <1>24, <1>25
       DEF Next, RunOne

\* The frames of the recorder stay in step.
LEMMA FramesStep ==
    TypeOK /\ FramesInStep /\ [Next]_vars => FramesInStep'
  <1> SUFFICES ASSUME TypeOK, FramesInStep, [Next]_vars
               PROVE  FramesInStep'
    OBVIOUS
  <1> USE DEF FramesInStep
  <1>a. /\ DOMAIN startPc = Egresses
        /\ DOMAIN stopPc = Egresses
        /\ DOMAIN handlerPc = Egresses
        /\ DOMAIN stopHandler = Egresses
        /\ DOMAIN jobPc = Egresses
        /\ DOMAIN infos = Egresses
        /\ DOMAIN topic = Egresses
    BY DEF TypeOK
  <1> USE <1>a
  <1>1. ASSUME NEW e \in Egresses,
               \/ StoreStarted(e) \/ Admit(e) \/ RecordingFails(e)
               \/ RoomClient(e) \/ LoadEgress(e) \/ CreateEgress(e)
               \/ Connect(e) \/ Cancelled(e) \/ StreamEnds(e)
               \/ Upload(e)
        PROVE  FramesInStep'
    BY SMTT(30), <1>1 DEF StoreStarted, Admit, Send, RecordingFails, Fail,
           RoomClient, FirstOffer, Disconnected, TracksEnd,
           LoadEgress, CreateEgress, Handled, Hand, Connect,
           Cancelled, StreamEnds, Upload, serviceVars, recorderVars, ioVars
  <1>2. ASSUME NEW e \in Egresses, StartRequest(e)
        PROVE  FramesInStep'
    BY SMTT(30), <1>2 DEF StartRequest, serviceVars, recorderVars, ioVars
  <1>3. ASSUME NEW e \in Egresses, StartReturns(e)
        PROVE  FramesInStep'
    BY <1>3 DEF StartReturns, serviceVars, recorderVars, ioVars
  <1>4. ASSUME NEW e \in Egresses, Reserve(e)
        PROVE  FramesInStep'
    BY <1>4 DEF Reserve, serviceVars, recorderVars, ioVars
  <1>5. ASSUME NEW e \in Egresses, RegisterTopic(e)
        PROVE  FramesInStep'
    BY <1>5 DEF RegisterTopic, serviceVars, recorderVars, ioVars
  <1>6. ASSUME NEW e \in Egresses, RegisterFails(e)
        PROVE  FramesInStep'
    BY <1>6 DEF RegisterFails, serviceVars, recorderVars, ioVars
  <1>7. ASSUME NEW e \in Egresses, StartRecording(e)
        PROVE  FramesInStep'
    BY <1>7 DEF StartRecording, serviceVars, recorderVars, ioVars
  <1>8. ASSUME NEW e \in Egresses, Finish(e)
        PROVE  FramesInStep'
    BY <1>8 DEF Finish, serviceVars, recorderVars, ioVars
  <1>9. ASSUME NEW e \in Egresses, AbortTopic(e)
        PROVE  FramesInStep'
    BY <1>9 DEF AbortTopic, serviceVars, recorderVars, ioVars
  <1>10. ASSUME NEW e \in Egresses, StoreStopped(e)
        PROVE  FramesInStep'
    BY <1>10 DEF StoreStopped, serviceVars, recorderVars, ioVars
  <1>11. ASSUME NEW e \in Egresses, StopRequest(e)
        PROVE  FramesInStep'
    BY <1>11 DEF StopRequest, serviceVars, recorderVars, ioVars
  <1>12. ASSUME NEW e \in Egresses, StopReturns(e)
        PROVE  FramesInStep'
    BY <1>12 DEF StopReturns, serviceVars, recorderVars, ioVars
  <1>13. ASSUME NEW e \in Egresses, SignalStop(e)
        PROVE  FramesInStep'
    BY <1>13 DEF SignalStop, serviceVars, recorderVars, ioVars
  <1>14. ASSUME NEW e \in Egresses, ReplyStop(e)
        PROVE  FramesInStep'
    BY <1>14 DEF ReplyStop, serviceVars, recorderVars, ioVars
  <1>15. ASSUME NEW n \in Nodes, NEW e \in Egresses,
               NEW status \in Reports \ {"CreateEgress"}, UpdateEgress(n, e, status)
        PROVE  FramesInStep'
    BY <1>15 DEF UpdateEgress, Handled, Hand, serviceVars, recorderVars,
           ioVars
  <1>16. CASE UNCHANGED vars
    BY SMTT(30), <1>16 DEF vars, serviceVars, recorderVars, ioVars
  <1>17. QED
    BY Zenon, EgressAssumption, <1>1, <1>2, <1>3, <1>4, <1>5, <1>6,
           <1>7, <1>8, <1>9, <1>10, <1>11, <1>12, <1>13, <1>14, <1>15, <1>16
       DEF Next, RunOne

\* A place is taken by Reserve and given back by Finish, and a StopEgress that is
\* answered gets the info of its egress.
LEMMA PlaceStep ==
    /\ TypeOK
    /\ FramesInStep
    /\ EachPlaced
    /\ [Next]_vars
    => EachPlaced'
  <1> SUFFICES ASSUME TypeOK, FramesInStep, EachPlaced, [Next]_vars
               PROVE  EachPlaced'
    OBVIOUS
  <1> USE DEF FramesInStep, EachPlaced, Running, Terminal
  <1>a. /\ DOMAIN handlerPc = Egresses
        /\ DOMAIN jobPc = Egresses
        /\ DOMAIN infos = Egresses
        /\ DOMAIN stopHandler = Egresses
        /\ DOMAIN stopReply = Egresses
    BY DEF TypeOK
  <1> USE <1>a
  <1>1. ASSUME NEW e \in Egresses,
               \/ StartReturns(e) \/ StoreStarted(e) \/ RoomClient(e)
               \/ LoadEgress(e) \/ CreateEgress(e)
        PROVE  EachPlaced'
    <2>1. UNCHANGED <<handlerPc, jobPc, active, infos, stopHandler, stopReply>>
      BY Zenon, <1>1 DEF StartReturns, StoreStarted, RoomClient, FirstOffer,
         Disconnected, TracksEnd, LoadEgress, CreateEgress, serviceVars, recorderVars
    <2>2. QED
      BY Zenon, <2>1
  <1>h. ASSUME NEW e \in Egresses, StartRequest(e) \/ Admit(e) \/ RegisterFails(e)
        PROVE  EachPlaced'
    <2>1. PICK pc \in {"called", "create", "refused", "failed"} :
             /\ UNCHANGED <<jobPc, active, infos, stopHandler, stopReply>>
             /\ handlerPc' = [handlerPc EXCEPT ![e] = pc]
             /\ handlerPc[e] # "register" => pc # "failed" /\ handlerPc[e] # "failed"
             /\ handlerPc[e] = "register" => pc = "failed"
      <3>1. CASE StartRequest(e)
        BY <3>1 DEF StartRequest
      <3>2. CASE Admit(e)
        BY Zenon, <3>2 DEF Admit, serviceVars
      <3>3. CASE RegisterFails(e)
        BY Zenon, <3>3 DEF RegisterFails, serviceVars
      <3>4. QED
        BY Zenon, <1>h, <3>1, <3>2, <3>3
    <2>2. QED
      BY <2>1
  <1>2. ASSUME NEW e \in Egresses, Reserve(e)
        PROVE  EachPlaced'
    BY <1>2 DEF Reserve, serviceVars, recorderVars, ioVars
  <1>3. ASSUME NEW e \in Egresses, RegisterTopic(e)
        PROVE  EachPlaced'
    BY <1>3 DEF RegisterTopic, serviceVars, recorderVars, ioVars
  <1>4. ASSUME NEW e \in Egresses, Connect(e)
        PROVE  EachPlaced'
    BY <1>4 DEF Connect, Fail, Send, serviceVars, recorderVars, ioVars
  <1>5. ASSUME NEW e \in Egresses, StartRecording(e)
        PROVE  EachPlaced'
    BY <1>5 DEF StartRecording, serviceVars, recorderVars, ioVars
  <1>6. ASSUME NEW e \in Egresses, Cancelled(e)
        PROVE  EachPlaced'
    BY <1>6 DEF Cancelled, serviceVars, recorderVars, ioVars
  <1>7. ASSUME NEW e \in Egresses, StreamEnds(e)
        PROVE  EachPlaced'
    BY <1>7 DEF StreamEnds, serviceVars, recorderVars, ioVars
  <1>8. ASSUME NEW e \in Egresses, Upload(e)
        PROVE  EachPlaced'
    BY <1>8 DEF Upload, Fail, Send, serviceVars, recorderVars, ioVars
  <1>9. ASSUME NEW e \in Egresses, Finish(e)
        PROVE  EachPlaced'
    BY <1>9 DEF Finish, serviceVars, recorderVars, ioVars
  <1>10. ASSUME NEW e \in Egresses, AbortTopic(e)
        PROVE  EachPlaced'
    BY <1>10 DEF AbortTopic, serviceVars, recorderVars, ioVars
  <1>11. ASSUME NEW e \in Egresses, RecordingFails(e)
        PROVE  EachPlaced'
    BY <1>11 DEF RecordingFails, Fail, Send, serviceVars, recorderVars,
           ioVars
  <1>12. ASSUME NEW e \in Egresses,
               \/ StopRequest(e) \/ StopReturns(e) \/ StoreStopped(e)
        PROVE  EachPlaced'
    BY <1>12 DEF StopRequest, StopReturns, StoreStopped, serviceVars,
           recorderVars, ioVars
  <1>13. ASSUME NEW e \in Egresses, SignalStop(e)
        PROVE  EachPlaced'
    BY <1>13 DEF SignalStop, serviceVars, recorderVars, ioVars
  <1>14. ASSUME NEW e \in Egresses, ReplyStop(e)
        PROVE  EachPlaced'
    BY <1>14 DEF ReplyStop, serviceVars, recorderVars, ioVars
  <1>15. ASSUME NEW n \in Nodes, NEW e \in Egresses,
               NEW status \in Reports \ {"CreateEgress"}, UpdateEgress(n, e, status)
        PROVE  EachPlaced'
    BY <1>15 DEF UpdateEgress, Handled, Hand, serviceVars, recorderVars,
           ioVars
  <1>16. CASE UNCHANGED vars
    BY <1>16 DEF vars, serviceVars, recorderVars, ioVars
  <1>17. QED
    BY Zenon, EgressAssumption, <1>1, <1>h, <1>2, <1>3, <1>4, <1>5, <1>6,
           <1>7, <1>8, <1>9, <1>10, <1>11, <1>12, <1>13, <1>14, <1>15, <1>16
       DEF Next, RunOne

\* A recording ends once: its task takes one of the two ways out, and a terminal
\* report is handled once.
LEMMA EndedStep ==
    /\ TypeOK
    /\ FramesInStep
    /\ ReportsInStep
    /\ EndedOnce
    /\ [Next]_vars
    => (ReportsInStep /\ EndedOnce)'
  <1> SUFFICES ASSUME TypeOK, FramesInStep, ReportsInStep, EndedOnce,
                  [Next]_vars
               PROVE  (ReportsInStep /\ EndedOnce)'
    OBVIOUS
  <1>a. DOMAIN jobPc = Egresses
    BY DEF TypeOK
  <1>b. ASSUME UNCHANGED jobPc,
               \A f \in Egresses :
                  /\ webhooks'[f].ended = webhooks[f].ended
                  /\ report'[f]["ACTIVE"] = report[f]["ACTIVE"]
                  /\ report'[f]["COMPLETE"] = report[f]["COMPLETE"]
                  /\ report'[f]["FAILED"] = report[f]["FAILED"]
        PROVE  (ReportsInStep /\ EndedOnce)'
    <2>1. ReportsInStep'
      BY <1>b DEF ReportsInStep
    <2>2. EndedOnce'
      BY <1>b DEF EndedOnce
    <2>3. QED
      BY Zenon, <2>1, <2>2
  <1>c. ASSUME NEW e \in Egresses, NEW pc, UNCHANGED <<report, webhooks>>,
               jobPc' = [jobPc EXCEPT ![e] = pc],
               report[e]["ACTIVE"] # "none" => pc \notin {"none", "connect"},
               report[e]["COMPLETE"] # "none" => pc \in {"complete", "abort", "done"},
               report[e]["FAILED"] # "none" => pc \in {"failed", "abort", "done"}
        PROVE  (ReportsInStep /\ EndedOnce)'
    <2>1. \A f \in Egresses : jobPc'[f] = IF f = e THEN pc ELSE jobPc[f]
      BY Zenon, <1>a, <1>c
    <2>2. ReportsInStep'
      BY <1>c, <2>1 DEF ReportsInStep
    <2>3. EndedOnce'
      BY Zenon, <1>c DEF EndedOnce
    <2>4. QED
      BY Zenon, <2>2, <2>3
  <1>d. ASSUME NEW e \in Egresses, NEW r \in {"ACTIVE", "COMPLETE", "FAILED"}, NEW pc,
               Send(e, r), UNCHANGED webhooks, jobPc' = [jobPc EXCEPT ![e] = pc],
               jobPc[e] \in {"connect", "recording", "upload"},
               <<r, pc>> \in {<<"ACTIVE", "active">>, <<"COMPLETE", "complete">>,
                              <<"FAILED", "failed">>}
        PROVE  (ReportsInStep /\ EndedOnce)'
    <2>1. \A f \in Egresses : jobPc'[f] = IF f = e THEN pc ELSE jobPc[f]
      BY Zenon, <1>a, <1>d
    <2>2. \A f \in Egresses, q \in Reports :
             report'[f][q] = IF f = e /\ q = r THEN "sent" ELSE report[f][q]
      BY <1>d, ReportSent DEF Reports
    <2>3. \A f \in Egresses :
             /\ report'[f]["ACTIVE"] =
                   IF f = e /\ r = "ACTIVE" THEN "sent" ELSE report[f]["ACTIVE"]
             /\ report'[f]["COMPLETE"] =
                   IF f = e /\ r = "COMPLETE" THEN "sent" ELSE report[f]["COMPLETE"]
             /\ report'[f]["FAILED"] =
                   IF f = e /\ r = "FAILED" THEN "sent" ELSE report[f]["FAILED"]
      BY <2>2 DEF Reports
    <2>4. /\ report[e]["COMPLETE"] = "none"
          /\ report[e]["FAILED"] = "none"
          /\ webhooks[e].ended = 0
      BY <1>d DEF ReportsInStep
    <2>5. ReportsInStep'
      BY <1>d, <2>1, <2>3, <2>4 DEF ReportsInStep
    <2>6. EndedOnce'
      BY <1>d, <2>3, <2>4 DEF EndedOnce
    <2>7. QED
      BY Zenon, <2>5, <2>6
  <1>1. ASSUME NEW e \in Egresses,
               \/ StartRequest(e) \/ StartReturns(e) \/ StoreStarted(e)
               \/ Reserve(e) \/ RegisterFails(e) \/ RoomClient(e)
        PROVE  (ReportsInStep /\ EndedOnce)'
    <2>1. UNCHANGED <<jobPc, report, webhooks>>
      BY Zenon, <1>1 DEF StartRequest, StartReturns, StoreStarted, Reserve,
         RegisterFails, RoomClient, FirstOffer, Disconnected, TracksEnd,
         recorderVars, ioVars
    <2>2. QED
      BY Zenon, <1>b, <2>1
  <1>2. ASSUME NEW e \in Egresses, Admit(e)
        PROVE  (ReportsInStep /\ EndedOnce)'
    <2>1. UNCHANGED <<jobPc, webhooks>>
      BY Zenon, <1>2 DEF Admit, ioVars
    <2>2. Send(e, "CreateEgress") \/ UNCHANGED report
      BY Zenon, <1>2 DEF Admit
    <2>3. \A f \in Egresses :
             /\ report'[f]["ACTIVE"] = report[f]["ACTIVE"]
             /\ report'[f]["COMPLETE"] = report[f]["COMPLETE"]
             /\ report'[f]["FAILED"] = report[f]["FAILED"]
      BY <2>2, ReportSent DEF Reports
    <2>4. QED
      BY Zenon, <1>b, <2>1, <2>3
  <1>3. ASSUME NEW e \in Egresses, RegisterTopic(e)
        PROVE  (ReportsInStep /\ EndedOnce)'
    <2>1. handlerPc[e] = "register" /\ UNCHANGED <<report, webhooks>>
          /\ jobPc' = [jobPc EXCEPT ![e] = "connect"]
      BY Zenon, <1>3 DEF RegisterTopic, ioVars
    <2>2. jobPc[e] = "none"
      BY <2>1 DEF FramesInStep
    <2>3. /\ report[e]["ACTIVE"] = "none"
          /\ report[e]["COMPLETE"] = "none"
          /\ report[e]["FAILED"] = "none"
      BY <2>2 DEF ReportsInStep
    <2>4. QED
      BY Zenon, <1>c, <2>1, <2>3
  <1>4. ASSUME NEW e \in Egresses, Connect(e) \/ Upload(e) \/ RecordingFails(e)
        PROVE  (ReportsInStep /\ EndedOnce)'
    <2>1. /\ jobPc[e] \in {"connect", "recording", "upload"}
          /\ UNCHANGED webhooks
          /\ \/ jobPc' = [jobPc EXCEPT ![e] = "active"] /\ Send(e, "ACTIVE")
             \/ jobPc' = [jobPc EXCEPT ![e] = "complete"] /\ Send(e, "COMPLETE")
             \/ jobPc' = [jobPc EXCEPT ![e] = "failed"] /\ Send(e, "FAILED")
      BY Zenon, <1>4 DEF Connect, Upload, RecordingFails, Fail, ioVars
    <2>2. QED
      BY Zenon, <1>d, <2>1
  <1>5. ASSUME NEW e \in Egresses,
               \/ StartRecording(e) \/ Cancelled(e) \/ StreamEnds(e)
        PROVE  (ReportsInStep /\ EndedOnce)'
    <2>1. PICK pc \in {"recording", "upload"} :
             /\ jobPc[e] \in {"active", "recording"}
             /\ jobPc' = [jobPc EXCEPT ![e] = pc]
             /\ UNCHANGED <<report, webhooks>>
      BY Zenon, <1>5 DEF StartRecording, Cancelled, StreamEnds, ioVars
    <2>2. report[e]["COMPLETE"] = "none" /\ report[e]["FAILED"] = "none"
      BY <2>1 DEF ReportsInStep
    <2>3. pc \notin {"none", "connect"}
      BY <2>1
    <2>4. QED
      BY Zenon, <1>c, <2>1, <2>2, <2>3
  <1>6. ASSUME NEW e \in Egresses, Finish(e) \/ AbortTopic(e)
        PROVE  (ReportsInStep /\ EndedOnce)'
    <2>1. PICK pc \in {"abort", "done"} :
             /\ jobPc' = [jobPc EXCEPT ![e] = pc]
             /\ UNCHANGED <<report, webhooks>>
      BY Zenon, <1>6 DEF Finish, AbortTopic, ioVars
    <2>2. /\ pc \notin {"none", "connect"}
          /\ pc \in {"complete", "abort", "done"}
          /\ pc \in {"failed", "abort", "done"}
      BY <2>1
    <2>3. QED
      BY Zenon, <1>c, <2>1, <2>2
  <1>7. ASSUME NEW e \in Egresses, LoadEgress(e)
        PROVE  (ReportsInStep /\ EndedOnce)'
    <2>1. UNCHANGED <<jobPc, webhooks>>
      BY Zenon, <1>7 DEF LoadEgress, recorderVars, ioVars
    <2>2. \A f \in Egresses :
             /\ report'[f]["ACTIVE"] = report[f]["ACTIVE"]
             /\ report'[f]["COMPLETE"] = report[f]["COMPLETE"]
             /\ report'[f]["FAILED"] = report[f]["FAILED"]
      BY <1>7 DEF LoadEgress, TypeOK, Reports
    <2>3. QED
      BY Zenon, <1>b, <2>1, <2>2
  <1>8. ASSUME NEW e \in Egresses, CreateEgress(e)
        PROVE  (ReportsInStep /\ EndedOnce)'
    <2>1. UNCHANGED jobPc /\ Handled(e, "CreateEgress") /\ Hand(e, "started")
      BY Zenon, <1>8 DEF CreateEgress, recorderVars
    <2>2. \A f \in Egresses : webhooks'[f].ended = webhooks[f].ended
      BY <2>1, WebhookHanded
    <2>3. \A f \in Egresses :
             /\ report'[f]["ACTIVE"] = report[f]["ACTIVE"]
             /\ report'[f]["COMPLETE"] = report[f]["COMPLETE"]
             /\ report'[f]["FAILED"] = report[f]["FAILED"]
      BY <2>1, ReportHandled DEF Reports
    <2>4. QED
      BY Zenon, <1>b, <2>1, <2>2, <2>3
  <1>9. ASSUME NEW e \in Egresses,
               \/ StopRequest(e) \/ StopReturns(e) \/ StoreStopped(e)
               \/ SignalStop(e) \/ ReplyStop(e)
        PROVE  (ReportsInStep /\ EndedOnce)'
    <2>1. UNCHANGED <<jobPc, report, webhooks>>
      BY Zenon, <1>9 DEF StopRequest, StopReturns, StoreStopped, SignalStop,
         ReplyStop, recorderVars, ioVars
    <2>2. QED
      BY Zenon, <1>b, <2>1
  <1>10. ASSUME NEW n \in Nodes, NEW e \in Egresses,
                NEW status \in Reports \ {"CreateEgress"}, UpdateEgress(n, e, status)
         PROVE  (ReportsInStep /\ EndedOnce)'
    <2>1. /\ report[e][status] = "sent"
          /\ UNCHANGED jobPc
          /\ Handled(e, status)
          /\ \/ webhooks' = webhooks
             \/ Hand(e, "updated")
             \/ status \in Terminal /\ Hand(e, "ended")
      BY Zenon, <1>10 DEF UpdateEgress, recorderVars, ioVars
    <2>2. status \in {"ACTIVE", "COMPLETE", "FAILED"}
      BY DEF Reports
    <2>3. \A f \in Egresses, q \in Reports :
             report'[f][q] = IF f = e /\ q = status THEN "handled" ELSE report[f][q]
      BY <2>1, ReportHandled
    <2>4. \A f \in Egresses :
             /\ report'[f]["ACTIVE"] =
                   IF f = e /\ status = "ACTIVE" THEN "handled" ELSE report[f]["ACTIVE"]
             /\ report'[f]["COMPLETE"] =
                   IF f = e /\ status = "COMPLETE" THEN "handled" ELSE report[f]["COMPLETE"]
             /\ report'[f]["FAILED"] =
                   IF f = e /\ status = "FAILED" THEN "handled" ELSE report[f]["FAILED"]
      BY <2>3 DEF Reports
    <2>5. \A f \in Egresses :
             \/ webhooks'[f].ended = webhooks[f].ended
             \/ /\ f = e
                /\ status \in {"COMPLETE", "FAILED"}
                /\ webhooks'[f].ended = webhooks[f].ended + 1
      BY <2>1, WebhookHanded DEF Terminal
    <2>6. status \in {"COMPLETE", "FAILED"} => webhooks[e].ended = 0
      BY <2>1 DEF ReportsInStep, EndedOnce
    <2>7. ReportsInStep'
      BY <2>1, <2>2, <2>4, <2>5 DEF ReportsInStep
    <2>8. EndedOnce'
      BY <2>1, <2>2, <2>4, <2>5, <2>6 DEF EndedOnce
    <2>9. QED
      BY Zenon, <2>7, <2>8
  <1>11. CASE UNCHANGED vars
    BY Zenon, <1>b, <1>11 DEF vars, recorderVars, ioVars
  <1>12. QED
    BY Zenon, EgressAssumption, <1>1, <1>2, <1>3, <1>4, <1>5, <1>6, <1>7, <1>8, <1>9,
       <1>10, <1>11
    DEF Next, RunOne

\* Nobody stores an egress before its CreateEgress is handled, until the recorder
\* has replied.
LEMMA StartedStep ==
    /\ TypeOK
    /\ FramesInStep
    /\ ReportsInStep
    /\ StoredByCreate
    /\ StartedReported
    /\ [Next]_vars
    => (StoredByCreate /\ StartedReported)'
  <1> SUFFICES ASSUME TypeOK, FramesInStep, ReportsInStep, StoredByCreate,
                  StartedReported, [Next]_vars
               PROVE  (StoredByCreate /\ StartedReported)'
    OBVIOUS
  <1> USE DEF StoredByCreate, StartedReported, Reports
  <1>a. /\ DOMAIN handlerPc = Egresses
        /\ report \in [Egresses -> [Reports -> {"none", "sent", "loaded", "handled"}]]
        /\ store \in [Egresses -> Statuses]
        /\ webhooks \in [Egresses -> [started : Nat, updated : Nat, ended : Nat]]
    BY DEF TypeOK, Statuses
  <1> USE <1>a
  <1>1. ASSUME NEW e \in Egresses,
               \/ StartReturns(e) \/ RoomClient(e) \/ StartRecording(e)
               \/ Cancelled(e) \/ StreamEnds(e) \/ Finish(e)
               \/ AbortTopic(e)
        PROVE  (StoredByCreate /\ StartedReported)'
    BY SMTT(30), <1>1 DEF StartReturns, RoomClient, FirstOffer, Disconnected,
           TracksEnd, StartRecording, Cancelled,
           StreamEnds, Finish, AbortTopic, serviceVars, recorderVars, ioVars
  <1>2. ASSUME NEW e \in Egresses, StartRequest(e)
        PROVE  (StoredByCreate /\ StartedReported)'
    <2>1. handlerPc[e] = "none" /\ UNCHANGED <<report, store, webhooks>>
      BY Zenon, <1>2 DEF StartRequest, FramesInStep, ioVars
    <2>2. handlerPc' = [handlerPc EXCEPT ![e] = "called"]
      BY <1>2 DEF StartRequest
    <2>3. QED
      BY <2>1, <2>2
  <1>3. ASSUME NEW e \in Egresses, StoreStarted(e)
        PROVE  (StoredByCreate /\ StartedReported)'
    <2>1. handlerPc[e] = "replied" /\ UNCHANGED <<handlerPc, report, webhooks>>
      BY SMTT(30), <1>3 DEF StoreStarted, FramesInStep, recorderVars, ioVars
    <2>2. store' = [store EXCEPT ![e] = "STARTING"]
      BY <1>3 DEF StoreStarted
    <2>3. QED
      BY <2>1, <2>2
  <1>4. ASSUME NEW e \in Egresses, Admit(e)
        PROVE  (StoredByCreate /\ StartedReported)'
    <2>1. handlerPc[e] = "called" /\ UNCHANGED <<store, webhooks>>
      BY <1>4 DEF Admit, ioVars
    <2>2. \/ /\ handlerPc' = [handlerPc EXCEPT ![e] = "create"]
             /\ \A f \in Egresses :
                   report'[f]["CreateEgress"] = IF f = e THEN "sent" ELSE report[f]["CreateEgress"]
          \/ /\ handlerPc' = [handlerPc EXCEPT ![e] = "refused"]
             /\ UNCHANGED report
      BY <1>4, ReportSent DEF Admit
    <2>3. QED
      BY <2>1, <2>2
  <1>5. ASSUME NEW e \in Egresses, Reserve(e)
        PROVE  (StoredByCreate /\ StartedReported)'
    BY <1>5 DEF Reserve, serviceVars, recorderVars, ioVars
  <1>6. ASSUME NEW e \in Egresses, RegisterTopic(e)
        PROVE  (StoredByCreate /\ StartedReported)'
    BY <1>6 DEF RegisterTopic, serviceVars, recorderVars, ioVars
  <1>7. ASSUME NEW e \in Egresses, RegisterFails(e)
        PROVE  (StoredByCreate /\ StartedReported)'
    BY <1>7 DEF RegisterFails, serviceVars, recorderVars, ioVars
  <1>8. ASSUME NEW e \in Egresses, Connect(e)
        PROVE  (StoredByCreate /\ StartedReported)'
    <2>1. UNCHANGED <<handlerPc, store, webhooks>>
      BY <1>8 DEF Connect, ioVars
    <2>2. \A f \in Egresses : report'[f]["CreateEgress"] = report[f]["CreateEgress"]
      BY <1>8, ReportSent DEF Connect, Fail
    <2>3. QED
      BY <2>1, <2>2
  <1>9. ASSUME NEW e \in Egresses, Upload(e)
        PROVE  (StoredByCreate /\ StartedReported)'
    <2>1. UNCHANGED <<handlerPc, store, webhooks>>
      BY <1>9 DEF Upload, ioVars
    <2>2. \A f \in Egresses : report'[f]["CreateEgress"] = report[f]["CreateEgress"]
      BY <1>9, ReportSent DEF Upload, Fail
    <2>3. QED
      BY <2>1, <2>2
  <1>10. ASSUME NEW e \in Egresses, RecordingFails(e)
        PROVE  (StoredByCreate /\ StartedReported)'
    <2>1. UNCHANGED <<handlerPc, store, webhooks>>
      BY <1>10 DEF RecordingFails, ioVars
    <2>2. \A f \in Egresses : report'[f]["CreateEgress"] = report[f]["CreateEgress"]
      BY <1>10, ReportSent DEF RecordingFails, Fail
    <2>3. QED
      BY <2>1, <2>2
  <1>11. ASSUME NEW e \in Egresses, LoadEgress(e)
        PROVE  (StoredByCreate /\ StartedReported)'
    <2>1. report[e]["CreateEgress"] = "sent" /\ UNCHANGED <<handlerPc, store, webhooks>>
      BY <1>11 DEF LoadEgress, recorderVars, ioVars
    <2>2. \A f \in Egresses :
             report'[f]["CreateEgress"] = IF f = e THEN 
                 (IF store[e] # "None" THEN "handled" ELSE "loaded") ELSE report[f]["CreateEgress"]
      BY <1>11 DEF LoadEgress
    <2>3. QED
      BY SMTT(30), <2>1, <2>2
  <1>12. ASSUME NEW e \in Egresses, CreateEgress(e)
        PROVE  (StoredByCreate /\ StartedReported)'
    <2>1. report[e]["CreateEgress"] = "loaded" /\ UNCHANGED handlerPc
      BY <1>12 DEF CreateEgress, recorderVars
    <2>2. store' = [store EXCEPT ![e] = "STARTING"]
      BY <1>12 DEF CreateEgress
    <2>3. \A f \in Egresses :
             report'[f]["CreateEgress"] = IF f = e THEN "handled" ELSE report[f]["CreateEgress"]
      BY <1>12, ReportHandled DEF CreateEgress
    <2>4. \A f \in Egresses :
             webhooks'[f].started = IF f = e THEN webhooks[f].started + 1 ELSE webhooks[f].started
      BY <1>12, WebhookHanded DEF CreateEgress
    <2>5. QED
      BY SMTT(30), <2>1, <2>2, <2>3, <2>4
  <1>13. ASSUME NEW e \in Egresses,
               \/ StopRequest(e) \/ StopReturns(e) \/ SignalStop(e)
               \/ ReplyStop(e)
        PROVE  (StoredByCreate /\ StartedReported)'
    <2>1. UNCHANGED <<handlerPc, report, store, webhooks>>
      BY Zenon, <1>13 DEF StopRequest, StopReturns, SignalStop, ReplyStop,
         serviceVars, recorderVars, ioVars
    <2>2. QED
      BY <2>1
  <1>14. ASSUME NEW e \in Egresses, StoreStopped(e)
        PROVE  (StoredByCreate /\ StartedReported)'
    <2>1. handlerPc[e] = "replied" /\ UNCHANGED <<handlerPc, report, webhooks>>
      BY Zenon, <1>14 DEF StoreStopped, FramesInStep, recorderVars, ioVars
    <2>2. store' = [store EXCEPT ![e] = stopReply[e]]
      BY <1>14 DEF StoreStopped
    <2>3. QED
      BY <2>1, <2>2
  <1>15. ASSUME NEW n \in Nodes, NEW e \in Egresses,
               NEW status \in Reports \ {"CreateEgress"}, UpdateEgress(n, e, status)
        PROVE  (StoredByCreate /\ StartedReported)'
    <2>1. handlerPc[e] = "replied" /\ UNCHANGED handlerPc
      BY Zenon, <1>15 DEF UpdateEgress, FramesInStep, ReportsInStep, recorderVars
    <2>2. store' = [store EXCEPT ![e] = status]
      BY <1>15 DEF UpdateEgress
    <2>3. \A f \in Egresses : report'[f]["CreateEgress"] = report[f]["CreateEgress"]
      BY <1>15, ReportHandled DEF UpdateEgress
    <2>4. \A f \in Egresses : webhooks'[f].started = webhooks[f].started
      BY <1>15, WebhookHanded DEF UpdateEgress, ioVars
    <2>5. QED
      BY <2>1, <2>2, <2>3, <2>4
  <1>16. CASE UNCHANGED vars
    BY <1>16 DEF vars, serviceVars, recorderVars, ioVars
  <1>17. QED
    BY Zenon, EgressAssumption, <1>1, <1>2, <1>3, <1>4, <1>5, <1>6,
           <1>7, <1>8, <1>9, <1>10, <1>11, <1>12, <1>13, <1>14, <1>15, <1>16
       DEF Next, RunOne

-----------------------------------------------------------------------------

LEMMA EgressInvHolds == Spec => []EgressInv
  <1>1. Init => EgressInv
    BY DEF Init, EgressInv, TypeOK, FramesInStep, EachPlaced,
           ReportsInStep, EndedOnce, StoredByCreate, StartedReported, Statuses,
           Reports, Terminal, Running, Streams
  <1>2. EgressInv /\ [Next]_vars => EgressInv'
    BY TypeStep, FramesStep, PlaceStep, EndedStep, StartedStep DEF EgressInv
  <1>3. QED
    BY <1>1, <1>2, PTL DEF Spec

\* The types of the model.
THEOREM TypeCorrect == Spec => []TypeOK
  BY EgressInvHolds, PTL DEF EgressInv

\* The recorder's `active` is exactly the recordings that are spawned or about to be
\* and whose last report has not returned, with those whose register_topic failed;
\* `infos` says which of them ended, and StopHandler never answers without an info.
THEOREM PlacesKept == Spec => []PlacesAccounted
  <1>1. EachPlaced => PlacesAccounted
    BY DEF EachPlaced, PlacesAccounted
  <1>2. QED
    BY <1>1, EgressInvHolds, PTL DEF EgressInv

\* The task around run_one reports COMPLETE or FAILED and not both, and
\* EgressIoHandlers hands egress_ended over at most once, on however many nodes.
THEOREM EndsOnce == Spec => []EndedOnce
  BY EgressInvHolds, PTL DEF EgressInv

\* egress_started is handed over at most once, and it was if CreateEgress was
\* handled while the recorder's StartEgress handler waited for it.
THEOREM StartsReported == Spec => []StartedReported
  BY EgressInvHolds, PTL DEF EgressInv

-----------------------------------------------------------------------------
(* The calls between the service, the recorder and IOInfo, seen as those of Rpc *)

\* What the caller of a recorder's handler was told; an error it replies is dealt
\* with as a timeout is.
Told(pc) ==
    CASE pc \in {"idle", "calling"} -> "none"
      [] pc \in {"store", "done"}   -> "response"
      [] OTHER                      -> "timeout"

Ran(ran, s) == IF ran THEN <<s>> ELSE <<>>

StartCalls == INSTANCE Rpc WITH
    Requests <- Egresses,
    Servers  <- {"EgressInternal"},
    called   <- {e \in Egresses : handlerPc[e] # "none"},
    runs     <- [e \in Egresses |->
                    Ran(handlerPc[e] \notin {"none", "called"}, "EgressInternal")],
    result   <- [e \in Egresses |-> Told(startPc[e])]

\* A StopEgress that is refused by what is stored makes no call.
StopCalls == INSTANCE Rpc WITH
    Requests <- Egresses,
    Servers  <- {"EgressHandler"},
    called   <- {e \in Egresses : stopHandler[e] # "none"},
    runs     <- [e \in Egresses |->
                    Ran(stopHandler[e] \notin {"none", "called"}, "EgressHandler")],
    result   <- [e \in Egresses |->
                    IF stopHandler[e] = "none" THEN "none" ELSE Told(stopPc[e])]

\* The recorder looks at no result of a report.
ReportCalls == INSTANCE Rpc WITH
    Requests <- Egresses \X Reports,
    Servers  <- {"IOInfo"},
    called   <- {q \in Egresses \X Reports : report[q[1]][q[2]] # "none"},
    runs     <- [q \in Egresses \X Reports |->
                    Ran(report[q[1]][q[2]] \notin {"none", "sent"}, "IOInfo")],
    result   <- [q \in Egresses \X Reports |-> "none"]

\* The StartEgress calls, step by step.
LEMMA StartStep ==
    ASSUME TypeOK, FramesInStep, [Next]_vars
    PROVE  [StartCalls!Next]_StartCalls!rpcVars
  <1> DEFINE called == {e \in Egresses : handlerPc[e] # "none"}
             runs == [e \in Egresses |->
                         Ran(handlerPc[e] \notin {"none", "called"}, "EgressInternal")]
             result == [e \in Egresses |-> Told(startPc[e])]
  <1>t. /\ startPc \in [Egresses -> {"idle", "calling", "store", "done", "failed"}]
        /\ handlerPc \in [Egresses -> {"none", "called", "create", "register",
                                       "replied", "refused", "failed"}]
    BY DEF TypeOK
  <1>1. ASSUME UNCHANGED <<startPc, handlerPc>>
        PROVE  UNCHANGED StartCalls!rpcVars
    BY <1>1 DEF StartCalls!rpcVars
  <1>2. ASSUME NEW e \in Egresses, StartRequest(e)
        PROVE  StartCalls!Call(e)
    <2>1. /\ handlerPc[e] = "none"
          /\ startPc[e] = "idle"
          /\ startPc' = [startPc EXCEPT ![e] = "calling"]
          /\ handlerPc' = [handlerPc EXCEPT ![e] = "called"]
      BY Zenon, <1>2 DEF StartRequest, FramesInStep
    <2>2. e \notin called /\ called' = called \cup {e}
      BY <1>t, <2>1
    <2>3. UNCHANGED runs
      BY <1>t, <2>1
    <2>4. UNCHANGED result
      BY <1>t, <2>1 DEF Told
    <2>5. QED
      BY <2>2, <2>3, <2>4 DEF StartCalls!Call
  <1>3. ASSUME NEW e \in Egresses, StartReturns(e)
        PROVE  \E x \in {"response", "timeout", "bus"} : StartCalls!Return(e, x)
    <2>1. /\ startPc[e] = "calling"
          /\ handlerPc' = handlerPc
          /\ \/ handlerPc[e] = "replied" /\ startPc' = [startPc EXCEPT ![e] = "store"]
             \/ startPc' = [startPc EXCEPT ![e] = "failed"]
      BY Zenon, <1>3 DEF StartReturns, recorderVars
    <2>2. e \in called /\ UNCHANGED <<called, runs>>
      BY <1>t, <2>1 DEF FramesInStep
    <2>3. result[e] = "none"
      BY <2>1 DEF Told
    <2>4. CASE handlerPc[e] = "replied" /\ startPc' = [startPc EXCEPT ![e] = "store"]
      <3>1. runs[e] # <<>>
        BY <2>4 DEF Ran
      <3>2. result' = [result EXCEPT ![e] = "response"]
        BY <1>t, <2>4 DEF Told
      <3>3. QED
        BY <2>2, <2>3, <3>1, <3>2 DEF StartCalls!Return
    <2>5. CASE startPc' = [startPc EXCEPT ![e] = "failed"]
      <3>1. result' = [result EXCEPT ![e] = "timeout"]
        BY <1>t, <2>5 DEF Told
      <3>2. QED
        BY <2>2, <2>3, <3>1 DEF StartCalls!Return
    <2>6. QED
      BY <2>1, <2>4, <2>5
  <1>4. ASSUME NEW e \in Egresses, StoreStarted(e)
        PROVE  UNCHANGED StartCalls!rpcVars
    <2>1. /\ startPc[e] = "store"
          /\ startPc' = [startPc EXCEPT ![e] = "done"]
          /\ handlerPc' = handlerPc
      BY Zenon, <1>4 DEF StoreStarted, recorderVars
    <2>2. UNCHANGED result
      BY <1>t, <2>1 DEF Told
    <2>3. QED
      BY <2>1, <2>2 DEF StartCalls!rpcVars
  <1>5. ASSUME NEW e \in Egresses, Admit(e)
        PROVE  StartCalls!Run(e, "EgressInternal")
    <2>1. /\ handlerPc[e] = "called"
          /\ \E pc \in {"create", "refused"} : handlerPc' = [handlerPc EXCEPT ![e] = pc]
          /\ startPc' = startPc
      BY Zenon, <1>5 DEF Admit, serviceVars
    <2>2. e \in called /\ UNCHANGED <<called, result>>
      BY <1>t, <2>1
    <2>3. runs[e] = <<>> /\ runs' = [runs EXCEPT ![e] = <<"EgressInternal">>]
      BY <1>t, <2>1 DEF Ran
    <2>4. QED
      BY <2>2, <2>3 DEF StartCalls!Run
  <1>6. ASSUME NEW e \in Egresses, Reserve(e) \/ RegisterTopic(e) \/ RegisterFails(e)
        PROVE  UNCHANGED StartCalls!rpcVars
    <2>1. /\ handlerPc[e] \in {"create", "register"}
          /\ \E pc \in {"register", "replied", "failed"} :
                handlerPc' = [handlerPc EXCEPT ![e] = pc]
          /\ startPc' = startPc
      BY Zenon, <1>6 DEF Reserve, RegisterTopic, RegisterFails, serviceVars
    <2>2. UNCHANGED called
      BY <1>t, <2>1
    <2>3. UNCHANGED runs
      BY <1>t, <2>1
    <2>4. QED
      BY <2>1, <2>2, <2>3 DEF StartCalls!rpcVars
  <1>7. ASSUME NEW e \in Egresses, RunOne(e) \/ RoomClient(e)
        PROVE  UNCHANGED <<startPc, handlerPc>>
    BY Zenon, <1>7 DEF RunOne, Connect, StartRecording, Cancelled, StreamEnds, Upload,
       Finish, AbortTopic, RecordingFails, RoomClient, FirstOffer, Disconnected,
       TracksEnd, serviceVars
  <1>8. ASSUME NEW e \in Egresses, LoadEgress(e) \/ CreateEgress(e)
        PROVE  UNCHANGED <<startPc, handlerPc>>
    BY Zenon, <1>8 DEF LoadEgress, CreateEgress, serviceVars, recorderVars
  <1>9. ASSUME NEW e \in Stopped,
               \/ StopRequest(e) \/ StopReturns(e) \/ StoreStopped(e)
               \/ SignalStop(e) \/ ReplyStop(e)
        PROVE  UNCHANGED <<startPc, handlerPc>>
    BY Zenon, <1>9 DEF StopRequest, StopReturns, StoreStopped, SignalStop, ReplyStop,
       serviceVars, recorderVars
  <1>10. ASSUME NEW n \in Nodes, NEW e \in Egresses,
                NEW status \in Reports \ {"CreateEgress"}, UpdateEgress(n, e, status)
         PROVE  UNCHANGED <<startPc, handlerPc>>
    BY Zenon, <1>10 DEF UpdateEgress, serviceVars, recorderVars
  <1>11. CASE UNCHANGED vars
    BY Zenon, <1>1, <1>11 DEF vars, serviceVars, recorderVars
  <1>12. CASE Next
    BY Zenon, <1>1, <1>2, <1>3, <1>4, <1>5, <1>6, <1>7, <1>8, <1>9, <1>10, <1>12
    DEF Next, StartCalls!Next
  <1>13. QED
    BY <1>11, <1>12

\* The StopEgress calls, step by step.
LEMMA StopStep ==
    ASSUME TypeOK, FramesInStep, [Next]_vars
    PROVE  [StopCalls!Next]_StopCalls!rpcVars
  <1> DEFINE called == {e \in Egresses : stopHandler[e] # "none"}
             runs == [e \in Egresses |->
                         Ran(stopHandler[e] \notin {"none", "called"}, "EgressHandler")]
             result == [e \in Egresses |->
                           IF stopHandler[e] = "none" THEN "none" ELSE Told(stopPc[e])]
  <1>t. /\ stopPc \in [Egresses -> {"idle", "calling", "store", "done", "failed"}]
        /\ stopHandler \in [Egresses -> {"none", "called", "signalled", "replied"}]
    BY DEF TypeOK
  <1>1. ASSUME UNCHANGED <<stopPc, stopHandler>>
        PROVE  UNCHANGED StopCalls!rpcVars
    BY <1>1 DEF StopCalls!rpcVars
  <1>2. ASSUME NEW e \in Egresses, StopRequest(e)
        PROVE  StopCalls!Call(e) \/ UNCHANGED StopCalls!rpcVars
    <2>1. /\ stopHandler[e] = "none"
          /\ stopPc[e] = "idle"
          /\ \/ /\ stopPc' = [stopPc EXCEPT ![e] = "calling"]
                /\ stopHandler' = [stopHandler EXCEPT ![e] = "called"]
             \/ /\ stopPc' = [stopPc EXCEPT ![e] = "failed"]
                /\ stopHandler' = stopHandler
      BY Zenon, <1>2 DEF StopRequest, FramesInStep
    <2>2. CASE /\ stopPc' = [stopPc EXCEPT ![e] = "calling"]
               /\ stopHandler' = [stopHandler EXCEPT ![e] = "called"]
      <3>1. e \notin called /\ called' = called \cup {e}
        BY <1>t, <2>1, <2>2
      <3>2. UNCHANGED runs
        BY <1>t, <2>1, <2>2
      <3>3. UNCHANGED result
        BY <1>t, <2>1, <2>2 DEF Told
      <3>4. QED
        BY <3>1, <3>2, <3>3 DEF StopCalls!Call
    <2>3. CASE /\ stopPc' = [stopPc EXCEPT ![e] = "failed"]
               /\ stopHandler' = stopHandler
      <3>1. UNCHANGED result
        BY <1>t, <2>1, <2>3
      <3>2. QED
        BY <2>3, <3>1 DEF StopCalls!rpcVars
    <2>4. QED
      BY <2>1, <2>2, <2>3
  <1>3. ASSUME NEW e \in Egresses, StopReturns(e)
        PROVE  \E x \in {"response", "timeout", "bus"} : StopCalls!Return(e, x)
    <2>1. /\ stopPc[e] = "calling"
          /\ stopHandler' = stopHandler
          /\ \/ stopHandler[e] = "replied" /\ stopPc' = [stopPc EXCEPT ![e] = "store"]
             \/ stopPc' = [stopPc EXCEPT ![e] = "failed"]
      BY Zenon, <1>3 DEF StopReturns, recorderVars
    <2>2. stopHandler[e] # "none"
      BY <2>1 DEF FramesInStep
    <2>3. e \in called /\ UNCHANGED <<called, runs>>
      BY <2>1, <2>2
    <2>4. result[e] = "none"
      BY <2>1 DEF Told
    <2>5. CASE stopHandler[e] = "replied" /\ stopPc' = [stopPc EXCEPT ![e] = "store"]
      <3>1. runs[e] # <<>>
        BY <2>5 DEF Ran
      <3>2. result' = [result EXCEPT ![e] = "response"]
        BY <1>t, <2>1, <2>5 DEF Told
      <3>3. QED
        BY <2>3, <2>4, <3>1, <3>2 DEF StopCalls!Return
    <2>6. CASE stopPc' = [stopPc EXCEPT ![e] = "failed"]
      <3>1. result' = [result EXCEPT ![e] = "timeout"]
        BY <1>t, <2>1, <2>2, <2>6 DEF Told
      <3>2. QED
        BY <2>3, <2>4, <3>1 DEF StopCalls!Return
    <2>7. QED
      BY <2>1, <2>5, <2>6
  <1>4. ASSUME NEW e \in Egresses, StoreStopped(e)
        PROVE  UNCHANGED StopCalls!rpcVars
    <2>1. /\ stopPc[e] = "store"
          /\ stopPc' = [stopPc EXCEPT ![e] = "done"]
          /\ stopHandler' = stopHandler
      BY Zenon, <1>4 DEF StoreStopped, recorderVars
    <2>2. UNCHANGED result
      BY <1>t, <2>1 DEF Told
    <2>3. QED
      BY <2>1, <2>2 DEF StopCalls!rpcVars
  <1>5. ASSUME NEW e \in Egresses, SignalStop(e)
        PROVE  StopCalls!Run(e, "EgressHandler")
    <2>1. /\ stopHandler[e] = "called"
          /\ stopHandler' = [stopHandler EXCEPT ![e] = "signalled"]
          /\ stopPc' = stopPc
      BY Zenon, <1>5 DEF SignalStop, serviceVars
    <2>2. e \in called /\ UNCHANGED <<called, result>>
      BY <1>t, <2>1
    <2>3. runs[e] = <<>> /\ runs' = [runs EXCEPT ![e] = <<"EgressHandler">>]
      BY <1>t, <2>1 DEF Ran
    <2>4. QED
      BY <2>2, <2>3 DEF StopCalls!Run
  <1>6. ASSUME NEW e \in Egresses, ReplyStop(e)
        PROVE  UNCHANGED StopCalls!rpcVars
    <2>1. /\ stopHandler[e] = "signalled"
          /\ stopHandler' = [stopHandler EXCEPT ![e] = "replied"]
          /\ stopPc' = stopPc
      BY Zenon, <1>6 DEF ReplyStop
    <2>2. UNCHANGED <<called, result>>
      BY <1>t, <2>1
    <2>3. UNCHANGED runs
      BY <1>t, <2>1
    <2>4. QED
      BY <2>1, <2>2, <2>3 DEF StopCalls!rpcVars
  <1>7. ASSUME NEW e \in Egresses, RunOne(e) \/ RoomClient(e)
        PROVE  UNCHANGED <<stopPc, stopHandler>>
    BY Zenon, <1>7 DEF RunOne, Connect, StartRecording, Cancelled, StreamEnds, Upload,
       Finish, AbortTopic, RecordingFails, RoomClient, FirstOffer, Disconnected,
       TracksEnd, serviceVars
  <1>8. ASSUME NEW e \in Egresses, LoadEgress(e) \/ CreateEgress(e)
        PROVE  UNCHANGED <<stopPc, stopHandler>>
    BY Zenon, <1>8 DEF LoadEgress, CreateEgress, serviceVars, recorderVars
  <1>9. ASSUME NEW e \in Egresses,
               \/ StartRequest(e) \/ StartReturns(e) \/ StoreStarted(e) \/ Admit(e)
               \/ Reserve(e) \/ RegisterTopic(e) \/ RegisterFails(e)
        PROVE  UNCHANGED <<stopPc, stopHandler>>
    BY Zenon, <1>9 DEF StartRequest, StartReturns, StoreStarted, Admit, Reserve,
       RegisterTopic, RegisterFails, serviceVars, recorderVars
  <1>10. ASSUME NEW n \in Nodes, NEW e \in Egresses,
                NEW status \in Reports \ {"CreateEgress"}, UpdateEgress(n, e, status)
         PROVE  UNCHANGED <<stopPc, stopHandler>>
    BY Zenon, <1>10 DEF UpdateEgress, serviceVars, recorderVars
  <1>11. CASE UNCHANGED vars
    BY Zenon, <1>1, <1>11 DEF vars, serviceVars, recorderVars
  <1>12. CASE Next
    BY Zenon, EgressAssumption, <1>1, <1>2, <1>3, <1>4, <1>5, <1>6, <1>7, <1>8, <1>9,
       <1>10, <1>12
    DEF Next, StopCalls!Next
  <1>13. QED
    BY <1>11, <1>12

\* What a step that sends a report, or has one handled, is in Rpc.
LEMMA SendCalls ==
    ASSUME TypeOK, NEW e \in Egresses, NEW r \in Reports, report[e][r] = "none",
           Send(e, r)
    PROVE  ReportCalls!Call(<<e, r>>)
  <1> DEFINE q == <<e, r>>
             called == {p \in Egresses \X Reports : report[p[1]][p[2]] # "none"}
             runs == [p \in Egresses \X Reports |->
                         Ran(report[p[1]][p[2]] \notin {"none", "sent"}, "IOInfo")]
  <1>1. \A p \in Egresses \X Reports :
           report'[p[1]][p[2]] = IF p = q THEN "sent" ELSE report[p[1]][p[2]]
    BY ReportSent
  <1>2. q \in Egresses \X Reports /\ q[1] = e /\ q[2] = r
    OBVIOUS
  <1>3. q \notin called /\ called' = called \cup {q}
    BY <1>1, <1>2
  <1>4. UNCHANGED runs
    BY <1>1, <1>2
  <1>5. QED
    BY <1>3, <1>4 DEF ReportCalls!Call

LEMMA HandledRuns ==
    ASSUME TypeOK, NEW e \in Egresses, NEW r \in Reports, NEW to \in {"loaded", "handled"},
           report[e][r] \in {"sent", "loaded"},
           report' = [report EXCEPT ![e][r] = to]
    PROVE  /\ report[e][r] = "sent" => ReportCalls!Run(<<e, r>>, "IOInfo")
           /\ report[e][r] = "loaded" => UNCHANGED ReportCalls!rpcVars
  <1> DEFINE q == <<e, r>>
             called == {p \in Egresses \X Reports : report[p[1]][p[2]] # "none"}
             runs == [p \in Egresses \X Reports |->
                         Ran(report[p[1]][p[2]] \notin {"none", "sent"}, "IOInfo")]
  <1>1. \A f \in Egresses, s \in Reports :
           report'[f][s] = IF f = e /\ s = r THEN to ELSE report[f][s]
    BY DEF TypeOK
  <1>2. q \in Egresses \X Reports /\ q[1] = e /\ q[2] = r
    OBVIOUS
  <1>3. \A p \in Egresses \X Reports :
           report'[p[1]][p[2]] = IF p = q THEN to ELSE report[p[1]][p[2]]
    BY <1>1
  <1>4. q \in called /\ UNCHANGED called
    BY <1>2, <1>3
  <1>5. CASE report[e][r] = "sent"
    <2>1. runs[q] = <<>>
      BY <1>2, <1>5 DEF Ran
    <2>2. runs' = [runs EXCEPT ![q] = <<"IOInfo">>]
      <3>1. \A p \in Egresses \X Reports :
               runs'[p] = IF p = q THEN <<"IOInfo">> ELSE runs[p]
        BY <1>3 DEF Ran
      <3>2. QED
        BY Zenon, <1>2, <3>1
    <2>3. QED
      BY <1>4, <1>5, <2>1, <2>2 DEF ReportCalls!Run
  <1>6. CASE report[e][r] = "loaded"
    <2>1. UNCHANGED runs
      BY <1>2, <1>3, <1>6
    <2>2. QED
      BY <1>4, <1>6, <2>1 DEF ReportCalls!rpcVars
  <1>7. QED
    BY <1>5, <1>6

\* The reports, step by step.
LEMMA ReportStep ==
    ASSUME TypeOK, FramesInStep, ReportsInStep, StoredByCreate, [Next]_vars
    PROVE  [ReportCalls!Next]_ReportCalls!rpcVars
  <1>r. \A e \in Egresses, r \in Reports : <<e, r>> \in Egresses \X Reports
    OBVIOUS
  <1>1. ASSUME UNCHANGED report
        PROVE  UNCHANGED ReportCalls!rpcVars
    BY <1>1 DEF ReportCalls!rpcVars
  <1>2. ASSUME NEW e \in Egresses, NEW r \in Reports, report[e][r] = "none", Send(e, r)
        PROVE  ReportCalls!Next
    BY Zenon, <1>2, <1>r, SendCalls DEF ReportCalls!Next
  <1>3. ASSUME NEW e \in Egresses, NEW r \in Reports, NEW to \in {"loaded", "handled"},
               report[e][r] \in {"sent", "loaded"}, report' = [report EXCEPT ![e][r] = to]
        PROVE  ReportCalls!Next \/ UNCHANGED ReportCalls!rpcVars
    <2>1. CASE report[e][r] = "sent"
      <3>1. ReportCalls!Run(<<e, r>>, "IOInfo")
        BY <1>3, <2>1, HandledRuns
      <3>2. QED
        BY Zenon, <1>r, <3>1 DEF ReportCalls!Next
    <2>2. CASE report[e][r] = "loaded"
      BY <1>3, <2>2, HandledRuns
    <2>3. QED
      BY <1>3, <2>1, <2>2
  <1>4. ASSUME NEW e \in Egresses, Admit(e)
        PROVE  ReportCalls!Next \/ UNCHANGED ReportCalls!rpcVars
    <2>1. report[e]["CreateEgress"] = "none"
      BY Zenon, <1>4 DEF Admit, StoredByCreate
    <2>2. Send(e, "CreateEgress") \/ UNCHANGED report
      BY Zenon, <1>4 DEF Admit
    <2>3. QED
      BY <1>1, <1>2, <2>1, <2>2 DEF Reports
  <1>5. ASSUME NEW e \in Egresses, Connect(e) \/ RecordingFails(e) \/ Upload(e)
        PROVE  ReportCalls!Next
    <2>1. /\ jobPc[e] = "connect" => report[e]["ACTIVE"] = "none"
          /\ report[e]["COMPLETE"] = "none"
          /\ report[e]["FAILED"] = "none"
      BY <1>5 DEF ReportsInStep, Connect, RecordingFails, Upload
    <2>2. \E r \in {"ACTIVE", "COMPLETE", "FAILED"} :
             Send(e, r) /\ (r = "ACTIVE" => jobPc[e] = "connect")
      BY <1>5 DEF Connect, RecordingFails, Upload, Fail
    <2>3. QED
      BY <1>2, <2>1, <2>2 DEF Reports
  <1>6. ASSUME NEW e \in Egresses, LoadEgress(e)
        PROVE  ReportCalls!Next \/ UNCHANGED ReportCalls!rpcVars
    <2>1. PICK to \in {"loaded", "handled"} :
             /\ report[e]["CreateEgress"] = "sent"
             /\ report' = [report EXCEPT ![e]["CreateEgress"] = to]
      BY <1>6 DEF LoadEgress
    <2>2. QED
      BY <1>3, <2>1 DEF Reports
  <1>7. ASSUME NEW e \in Egresses, CreateEgress(e)
        PROVE  ReportCalls!Next \/ UNCHANGED ReportCalls!rpcVars
    <2>1. /\ report[e]["CreateEgress"] = "loaded"
          /\ report' = [report EXCEPT ![e]["CreateEgress"] = "handled"]
      BY Zenon, <1>7 DEF CreateEgress, Handled
    <2>2. QED
      BY <1>3, <2>1 DEF Reports
  <1>8. ASSUME NEW n \in Nodes, NEW e \in Egresses,
               NEW status \in Reports \ {"CreateEgress"}, UpdateEgress(n, e, status)
        PROVE  ReportCalls!Next \/ UNCHANGED ReportCalls!rpcVars
    <2>1. /\ report[e][status] = "sent"
          /\ report' = [report EXCEPT ![e][status] = "handled"]
      BY Zenon, <1>8 DEF UpdateEgress, Handled
    <2>2. QED
      BY <1>3, <2>1
  <1>9. ASSUME NEW e \in Egresses,
               \/ StartRequest(e) \/ StartReturns(e) \/ StoreStarted(e)
               \/ Reserve(e) \/ RegisterTopic(e) \/ RegisterFails(e)
        PROVE  UNCHANGED report
    BY Zenon, <1>9 DEF StartRequest, StartReturns, StoreStarted, Reserve, RegisterTopic,
       RegisterFails
  <1>10. ASSUME NEW e \in Egresses,
                \/ StopRequest(e) \/ StopReturns(e) \/ StoreStopped(e)
                \/ SignalStop(e) \/ ReplyStop(e)
         PROVE  UNCHANGED report
    BY Zenon, <1>10 DEF StopRequest, StopReturns, StoreStopped, SignalStop, ReplyStop
  <1>11. ASSUME NEW e \in Egresses,
                \/ StartRecording(e) \/ Cancelled(e) \/ StreamEnds(e)
                \/ Finish(e) \/ AbortTopic(e) \/ RoomClient(e)
         PROVE  UNCHANGED report
    BY Zenon, <1>11 DEF StartRecording, Cancelled, StreamEnds, Finish, AbortTopic,
       RoomClient, FirstOffer, Disconnected, TracksEnd
  <1>12. CASE UNCHANGED vars
    BY Zenon, <1>1, <1>12 DEF vars
  <1>13. CASE Next
    BY Zenon, EgressAssumption, <1>1, <1>4, <1>5, <1>6, <1>7, <1>8, <1>9, <1>10, <1>11,
       <1>13
    DEF Next, RunOne
  <1>14. QED
    BY <1>12, <1>13

\* The recorder and the services use the remote calls that Psrpc is shown to
\* implement: start_egress and StopEgress call once per egress, create_egress and
\* update_egress once per report; what is handled is handled once, perhaps after the
\* caller timed out, and the service stores a reply only if the recorder's handler ran.
THEOREM CallsAreRpc ==
    Spec => StartCalls!Spec /\ StopCalls!Spec /\ ReportCalls!Spec
  <1>1. Init => StartCalls!Init
    BY DEF Init, StartCalls!Init, Told, Ran
  <1>2. Init => StopCalls!Init
    BY DEF Init, StopCalls!Init, Ran
  <1>3. Init => ReportCalls!Init
    BY DEF Init, ReportCalls!Init, Ran
  <1>4. EgressInv /\ [Next]_vars => [StartCalls!Next]_StartCalls!rpcVars
    BY StartStep DEF EgressInv
  <1>5. EgressInv /\ [Next]_vars => [StopCalls!Next]_StopCalls!rpcVars
    BY StopStep DEF EgressInv
  <1>6. EgressInv /\ [Next]_vars => [ReportCalls!Next]_ReportCalls!rpcVars
    BY ReportStep DEF EgressInv
  <1>7. QED
    BY <1>1, <1>2, <1>3, <1>4, <1>5, <1>6, EgressInvHolds, PTL
    DEF Spec, StartCalls!Spec, StopCalls!Spec, ReportCalls!Spec

-----------------------------------------------------------------------------
(* Upload: what rec_spec resolves a request to *)

\* The destination of a request's recording.
DestOf(e) == DestinationOf(FileOf(reqOf[e]))

\* What the destination has to do with what was asked for.
Honours(dest, asked) ==
    /\ dest = Unsupported =>
          asked.provider = "alioss" \/ (asked # Local /\ asked.proxy)
    /\ dest # Unsupported =>
          /\ dest.provider = asked.provider
          /\ asked # Local =>
                /\ ~asked.proxy
                /\ dest.owner = asked.owner
                /\ asked.role \in {NoValue, dest.role}
                /\ asked.keys \in {NoValue, dest.keys}

LEMMA ResolveHonours ==
    ASSUME NEW target \in Targets
    PROVE  Honours(Resolve(target), target)
  <1>1. /\ target.provider \in {"s3", "gcp", "azure", "alioss"}
        /\ target # Local /\ target # Unsupported
        /\ Local # Unsupported
    BY DEF Targets, Local, Unsupported
  <1>2. CASE target.proxy \/ target.provider = "alioss"
    BY <1>1, <1>2 DEF Resolve, Honours
  <1>3. CASE ~target.proxy /\ target.provider \notin {"alioss", "s3"}
    BY <1>1, <1>3 DEF Resolve, Honours
  <1>4. CASE ~target.proxy /\ target.provider = "s3"
    <2> DEFINE dest == Resolve(target)
    <2>1. /\ dest.provider = "s3"
          /\ dest.owner = target.owner
          /\ target.role \in {NoValue, dest.role}
          /\ target.keys \in {NoValue, dest.keys}
      BY <1>4 DEF Resolve, Targets
    <2>2. dest # Unsupported /\ dest # Local
      BY <2>1 DEF Unsupported, Local
    <2>3. QED
      BY <1>1, <1>4, <2>1, <2>2 DEF Honours
  <1>5. QED
    BY <1>1, <1>2, <1>3, <1>4

\* The file output that counts is one of the request's.
LEMMA FileOfRequest ==
    ASSUME NEW req \in EgressReqs
    PROVE  FileOf(req) \in Outputs \cup {NoValue}
  BY UploadAssumption DEF FileOf, FirstOf

\* The destination is the first that is named: in the output, else in the section
\* that comes first.
LEMMA DestinationHonours ==
    ASSUME conf \in Confs, NEW req \in EgressReqs, ~LeftToRequest(req)
    PROVE  Honours(DestinationOf(FileOf(req)), Asked(req))
  <1> DEFINE file == FileOf(req)
             first == IF file = NoValue THEN NoValue ELSE file.target
             sections == <<conf.s3, conf.gcp, conf.azure, conf.alioss>>
             candidates == <<first, req.storage, conf.s3, conf.gcp, conf.azure,
                             conf.alioss>>
             set == {i \in 1 .. 4 : sections[i] # NoValue}
             named == {i \in 1 .. 6 : candidates[i] # NoValue}
  <1>1. first \in Targets \cup {NoValue}
    BY FileOfRequest DEF Outputs
  <1>2. /\ \A i \in 1 .. 4 : sections[i] \in Targets \cup {NoValue}
        /\ first = NoValue => req.storage = NoValue
    BY UploadAssumption DEF LeftToRequest
  <1>3. CASE first # NoValue
    <2>1. (CHOOSE i \in named : \A j \in named : i <= j) = 1
      BY <1>3
    <2>2. Asked(req) = first /\ DestinationOf(file) = Resolve(first)
      BY SMTT(30), <1>3, <2>1 DEF Asked, DestinationOf
    <2>3. QED
      BY <1>1, <1>3, <2>2, ResolveHonours
  <1>4. CASE first = NoValue /\ set = {}
    <2>1. named = {}
      BY <1>2, <1>4
    <2>2. Asked(req) = Local /\ DestinationOf(file) = Local
      BY <1>4, <2>1 DEF Asked, DestinationOf, ConfDefault
    <2>3. QED
      BY SMTT(30), <2>2 DEF Honours, Local, Unsupported
  <1>5. ASSUME first = NoValue, NEW k \in 1 .. 4, k \in set, \A j \in set : k <= j
        PROVE  Honours(DestinationOf(file), Asked(req))
    <2>1. (CHOOSE i \in set : \A j \in set : i <= j) = k
      BY <1>5
    <2>2. (CHOOSE i \in named : \A j \in named : i <= j) = k + 2
      BY <1>2, <1>5
    <2>3. Asked(req) = sections[k]
      BY SMTT(30), <1>5, <2>2 DEF Asked
    <2>4. DestinationOf(file) = Resolve(sections[k])
      BY <1>5, <2>1 DEF DestinationOf, ConfDefault
    <2>5. QED
      BY <1>2, <1>5, <2>3, <2>4, ResolveHonours
  <1>6. set # {} => \E k \in 1 .. 4 : k \in set /\ \A j \in set : k <= j
    OBVIOUS
  <1>7. QED
    BY Zenon, <1>3, <1>4, <1>5, <1>6

-----------------------------------------------------------------------------
(* Upload: the recordings *)

UploadTypeOK ==
    /\ conf \in Confs
    /\ reqOf \in [Recordings -> EgressReqs]
    /\ jobOf \in [Recordings -> {"none", "refused", "recording", "failed", "recorded",
                                 "silent", "uploaded", "reporting", "done"}]
    /\ DOMAIN spec = Recordings
    /\ files \subseteq Recordings
    /\ outcome \in [Recordings -> {"none", "FAILED", "COMPLETE"}]

\* A recording that was started has the spec that its request resolves to.
SpecsResolved ==
    \A e \in Recordings :
        /\ jobOf[e] = "refused" =>
              reqOf[e].kind = "web" \/ DestOf(e) = Unsupported
        /\ Started(e) => spec[e].dest = DestOf(e) /\ DestOf(e) # Unsupported

\* An object holds a recording that was started for that place.
ObjectsPlaced ==
    \A o \in DOMAIN objects :
        /\ objects[o] \in Recordings
        /\ Started(objects[o])
        /\ spec[objects[o]].dest # Local
        /\ PlaceOf(objects[o]) = o

\* The file is there until the upload is, and the upload from then on.
Stored(e) == spec[e].dest # Local /\ PlaceOf(e) \in DOMAIN objects

FilesUntilStored ==
    \A e \in Recordings :
        /\ jobOf[e] \in {"recorded", "uploaded"} => e \in files
        /\ jobOf[e] \in {"uploaded", "reporting"} =>
              Stored(e) \/ (spec[e].dest = Local /\ e \in files)
        /\ jobOf[e] = "done" => e \in files \/ Stored(e)
        /\ outcome[e] = "COMPLETE" =>
              /\ jobOf[e] = "done"
              /\ Stored(e) \/ (spec[e].dest = Local /\ e \in files)

UploadInv == UploadTypeOK /\ SpecsResolved /\ ObjectsPlaced /\ FilesUntilStored

\* The requests and the configuration stay, and nothing but StartEgress changes
\* where a recording goes.
LEMMA DestinationsFixed ==
    ASSUME UNCHANGED <<conf, reqOf>>
    PROVE  \A e \in Recordings : DestOf(e)' = DestOf(e)
  BY DEF DestOf, DestinationOf, ConfDefault, Resolve

LEMMA PlacesFixed ==
    ASSUME UNCHANGED <<conf, reqOf, spec>>
    PROVE  \A e \in Recordings : PlaceOf(e)' = PlaceOf(e) /\ DestOf(e)' = DestOf(e)
  BY DestinationsFixed DEF PlaceOf

LEMMA UploadStep == UploadInv /\ [UploadNext]_uploadVars => UploadInv'
  <1> SUFFICES ASSUME UploadInv, [UploadNext]_uploadVars PROVE UploadInv'
    OBVIOUS
  <1> USE DEF UploadInv, UploadTypeOK, Started
  <1>1. ASSUME NEW e \in Recordings, StartJob(e) PROVE UploadInv'
    <2>1. /\ jobOf[e] = "none" /\ UNCHANGED <<conf, reqOf, files, objects, outcome>>
          /\ \/ /\ reqOf[e].kind = "web" \/ DestOf(e) = Unsupported
                /\ jobOf' = [jobOf EXCEPT ![e] = "refused"]
                /\ UNCHANGED spec
             \/ /\ DestOf(e) # Unsupported
                /\ jobOf' = [jobOf EXCEPT ![e] = "recording"]
                /\ \E k : spec' = [spec EXCEPT ![e] = [dest |-> DestOf(e), key |-> k]]
      BY Zenon, <1>1 DEF StartJob, DestOf
    <2>2. \A f \in Recordings : DestOf(f)' = DestOf(f)
      BY <2>1, DestinationsFixed
    <2>3. UploadTypeOK'
      BY <2>1
    <2>4. \A f \in Recordings \ {e} : jobOf'[f] = jobOf[f] /\ spec'[f] = spec[f]
      BY <2>1
    <2>5. SpecsResolved'
      BY <2>1, <2>2, <2>4 DEF SpecsResolved
    <2>6. ObjectsPlaced'
      BY Zenon, <2>1, <2>4 DEF ObjectsPlaced, PlaceOf
    <2>7. FilesUntilStored'
      BY ZenonT(40), <2>1, <2>4 DEF FilesUntilStored, Stored, PlaceOf
    <2>8. QED
      BY <2>3, <2>5, <2>6, <2>7
  <1>2. ASSUME NEW e \in Recordings, RunFails(e) PROVE UploadInv'
    <2>1. UNCHANGED <<conf, reqOf, spec>>
      BY <1>2 DEF RunFails
    <2>2. \A f \in Recordings : PlaceOf(f)' = PlaceOf(f) /\ DestOf(f)' = DestOf(f)
      BY <2>1, PlacesFixed
    <2>3. UploadTypeOK'
      BY <1>2 DEF RunFails
    <2>4. SpecsResolved'
      BY <1>2, <2>1, <2>2 DEF RunFails, SpecsResolved
    <2>5. ObjectsPlaced'
      BY <1>2, <2>1, <2>2 DEF RunFails, ObjectsPlaced
    <2>6. FilesUntilStored'
      BY <1>2, <2>1, <2>2 DEF RunFails, FilesUntilStored, Stored
    <2>7. QED
      BY <2>3, <2>4, <2>5, <2>6
  <1>3. ASSUME NEW e \in Recordings, FinishRecording(e) PROVE UploadInv'
    <2>1. UNCHANGED <<conf, reqOf, spec>>
      BY <1>3 DEF FinishRecording
    <2>2. \A f \in Recordings : PlaceOf(f)' = PlaceOf(f) /\ DestOf(f)' = DestOf(f)
      BY <2>1, PlacesFixed
    <2>3. UploadTypeOK'
      BY <1>3 DEF FinishRecording
    <2>4. SpecsResolved'
      BY <1>3, <2>1, <2>2 DEF FinishRecording, SpecsResolved
    <2>5. ObjectsPlaced'
      BY Zenon, <1>3, <2>1, <2>2 DEF FinishRecording, ObjectsPlaced
    <2>6. FilesUntilStored'
      <3>1. \A f \in Recordings : Stored(f) => Stored(f)'
        BY <1>3, <2>1, <2>2 DEF FinishRecording, Stored
      <3>2. QED
        BY <1>3, <2>1, <3>1 DEF FinishRecording, FilesUntilStored
    <2>7. QED
      BY <2>3, <2>4, <2>5, <2>6
  <1>4. ASSUME NEW e \in Recordings, FinishSilent(e) PROVE UploadInv'
    <2>1. UNCHANGED <<conf, reqOf, spec>>
      BY <1>4 DEF FinishSilent
    <2>2. \A f \in Recordings : PlaceOf(f)' = PlaceOf(f) /\ DestOf(f)' = DestOf(f)
      BY <2>1, PlacesFixed
    <2>3. UploadTypeOK'
      BY <1>4 DEF FinishSilent
    <2>4. SpecsResolved'
      BY <1>4, <2>1, <2>2 DEF FinishSilent, SpecsResolved
    <2>5. ObjectsPlaced'
      BY Zenon, <1>4, <2>1, <2>2 DEF FinishSilent, ObjectsPlaced
    <2>6. FilesUntilStored'
      <3>1. \A f \in Recordings : Stored(f) => Stored(f)'
        BY <1>4, <2>1, <2>2 DEF FinishSilent, Stored
      <3>2. QED
        BY <1>4, <2>1, <3>1 DEF FinishSilent, FilesUntilStored
    <2>7. QED
      BY <2>3, <2>4, <2>5, <2>6
  <1>5. ASSUME NEW e \in Recordings, UploadFile(e) PROVE UploadInv'
    <2>1. UNCHANGED <<conf, reqOf, spec>>
      BY <1>5 DEF UploadFile
    <2>2. \A f \in Recordings : PlaceOf(f)' = PlaceOf(f) /\ DestOf(f)' = DestOf(f)
      BY <2>1, PlacesFixed
    <2>3. UploadTypeOK'
      BY <1>5 DEF UploadFile
    <2>4. SpecsResolved'
      BY <1>5, <2>1, <2>2 DEF UploadFile, SpecsResolved
    <2>5. ObjectsPlaced'
      BY <1>5, <2>1, <2>2, <2>4 DEF UploadFile, Put, ObjectsPlaced
    <2>6. FilesUntilStored'
      <3>1. \A f \in Recordings : Stored(f) => Stored(f)'
        BY <1>5, <2>1, <2>2 DEF UploadFile, Put, Stored
      <3>2. spec[e].dest = Local \/ Stored(e)'
        BY <1>5, <2>1, <2>2 DEF UploadFile, Put, Stored
      <3>3. QED
        BY <1>5, <2>1, <3>1, <3>2 DEF UploadFile, FilesUntilStored
    <2>7. QED
      BY <2>3, <2>4, <2>5, <2>6
  <1>6. ASSUME NEW e \in Recordings, UploadFails(e) PROVE UploadInv'
    <2>1. UNCHANGED <<conf, reqOf, spec>>
      BY <1>6 DEF UploadFails
    <2>2. \A f \in Recordings : PlaceOf(f)' = PlaceOf(f) /\ DestOf(f)' = DestOf(f)
      BY <2>1, PlacesFixed
    <2>3. UploadTypeOK'
      BY <1>6 DEF UploadFails
    <2>4. SpecsResolved'
      BY <1>6, <2>1, <2>2 DEF UploadFails, SpecsResolved
    <2>5. ObjectsPlaced'
      BY <1>6, <2>1, <2>2, <2>4 DEF UploadFails, Put, ObjectsPlaced
    <2>6. FilesUntilStored'
      <3>1. \A f \in Recordings : Stored(f) => Stored(f)'
        BY <1>6, <2>1, <2>2 DEF UploadFails, Put, Stored
      <3>2. QED
        BY <1>6, <2>1, <3>1 DEF UploadFails, FilesUntilStored
    <2>7. QED
      BY <2>3, <2>4, <2>5, <2>6
  <1>7. ASSUME NEW e \in Recordings, RemoveLocal(e) PROVE UploadInv'
    <2>1. UNCHANGED <<conf, reqOf, spec>>
      BY <1>7 DEF RemoveLocal
    <2>2. \A f \in Recordings : PlaceOf(f)' = PlaceOf(f) /\ DestOf(f)' = DestOf(f)
      BY <2>1, PlacesFixed
    <2>3. UploadTypeOK'
      BY <1>7 DEF RemoveLocal
    <2>4. SpecsResolved'
      BY <1>7, <2>1, <2>2 DEF RemoveLocal, SpecsResolved
    <2>5. ObjectsPlaced'
      BY Zenon, <1>7, <2>1, <2>2 DEF RemoveLocal, ObjectsPlaced
    <2>6. FilesUntilStored'
      BY <1>7, <2>1, <2>2 DEF RemoveLocal, FilesUntilStored, Stored
    <2>7. QED
      BY <2>3, <2>4, <2>5, <2>6
  <1>8. ASSUME NEW e \in Recordings, ReportComplete(e) PROVE UploadInv'
    <2>1. UNCHANGED <<conf, reqOf, spec>>
      BY <1>8 DEF ReportComplete
    <2>2. \A f \in Recordings : PlaceOf(f)' = PlaceOf(f) /\ DestOf(f)' = DestOf(f)
      BY <2>1, PlacesFixed
    <2>3. UploadTypeOK'
      BY <1>8 DEF ReportComplete
    <2>4. SpecsResolved'
      BY <1>8, <2>1, <2>2 DEF ReportComplete, SpecsResolved
    <2>5. ObjectsPlaced'
      BY <1>8, <2>1, <2>2 DEF ReportComplete, ObjectsPlaced
    <2>6. FilesUntilStored'
      BY <1>8, <2>1, <2>2 DEF ReportComplete, FilesUntilStored, Stored
    <2>7. QED
      BY <2>3, <2>4, <2>5, <2>6
  <1>9. CASE UNCHANGED uploadVars
    <2>1. \A f \in Recordings : PlaceOf(f)' = PlaceOf(f) /\ DestOf(f)' = DestOf(f)
      BY <1>9, PlacesFixed DEF uploadVars
    <2>2. UploadTypeOK' /\ SpecsResolved'
      BY <1>9, <2>1 DEF uploadVars, SpecsResolved
    <2>3. ObjectsPlaced'
      BY <1>9, <2>1 DEF uploadVars, ObjectsPlaced
    <2>4. FilesUntilStored'
      BY <1>9, <2>1 DEF uploadVars, FilesUntilStored, Stored
    <2>5. QED
      BY <2>2, <2>3, <2>4
  <1>10. QED
    BY Zenon, <1>1, <1>2, <1>3, <1>4, <1>5, <1>6, <1>7, <1>8, <1>9 DEF UploadNext

LEMMA UploadInvHolds == UploadSpec => []UploadInv
  <1>1. UploadInit => UploadInv
    BY DEF UploadInit, UploadInv, UploadTypeOK, SpecsResolved, ObjectsPlaced,
           FilesUntilStored, Started
  <1>2. QED
    BY <1>1, UploadStep, PTL DEF UploadSpec

\* From the end of run_recording on the audio exists, on the recorder's disk or
\* in the object of its key, through failed uploads and the
\* deletion of the file; only a recording that was given the same place can
\* take it away.
THEOREM RecordingsKept == UploadSpec => []RecordingKept
  <1>1. UploadInv => RecordingKept
    <2> SUFFICES ASSUME UploadInv, NEW e \in Recordings,
                        jobOf[e] \in {"recorded", "uploaded", "reporting", "done"},
                        e \notin files
                 PROVE  /\ PlaceOf(e) \in DOMAIN objects
                        /\ \/ objects[PlaceOf(e)] = e
                           \/ \E f \in Recordings : Collide(e, f)
      BY DEF RecordingKept
    <2>1. Stored(e) /\ Started(e)
      BY DEF UploadInv, FilesUntilStored, Started
    <2>2. PICK f \in Recordings : f = objects[PlaceOf(e)]
      BY <2>1 DEF UploadInv, ObjectsPlaced, Stored
    <2>3. f # e => Collide(e, f)
      BY <2>1, <2>2 DEF UploadInv, ObjectsPlaced, Stored, Collide
    <2>4. QED
      BY <2>1, <2>2, <2>3 DEF Stored
  <1>2. QED
    BY <1>1, UploadInvHolds, PTL

\* Unless its target is left to the storage of the request, which rec_spec does not
\* read, a recording goes to the first target named for it, with the role and the keys
\* named there, or is refused; COMPLETE is reported only for a recording that is at
\* its destination.
THEOREM StoredAsAsked == UploadSpec => []StoredWhereAsked
  <1>1. UploadInv => StoredWhereAsked
    <2> SUFFICES ASSUME UploadInv PROVE StoredWhereAsked
      OBVIOUS
    <2>1. \A o \in DOMAIN objects : PlaceOf(objects[o]) = o
      BY DEF UploadInv, ObjectsPlaced
    <2>2. ASSUME NEW e \in Recordings, ~LeftToRequest(reqOf[e])
          PROVE  LET asked == Asked(reqOf[e])
                 IN /\ jobOf[e] = "refused" =>
                          \/ reqOf[e].kind = "web"
                          \/ asked.provider = "alioss"
                          \/ asked # Local /\ asked.proxy
                    /\ Started(e) => GoesTo(e, asked) /\ (asked # Local => ~asked.proxy)
      <3>1. Honours(DestOf(e), Asked(reqOf[e]))
        BY <2>2, DestinationHonours DEF UploadInv, UploadTypeOK, DestOf
      <3>2. Started(e) => spec[e].dest = DestOf(e)
        BY Zenon DEF UploadInv, SpecsResolved
      <3>3. QED
        BY Zenon, <3>1, <3>2 DEF Honours, GoesTo, UploadInv, SpecsResolved
    <2>3. ASSUME NEW e \in Recordings, outcome[e] = "COMPLETE"
          PROVE  IF spec[e].dest = Local THEN e \in files
                 ELSE PlaceOf(e) \in DOMAIN objects
      BY Zenon, <2>3 DEF UploadInv, FilesUntilStored, Stored
    <2>4. QED
      BY Zenon, <2>1, <2>2, <2>3 DEF StoredWhereAsked
  <1>2. QED
    BY <1>1, UploadInvHolds, PTL

-----------------------------------------------------------------------------
(* Mixer *)

\* A set of naturals that is not empty and has a bound has a maximum: its least
\* bound is one of its elements.
LEMMA BoundedMax ==
    ASSUME NEW S \in SUBSET Nat, S # {}, NEW b \in Nat, \A x \in S : x <= b
    PROVE  Max(S) \in S /\ \A x \in S : x <= Max(S)
  <1> DEFINE bounds == {k \in Nat : \A x \in S : x <= k}
  <1>1. PICK k \in bounds : \A j \in bounds : ~(<<j, k>> \in OpToRel(<, Nat))
    <2>1. bounds # {} /\ bounds \subseteq Nat
      OBVIOUS
    <2> HIDE DEF bounds
    <2>2. QED
      BY <2>1, NatLessThanWellFounded, WFMin
  <1>2. \A j \in bounds : k <= j
    <2> SUFFICES ASSUME NEW j \in bounds, j < k PROVE FALSE
      OBVIOUS
    <2>1. j \in Nat /\ k \in Nat
      OBVIOUS
    <2>2. <<j, k>> \in OpToRel(<, Nat)
      BY <2>1 DEF OpToRel
    <2>3. QED
      BY <1>1, <2>2
  <1>3. k \in S
    <2> SUFFICES ASSUME k \notin S PROVE FALSE
      OBVIOUS
    <2>1. PICK y \in S : TRUE
      BY Zenon
    <2>2. k - 1 \in bounds
      BY <2>1
    <2>3. QED
      BY <1>2, <2>2
  <1>4. QED
    BY Zenon, <1>3 DEF Max

\* Dividing by the frame length: read_frame takes whole frames.
LEMMA WholeFrames ==
    ASSUME NEW m \in Nat
    PROVE  /\ m \div Frame \in Nat
           /\ (m \div Frame) * Frame <= m
           /\ m < (m \div Frame) * Frame + Frame
  BY MixerAssumption

MixerInv == MixerTypeOK /\ NothingLeaks

\* A packet: whole frames are drained as long as the longest queue holds one.
LEMMA PacketKeeps ==
    ASSUME MixerInv, NEW t \in Tracks, NEW n \in PacketSizes, Packet(t, n)
    PROVE  MixerInv'
  <1> USE MixerAssumption DEF MixerInv, MixerTypeOK, NothingLeaks
  <1> DEFINE keys == tracks \cup {t}
             last == [lastPacket EXCEPT ![t] = elapsed]
             stale == Stale(keys, last)
             full == [queue EXCEPT ![t] = @ + n]
             kept == [u \in Tracks |-> IF u \in stale THEN 0 ELSE full[u]]
             held == {kept[u] : u \in keys \ stale}
             drained == Max(held) \div Frame
  <1>1. /\ tracks' = keys \ stale
        /\ lastPacket' = last
        /\ decoders' = (decoders \cup {t}) \ stale
        /\ queue' = ReadFrames(kept, drained)
        /\ frames' = frames + drained
        /\ sent' = [sent EXCEPT ![t] = @ + n]
        /\ failed' = failed \ {t}
        /\ UNCHANGED <<recording, elapsed>>
    BY Zenon DEF Packet, PruneDecoders, Available
  <1>2. t \notin stale /\ stale \subseteq keys
    BY DEF Stale
  <1>3. kept \in [Tracks -> Nat] /\ \A u \in Tracks : kept[u] <= Frame + n
    OBVIOUS
  <1>4. \A u \in Tracks \ (keys \ stale) : kept[u] = 0
    BY <1>2
  <1>5. Max(held) \in Nat /\ \A u \in keys \ stale : kept[u] <= Max(held)
    <2>1. held \in SUBSET Nat /\ held # {} /\ \A x \in held : x <= Frame + n
      BY ZenonT(40), <1>2, <1>3
    <2>2. Frame + n \in Nat
      OBVIOUS
    <2>3. \A u \in keys \ stale : kept[u] \in held
      BY Zenon
    <2> HIDE DEF held, kept
    <2>4. Max(held) \in held /\ \A x \in held : x <= Max(held)
      BY Zenon, <2>1, <2>2, BoundedMax
    <2>5. QED
      BY Zenon, <2>1, <2>3, <2>4
  <1> HIDE DEF kept, held, stale
  <1>6. /\ drained \in Nat
        /\ drained * Frame \in Nat
        /\ Max(held) < drained * Frame + Frame
    BY <1>5, WholeFrames
  <1> HIDE DEF drained
  <1>7. \A u \in Tracks :
          queue'[u] = IF kept[u] > drained * Frame THEN kept[u] - drained * Frame ELSE 0
    BY <1>1 DEF ReadFrames
  <1>8. queue' = [u \in Tracks |-> queue'[u]]
    BY <1>1 DEF ReadFrames
  <1>9. \A u \in Tracks : /\ queue'[u] \in Nat
                          /\ queue'[u] < Frame
                          /\ u \notin tracks' => queue'[u] = 0
    <2> SUFFICES ASSUME NEW u \in Tracks
                 PROVE  /\ queue'[u] \in Nat
                        /\ queue'[u] < Frame
                        /\ u \notin tracks' => queue'[u] = 0
      OBVIOUS
    <2>1. kept[u] \in Nat /\ (u \notin tracks' => kept[u] = 0)
      BY Zenon, <1>1, <1>3, <1>4
    <2>2. kept[u] < drained * Frame + Frame
      BY <1>1, <1>5, <1>6, <2>1
    <2>3. PICK d \in Nat : d = drained * Frame
      BY Zenon, <1>6
    <2>4. /\ queue'[u] = IF kept[u] > d THEN kept[u] - d ELSE 0
          /\ kept[u] < d + Frame
      BY Zenon, <1>7, <2>2, <2>3
    <2> HIDE DEF MixerInv, MixerTypeOK, NothingLeaks
    <2>5. QED
      BY MixerAssumption, <2>1, <2>4
  <1>10. queue' \in [Tracks -> Nat]
    BY <1>9, <1>8
  <1>11. tracks' \subseteq decoders' /\ decoders' \ tracks' \subseteq failed'
    BY <1>1, <1>2
  <1>12. MixerTypeOK'
    <2>1. elapsed \in Nat /\ elapsed' \in Nat /\ frames' \in Nat
      BY <1>1, <1>6
    <2>2. lastPacket' \in [Tracks -> Nat] /\ sent' \in [Tracks -> Nat]
      BY <1>1, <2>1
    <2>3. QED
      BY <1>1, <1>10, <2>1, <2>2
  <1>13. QED
    BY <1>9, <1>11, <1>12

\* "a silent track can neither stall the mix nor leak decoder/queue memory":
\* whatever the tracks of a room send, and in whatever order, run_recording holds
\* less than a frame of each and a decoder only for a track that it mixes or
\* whose packets do not decode.
THEOREM MixerNeverLeaks == MixerSpec => []NothingLeaks
  <1>1. MixerInit => MixerInv
    BY MixerAssumption DEF MixerInit, MixerInv, MixerTypeOK, NothingLeaks
  <1>2. MixerInv /\ [MixerNext]_mixerVars => MixerInv'
    <2> SUFFICES ASSUME MixerInv, [MixerNext]_mixerVars PROVE MixerInv'
      OBVIOUS
    <2> USE DEF MixerInv, MixerTypeOK, NothingLeaks
    <2>1. CASE Elapse
      BY <2>1 DEF Elapse
    <2>2. ASSUME NEW t \in Tracks, DecodeFails(t) PROVE MixerInv'
      BY <2>2 DEF DecodeFails
    <2>3. CASE StopMixing
      BY Zenon, <2>3 DEF StopMixing
    <2>4. CASE UNCHANGED mixerVars
      BY <2>4 DEF mixerVars
    <2>5. QED
      BY Zenon, <2>1, <2>2, <2>3, <2>4, PacketKeeps DEF MixerNext
  <1>3. MixerInv => NothingLeaks
    BY DEF MixerInv
  <1>4. QED
    BY <1>1, <1>2, <1>3, PTL DEF MixerSpec

=============================================================================
