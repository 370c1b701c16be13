--------------------------- MODULE ParticipantInfo ---------------------------
(***************************************************************************)
(* How the others in a room learn of one participant (participant.rs,       *)
(* core.rs VersionCounter, Room.broadcast_participant_update, and the        *)
(* handlers in signal.rs, services.rs and media.rs that change it).         *)
(*                                                                         *)
(* A handler writes fields of the participant, each under a lock of its     *)
(* own, serializes it (to_proto: one field after the other, and last a      *)
(* version), lists the participants of the room and sends the info to each. *)
(* The session reader of the participant runs its requests one at a time,   *)
(* beside the handlers of RoomService and the callbacks of the media plane. *)
(* One observer joins the room, loses its connection and resumes: it gets   *)
(* a snapshot first and then what arrives in its channel.                   *)
(*                                                                         *)
(* The metadata stands for name and metadata, one key for the attributes,   *)
(* one track for the tracks.                                                *)
(***************************************************************************)
EXTENDS Integers, Sequences

CONSTANTS
    Reader,      \* the session reader of the participant
    Others,      \* RoomService requests and callbacks of the media plane
    Observer,    \* another participant of the room
    Updates,     \* the updates clients and RoomService may ask for
    Grants,      \* the permissions a token may give
    Metadata,    \* values of the metadata
    Attributes,  \* values of the attribute
    None,        \* no value; in an update: leave it alone
    Capacity,    \* SIGNAL_CHANNEL_CAPACITY
    MaxRequests  \* handlers and resumes that run

Handlers == Others \cup {Reader}
Tasks == Handlers \cup {Observer}

\* ParticipantState, in the order set_state compares.
Joining == 0
Joined == 1
Active == 2
Disconnected == 3

Permission == [hidden : BOOLEAN, can_update_metadata : BOOLEAN, can_publish : BOOLEAN]
Remove == "remove"   \* the empty value of an attribute: take the key out

\* An update request: UpdateParticipantMetadata (permission is None) or
\* UpdateParticipantRequest.
Update == [metadata : Metadata \cup {None},
           attributes : Attributes \cup {None, Remove},
           permission : Permission \cup {None}]

ASSUME InfoAssumption ==
    /\ Reader \notin Others
    /\ Observer \notin Handlers
    /\ Updates \subseteq Update
    /\ Grants \subseteq Permission
    /\ Capacity \in Nat \ {0}
    /\ MaxRequests \in Nat

\* The order in which to_proto reads; the version comes last.
ToProtoOrder == <<"attributes", "permission", "state", "tracks", "metadata">>
Fields == {ToProtoOrder[k] : k \in 1..Len(ToProtoOrder)}

VARIABLES
    field,     \* the participant's fields
    version,   \* Participant.version
    present,   \* the participant is in Room.participants
    task,      \* task[t]: where task t is, what it is to do, its `changed`,
               \* and what its to_proto has read so far
    sink,      \* the observer's channel: "none", "open", or "dead" when the
               \* writer is gone
    queue,     \* infos in the channel
    got,       \* infos the observer's client got in its current session
    missed,    \* an info was dropped since the session's snapshot was begun
    silent,    \* the tracks changed in a way no broadcast follows
    overlap,   \* two tasks were at work at once
    requests   \* handlers and resumes so far

participantVars == <<field, version, present>>
observerVars == <<sink, queue, got, missed>>
historyVars == <<silent, overlap, requests>>
vars == <<participantVars, task, observerVars, historyVars>>

Stages == {"idle", "metadata", "permission", "attributes", "muting", "ending",
           "to_proto", "remove", "broadcast", "send", "reply", "over",
           "out", "entered", "filter", "sink", "connected", "dropped"}
Ops == {"none", "join", "update", "mute", "end", "tell", "list"}
Info == [attributes : Attributes \cup {None}, permission : Permission,
         state : Joining..Disconnected, tracks : {"none", "on", "muted"},
         metadata : Metadata \cup {None}, version : Nat]

\* A task at stage s of op; arg is the update, or what to mute to.
Task(s, op, arg) ==
    [stage |-> s, op |-> op, arg |-> arg, changed |-> FALSE, seen |-> <<>>]
Idle == Task("idle", "none", None)

\* Room.join has just put the participant in the map; join_room goes on to
\* serialize it.  Nobody else is there yet.
Init ==
    /\ \E p \in Grants :
          field = [attributes |-> None, permission |-> p, state |-> Joining,
                   tracks |-> "none", metadata |-> None]
    /\ version = 0
    /\ present = TRUE
    /\ task = [t \in Tasks |-> CASE t = Reader -> Task("to_proto", "join", None)
                                 [] t = Observer -> Task("out", "list", None)
                                 [] OTHER -> Idle]
    /\ sink = "none"
    /\ queue = <<>>
    /\ got = {}
    /\ missed = FALSE
    /\ silent = FALSE
    /\ overlap = FALSE
    /\ requests = 0

Working(t) == task[t].stage \notin {"idle", "over", "out", "connected", "dropped"}
Goto(t, s) == task' = [task EXCEPT ![t].stage = s]

\* The handler of t is over.  The reader loop ends after a request that finds
\* the participant disconnected; the join is not a request of the loop.
Return(t) ==
    task' = [task EXCEPT ![t] =
                IF t = Reader /\ @.op # "join" /\ field.state = Disconnected
                  THEN Task("over", "none", None) ELSE Idle]

\* t begins something: a handler, or the observer's snapshot.
Begin(t) ==
    /\ requests < MaxRequests
    /\ requests' = requests + 1
    /\ overlap' = (overlap \/ \E u \in Tasks \ {t} : Working(u))

\* t begins a handler and gets as far as stage s.
Start(t, s, op, arg) ==
    /\ task[t].stage = "idle"
    /\ Begin(t)
    /\ task' = [task EXCEPT ![t] = Task(s, op, arg)]
    /\ UNCHANGED <<version, present, observerVars>>

-----------------------------------------------------------------------------
(* The handlers, up to the serialization *)

\* Participant.set_state: it only goes forward.
set_state(f, s) == [f EXCEPT !.state = IF s > @ THEN s ELSE @]

\* The stage the reader is at after a request that needs no more work.
ReaderDone == IF field.state = Disconnected THEN "over" ELSE "idle"

\* handle_update_metadata reads the permission first.
HandleUpdateMetadata(u) ==
    /\ u.permission = None
    /\ IF field.permission.can_update_metadata
         THEN Start(Reader, "metadata", "update", u)
         ELSE Start(Reader, ReaderDone, "none", None)
    /\ UNCHANGED <<field, silent>>

\* RoomService.UpdateParticipant finds the participant in the room.
UpdateParticipant(t, u) ==
    /\ present
    /\ Start(t, "metadata", "update", u)
    /\ UNCHANGED <<field, silent>>

\* The value of a field after an update, None leaving it alone.
Updated(old, new) == IF new = None THEN old ELSE new

\* Participant.update_metadata.  The reader returns when nothing changed and
\* the request has no attributes.
UpdateMetadata(t) ==
    /\ task[t].stage = "metadata"
    /\ LET u == task[t].arg
           new == Updated(field.metadata, u.metadata)
           differs == new # field.metadata
       IN /\ field' = [field EXCEPT !.metadata = new]
          /\ IF t = Reader /\ ~differs /\ u.attributes = None
               THEN Return(t)
               ELSE task' = [task EXCEPT
                       ![t].stage = IF t = Reader THEN "attributes" ELSE "permission",
                       ![t].changed = differs]
    /\ UNCHANGED <<version, present, observerVars, historyVars>>

\* Participant.update_permission, for UpdateParticipant only.
UpdatePermission(t) ==
    /\ task[t].stage = "permission"
    /\ LET new == Updated(field.permission, task[t].arg.permission)
       IN /\ field' = [field EXCEPT !.permission = new]
          /\ task' = [task EXCEPT ![t].stage = "attributes",
                                  ![t].changed = @ \/ new # field.permission]
    /\ UNCHANGED <<version, present, observerVars, historyVars>>

\* Mutant: `changed =` where the code has `changed |=`.
AttributesDecide(t) ==
    /\ task[t].stage = "attributes"
    /\ LET a == task[t].arg.attributes
           new == IF a = Remove THEN None ELSE Updated(field.attributes, a)
       IN /\ field' = [field EXCEPT !.attributes = new]
          /\ Goto(t, IF t = Reader \/ new # field.attributes THEN "to_proto" ELSE "reply")
    /\ UNCHANGED <<version, present, observerVars, historyVars>>

\* Participant.set_attributes: an empty value takes the key out.  The reader
\* then broadcasts in any case, UpdateParticipant only when something changed.
SetAttributes(t) ==
    /\ task[t].stage = "attributes"
    /\ LET a == task[t].arg.attributes
           new == IF a = Remove THEN None ELSE Updated(field.attributes, a)
           differs == task[t].changed \/ new # field.attributes
       IN /\ field' = [field EXCEPT !.attributes = new]
          /\ Goto(t, IF t = Reader \/ differs THEN "to_proto" ELSE "reply")
    /\ UNCHANGED <<version, present, observerVars, historyVars>>

\* handle_add_track, refused without the permission to publish (and for
\* video).  The others are told of the track once media flows.
HandleAddTrack(muted) ==
    /\ field.tracks = "none"
    /\ Start(Reader, ReaderDone, "none", None)
    /\ \/ /\ field.permission.can_publish
          /\ field' = [field EXCEPT !.tracks = IF muted THEN "muted" ELSE "on"]
          /\ silent' = TRUE
       \/ /\ ~field.permission.can_publish
          /\ UNCHANGED <<field, silent>>

\* handle_offer marks the participant joined and tells nobody.
HandleOffer ==
    /\ Start(Reader, ReaderDone, "none", None)
    /\ field' = set_state(field, Joined)
    /\ UNCHANGED silent

\* The ICE callback of the publisher connection: when set_state succeeds, the
\* others are told.  It would succeed from joining too, but there is no
\* publisher connection then: handle_offer alone creates it (ensure_publisher),
\* and marks the participant joined first.
OnIceConnected(t) ==
    /\ field.state = Joined
    /\ Start(t, "to_proto", "tell", None)
    /\ field' = set_state(field, Active)
    /\ UNCHANGED silent

\* on_track_published, when media starts to flow.
OnTrackPublished(t) ==
    /\ field.tracks # "none"
    /\ Start(t, "to_proto", "tell", None)
    /\ silent' = FALSE
    /\ UNCHANGED field

\* on_track_unpublished, when media stops: remove_track, then the broadcast.
OnTrackUnpublished(t) ==
    /\ field.tracks # "none"
    /\ Start(t, "to_proto", "tell", None)
    /\ field' = [field EXCEPT !.tracks = "none"]
    /\ silent' = FALSE

\* A Mute request of the client.
HandleMute(to) ==
    /\ Start(Reader, "muting", "mute", to)
    /\ UNCHANGED <<field, silent>>

\* RoomService.MutePublishedTrack sets the flag itself ("synchronously so the
\* returned TrackInfo reflects the new state") and spawns set_track_muted.
MutePublishedTrack(t, to) ==
    /\ present
    /\ field.tracks # "none"
    /\ Start(t, "muting", "mute", to)
    /\ field' = [field EXCEPT !.tracks = to]
    /\ silent' = (silent \/ field.tracks # to)

\* set_track_muted: nothing to do when the track is gone or already so.
SetTrackMuted(t) ==
    /\ task[t].stage = "muting"
    /\ LET to == task[t].arg
       IN \/ /\ field.tracks \in {"none", to}
             /\ Return(t)
             /\ UNCHANGED <<field, silent>>
          \/ /\ field.tracks \notin {"none", to}
             /\ Goto(t, "to_proto")
             /\ field' = [field EXCEPT !.tracks = to]
             /\ silent' = FALSE
    /\ UNCHANGED <<version, present, observerVars, overlap, requests>>

\* A Leave request, or RoomService.RemoveParticipant: end_participant returns
\* unless the participant is in the room.
EndParticipant(t) ==
    /\ present
    /\ Start(t, "ending", "end", None)
    /\ UNCHANGED <<field, silent>>

\* Mutant: the participant is serialized before it is marked disconnected.
SerializeUnmarked(t) ==
    /\ task[t].stage = "ending"
    /\ Goto(t, "to_proto")
    /\ UNCHANGED <<participantVars, observerVars, historyVars>>

\* end_participant marks it disconnected, then serializes it.
Disconnect(t) ==
    /\ task[t].stage = "ending"
    /\ field' = set_state(field, Disconnected)
    /\ Goto(t, "to_proto")
    /\ UNCHANGED <<version, present, observerVars, historyVars>>

-----------------------------------------------------------------------------
(* Serialization and broadcast *)

\* Mutant: min where the code has max.
AtMostOne == IF version < 1 THEN version ELSE 1

\* VersionCounter.next: fetch_add(1), and at least 1.
NextVersion == IF version > 1 THEN version ELSE 1

\* What was read, and the value v of field f.
With(seen, f, v) == [g \in DOMAIN seen \cup {f} |-> IF g = f THEN v ELSE seen[g]]

\* What the to_proto of t has yet to read.
Unread(t) == {k \in 1 .. Len(ToProtoOrder) : ToProtoOrder[k] \notin DOMAIN task[t].seen}

\* to_proto reads the next field, under that field's lock.
ReadField(t) ==
    /\ task[t].stage = "to_proto"
    /\ \E k \in Unread(t) :
          /\ \A j \in Unread(t) : k <= j
          /\ LET f == ToProtoOrder[k]
             IN task' = [task EXCEPT ![t].seen = With(@, f, field[f])]
    /\ UNCHANGED <<participantVars, observerVars, historyVars>>

\* All fields are read: to_proto takes the version and is done.
Stamp(t) ==
    /\ task[t].stage = "to_proto"
    /\ Unread(t) = {}
    /\ version' = version + 1
    /\ task' = [task EXCEPT
          ![t].seen = With(@, "version", NextVersion),
          ![t].stage = CASE task[t].op = "end" -> "remove"
                         [] task[t].op = "list" -> "sink"
                         [] OTHER -> "broadcast"]
    /\ UNCHANGED <<field, present, observerVars, historyVars>>

\* end_participant takes the participant out of the room, then tells.
RemoveParticipant(t) ==
    /\ task[t].stage = "remove"
    /\ present' = FALSE
    /\ Goto(t, "broadcast")
    /\ UNCHANGED <<field, version, observerVars, historyVars>>

\* What follows the broadcast: UpdateParticipant serializes once more, for
\* its response.
AfterBroadcast(t) ==
    IF t # Reader /\ task[t].op = "update" THEN Goto(t, "reply") ELSE Return(t)

\* broadcast_participant_update lists the room: the observer is a target once
\* it is in the room, unless the info says hidden.
Broadcast(t) ==
    /\ task[t].stage = "broadcast"
    /\ IF task[Observer].stage # "out" /\ ~task[t].seen.permission.hidden
         THEN Goto(t, "send")
         ELSE AfterBroadcast(t)
    /\ UNCHANGED <<participantVars, observerVars, historyVars>>

\* Participant.send_update: dropped without a channel, or when it is full.
SendUpdate(t) ==
    /\ task[t].stage = "send"
    /\ IF sink = "open" /\ Len(queue) < Capacity
         THEN /\ queue' = Append(queue, task[t].seen)
              /\ UNCHANGED missed
         ELSE /\ missed' = TRUE
              /\ UNCHANGED queue
    /\ AfterBroadcast(t)
    /\ UNCHANGED <<participantVars, sink, got, historyVars>>

\* The response of UpdateParticipant takes a version too.
Reply(t) ==
    /\ task[t].stage = "reply"
    /\ version' = version + 1
    /\ Return(t)
    /\ UNCHANGED <<field, present, observerVars, historyVars>>

-----------------------------------------------------------------------------
(* The observer *)

\* The observer's own join_room: Room.join.
Enter ==
    /\ task[Observer].stage = "out"
    /\ Goto(Observer, "entered")
    /\ UNCHANGED <<participantVars, observerVars, historyVars>>

\* The snapshot begins with the list of participants, and goes on at stage s
\* if the participant is in it: what the client gets from here on counts.
List(s) ==
    /\ Begin(Observer)
    /\ task' = [task EXCEPT ![Observer] = Task(IF present THEN s ELSE "sink", "list", None)]
    /\ got' = {}
    /\ missed' = FALSE
    /\ UNCHANGED <<participantVars, sink, queue, silent>>

\* build_join_response lists the participants...
BuildJoinResponse ==
    /\ task[Observer].stage = "entered"
    /\ List("filter")

\* ...and leaves out those that are hidden.
FilterHidden ==
    /\ task[Observer].stage = "filter"
    /\ Goto(Observer, IF field.permission.hidden THEN "sink" ELSE "to_proto")
    /\ UNCHANGED <<participantVars, observerVars, historyVars>>

\* A reconnect: resume_room_participant, then all participants are listed.
Resume ==
    /\ task[Observer].stage = "dropped"
    /\ List("to_proto")

\* run_signal_session hands a new channel to the observer; its writer sends
\* the snapshot first.
SetSignalSink ==
    /\ task[Observer].stage = "sink"
    /\ sink' = "open"
    /\ queue' = <<>>
    /\ got' = {task[Observer].seen} \ {<<>>}
    /\ Goto(Observer, "connected")
    /\ UNCHANGED <<participantVars, missed, historyVars>>

\* The writer task drains the channel.
Deliver ==
    /\ task[Observer].stage = "connected"
    /\ queue # <<>>
    /\ got' = got \cup {Head(queue)}
    /\ queue' = Tail(queue)
    /\ UNCHANGED <<participantVars, task, sink, missed, historyVars>>

\* The connection is lost, and what the channel holds and gets with it.
LoseConnection ==
    /\ task[Observer].stage = "connected"
    /\ sink' = "dead"
    /\ queue' = <<>>
    /\ got' = {}
    /\ task' = [task EXCEPT ![Observer] = Task("dropped", "list", None)]
    /\ UNCHANGED <<participantVars, missed, historyVars>>

-----------------------------------------------------------------------------

ReaderStarts ==
    \/ \E u \in Updates : HandleUpdateMetadata(u)
    \/ \E m \in BOOLEAN : HandleAddTrack(m)
    \/ \E to \in {"on", "muted"} : HandleMute(to)
    \/ HandleOffer
    \/ EndParticipant(Reader)

OtherStarts(t) ==
    \/ \E u \in Updates : UpdateParticipant(t, u)
    \/ \E to \in {"on", "muted"} : MutePublishedTrack(t, to)
    \/ OnIceConnected(t)
    \/ OnTrackPublished(t)
    \/ OnTrackUnpublished(t)
    \/ EndParticipant(t)

HandlerStep(t) ==
    \/ UpdateMetadata(t)
    \/ UpdatePermission(t)
    \/ SetAttributes(t)
    \/ SetTrackMuted(t)
    \/ Disconnect(t)
    \/ RemoveParticipant(t)
    \/ Broadcast(t)
    \/ SendUpdate(t)
    \/ Reply(t)

ObserverStep ==
    \/ Enter
    \/ BuildJoinResponse
    \/ FilterHidden
    \/ Resume
    \/ SetSignalSink
    \/ Deliver
    \/ LoseConnection

Next ==
    \/ \E t \in Tasks : ReadField(t) \/ Stamp(t)
    \/ \E t \in Handlers : HandlerStep(t)
    \/ ReaderStarts
    \/ \E t \in Others : OtherStarts(t)
    \/ ObserverStep

Spec == Init /\ [][Next]_vars

-----------------------------------------------------------------------------
(* Properties *)

\* The state has its types: in particular what is sent is a whole info.
TypeOK ==
    /\ field \in [attributes : Attributes \cup {None}, permission : Permission,
                  state : Joining..Disconnected, tracks : {"none", "on", "muted"},
                  metadata : Metadata \cup {None}]
    /\ version \in Nat
    /\ present \in BOOLEAN
    /\ \A t \in Tasks :
          /\ task[t].stage \in Stages
          /\ task[t].op \in Ops
          /\ task[t].changed \in BOOLEAN
          /\ task[t].stage \in {"broadcast", "send", "remove"} => task[t].seen \in Info
    /\ sink \in {"none", "open", "dead"}
    /\ queue \in Seq(Info)
    /\ Len(queue) <= Capacity
    /\ got \in SUBSET Info
    /\ missed \in BOOLEAN
    /\ silent \in BOOLEAN
    /\ overlap \in BOOLEAN
    /\ requests \in 0..MaxRequests

\* What the observer's client has got or will get in this session.
Told == got \cup {queue[k] : k \in 1..Len(queue)}

\* Nothing is under way, and the observer's channel dropped nothing.
Settled ==
    /\ \A t \in Tasks : ~Working(t)
    /\ task[Observer].stage = "connected"
    /\ ~missed
    /\ ~field.permission.hidden

\* The fields whose last change some handler announces: not a state of joined
\* (handle_offer), nor a track before its media flows, nor what
\* MutePublishedTrack did to one.
Announced ==
    Fields \ ((IF field.state = Joined THEN {"state"} ELSE {})
               \cup (IF silent THEN {"tracks"} ELSE {}))

\* However handlers interleave, when they are done an observer that is in the
\* room has been told the current value of every field: each handler writes,
\* then serializes, then lists the room, and a joiner enters the room before
\* it takes its snapshot.  A participant that was hidden is told of in full
\* when it no longer is.
CurrentValueTold ==
    Settled /\ present =>
        \A f \in Announced : \E i \in Told : i[f] = field[f]

\* An observer whose snapshot shows the participant is told that it left,
\* also when it joined or resumed while end_participant was at work.
DepartureTold ==
    Settled /\ ~present /\ task[Observer].seen # <<>> =>
        \E i \in Told : i.state = Disconnected

\* "Each serialization gets a fresh version so clients can order updates":
\* as long as no two tasks were at work at once, the info with the highest
\* version is the current one.
LatestIsCurrent ==
    Settled /\ ~overlap =>
        \A i \in Told :
            (\A j \in Told : i.version >= j.version) =>
                \A f \in Announced : i[f] = field[f]

\* The same for whoever was told of the participant in any way.
NoGhost ==
    Settled /\ ~present /\ Told # {} =>
        \E i \in Told : i.state = Disconnected

\* LatestIsCurrent without its condition.
VersionsOrderUpdates ==
    Settled =>
        \A i \in Told :
            (\A j \in Told : i.version >= j.version) =>
                \A f \in Announced : i[f] = field[f]

\* Two serializations never have the same version.
VersionsFresh ==
    \A i, j \in Told : i.version = j.version => i = j

\* "Updates about a hidden participant are delivered only to that participant
\* itself".
HiddenUntold ==
    \A i \in Told : ~i.permission.hidden

\* An observer that was told of a track is told when it is muted, by its
\* publisher or by RoomService.
MuteTold ==
    Settled /\ present /\ ~overlap /\ field.tracks = "muted"
            /\ (\E i \in Told : i.tracks = "on") =>
        \E i \in Told : i.tracks = "muted"

\* A participant seen to have left is not seen again.
GoneStaysGone ==
    \A i, j \in Told :
        i.state = Disconnected /\ i.version < j.version => j.state = Disconnected

=============================================================================
