--------------------------- MODULE Subscriptions ---------------------------
(***************************************************************************)
(* The tracks that one subscriber gets (signal.rs, media.rs).               *)
(*                                                                         *)
(* The subscriber joins, lists the tracks there are, serves the requests of *)
(* its client and ends.  Each track is published by somebody else: it is    *)
(* added, its media starts (on_track), and its forwarding loop ends.  Three *)
(* callers add a subscription to a track, each with frames of its own: the  *)
(* joining session ("join"), on_track_published ("publish") and an          *)
(* UpdateSubscription request ("update").  Two remove it: on_track_un-      *)
(* published ("publish", the same task) and UpdateSubscription.             *)
(*                                                                         *)
(* A sender of the peer connection, with its down-track, is named by the    *)
(* call that made it.  The participant may subscribe, automatically.        *)
(***************************************************************************)
EXTENDS Negotiation, FiniteSets

CONSTANTS Tracks, NoCall

Callers == {"join", "publish", "update"}
Calls == Tracks \X Callers

ASSUME NoCallAssumption == NoCall \notin Callers

VARIABLES
    inRoom,      \* the subscriber is in Room.participants
    session,     \* the frame of its session
    existing,    \* the tracks the joining session goes through
    endPc,       \* the frame of end_participant
    published,   \* Participant.tracks of the publishers
    forwarders,  \* media.forwarders of the publishers
    trackPc,     \* the frame of each track's on_track and forwarding loop
    call,        \* call[t][c]: the frame of add_ or remove_subscription
    taken,       \* taken[t][c]: the sender remove_subscription took out
    senderOf,    \* senderOf[t]: subscriber_tracks and subscriber_senders
    fanout,      \* fanout[t]: Forwarder.subscribers holds this down-track
    refused      \* history: tracks that the peer connection was not set up for or
                 \* did not take

subscriberVars == <<inRoom, session, existing, endPc>>
trackVars == <<published, forwarders, trackPc>>
callVars == <<call, taken>>
mapVars == <<senderOf, fanout, refused>>
vars == <<gone, pc, senders, negotiationVars, subscriberVars, trackVars, callVars, mapVars>>

Init ==
    /\ NegotiationInit
    /\ gone = FALSE /\ pc = FALSE /\ senders = {}
    /\ inRoom = FALSE
    /\ session = "idle"
    /\ existing = {}
    /\ endPc = "idle"
    /\ published = {} /\ forwarders = {}
    /\ trackPc = [t \in Tracks |-> "idle"]
    /\ call = [t \in Tracks |-> [c \in Callers |-> "idle"]]
    /\ taken = [t \in Tracks |-> [c \in Callers |-> NoCall]]
    /\ senderOf = [t \in Tracks |-> NoCall]
    /\ fanout = [t \in Tracks |-> NoCall]
    /\ refused = {}

-----------------------------------------------------------------------------
(* add_subscription and remove_subscription *)

Idle(t, c) == call[t][c] = "idle"

To(t, c, pcv) == call' = [call EXCEPT ![t][c] = pcv]

Refuse(t, c) == To(t, c, "idle") /\ refused' = refused \cup {t}

\* setup_subscriber, serialised by pc_create, which may fail where there is no peer
\* connection yet, and the forwarder of the track.  Without one the call returns an
\* error.
LookUpForwarder(t, c) ==
    /\ call[t][c] = "add"
    /\ \/ /\ pc' = TRUE
          /\ To(t, c, IF t \in forwarders THEN "attach" ELSE "idle")
          /\ UNCHANGED refused
       \/ ~pc /\ Refuse(t, c) /\ UNCHANGED pc
    /\ UNCHANGED <<gone, senders, negotiationVars, subscriberVars, trackVars, taken,
                   senderOf, fanout>>

\* add_track on the peer connection, if it is still there; it may fail.
AttachTrack(t, c) ==
    /\ call[t][c] = "attach"
    /\ \/ pc /\ senders' = senders \cup {<<t, c>>} /\ To(t, c, "insert") /\ UNCHANGED refused
       \/ Refuse(t, c) /\ UNCHANGED senders
    /\ UNCHANGED <<gone, pc, negotiationVars, subscriberVars, trackVars, taken,
                   senderOf, fanout>>

\* The maps of the subscriber ...
InsertSender(t, c) ==
    /\ call[t][c] = "insert"
    /\ senderOf' = [senderOf EXCEPT ![t] = c]
    /\ To(t, c, "fan")
    /\ UNCHANGED <<gone, pc, senders, negotiationVars, subscriberVars, trackVars, taken, fanout, refused>>

\* ... then the forwarder, and the request to negotiate.
AddSubscriber(t, c) ==
    /\ call[t][c] = "fan"
    /\ fanout' = [fanout EXCEPT ![t] = c]
    /\ To(t, c, "idle")
    /\ RequestSubscriberNegotiation
    /\ UNCHANGED <<gone, pc, senders, subscriberVars, trackVars, taken, senderOf, refused>>

\* remove_subscription: the maps ...
TakeSender(t, c) ==
    /\ call[t][c] = "remove"
    /\ taken' = [taken EXCEPT ![t][c] = senderOf[t]]
    /\ senderOf' = [senderOf EXCEPT ![t] = NoCall]
    /\ To(t, c, "release")
    /\ UNCHANGED <<gone, pc, senders, negotiationVars, subscriberVars, trackVars, fanout, refused>>

\* ... the forwarder, if a participant of the room still has it ...
RemoveSubscriber(t, c) ==
    /\ call[t][c] = "release"
    /\ fanout' = [fanout EXCEPT ![t] = IF t \in forwarders THEN NoCall ELSE @]
    /\ To(t, c, "detach")
    /\ UNCHANGED <<gone, pc, senders, negotiationVars, subscriberVars, trackVars, taken, senderOf, refused>>

\* ... the peer connection, and the request to negotiate.
DetachTrack(t, c) ==
    /\ call[t][c] = "detach"
    /\ senders' = senders \ {<<t, taken[t][c]>>}
    /\ taken' = [taken EXCEPT ![t][c] = NoCall]
    /\ To(t, c, "idle")
    /\ RequestSubscriberNegotiation
    /\ UNCHANGED <<gone, pc, subscriberVars, trackVars, mapVars>>

Subscribe(t, c) ==
    \/ LookUpForwarder(t, c)
    \/ AttachTrack(t, c)
    \/ InsertSender(t, c)
    \/ AddSubscriber(t, c)

Unsubscribe(t, c) ==
    \/ TakeSender(t, c)
    \/ RemoveSubscriber(t, c)
    \/ DetachTrack(t, c)

-----------------------------------------------------------------------------
(* A track *)

\* handle_add_track.
AddTrack(t) ==
    /\ trackPc[t] = "idle"
    /\ trackPc' = [trackPc EXCEPT ![t] = "added"]
    /\ published' = published \cup {t}
    /\ UNCHANGED <<gone, pc, senders, negotiationVars, subscriberVars, forwarders, callVars, mapVars>>

\* on_track: the forwarder is put in place ...
OnTrack(t) ==
    /\ trackPc[t] = "added"
    /\ trackPc' = [trackPc EXCEPT ![t] = "forwarding"]
    /\ forwarders' = forwarders \cup {t}
    /\ UNCHANGED <<gone, pc, senders, negotiationVars, subscriberVars, published, callVars, mapVars>>

\* Mutant: participants that are still joining are passed over.
PublishToReaders(t) ==
    /\ trackPc[t] = "forwarding"
    /\ trackPc' = [trackPc EXCEPT ![t] = "subscribing"]
    /\ To(t, "publish", IF inRoom /\ session = "reading" THEN "add" ELSE "idle")
    /\ UNCHANGED <<gone, pc, senders, negotiationVars, subscriberVars, published,
                   forwarders, taken, mapVars>>

\* ... and on_track_published goes through the participants of the room.
OnTrackPublished(t) ==
    /\ trackPc[t] = "forwarding"
    /\ trackPc' = [trackPc EXCEPT ![t] = "subscribing"]
    /\ To(t, "publish", IF inRoom THEN "add" ELSE "idle")
    /\ UNCHANGED <<gone, pc, senders, negotiationVars, subscriberVars, published,
                   forwarders, taken, mapVars>>

\* Then the forwarding loop runs, and ends: the forwarder goes ...
LoopEnds(t) ==
    /\ trackPc[t] = "subscribing"
    /\ Idle(t, "publish")
    /\ trackPc' = [trackPc EXCEPT ![t] = "ending"]
    /\ forwarders' = forwarders \ {t}
    /\ UNCHANGED <<gone, pc, senders, negotiationVars, subscriberVars, published, callVars, mapVars>>

\* ... and on_track_unpublished goes through the participants of the room.
OnTrackUnpublished(t) ==
    /\ trackPc[t] = "ending"
    /\ trackPc' = [trackPc EXCEPT ![t] = "unpublished"]
    /\ published' = published \ {t}
    /\ To(t, "publish", IF inRoom THEN "remove" ELSE "idle")
    /\ UNCHANGED <<gone, pc, senders, negotiationVars, subscriberVars, forwarders, taken, mapVars>>

-----------------------------------------------------------------------------
(* The subscriber *)

\* Room.join, then run_signal_session: setup_subscriber, whose error is logged.
Join ==
    /\ session = "idle"
    /\ session' = "joined"
    /\ inRoom' = TRUE
    /\ UNCHANGED <<gone, pc, senders, negotiationVars, existing, endPc, trackVars, callVars, mapVars>>

SetupSubscriber ==
    /\ session = "joined"
    /\ session' = "setup"
    /\ \/ pc' = TRUE /\ UNCHANGED failed
       \/ ~pc /\ failed' = TRUE /\ UNCHANGED pc
    /\ UNCHANGED <<gone, senders, flags, tasks, holder, offer, nextId, wire, inRoom,
                   existing, endPc, trackVars, callVars, mapVars>>

\* The tracks of the others are listed ...
ListTracks ==
    /\ session = "setup"
    /\ session' = "adding"
    /\ existing' = published
    /\ UNCHANGED <<gone, pc, senders, negotiationVars, inRoom, endPc, trackVars, callVars, mapVars>>

\* ... subscribed to one after the other ...
SubscribeExisting(t) ==
    /\ session = "adding"
    /\ t \in existing
    /\ \A u \in Tracks : Idle(u, "join")
    /\ existing' = existing \ {t}
    /\ To(t, "join", "add")
    /\ UNCHANGED <<gone, pc, senders, negotiationVars, inRoom, session, endPc, trackVars, taken, mapVars>>

\* ... and a negotiation is requested.
StartReading ==
    /\ session = "adding"
    /\ existing = {}
    /\ \A u \in Tracks : Idle(u, "join")
    /\ session' = "reading"
    /\ RequestSubscriberNegotiation
    /\ UNCHANGED <<gone, pc, senders, inRoom, existing, endPc, trackVars, callVars, mapVars>>

\* handle_update_subscriptions for a track that is published, once.
UpdateSubscription(t, op) ==
    /\ session = "reading"
    /\ ~gone
    /\ t \in published
    /\ session' = op
    /\ To(t, "update", op)
    /\ UNCHANGED <<gone, pc, senders, negotiationVars, inRoom, existing, endPc, trackVars, taken, mapVars>>

\* handle_sync_state of a client that resumed, once.
SyncState ==
    /\ failed
    /\ session = "reading"
    /\ ~gone
    /\ session' = "resumed"
    /\ RequestSubscriberNegotiation
    /\ UNCHANGED <<gone, pc, senders, inRoom, existing, endPc, trackVars, callVars, mapVars>>

\* end_participant: Disconnected, and out of the room; Room.close: Disconnected,
\* and out of the room at last.
EndParticipant ==
    /\ endPc = "idle"
    /\ inRoom
    /\ gone' = TRUE
    /\ inRoom' \in BOOLEAN
    /\ endPc' = "clear"
    /\ UNCHANGED <<pc, senders, negotiationVars, session, existing, trackVars, callVars, mapVars>>

\* ... close_participant_media: the maps and the peer connection ...
ClearMedia ==
    /\ endPc = "clear"
    /\ endPc' = "release"
    /\ pc' = FALSE
    /\ senders' = {}
    /\ senderOf' = [t \in Tracks |-> NoCall]
    /\ UNCHANGED <<gone, negotiationVars, inRoom, session, existing, trackVars, callVars, fanout,
                   refused>>

\* ... and the forwarders of the others.
ReleaseForwarders ==
    /\ endPc = "release"
    /\ endPc' = "done"
    /\ inRoom' = FALSE
    /\ fanout' = [t \in Tracks |-> IF t \in forwarders THEN NoCall ELSE fanout[t]]
    /\ UNCHANGED <<gone, pc, senders, negotiationVars, session, existing, trackVars, callVars, senderOf,
                   refused>>

-----------------------------------------------------------------------------

Progress ==
    \/ \E t \in Tracks, c \in Callers : Subscribe(t, c) \/ Unsubscribe(t, c)
    \/ SetupSubscriber \/ ListTracks \/ StartReading
    \/ \E t \in Tracks : SubscribeExisting(t)
    \/ ClearMedia \/ ReleaseForwarders

Publishing ==
    \E t \in Tracks :
        \/ AddTrack(t) \/ OnTrack(t) \/ OnTrackPublished(t)
        \/ LoopEnds(t) \/ OnTrackUnpublished(t)

Requests ==
    \/ Join
    \/ \E t \in Tracks, op \in {"add", "remove"} : UpdateSubscription(t, op)
    \/ SyncState
    \/ EndParticipant

Next ==
    \/ Progress
    \/ Publishing
    \/ Requests
    \/ Negotiate /\ UNCHANGED <<subscriberVars, trackVars, callVars, mapVars>>
    \/ (ClientAnswers \/ LoseMessage) /\ UNCHANGED <<subscriberVars, trackVars, callVars, mapVars>>

Spec == Init /\ [][Next]_vars

\* The tasks of the server are scheduled, and the client answers an offer it got.
FairSpec ==
    /\ Spec
    /\ WF_vars(Progress)
    /\ WF_vars(Negotiate /\ UNCHANGED <<subscriberVars, trackVars, callVars, mapVars>>)
    /\ WF_vars(ClientAnswers /\ UNCHANGED <<subscriberVars, trackVars, callVars, mapVars>>)

-----------------------------------------------------------------------------
(* Properties *)

\* Types.  A sender in the subscriber's map is one of its peer connection.
TypeOK ==
    /\ gone \in BOOLEAN /\ pc \in BOOLEAN
    /\ senders \subseteq Calls
    /\ needs \in BOOLEAN /\ answerPending \in BOOLEAN
    /\ tasks \in [BOOLEAN -> Nat]
    /\ holder \in {"none", "create", "send"}
    /\ offer \in (SUBSET Calls) \cup {NoOffer}
    /\ nextId \in 0..MaxOffers
    /\ wire \in {"none", "offer", "answer"}
    /\ failed \in BOOLEAN
    /\ inRoom \in BOOLEAN
    /\ session \in {"idle", "joined", "setup", "adding", "reading", "add", "remove", "resumed"}
    /\ existing \subseteq Tracks
    /\ endPc \in {"idle", "clear", "release", "done"}
    /\ published \subseteq Tracks /\ forwarders \subseteq Tracks
    /\ trackPc \in [Tracks -> {"idle", "added", "forwarding", "subscribing", "ending", "unpublished"}]
    /\ call \in [Tracks -> [Callers -> {"idle", "add", "attach", "insert", "fan",
                                        "remove", "release", "detach"}]]
    /\ taken \in [Tracks -> [Callers -> Callers \cup {NoCall}]]
    /\ senderOf \in [Tracks -> Callers \cup {NoCall}]
    /\ fanout \in [Tracks -> Callers \cup {NoCall}]
    /\ refused \subseteq Tracks
    /\ ~gone => \A t \in Tracks : senderOf[t] # NoCall => <<t, senderOf[t]>> \in senders

\* No track falls between the join and its publication: whichever comes first,
\* and however the listing of the tracks and that of the participants interleave,
\* a subscriber whose session reads gets a track that is forwarded, unless it
\* unsubscribed or its peer connection could not be set up or did not take the
\* track, which nobody tries again.
NoTrackMissed ==
    \A t \in Tracks :
        /\ session \in {"reading", "add", "resumed"}
        /\ ~gone
        /\ trackPc[t] = "subscribing"
        /\ \A c \in Callers : Idle(t, c)
        /\ t \notin refused
        => senderOf[t] # NoCall /\ fanout[t] # NoCall

\* One offer is outstanding at a time: none is made while another or its answer
\* is under way, so that the answer handled is the answer to the last offer.
OneOfferAtATime ==
    holder # "none" => ~answerPending /\ wire = "none"

\* Every change of the senders is offered in the end, by the task it spawned or
\* by the one that the pending answer spawns, unless the connection could not be
\* set up, or an offer could not be made or was lost, or its answer.
OffersCatchUp ==
    (session \in {"reading", "add", "remove", "resumed"} /\ offer # senders)
        ~> (offer = senders \/ gone \/ failed)

-----------------------------------------------------------------------------
(* What the code's documentation says, or would be expected, and is not kept *)

\* "Incrementing id for subscriber offers (the reference numbers each SDP offer
\* so clients can correlate answers)".
OfferIdsIncrease == nextId >= 2 => OfferId(nextId - 2) < OfferId(nextId - 1)

\* add_subscription "creates a per-subscriber down-track": one for a track.
OneSenderPerTrack == \A t \in Tracks : Cardinality({s \in senders : s[1] = t}) <= 1

\* close_participant_media: "Release this participant from any forwarders it
\* subscribed to, so the per-subscriber down-track Arcs drop".
ReleasedForGood ==
    endPc = "done" /\ (\A t \in Tracks, c \in Callers : Idle(t, c)) =>
        ~pc /\ \A t \in forwarders : fanout[t] = NoCall

\* on_track_unpublished "Unsubscribes everyone".
UnpublishedIsReleased ==
    \A t \in Tracks :
        ~gone /\ trackPc[t] = "unpublished" /\ (\A c \in Callers : Idle(t, c)) => senderOf[t] = NoCall

\* After a lost offer or answer the client that resumes is offered what changed.
ResumeIsOffered ==
    (session = "resumed" /\ offer # senders) ~> (offer = senders \/ gone)

=============================================================================
