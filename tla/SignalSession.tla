--------------------------- MODULE SignalSession ---------------------------
(***************************************************************************)
(* The signal sessions of one participant: the one that joined, and those   *)
(* that resume it after the client lost its connection                      *)
(* (signal::run_session_with_io, resume_room_participant,                   *)
(* run_signal_session), the grace task a session leaves behind when it      *)
(* ends, and the three ways the participant is torn down: end_participant   *)
(* from a grace task, end_participant from elsewhere, and Room.close.       *)
(*                                                                         *)
(* A reconnect that cannot resume becomes a fresh join, a new participant:  *)
(* here it is only a session that is over.                                  *)
(***************************************************************************)
EXTENDS Naturals

CONSTANTS
    Sessions,   \* signal transports of this participant, each used once
    First,      \* the session whose join created the participant
    Removers,   \* other callers of end_participant: a leave request, a media
                \* failure, RoomService.RemoveParticipant, a duplicate join
    NoSession

ASSUME SessionAssumption ==
    /\ First \in Sessions
    /\ NoSession \notin Sessions
    /\ Sessions \cap Removers = {}

Enders == Sessions \cup Removers

VARIABLES
    session,      \* session[s]: where run_session_with_io(s) is
    born,         \* born[s]: resume_gen when s became a session
    present,      \* the participant is in Room.participants
    disconnected, \* Participant.state is Disconnected
    resumeGen,    \* Participant.resume_gen
    sink,         \* the session whose channel is Participant.tx
    graceGen,     \* graceGen[s]: `gen` of the grace task s spawned
    endPc,        \* endPc[e]: the grace task of session e, or the call of
                  \* end_participant by remover e
    closePc,      \* Room.close, for this participant
    leaveSent     \* sessions whose channel was handed a Leave by Room.close

sessionVars == <<session, born>>
participantVars == <<present, disconnected, resumeGen, sink>>
vars == <<sessionVars, participantVars, graceGen, endPc, closePc, leaveSent>>

SessionPcs == {"none", "found", "checked", "starting", "reading", "over"}
EndPcs == {"idle", "sleeping", "check", "remove", "done"}
ClosePcs == {"idle", "notify", "clear", "done"}

\* Sessions that resumed (or joined) and have not ended.
Live == {s \in Sessions : session[s] \in {"starting", "reading"}}

\* join_room succeeded and run_signal_session is about to run.
Init ==
    /\ session = [s \in Sessions |-> IF s = First THEN "starting" ELSE "none"]
    /\ born = [s \in Sessions |-> 0]
    /\ present = TRUE
    /\ disconnected = FALSE
    /\ resumeGen = 0
    /\ sink = NoSession
    /\ graceGen = [s \in Sessions |-> 0]
    /\ endPc = [e \in Enders |-> "idle"]
    /\ closePc = "idle"
    /\ leaveSent = {}

-----------------------------------------------------------------------------
(* resume_room_participant *)

\* get_room and get_participant_by_identity.
FindParticipant(s) ==
    /\ session[s] = "none"
    /\ session' = [session EXCEPT ![s] = IF present THEN "found" ELSE "over"]
    /\ UNCHANGED <<born, participantVars, graceGen, endPc, closePc, leaveSent>>

\* The Disconnected test, and the comparison of the sid the client names.
CheckResumable(s) ==
    /\ session[s] = "found"
    /\ \/ session' = [session EXCEPT ![s] = "over"]
       \/ ~disconnected /\ session' = [session EXCEPT ![s] = "checked"]
    /\ UNCHANGED <<born, participantVars, graceGen, endPc, closePc, leaveSent>>

Resume(s) ==
    /\ session[s] = "checked"
    /\ resumeGen' = resumeGen + 1
    /\ session' = [session EXCEPT ![s] = "starting"]
    /\ born' = [born EXCEPT ![s] = resumeGen + 1]
    /\ UNCHANGED <<present, disconnected, sink, graceGen, endPc, closePc, leaveSent>>

-----------------------------------------------------------------------------
(* run_signal_session *)

\* The new channel replaces the one of an earlier session.
SetSignalSink(s) ==
    /\ session[s] = "starting"
    /\ session' = [session EXCEPT ![s] = "reading"]
    /\ sink' = s
    /\ UNCHANGED <<born, present, disconnected, resumeGen, graceGen, endPc,
                   closePc, leaveSent>>

\* Mutant: only the session that joined leaves a grace task behind.
EndWithoutGrace(s) ==
    /\ session[s] = "reading"
    /\ session' = [session EXCEPT ![s] = "over"]
    /\ IF disconnected \/ born[s] > 0
         THEN UNCHANGED <<graceGen, endPc>>
         ELSE /\ graceGen' = [graceGen EXCEPT ![s] = resumeGen]
              /\ endPc' = [endPc EXCEPT ![s] = "sleeping"]
    /\ UNCHANGED <<born, participantVars, closePc, leaveSent>>

\* The reader loop is over: the transport closed, failed or fell silent, or
\* the participant is Disconnected after a request.  Unless it is, a grace
\* task is spawned with the resume_gen of this moment.
EndSession(s) ==
    /\ session[s] = "reading"
    /\ session' = [session EXCEPT ![s] = "over"]
    /\ IF disconnected
         THEN UNCHANGED <<graceGen, endPc>>
         ELSE /\ graceGen' = [graceGen EXCEPT ![s] = resumeGen]
              /\ endPc' = [endPc EXCEPT ![s] = "sleeping"]
    /\ UNCHANGED <<born, participantVars, closePc, leaveSent>>

\* Mutant: the comparison of the grace task is inverted.
WakeInverted(s) ==
    /\ endPc[s] = "sleeping"
    /\ endPc' = [endPc EXCEPT ![s] =
                    IF resumeGen = graceGen[s] THEN "done" ELSE "check"]
    /\ UNCHANGED <<sessionVars, participantVars, graceGen, closePc, leaveSent>>

\* The grace task after its sleep.
Wake(s) ==
    /\ endPc[s] = "sleeping"
    /\ endPc' = [endPc EXCEPT ![s] =
                    IF resumeGen = graceGen[s] THEN "check" ELSE "done"]
    /\ UNCHANGED <<sessionVars, participantVars, graceGen, closePc, leaveSent>>

-----------------------------------------------------------------------------
(* Teardown *)

CallEndParticipant(e) ==
    /\ endPc[e] = "idle"
    /\ endPc' = [endPc EXCEPT ![e] = "check"]
    /\ UNCHANGED <<sessionVars, participantVars, graceGen, closePc, leaveSent>>

\* end_participant: already_removed returns; else state, reason and sink.
CheckRemoved(e) ==
    /\ endPc[e] = "check"
    /\ \/ /\ ~present
          /\ endPc' = [endPc EXCEPT ![e] = "done"]
          /\ UNCHANGED <<disconnected, sink>>
       \/ /\ present
          /\ endPc' = [endPc EXCEPT ![e] = "remove"]
          /\ disconnected' = TRUE
          /\ sink' = NoSession
    /\ UNCHANGED <<sessionVars, present, resumeGen, graceGen, closePc, leaveSent>>

\* remove_participant and the reports that follow it.
RemoveFromRoom(e) ==
    /\ endPc[e] = "remove"
    /\ endPc' = [endPc EXCEPT ![e] = "done"]
    /\ present' = FALSE
    /\ UNCHANGED <<sessionVars, disconnected, resumeGen, sink, graceGen,
                   closePc, leaveSent>>

\* Room.close found the participant in its snapshot.
CloseDisconnects ==
    /\ closePc = "idle"
    /\ present
    /\ closePc' = "notify"
    /\ disconnected' = TRUE
    /\ sink' = NoSession
    /\ UNCHANGED <<sessionVars, present, resumeGen, graceGen, endPc, leaveSent>>

\* participant.send of the Leave: to the sink, when there is one.
CloseNotifies ==
    /\ closePc = "notify"
    /\ closePc' = "clear"
    /\ leaveSent' = leaveSent \cup ({sink} \ {NoSession})
    /\ UNCHANGED <<sessionVars, participantVars, graceGen, endPc>>

CloseClears ==
    /\ closePc = "clear"
    /\ closePc' = "done"
    /\ present' = FALSE
    /\ UNCHANGED <<sessionVars, disconnected, resumeGen, sink, graceGen, endPc,
                   leaveSent>>

-----------------------------------------------------------------------------

Teardown(e) == CheckRemoved(e) \/ RemoveFromRoom(e)
CloseRoom == CloseNotifies \/ CloseClears

Next ==
    \/ \E s \in Sessions :
          \/ FindParticipant(s)
          \/ CheckResumable(s)
          \/ Resume(s)
          \/ SetSignalSink(s)
          \/ EndSession(s)
          \/ Wake(s)
    \/ \E e \in Removers : CallEndParticipant(e)
    \/ \E e \in Enders : Teardown(e)
    \/ CloseDisconnects
    \/ CloseRoom

Spec == Init /\ [][Next]_vars

\* Tasks that can run are run and timers fire.  A reader is only certain to
\* return when the participant is Disconnected: the next request breaks the
\* loop, and without one the ping timeout does.
Fairness ==
    /\ \A s \in Sessions :
          /\ WF_vars(SetSignalSink(s))
          /\ WF_vars(disconnected /\ EndSession(s))
          /\ WF_vars(Wake(s))
    /\ \A e \in Enders : WF_vars(Teardown(e))
    /\ WF_vars(CloseRoom)

FairSpec == Spec /\ Fairness

-----------------------------------------------------------------------------
(* Properties *)

\* The state has its types; a grace task exists only once its session is
\* over, and a session never carries a later resume_gen than the participant.
TypeOK ==
    /\ session \in [Sessions -> SessionPcs]
    /\ born \in [Sessions -> Nat]
    /\ present \in BOOLEAN
    /\ disconnected \in BOOLEAN
    /\ resumeGen \in Nat
    /\ sink \in Sessions \cup {NoSession}
    /\ graceGen \in [Sessions -> Nat]
    /\ endPc \in [Enders -> EndPcs]
    /\ closePc \in ClosePcs
    /\ leaveSent \in SUBSET Sessions
    /\ \A s \in Sessions : endPc[s] # "idle" => session[s] = "over"
    /\ \A s \in Sessions : born[s] <= resumeGen /\ graceGen[s] <= resumeGen

\* A participant whose sessions have all ended is never forgotten: as long as
\* it is in the room, a grace task that will not skip, a call of
\* end_participant or Room.close is on its way to remove it, however the ends
\* of older sessions, resumes and grace tasks interleave.
NeverOrphaned ==
    present /\ Live = {} =>
        \/ \E e \in Enders : endPc[e] \in {"check", "remove"}
        \/ \E s \in Sessions :
              endPc[s] = "sleeping" /\ graceGen[s] = resumeGen
        \/ closePc \in {"notify", "clear"}

\* ... and so it is removed, unless a session resumes it.
OrphanRemoved ==
    present /\ Live = {} ~> ~present \/ Live # {}

\* Participant.resume_gen: "the teardown grace task for an older session skips
\* when a newer session resumed".
OlderGraceSkips ==
    [][\A s \in Sessions :
          endPc[s] = "sleeping" /\ endPc'[s] = "check" =>
              \A t \in Live : born[t] <= born[s]]_vars

\* Room.close: "Notify the participant it is being disconnected."
CloseTellsClient ==
    [][closePc = "notify" /\ closePc' = "clear" /\ Live # {} => leaveSent' # {}]_vars

=============================================================================
