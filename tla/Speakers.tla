------------------------------ MODULE Speakers ------------------------------
(***************************************************************************)
(* Active speakers: AudioLevelDetector (audio_level.rs), fed by the         *)
(* forwarding loop of each published track, and broadcast_speakers          *)
(* (server.rs), which the background task runs every UPDATE_INTERVAL beside *)
(* them.                                                                    *)
(*                                                                         *)
(* One room; a participant publishes one track.  Time is counted in ticks;  *)
(* a track that is sent brings one packet per tick.  The level is abstract: *)
(* a packet is loud (at most ACTIVE_LEVEL_DBOV) or not.                     *)
(***************************************************************************)
EXTENDS Integers, FiniteSets

CONSTANTS
    Speakers,       \* the participants
    Interval,       \* UPDATE_INTERVAL, in ticks
    SmoothIntervals,\* SMOOTH_INTERVALS
    MinPercentile,  \* MIN_PERCENTILE
    MaxChanges      \* bound: changes of what the participants do

ASSUME SpeakersAssumption ==
    /\ IsFiniteSet(Speakers)
    /\ Interval \in Nat \ {0}
    /\ SmoothIntervals \in Nat \ {0}
    /\ MinPercentile \in Nat
    /\ MaxChanges \in Nat

VARIABLES
    mode,       \* mode[p]: what p sends: "loud" or "quiet" packets, or none
    due,        \* due: the tracks whose packet of this tick is under way
    attendees,  \* the participants in the room
    window,     \* window[p]: Window of p's detector, and the time since started
    active,     \* active[p]: AudioLevelDetector.active
    announced,  \* the room's entry in speaker_states
    round,      \* where broadcast_speakers is
    changes     \* bound

speakersVars == <<mode, due, attendees, window, active, announced, round, changes>>

StaleAge == Interval * SmoothIntervals

\* started = None.
NotStarted == -1

NewWindow == [age |-> NotStarted, total |-> 0, loud |-> 0]

Idle == [step |-> "idle", listed |-> {}, left |-> {}, turn |-> {}, found |-> {}]

SpeakersInit ==
    /\ mode = [p \in Speakers |-> "paused"]
    /\ due = {}
    /\ attendees \in SUBSET Speakers
    /\ window = [p \in Speakers |-> NewWindow]
    /\ active = [p \in Speakers |-> FALSE]
    /\ announced = {}
    /\ round = Idle
    /\ changes = 0

-----------------------------------------------------------------------------
(* The participants *)

\* p starts or stops to talk, or pauses the track (DTX).
ChangeMode(p, m) ==
    /\ p \in attendees
    /\ mode[p] # m
    /\ changes < MaxChanges
    /\ changes' = changes + 1
    /\ mode' = [mode EXCEPT ![p] = m]
    /\ UNCHANGED <<due, attendees, window, active, announced, round>>

\* p joins: the track it publishes has a new detector.
JoinRoom(p) ==
    /\ p \notin attendees
    /\ changes < MaxChanges
    /\ changes' = changes + 1
    /\ attendees' = attendees \cup {p}
    /\ window' = [window EXCEPT ![p] = NewWindow]
    /\ active' = [active EXCEPT ![p] = FALSE]
    /\ UNCHANGED <<mode, due, announced, round>>

\* p leaves.  A round that listed p before may still read its detector.
LeaveRoom(p) ==
    /\ p \in attendees
    /\ changes < MaxChanges
    /\ changes' = changes + 1
    /\ attendees' = attendees \ {p}
    /\ mode' = [mode EXCEPT ![p] = "paused"]
    /\ due' = due \ {p}
    /\ UNCHANGED <<window, active, announced, round>>

-----------------------------------------------------------------------------
(* The detector *)

\* compute_active, in the integers of the code.
ComputeActive(w) ==
    w.total # 0 /\ (w.loud * 100) \div w.total >= MinPercentile

\* The counters go on in a window of age, or in a new one.
Counted(w, loud) ==
    [w EXCEPT !.total = @ + 1, !.loud = @ + (IF loud THEN 1 ELSE 0)]

\* Mutant: a window that was evaluated only ever makes p active.
ActiveSticks(p) ==
    LET w == window[p]
        over == w.age = NotStarted \/ w.age >= Interval
    IN /\ p \in due
       /\ due' = due \ {p}
       /\ active' = [active EXCEPT ![p] = @ \/ (over /\ ComputeActive(w))]
       /\ window' = [window EXCEPT ![p] =
             Counted(IF over THEN [NewWindow EXCEPT !.age = 0] ELSE w,
                     mode[p] = "loud")]
       /\ UNCHANGED <<mode, attendees, announced, round, changes>>

\* observe: a packet that comes Interval after the window began evaluates it and
\* starts the next one.
ObservePacket(p) ==
    LET w == window[p]
        over == w.age = NotStarted \/ w.age >= Interval
    IN /\ p \in due
       /\ due' = due \ {p}
       /\ active' = [active EXCEPT ![p] = IF over THEN ComputeActive(w) ELSE @]
       /\ window' = [window EXCEPT ![p] =
             Counted(IF over THEN [NewWindow EXCEPT !.age = 0] ELSE w,
                     mode[p] = "loud")]
       /\ UNCHANGED <<mode, attendees, announced, round, changes>>

\* Time passes when the packets of the tick are in: each track that is sent has
\* its next one under way.  An age is exact up to StaleAge.
Tick ==
    /\ due = {}
    /\ due' = {p \in attendees : mode[p] # "paused"}
    /\ window' = [p \in Speakers |->
          IF window[p].age = NotStarted \/ window[p].age = StaleAge THEN window[p]
          ELSE [window[p] EXCEPT !.age = @ + 1]]
    /\ UNCHANGED <<mode, attendees, active, announced, round, changes>>

-----------------------------------------------------------------------------
(* broadcast_speakers, beside the detectors *)

\* The room's participants are listed.
BeginRound ==
    /\ round.step = "idle"
    /\ round' = [Idle EXCEPT !.step = "checking",
                             !.listed = attendees, !.left = attendees]
    /\ UNCHANGED <<mode, due, attendees, window, active, announced, changes>>

\* Mutant: a detector is stale as soon as its window can be evaluated.
StaleAfterOneInterval(p) ==
    /\ round.step = "checking"
    /\ p \in round.left
    /\ round' = [round EXCEPT
          !.step = IF window[p].age >= Interval THEN "resetting" ELSE "reading",
          !.left = @ \ {p},
          !.turn = {p}]
    /\ UNCHANGED <<mode, due, attendees, window, active, announced, changes>>

\* reset_if_stale: the age is read under the lock of the window ...
CheckStale(p) ==
    /\ round.step = "checking"
    /\ p \in round.left
    /\ round' = [round EXCEPT
          !.step = IF window[p].age >= StaleAge THEN "resetting" ELSE "reading",
          !.left = @ \ {p},
          !.turn = {p}]
    /\ UNCHANGED <<mode, due, attendees, window, active, announced, changes>>

\* ... and acted on after it; the window itself is left alone.
ResetActive(p) ==
    /\ round.step = "resetting"
    /\ p \in round.turn
    /\ active' = [active EXCEPT ![p] = FALSE]
    /\ round' = [round EXCEPT !.step = "reading"]
    /\ UNCHANGED <<mode, due, attendees, window, announced, changes>>

ReadActive(p) ==
    /\ round.step = "reading"
    /\ p \in round.turn
    /\ round' = [round EXCEPT
          !.step = "checking",
          !.turn = {},
          !.found = IF active[p] THEN @ \cup {p} ELSE @]
    /\ UNCHANGED <<mode, due, attendees, window, active, announced, changes>>

\* The set is stored and sent to the listed participants when it changed.
EndRound ==
    /\ round.step = "checking"
    /\ round.left = {}
    /\ announced' = round.found
    /\ round' = Idle
    /\ UNCHANGED <<mode, due, attendees, window, active, changes>>

-----------------------------------------------------------------------------

SpeakersNext ==
    \/ Tick
    \/ BeginRound
    \/ EndRound
    \/ \E p \in Speakers :
          \/ JoinRoom(p)
          \/ LeaveRoom(p)
          \/ \E m \in {"loud", "quiet", "paused"} : ChangeMode(p, m)
          \/ ObservePacket(p)
          \/ CheckStale(p)
          \/ ResetActive(p)
          \/ ReadActive(p)

\* Time goes on, the forwarding loops and the background task run.  Nothing
\* makes a participant talk, pause, join or leave.
SpeakersFairness ==
    /\ WF_speakersVars(Tick)
    /\ WF_speakersVars(BeginRound)
    /\ WF_speakersVars(EndRound)
    /\ \A p \in Speakers :
          /\ WF_speakersVars(ObservePacket(p))
          /\ WF_speakersVars(CheckStale(p))
          /\ WF_speakersVars(ResetActive(p))
          /\ WF_speakersVars(ReadActive(p))

SpeakersSpec == SpeakersInit /\ [][SpeakersNext]_speakersVars /\ SpeakersFairness

-----------------------------------------------------------------------------
(* Properties *)

\* A participant that keeps talking is announced and stays announced: the
\* detector's windows, which the rounds of broadcast_speakers meet in any phase,
\* do not make the announcement flap, and no reset decided on an old window
\* lasts.
SpeakerAnnounced ==
    \A p \in Speakers :
        <>[](p \in attendees /\ mode[p] = "loud") => <>[](p \in announced)

\* "Expire speakers whose packets stopped (DTX/pause) so they are not reported
\* active forever": a participant that stops talking, pauses or leaves is
\* dropped and stays dropped, although a pause leaves the detector's last window
\* unevaluated and the next packet evaluates it.
SpeakerDropped ==
    \A p \in Speakers :
        <>[](p \notin attendees \/ mode[p] # "loud") => <>[](p \notin announced)

=============================================================================
