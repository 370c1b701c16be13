------------------------------ MODULE MCTasks ------------------------------
(***************************************************************************)
(* The parts that have work left to do after the call that caused it, in    *)
(* tasks and timers of their own, checked side by side: a behaviour is one  *)
(* of SignalSession, Relay or Speakers, chosen at the start, while the      *)
(* others rest.                                                             *)
(***************************************************************************)
EXTENDS SignalSession, Relay, Speakers

VARIABLE part

tasksVars == <<part, vars, relayVars, speakersVars>>

-----------------------------------------------------------------------------
(* At rest *)

\* The participant is gone, and so are its sessions.
SessionRest ==
    /\ session = [s \in Sessions |-> "over"]
    /\ born = [s \in Sessions |-> 0]
    /\ present = FALSE
    /\ disconnected = TRUE
    /\ resumeGen = 0
    /\ sink = NoSession
    /\ graceGen = [s \in Sessions |-> 0]
    /\ endPc = [e \in Enders |-> "done"]
    /\ closePc = "done"
    /\ leaveSent = {}
SpeakersRest ==
    /\ mode = [p \in Speakers |-> "paused"]
    /\ due = {}
    /\ attendees = {}
    /\ window = [p \in Speakers |-> NewWindow]
    /\ active = [p \in Speakers |-> FALSE]
    /\ announced = {}
    /\ round = [Idle EXCEPT !.step = "off"]
    /\ changes = 0

TasksInit ==
    /\ part \in {"session", "relay", "speakers"}
    /\ RelayInit
    /\ IF part = "session" THEN Init ELSE SessionRest
    /\ IF part = "speakers" THEN SpeakersInit ELSE SpeakersRest

TasksNext ==
    /\ \/ /\ part = "session" /\ Next
          /\ UNCHANGED <<relayVars, speakersVars>>
       \/ /\ part = "relay" /\ RelayNext
          /\ UNCHANGED <<vars, speakersVars>>
       \/ /\ part = "speakers" /\ SpeakersNext
          /\ UNCHANGED <<vars, relayVars>>
    /\ UNCHANGED part

\* At rest no step of a fair task is enabled.
TasksSpec ==
    /\ TasksInit
    /\ [][TasksNext]_tasksVars
    /\ Fairness
    /\ RelayFairness
    /\ SpeakersFairness

=============================================================================
