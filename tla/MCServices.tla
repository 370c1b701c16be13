----------------------------- MODULE MCServices -----------------------------
(***************************************************************************)
(* The two services that bring somebody else into a room, checked side by   *)
(* side: a behaviour is one of AgentDispatch or SipService, chosen at the   *)
(* start, while the other rests.                                            *)
(***************************************************************************)
EXTENDS MCAgent, MCSip

VARIABLE service

servicesVars == <<service, vars, sipVars>>

\* No call and no request, and nothing is stored.
SipRest ==
    /\ trunks = [id \in TrunkIds |-> None]
    /\ rules = [id \in RuleIds |-> None]
    /\ minted = {}
    /\ op = [a \in Admins |-> [pc |-> "idle", id |-> None, rec |-> None]]
    /\ call = None /\ request = None /\ pc = "done"
    /\ ireq = None
    /\ sip = [room |-> FALSE, callID |-> None, target |-> None]
    /\ trunkId = None /\ trunk = None
    /\ pin = None /\ noPin = FALSE
    /\ answer = None /\ asked = None
    /\ quiet = FALSE

\* CreateSIPParticipant reads no dispatch rule.
ServicesInit ==
    /\ service \in {"agent", "sip"}
    /\ Init
    /\ IF service = "sip"
       THEN SipInit /\ (request # None => \A id \in RuleIds : rules[id] = None)
       ELSE SipRest

ServicesNext ==
    /\ \/ service = "agent" /\ Next /\ UNCHANGED sipVars
       \/ service = "sip" /\ SipNext /\ UNCHANGED vars
    /\ UNCHANGED service

ServicesSpec == ServicesInit /\ [][ServicesNext]_servicesVars

=============================================================================
