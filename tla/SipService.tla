----------------------------- MODULE SipService -----------------------------
(***************************************************************************)
(* SIP: the trunks and dispatch rules kept in the store, the calls of the   *)
(* SIP API that change them (services_sip.rs), the two questions an         *)
(* external SIP container asks about an inbound call (ioservice.rs), and an *)
(* outbound call: CreateSIPParticipant, then TransferSIPParticipant.        *)
(*                                                                         *)
(* An inbound call is GetSIPTrunkAuthentication and                         *)
(* EvaluateSIPDispatchRules, the second again with a PIN when the answer    *)
(* asks for one.  An outbound call resolves a trunk and is handed to the    *)
(* container over psrpc.  A behaviour has one call, of either direction.    *)
(*                                                                         *)
(* Every access to the store is a step of its own, so that an update can    *)
(* fall between the load and the store of another one, or between two reads *)
(* of a call.  Inbound and outbound trunks are two hashes with ids from one *)
(* generator: an id is in one of them at most, and `trunks` is both, with   *)
(* the `kind` of a record for its hash.  The API calls that only read are   *)
(* left out.                                                                *)
(***************************************************************************)
EXTENDS SipMatch

CONSTANTS
    TrunkIds, RuleIds,          \* generate_id("ST_"), generate_id("SR_")
    TrunkConfigs, RuleConfigs,  \* what the Create calls of trunks and of rules store
    TrunkUpdates, RuleUpdates,  \* the actions of the Update calls
    OutboundUpdates,            \* the same for outbound trunks
    Admins,                     \* calls of the SIP API; each is made once
    Calls,                      \* the inbound calls that may come
    Pins,                       \* what a caller may enter
    Requests,                   \* the CreateSIPParticipant requests that may come
    TwilioHosts,                \* the addresses that end in "twilio.com"
    NewCall                     \* generate_id("SC_")

\* A trunk is in one of the two hashes.  A rule is of one of the kinds, or of none,
\* and has a room or a prefix: what the loop over the rules compares.
IsTrunk(tr) == {"id", "kind"} \subseteq DOMAIN tr /\ tr.kind \in {"inbound", "outbound"}

Comparable(rule) ==
    rule.kind \in {"none", "direct", "individual", "callee"} /\ rule.room \in Nat

IsRule(rule) == {"id", "kind", "room"} \subseteq DOMAIN rule /\ Comparable(rule)

ASSUME SipAssumption ==
    /\ IsFiniteSet(TrunkIds) /\ IsFiniteSet(RuleIds)
    /\ \A cfg \in TrunkConfigs : IsTrunk(cfg)
    /\ \A u \in TrunkUpdates \cup OutboundUpdates : u.replace # None => IsTrunk(u.replace)
    /\ \A cfg \in RuleConfigs : IsRule(cfg)
    /\ \A u \in RuleUpdates :
          /\ u.replace # None => IsRule(u.replace)
          /\ u.rule # None => Comparable(u.rule)

VARIABLES
    trunks, rules,      \* the hashes: id -> record or None
    minted,             \* the ids generated so far
    op,                 \* admin -> [pc, id, rec]: what it loaded
    call,               \* the inbound call
    pc,                 \* where the container's questions are
    trunkId,            \* sip_trunk_id of the answer to the first question
    trunk,              \* what match_trunk_for returned
    pin, noPin,         \* what the second question sends
    answer,             \* the answer to the second question
    asked,              \* the rule that asked for a PIN, None
    quiet,              \* nothing was written since the evaluation that asked
    request,            \* the CreateSIPParticipant request
    ireq,               \* what is sent to the container for it
    sip                 \* [room, callID, target]: the room exists, the sip.callID of
                        \* the participant in it, and the call that was transferred

hashes == <<trunks, rules>>
callVars == <<call, pc, trunkId, trunk, pin, noPin, answer, asked>>
outVars == <<request, ireq, sip>>
sipVars == <<hashes, minted, op, callVars, quiet, outVars>>

Stored(hash) == {hash[id] : id \in {i \in DOMAIN hash : hash[i] # None}}

Inbound == {tr \in Stored(trunks) : tr.kind = "inbound"}

\* A hash is read back in any order.
Orders(S) == Bijection(1 .. Cardinality(S), S)

Keyed(hash) == [id \in DOMAIN hash |->
                  IF hash[id] = None THEN None ELSE [hash[id] EXCEPT !.id = id]]

\* The store outlives the server: it may hold anything that was stored before.
SipInit ==
    /\ \E h \in [TrunkIds -> TrunkConfigs \cup {None}] : trunks = Keyed(h)
    /\ \E h \in [RuleIds -> RuleConfigs \cup {None}] : rules = Keyed(h)
    /\ minted = {id \in TrunkIds : trunks[id] # None} \cup {id \in RuleIds : rules[id] # None}
    /\ op = [a \in Admins |-> [pc |-> "idle", id |-> None, rec |-> None]]
    /\ \/ call \in Calls /\ request = None /\ pc = "ringing"
       \/ call = None /\ request \in Requests /\ pc = "requested"
    /\ ireq = None
    /\ sip = [room |-> FALSE, callID |-> None, target |-> None]
    /\ trunkId = None /\ trunk = None
    /\ pin = None /\ noPin = FALSE
    /\ answer = None /\ asked = None
    /\ quiet = FALSE

-----------------------------------------------------------------------------
(* The SIP API *)

\* Lists are sets here: no code looks at their order or finds an element twice.
apply_list_update(current, update) ==
    IF update = None THEN current
    ELSE ((IF update.set # {} THEN update.set
           ELSE IF update.clear THEN {} ELSE current)
          \cup update.add) \ update.remove

UpdateTrunk(tr, u) ==
    IF u.replace # None THEN [u.replace EXCEPT !.id = tr.id]
    ELSE [tr EXCEPT !.numbers = apply_list_update(@, u.numbers),
                    !.allowed_addresses = apply_list_update(@, u.allowed_addresses),
                    !.allowed_numbers = apply_list_update(@, u.allowed_numbers),
                    !.media = IF u.media # None THEN u.media ELSE @]

\* The fields that are copied one by one are `settings` together.
UpdateOutboundTrunk(tr, u) ==
    IF u.replace # None THEN [u.replace EXCEPT !.id = tr.id]
    ELSE [tr EXCEPT !.address = IF u.address # None THEN u.address.value ELSE @,
                    !.settings = IF u.settings # None THEN u.settings ELSE @,
                    !.numbers = apply_list_update(@, u.numbers),
                    !.media = IF u.media # None THEN u.media ELSE @]

UpdateRule(info, u) ==
    IF u.replace # None THEN [u.replace EXCEPT !.id = info.id]
    ELSE LET r == IF u.rule # None
                    THEN [info EXCEPT !.kind = u.rule.kind, !.room = u.rule.room,
                                      !.pin = u.rule.pin, !.random = u.rule.random]
                    ELSE info
         IN  [r EXCEPT !.trunk_ids = apply_list_update(@, u.trunk_ids),
                       !.media = IF u.media # None THEN u.media ELSE @]

Done(a) == op' = [op EXCEPT ![a] = [pc |-> "done", id |-> None, rec |-> None]]

Loaded(a, p, id, rec) == op' = [op EXCEPT ![a] = [pc |-> p, id |-> id, rec |-> rec]]

WriteTrunk(id, rec) ==
    /\ trunks' = [trunks EXCEPT ![id] = rec]
    /\ quiet' = FALSE
    /\ UNCHANGED <<rules, callVars, outVars>>

WriteRule(id, rec) ==
    /\ rules' = [rules EXCEPT ![id] = rec]
    /\ quiet' = FALSE
    /\ UNCHANGED <<trunks, callVars, outVars>>

CreateSIPInboundTrunk(a) ==
    /\ op[a].pc = "idle"
    /\ \E id \in TrunkIds \ minted, cfg \in TrunkConfigs :
          /\ cfg.kind = "inbound"
          /\ WriteTrunk(id, [cfg EXCEPT !.id = id])
          /\ minted' = minted \cup {id}
    /\ Done(a)

\* Without an address the request is invalid.
CreateSIPOutboundTrunk(a) ==
    /\ op[a].pc = "idle"
    /\ \E id \in TrunkIds \ minted, cfg \in TrunkConfigs :
          /\ cfg.kind = "outbound" /\ cfg.address # None
          /\ WriteTrunk(id, [cfg EXCEPT !.id = id])
          /\ minted' = minted \cup {id}
    /\ Done(a)

\* A trunk that is not there answers not_found, and nothing changes.
LoadTrunk(a) ==
    /\ op[a].pc = "idle"
    /\ \E id \in TrunkIds :
          /\ trunks[id] # None
          /\ Loaded(a, trunks[id].kind, id, trunks[id])
    /\ UNCHANGED <<hashes, minted, callVars, quiet, outVars>>

StoreTrunk(a) ==
    /\ op[a].pc = "inbound"
    /\ \E u \in TrunkUpdates : WriteTrunk(op[a].id, UpdateTrunk(op[a].rec, u))
    /\ Done(a)
    /\ UNCHANGED minted

\* An update does not ask for an address.
StoreOutboundTrunk(a) ==
    /\ op[a].pc = "outbound"
    /\ \E u \in OutboundUpdates : WriteTrunk(op[a].id, UpdateOutboundTrunk(op[a].rec, u))
    /\ Done(a)
    /\ UNCHANGED minted

DeleteSIPTrunk(a) ==
    /\ op[a].pc = "idle"
    /\ \E id \in TrunkIds : WriteTrunk(id, None)
    /\ Done(a)
    /\ UNCHANGED minted

\* Without a rule the request is invalid; a rule of no kind is stored.
CreateSIPDispatchRule(a) ==
    /\ op[a].pc = "idle"
    /\ \E id \in RuleIds \ minted, cfg \in RuleConfigs :
          /\ WriteRule(id, [cfg EXCEPT !.id = id])
          /\ minted' = minted \cup {id}
    /\ Done(a)

\* The load of UpdateSIPDispatchRule and of DeleteSIPDispatchRule.
LoadRule(a) ==
    /\ op[a].pc = "idle"
    /\ \E id \in RuleIds, p \in {"rule", "forget"} :
          /\ rules[id] # None
          /\ Loaded(a, p, id, rules[id])
    /\ UNCHANGED <<hashes, minted, callVars, quiet, outVars>>

StoreRule(a) ==
    /\ op[a].pc = "rule"
    /\ \E u \in RuleUpdates : WriteRule(op[a].id, UpdateRule(op[a].rec, u))
    /\ Done(a)
    /\ UNCHANGED minted

DeleteRule(a) ==
    /\ op[a].pc = "forget"
    /\ WriteRule(op[a].id, None)
    /\ Done(a)
    /\ UNCHANGED minted

-----------------------------------------------------------------------------
(* The container's questions about the call *)

\* GetSIPTrunkAuthentication.
get_sip_trunk_authentication ==
    /\ pc = "ringing"
    /\ \E seq \in Orders(Inbound) :
          LET t == match_trunk(seq, call)
          IN  /\ pc' = IF t = Err THEN "error" ELSE "dispatch"
              /\ trunkId' = IF t \in {Err, None} THEN None ELSE t.id
    /\ UNCHANGED <<hashes, minted, op, call, trunk, pin, noPin, answer, asked, quiet, outVars>>

\* EvaluateSIPDispatchRules starts in match_trunk_for: the named trunk, if it
\* is still there and still admits the call ...
LoadNamedTrunk ==
    /\ pc = "dispatch"
    /\ LET named == IF trunkId = None THEN None ELSE trunks[trunkId]
           fits == named # None /\ named.kind = "inbound" /\ match_trunk(<<named>>, call) # None
       IN  /\ trunk' = IF fits THEN named ELSE None
           /\ pc' = IF fits THEN "rules" ELSE "list"
    /\ quiet' = IF pin = None /\ ~noPin THEN TRUE ELSE quiet
    /\ UNCHANGED <<hashes, minted, op, call, trunkId, pin, noPin, answer, asked, outVars>>

\* ... or else the trunk that matches among all.
MatchTrunks ==
    /\ pc = "list"
    /\ \E seq \in Orders(Inbound) :
          LET t == match_trunk(seq, call)
          IN  /\ trunk' = IF t = Err THEN None ELSE t
              /\ pc' = IF t = Err THEN "error" ELSE "rules"
    /\ UNCHANGED <<hashes, minted, op, call, trunkId, pin, noPin, answer, asked, quiet, outVars>>

\* The numbers that the rules ask for are those of the request: those of the call
\* where the container sends no `call` of its own, and any where it does.
Req == [calling_number |-> call.calling, called_number |-> call.called,
        pin |-> pin, no_pin |-> noPin]

\* Then the rules are read, matched and the best one evaluated.
evaluate_sip_dispatch_rules ==
    /\ pc = "rules"
    /\ \E seq \in Orders(Stored(rules)) :
          LET rule == match_dispatch_rule(seq, trunk, Req)
              resp == IF rule = None THEN [result |-> "drop"]
                      ELSE evaluate_dispatch_rule(trunk, rule, Req, call)
          IN  /\ answer' = resp
              /\ pc' = resp.result
              /\ asked' = IF resp.result = "request_pin" THEN rule ELSE asked
    /\ UNCHANGED <<hashes, minted, op, call, trunkId, trunk, pin, noPin, quiet, outVars>>

\* The caller enters a PIN, or none, which the container passes on as no_pin.
EnterPin ==
    /\ pc = "request_pin"
    /\ \E p \in Pins \cup {None} :
          /\ pin' = p
          /\ noPin' = (p = None)
    /\ pc' = "dispatch"
    /\ UNCHANGED <<hashes, minted, op, call, trunkId, trunk, answer, asked, quiet, outVars>>

-----------------------------------------------------------------------------
(* An outbound call *)

inVars == <<call, trunkId, pin, noPin, answer, asked, quiet>>

\* CreateSIPParticipant: the room is created first, and stays if the rest fails.
CreateSIPParticipant ==
    /\ pc = "requested"
    /\ IF request.call_to = None
         THEN pc' = "error" /\ UNCHANGED sip
         ELSE pc' = "load" /\ sip' = [sip EXCEPT !.room = TRUE]
    /\ UNCHANGED <<hashes, minted, op, inVars, trunk, request, ireq>>

\* The trunk that the request names must be there; it may name none.
LoadOutboundTrunk ==
    /\ pc = "load"
    /\ LET id == request.trunk_id
           found == id # None /\ trunks[id] # None /\ trunks[id].kind = "outbound"
       IN  /\ trunk' = IF found THEN trunks[id] ELSE None
           /\ pc' = IF id = None \/ found THEN "build" ELSE "error"
    /\ UNCHANGED <<hashes, minted, op, inVars, outVars>>

\* A "+" in front of a number that does not start with one.
WithPlus(num) ==
    CASE num.written = "plus" -> num
      [] num.written = "digits" -> [num EXCEPT !.written = "plus"]
      [] OTHER -> [num EXCEPT !.written = "prefixed"]

\* The address and the settings are the trunk's, or those in the request.
Source ==
    IF trunk # None THEN [address |-> trunk.address, settings |-> trunk.settings]
    ELSE IF request.trunk # None THEN request.trunk
    ELSE [address |-> None, settings |-> None]

\* The request's own attributes come first, and the call's replace them.
Attributes(number) ==
    [callID |-> NewCall,
     numbers |-> IF request.hide_phone_number THEN {} ELSE {request.call_to, number}]

InternalRequest(num) ==
    LET number == IF Source.address \in TwilioHosts THEN WithPlus(num) ELSE num
        media == merge_media(TrunkMedia(trunk),
                             upgrade_media(request.media, request.media_encryption))
    IN  [sip_call_id |-> NewCall, address |-> Source.address, settings |-> Source.settings,
         picked |-> num, number |-> number, attributes |-> Attributes(number),
         identity |-> IF request.identity # None THEN request.identity ELSE request.call_to,
         encryption |-> IF media = None \/ media.encryption = None THEN 0 ELSE media.encryption]

\* Mutant: the numbers are looked up again.
NumbersStoredNow ==
    IF request.number # None THEN {request.number}
    ELSE IF trunk = None \/ trunks[trunk.id] = None THEN {}
    ELSE trunks[trunk.id].numbers

\* The numbers the call may be made from; the code draws one.
Numbers ==
    IF request.number # None THEN {request.number}
    ELSE IF trunk = None THEN {} ELSE trunk.numbers

\* The rest of build_internal_create_participant, which fails without a number,
\* and the request to the container, which fails where there is no psrpc bus.
build_internal_create_participant ==
    /\ pc = "build"
    /\ \/ \E num \in Numbers : ireq' = InternalRequest(num) /\ pc' = "sent"
       \/ ireq' = None /\ pc' = "error"
    /\ UNCHANGED <<hashes, minted, op, inVars, trunk, request, sip>>

\* The container dials: the participant joins with the attributes it was given.
\* It may still do so when the API's request has timed out.
ParticipantJoins ==
    /\ pc \in {"sent", "error"}
    /\ ireq # None /\ sip.callID = None
    /\ sip' = [sip EXCEPT !.callID = ireq.attributes.callID]
    /\ pc' = IF pc = "sent" THEN "dialled" ELSE pc
    /\ UNCHANGED <<hashes, minted, op, inVars, trunk, request, ireq>>

\* The container answers an error, or not within 30 or 80 seconds.
RequestFails ==
    /\ pc = "sent"
    /\ pc' = "error"
    /\ UNCHANGED <<hashes, minted, op, inVars, trunk, outVars>>

\* TransferSIPParticipant looks the participant up in its room, and asks for the
\* transfer of the call that its attributes name.
TransferSIPParticipant ==
    /\ sip.room /\ sip.callID # None
    /\ sip.target = None
    /\ sip' = [sip EXCEPT !.target = sip.callID]
    /\ UNCHANGED <<hashes, minted, op, inVars, pc, trunk, request, ireq>>

-----------------------------------------------------------------------------

Dial ==
    \/ CreateSIPParticipant
    \/ LoadOutboundTrunk
    \/ build_internal_create_participant
    \/ ParticipantJoins
    \/ RequestFails
    \/ TransferSIPParticipant

Answer ==
    \/ get_sip_trunk_authentication
    \/ LoadNamedTrunk
    \/ MatchTrunks
    \/ evaluate_sip_dispatch_rules
    \/ EnterPin

Administer(a) ==
    \/ CreateSIPInboundTrunk(a)
    \/ CreateSIPOutboundTrunk(a)
    \/ LoadTrunk(a)
    \/ StoreTrunk(a)
    \/ StoreOutboundTrunk(a)
    \/ DeleteSIPTrunk(a)
    \/ CreateSIPDispatchRule(a)
    \/ LoadRule(a)
    \/ StoreRule(a)
    \/ DeleteRule(a)

SipNext == Answer \/ Dial \/ \E a \in Admins : Administer(a)

SipSpec == SipInit /\ [][SipNext]_sipVars

-----------------------------------------------------------------------------

Answered == pc \in {"accept", "drop", "error", "panic"}

\* Every record is stored under its own id, whatever a Replace carried, and a
\* loaded record is written back under the id it was loaded from.
SipTypeOK ==
    /\ \A id \in TrunkIds : trunks[id] = None \/ trunks[id].id = id
    /\ \A id \in RuleIds : rules[id] = None \/ rules[id].id = id
    /\ \A a \in Admins :
          op[a].pc \in {"inbound", "outbound", "rule", "forget"} => op[a].rec.id = op[a].id
    /\ minted \subseteq TrunkIds \cup RuleIds
    /\ pc \in {"ringing", "dispatch", "list", "rules", "request_pin",
               "accept", "drop", "error", "panic",
               "requested", "load", "build", "sent", "dialled"}
    /\ trunkId \in TrunkIds \cup {None}
    /\ pin \in Pins \cup {None}
    /\ noPin \in BOOLEAN /\ quiet \in BOOLEAN

\* A call is let into a room by the PIN of the rule that names the room, and
\* without one only when that rule has none, whatever was written between the
\* question for the PIN and the answer.
PinProtects == pc = "accept" => answer.rule.pin = pin

\* match_trunk computes, in whatever order the hash is read, the one trunk with
\* the called number, else the one trunk without numbers; two are an error.
TrunkMatchIsReference ==
    \A seq \in Orders(Inbound), c \in Calls :
        match_trunk(seq, c) = TrunkOf(Inbound, c)

\* match_dispatch_rule computes, in whatever order the hash is read, a rule
\* that no other one precedes, and one for the trunk before one for all.  Which
\* of several such rules it is depends on that order, but they agree on the kind
\* of the rule, on the room or prefix and on whether a PIN is asked for.
RuleMatchIsReference ==
    call # None =>
        LET best == RulesOf(Stored(rules), trunk, Req)
        IN  /\ \A seq \in Orders(Stored(rules)) :
                  LET rule == match_dispatch_rule(seq, trunk, Req)
                  IN  IF best = {} THEN rule = None ELSE rule \in best
            /\ \A r, s \in best :
                  /\ r.kind = s.kind /\ r.room = s.room
                  /\ r.pin = None <=> s.pin = None

\* Once a rule has asked for its PIN, a caller that enters it is let in, unless
\* a trunk or a rule was written since that evaluation started: the second
\* evaluation matches the trunk and the rules all over again.  It may take
\* another rule with that PIN, and where that one hides an empty number, it
\* panics.
PinIsEnough ==
    Answered /\ asked # None /\ pin = asked.pin /\ quiet =>
        pc = "accept" \/ (pc = "panic" /\ call.from = None)

\* match_trunk does not depend on the order of the hash, and match_dispatch_rule
\* only among rules for one room.
MatchIsReference == TrunkMatchIsReference /\ RuleMatchIsReference

\* An outbound call is one call: its address, settings and number come from one
\* version of the trunk it names, whatever is written while it is built, and a
\* transfer of its participant goes to it, whatever sip.callID the request's
\* own attributes carry.
OutboundIsOneCall ==
    /\ ireq # None /\ trunk # None =>
          /\ ireq.address = trunk.address /\ ireq.settings = trunk.settings
          /\ ireq.picked \in trunk.numbers \cup {request.number}
    /\ sip.target # None => sip.target = ireq.sip_call_id

\* A call the API reports as failed has not been dialled.
FailedIsNotDialled == pc = "error" => sip.callID = None

\* CreateSIPOutboundTrunk: "trunk address is required".
AddressRequired ==
    \A id \in TrunkIds :
        trunks[id] # None /\ trunks[id].kind = "outbound" => trunks[id].address # None

\* CreateSIPParticipantRequest.hide_phone_number: "If true, a random value for
\* identity will be used and numbers will be omitted from attributes".
HiddenNumberOmitted ==
    ireq # None /\ request.hide_phone_number =>
        /\ ireq.attributes.numbers = {}
        /\ ireq.identity # request.call_to

\* A call that is evaluated is answered.
AnswersEveryCall == pc # "panic"

\* upgrade_media "Carries the deprecated `media_encryption` into
\* `media.encryption` when unset".
EncryptionCarried ==
    pc = "accept" /\ answer.rule.media_encryption # 0 => answer.encryption # 0

=============================================================================
