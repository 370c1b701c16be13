-------------------------------- MODULE MCSip --------------------------------
(***************************************************************************)
(* SipService with two trunks and two rules out of small sets of            *)
(* configurations, one call of the SIP API and one call, in or out.         *)
(***************************************************************************)
EXTENDS SipService

CONSTANTS t1, t2

Alice == [who |-> "alice", written |-> "plus"]
AliceFormatted == [who |-> "alice", written |-> "formatted"]
Desk == [who |-> "desk", written |-> "plus"]
DeskFormatted == [who |-> "desk", written |-> "formatted"]

\* A call built from the numbers of the request, one that the request carries
\* beside empty numbers, and one without a caller that it carries beside one.
MCCalls ==
    {[from |-> Alice, to |-> Desk, host |-> "carrier", source_ip |-> "ip1",
      calling |-> Alice, called |-> Desk],
     [from |-> AliceFormatted, to |-> DeskFormatted, host |-> "other", source_ip |-> "ip2",
      calling |-> None, called |-> None],
     [from |-> None, to |-> Desk, host |-> "other", source_ip |-> None,
      calling |-> Alice, called |-> Desk]}

Mask(host, covers) == [valid |-> TRUE, host |-> host, covers |-> covers]

Trunk(numbers, allowed, masks) ==
    [id |-> None, kind |-> "inbound", numbers |-> numbers, allowed_numbers |-> allowed,
     allowed_addresses |-> masks, media |-> None, media_encryption |-> 0]

OutTrunk(address, settings, numbers) ==
    [id |-> None, kind |-> "outbound", address |-> address, settings |-> settings,
     numbers |-> numbers, media |-> None, media_encryption |-> 0]

DeskDigits == [who |-> "desk", written |-> "digits"]

\* A default trunk, one for a number, one for a caller and an address; and
\* an outbound trunk.
MCTrunkConfigs ==
    {Trunk({}, {}, {}),
     Trunk({Desk}, {}, {Mask(None, {"ip2"})}),
     [Trunk({}, {Alice}, {Mask("carrier", {})})
        EXCEPT !.media = [encryption |-> None, codecs |-> None]],
     OutTrunk("twilio", "s1", {DeskDigits, Desk})}

Rule(kind, room, p, ids) ==
    [id |-> None, kind |-> kind, room |-> room, pin |-> p, trunk_ids |-> ids,
     inbound_numbers |-> {}, numbers |-> {}, hide_phone_number |-> FALSE,
     random |-> FALSE, media |-> None, media_encryption |-> 0]

MCRuleConfigs ==
    {Rule("direct", 1, None, {}),
     Rule("direct", 2, "pin1", {}),
     [Rule("direct", 2, "pin1", {}) EXCEPT !.hide_phone_number = TRUE],
     [Rule("individual", 0, "pin1", {t1}) EXCEPT !.media_encryption = 1],
     [Rule("callee", 3, "pin2", {}) EXCEPT !.inbound_numbers = {Alice}],
     [Rule("individual", 1, None, {t1, t2}) EXCEPT !.hide_phone_number = TRUE],
     Rule("none", 0, None, {})}

MCPins == {"pin1", "pin2"}

NoUpdate == [clear |-> FALSE, set |-> {}, add |-> {}, remove |-> {}]

\* Another trunk's configuration put in its place, the allowed callers set,
\* the numbers cleared and added to.
MCTrunkUpdates ==
    LET update == [replace |-> None, numbers |-> None, allowed_addresses |-> None,
                   allowed_numbers |-> None, media |-> None]
    IN  {[update EXCEPT !.replace = Trunk({Desk}, {}, {})],
         [update EXCEPT !.allowed_numbers = [NoUpdate EXCEPT !.set = {Alice}],
                        !.allowed_addresses = [NoUpdate EXCEPT !.add = {Mask(None, {"ip1"})}]],
         [update EXCEPT !.numbers = [NoUpdate EXCEPT !.clear = TRUE, !.remove = {Desk}],
                        !.media = [encryption |-> 1, codecs |-> None]]}

\* Another address with its own settings and numbers, or other numbers only.
MCOutboundUpdates ==
    LET update == [replace |-> None, address |-> None, settings |-> None, numbers |-> None,
                   media |-> None]
    IN  {[update EXCEPT !.replace = OutTrunk("pbx", "s2", {Alice})],
         [update EXCEPT !.address = [value |-> None], !.settings = "s3",
                        !.media = [encryption |-> None, codecs |-> None]],
         [update EXCEPT !.numbers = [NoUpdate EXCEPT !.set = {AliceFormatted}]]}

\* From a stored trunk, with a number or without, from a trunk in the request,
\* and to nobody.
MCRequests ==
    LET base == [trunk_id |-> t1, trunk |-> None, number |-> None, call_to |-> Alice,
                 identity |-> None, hide_phone_number |-> FALSE, callID |-> None,
                 media |-> None, media_encryption |-> 0]
    IN  {[base EXCEPT !.callID = "SC_old", !.hide_phone_number = TRUE],
         [base EXCEPT !.trunk_id = None, !.trunk = [address |-> "pbx", settings |-> "s0"],
                         !.number = Desk, !.identity = Desk],
         [base EXCEPT !.trunk_id = None],
         [base EXCEPT !.call_to = None]}

\* A rule gets another PIN, or another trunk.
MCRuleUpdates ==
    LET update == [replace |-> None, rule |-> None, trunk_ids |-> None, media |-> None]
    IN  {[update EXCEPT !.rule = [kind |-> "direct", room |-> 1, pin |-> "pin2", random |-> FALSE]],
         [update EXCEPT !.trunk_ids = [NoUpdate EXCEPT !.add = {t2}, !.remove = {t1}]],
         [update EXCEPT !.replace = Rule("direct", 2, "pin2", {})]}

==============================================================================
