------------------------------ MODULE SipMatch ------------------------------
(***************************************************************************)
(* Matching an inbound SIP call to a trunk and to a dispatch rule           *)
(* (ioservice.rs), as operators.                                            *)
(*                                                                         *)
(* A phone number is what it denotes (`who`) and how it is written: as      *)
(* "+digits", with formatting, as one character, or as a name that is not a *)
(* number.  None is the empty string and Option::None.  An address mask is  *)
(* whether it is well-formed, the addresses it covers and the host name it  *)
(* equals, if it does.  Room names and prefixes are ordered: naturals.      *)
(* Lists whose order no code looks at are sets; the lists of trunks and of  *)
(* rules are sequences, since the loops go through them in the order in     *)
(* which the hash is read.                                                  *)
(***************************************************************************)
EXTENDS Naturals, Sequences, FiniteSets, Functions

CONSTANTS None, Err  \* the empty value, and a handler's error

-----------------------------------------------------------------------------
(* Trunks *)

normalize_number(num) ==
    IF num = None \/ num.written = "name" THEN num ELSE [num EXCEPT !.written = "plus"]

SameNumber(a, b) == a = b \/ normalize_number(a) = normalize_number(b)

match_numbers(num, allowed) ==
    allowed = {} \/ \E a \in allowed : SameNumber(num, a)

\* An address that is not an IP address passes, and so does any when no mask is
\* well-formed.
match_addr_masks(addr, host, masks) ==
    LET valid == {m \in masks : m.valid}
    IN  addr = None \/ valid = {} \/ \E m \in valid : m.host = host \/ addr \in m.covers

Admits(tr, call) ==
    /\ match_numbers(call.from, tr.allowed_numbers)
    /\ match_addr_masks(call.source_ip, call.host, tr.allowed_addresses)

CalledOn(tr, call) == \E num \in tr.numbers : SameNumber(num, call.to)

\* One round of the loop of match_trunk; `conflict` is its early return.
ConsiderTrunk(acc, tr, call) ==
    IF acc.conflict \/ ~Admits(tr, call)
      THEN acc
    ELSE IF tr.numbers = {}
      THEN [acc EXCEPT !.default_trunk = tr, !.default_cnt = @ + 1]
    ELSE IF ~CalledOn(tr, call)
      THEN acc
    ELSE IF acc.selected # None
      THEN [acc EXCEPT !.conflict = TRUE]
      ELSE [acc EXCEPT !.selected = tr]

\* What the loop of match_trunk has found after each of its rounds.
TrunkRounds(trunks, call) ==
    LET acc[i \in 0 .. Len(trunks)] ==
            IF i = 0
              THEN [selected |-> None, default_trunk |-> None,
                    default_cnt |-> 0, conflict |-> FALSE]
              ELSE ConsiderTrunk(acc[i - 1], trunks[i], call)
    IN  acc

match_trunk(trunks, call) ==
    LET acc == TrunkRounds(trunks, call)[Len(trunks)]
    IN  IF acc.conflict THEN Err
        ELSE IF acc.selected # None THEN acc.selected
        ELSE IF acc.default_cnt > 1 THEN Err
        ELSE acc.default_trunk

-----------------------------------------------------------------------------
(* Dispatch rules *)

\* get_pin_and_room fails for a rule of no kind.
HasRule(info) == info.kind # "none"

dispatch_rule_priority(info) ==
    (CASE info.kind = "direct" -> 0
       [] info.kind = "individual" -> 1
       [] info.kind = "callee" -> 2)
    + (IF info.pin = None THEN 100 ELSE 0)
    + (IF info.inbound_numbers = {} THEN 1000 ELSE 0)
    + (IF info.numbers = {} THEN 1000 ELSE 0)

has_higher_priority(r1, r2) ==
    LET p1 == dispatch_rule_priority(r1)
        p2 == dispatch_rule_priority(r2)
    IN  p1 < p2 \/ (p1 = p2 /\ r1.room < r2.room)

\* Mutant: a PIN is sent for the rules that have none.
PinForOpenRules(info, req) ==
    IF req.no_pin \/ req.pin # None THEN info.pin = None ELSE TRUE

\* The filters of the loop of match_dispatch_rule.
PinFits(info, req) ==
    IF req.no_pin THEN info.pin = None ELSE req.pin = None \/ req.pin = info.pin

Applies(info, trunk, req) ==
    /\ info.inbound_numbers = {} \/ req.calling_number \in info.inbound_numbers
    /\ info.numbers = {} \/ req.called_number \in info.numbers
    /\ HasRule(info)
    /\ PinFits(info, req)
    /\ info.trunk_ids = {} \/ (trunk # None /\ trunk.id \in info.trunk_ids)

Better(info, best) == best = None \/ has_higher_priority(info, best)

ConsiderRule(acc, info, trunk, req) ==
    IF ~Applies(info, trunk, req)
      THEN acc
    ELSE IF info.trunk_ids = {}
      THEN [acc EXCEPT !.default_rule = IF Better(info, @) THEN info ELSE @]
      ELSE [acc EXCEPT !.specific = IF Better(info, @) THEN info ELSE @]

\* Mutant: whatever has the highest priority is taken, for the trunk or not.
match_best_rule(rules, trunk, req) ==
    LET best[i \in 0 .. Len(rules)] ==
            IF i = 0 THEN None
            ELSE IF Applies(rules[i], trunk, req) /\ Better(rules[i], best[i - 1])
              THEN rules[i]
              ELSE best[i - 1]
    IN  best[Len(rules)]

\* What the loop of match_dispatch_rule has found after each of its rounds.
RuleRounds(rules, trunk, req) ==
    LET acc[i \in 0 .. Len(rules)] ==
            IF i = 0
              THEN [specific |-> None, default_rule |-> None]
              ELSE ConsiderRule(acc[i - 1], rules[i], trunk, req)
    IN  acc

\* None when no rule matched the call.
match_dispatch_rule(rules, trunk, req) ==
    LET acc == RuleRounds(rules, trunk, req)[Len(rules)]
    IN  IF acc.specific # None THEN acc.specific ELSE acc.default_rule

-----------------------------------------------------------------------------
(* The answer *)

\* Of a media configuration, the encryption (None when unset) and the other
\* three fields, which merge alike, as one.
upgrade_media(media, encryption) ==
    IF media # None /\ media.encryption = None /\ encryption # 0
      THEN [media EXCEPT !.encryption = encryption]
      ELSE media

merge_media(base, other) ==
    IF base = None THEN other
    ELSE IF other = None THEN base
    ELSE [encryption |-> IF base.encryption = None THEN other.encryption ELSE base.encryption,
          codecs |-> IF base.codecs = None THEN other.codecs ELSE base.codecs]

TrunkMedia(trunk) ==
    IF trunk = None THEN None ELSE upgrade_media(trunk.media, trunk.media_encryption)

Encryption(trunk, rule) ==
    LET media == merge_media(TrunkMedia(trunk), upgrade_media(rule.media, rule.media_encryption))
    IN  IF media = None \/ media.encryption = None THEN 0 ELSE media.encryption

\* What is left of a number that is hidden: its last character, or its last four.
LastDigits(num) ==
    IF num.written = "char" THEN num ELSE [who |-> "tail", written |-> "digits"]

\* A room name is the prefix, the number in it, and whether an id is appended.
RoomName(rule, from, to) ==
    CASE rule.kind = "direct" -> [name |-> rule.room, number |-> None, random |-> FALSE]
      [] rule.kind = "individual" -> [name |-> rule.room, number |-> from, random |-> rule.random]
      [] rule.kind = "callee" -> [name |-> rule.room, number |-> to, random |-> rule.random]

\* Mutant: a caller that sent no PIN is not asked for it.
evaluate_unasked(trunk, rule, req, call) ==
    IF rule.hide_phone_number /\ call.from = None
      THEN [result |-> "panic"]
    ELSE IF rule.pin # None /\ req.pin # None /\ rule.pin # req.pin
      THEN [result |-> "error"]
    ELSE LET from == IF rule.hide_phone_number THEN LastDigits(call.from) ELSE call.from
         IN  [result |-> "accept", rule |-> rule,
              room |-> RoomName(rule, from, call.to),
              name |-> from,
              phone |-> IF rule.hide_phone_number THEN None ELSE call.from,
              encryption |-> Encryption(trunk, rule)]

\* The slice that hides an empty number starts before its beginning: the handler
\* panics, before it looks at the PIN.
evaluate_dispatch_rule(trunk, rule, req, call) ==
    IF rule.hide_phone_number /\ call.from = None
      THEN [result |-> "panic"]
    ELSE IF rule.pin # None /\ req.pin = None
      THEN [result |-> "request_pin", rule |-> rule, encryption |-> Encryption(trunk, rule)]
    ELSE IF rule.pin # None /\ rule.pin # req.pin
      THEN [result |-> "error"]
    ELSE LET from == IF rule.hide_phone_number THEN LastDigits(call.from) ELSE call.from
         IN  [result |-> "accept", rule |-> rule,
              room |-> RoomName(rule, from, call.to),
              name |-> from,
              phone |-> IF rule.hide_phone_number THEN None ELSE call.from,
              encryption |-> Encryption(trunk, rule)]

-----------------------------------------------------------------------------
(* What the loops compute, without the loops *)

TrunkOf(trunks, call) ==
    LET admitting == {tr \in trunks : Admits(tr, call)}
        selected == {tr \in admitting : tr.numbers # {} /\ CalledOn(tr, call)}
        default == {tr \in admitting : tr.numbers = {}}
        found == IF selected # {} THEN selected ELSE default
    IN  CASE Cardinality(found) = 0 -> None
          [] Cardinality(found) = 1 -> CHOOSE tr \in found : TRUE
          [] OTHER -> Err

RulesOf(rules, trunk, req) ==
    LET fitting == {r \in rules : Applies(r, trunk, req)}
        specific == {r \in fitting : r.trunk_ids # {}}
        found == IF specific # {} THEN specific ELSE fitting
    IN  {r \in found : \A s \in found : ~has_higher_priority(s, r)}

=============================================================================
