---------------------------- MODULE Negotiation ----------------------------
(***************************************************************************)
(* Offers to one subscriber (media.rs).  Whoever changes the senders of its *)
(* peer connection requests a negotiation, which spawns a task; the tasks   *)
(* are serialised by `negotiating`, and one offer is outstanding at a time. *)
(*                                                                         *)
(* What changes the senders is in module Subscriptions, which extends this  *)
(* one.  The client is outside: it answers the offer it got.  SDP is        *)
(* reduced to the set of senders an offer describes.                        *)
(***************************************************************************)
EXTENDS Naturals

CONSTANTS
    NoOffer,
    MaxOffers    \* the bound: offers are numbered up to here

ASSUME MaxOffersAssumption == MaxOffers \in Nat

VARIABLES
    gone,           \* the participant is Disconnected
    pc,             \* media.subscriber is Some
    senders,        \* the senders of that peer connection
    needs,          \* needs_negotiation
    answerPending,  \* answer_pending
    tasks,          \* tasks[force]: subscribe_negotiation calls not yet at the lock
    holder,         \* the frame of the task that holds `negotiating`
    offer,          \* what set_local_description was given
    nextId,         \* subscriber_offer_seq
    wire,           \* the offer or the answer between server and client
    failed          \* the connection could not be set up, or an offer could not be
                    \* made, was lost, or its answer was lost or refused

flags == <<needs, answerPending>>
negotiationVars == <<flags, tasks, holder, offer, nextId, wire, failed>>

NegotiationInit ==
    /\ needs = FALSE /\ answerPending = FALSE
    /\ tasks = [force \in BOOLEAN |-> 0]
    /\ holder = "none"
    /\ offer = NoOffer
    /\ nextId = 0
    /\ wire = "none"
    /\ failed = FALSE

\* request_subscriber_negotiation, the last call of its callers.
RequestSubscriberNegotiation ==
    /\ needs' = TRUE
    /\ tasks' = [tasks EXCEPT ![FALSE] = @ + 1]
    /\ UNCHANGED <<answerPending, holder, offer, nextId, wire, failed>>

\* Mutant: an answer that is pending is not looked at.
OfferAgain(force) ==
    /\ holder = "none"
    /\ tasks[force] > 0
    /\ tasks' = [tasks EXCEPT ![force] = @ - 1]
    /\ IF ~gone /\ (force \/ needs)
         THEN needs' = FALSE /\ holder' = (IF pc THEN "create" ELSE "none")
         ELSE UNCHANGED <<needs, holder>>
    /\ UNCHANGED <<gone, pc, senders, answerPending, offer, nextId, wire, failed>>

\* Mutant: a task that finds an answer pending leaves the flag as it is, and so
\* does the request that spawned it.
ForgetRequest(force) ==
    /\ holder = "none"
    /\ tasks[force] > 0
    /\ tasks' = [tasks EXCEPT ![force] = @ - 1]
    /\ \/ (gone \/ (~force /\ ~needs)) /\ UNCHANGED <<needs, holder>>
       \/ ~gone /\ answerPending /\ needs' = FALSE /\ UNCHANGED holder
       \/ /\ ~gone /\ ~answerPending /\ (force \/ needs)
          /\ needs' = FALSE
          /\ holder' = IF pc THEN "create" ELSE "none"
    /\ UNCHANGED <<gone, pc, senders, answerPending, offer, nextId, wire, failed>>

\* subscribe_negotiation up to its decision, under the lock of the media state.
SubscribeNegotiation(force) ==
    /\ holder = "none"
    /\ tasks[force] > 0
    /\ tasks' = [tasks EXCEPT ![force] = @ - 1]
    /\ \/ gone /\ UNCHANGED <<needs, holder>>
       \/ ~gone /\ answerPending /\ needs' = TRUE /\ UNCHANGED holder
       \/ ~gone /\ ~answerPending /\ ~force /\ ~needs /\ UNCHANGED <<needs, holder>>
       \/ /\ ~gone /\ ~answerPending /\ (force \/ needs)
          /\ needs' = FALSE
          /\ holder' = IF pc THEN "create" ELSE "none"
    /\ UNCHANGED <<gone, pc, senders, answerPending, offer, nextId, wire, failed>>

\* create_offer and set_local_description.  They fail on a closed connection and may
\* fail on an open one: the task ends, with the need for the offer cleared already.
CreateOffer ==
    /\ holder = "create"
    /\ \/ pc /\ holder' = "send" /\ offer' = senders /\ UNCHANGED failed
       \/ holder' = "none" /\ failed' = (failed \/ pc) /\ UNCHANGED offer
    /\ UNCHANGED <<gone, pc, senders, flags, tasks, nextId, wire>>

\* The id of the offer: fetch_add returns n.
OfferId(n) == IF n < 1 THEN 1 ELSE n

\* The offer gets its id, OfferId(nextId), the answer is pending, and the offer is sent: to
\* nobody when the participant has no signal sink.
SendOffer ==
    /\ holder = "send"
    /\ holder' = "none"
    /\ nextId' = IF nextId < MaxOffers THEN nextId + 1 ELSE nextId
    /\ answerPending' = TRUE
    /\ wire' = IF gone THEN "none" ELSE "offer"
    /\ UNCHANGED <<gone, pc, senders, needs, tasks, offer, failed>>

\* The client answers.
ClientAnswers ==
    /\ wire = "offer"
    /\ wire' = "answer"
    /\ UNCHANGED <<gone, pc, senders, flags, tasks, holder, offer, nextId, failed>>

\* The transport breaks with the offer or the answer in it, and the client may
\* resume its session.
LoseMessage ==
    /\ wire # "none"
    /\ wire' = "none"
    /\ failed' = TRUE
    /\ UNCHANGED <<gone, pc, senders, flags, tasks, holder, offer, nextId>>

\* handle_subscriber_answer.  set_remote_description needs the connection and may
\* refuse the answer: the error leaves the flags as they are.
HandleSubscriberAnswer ==
    /\ wire = "answer"
    /\ wire' = "none"
    /\ \/ /\ pc
          /\ answerPending' = FALSE
          /\ needs' = FALSE
          /\ tasks' = [tasks EXCEPT ![TRUE] = IF needs THEN @ + 1 ELSE @]
          /\ UNCHANGED failed
       \/ failed' = (failed \/ pc) /\ UNCHANGED <<flags, tasks>>
    /\ UNCHANGED <<gone, pc, senders, holder, offer, nextId>>

Negotiate ==
    \/ \E force \in BOOLEAN : SubscribeNegotiation(force)
    \/ CreateOffer
    \/ SendOffer
    \/ HandleSubscriberAnswer

=============================================================================
