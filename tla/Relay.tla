------------------------------- MODULE Relay -------------------------------
(***************************************************************************)
(* The signaling relay of cluster.rs: run_relay_client on the node that the *)
(* client reached and run_remote_session on the node that hosts the room,   *)
(* joined by two Redis streams.  The client's requests go through relay_in  *)
(* (its pump to RelayIoReader), the session's responses through relay_out    *)
(* (RelayIoWriter to the out consumer).                                     *)
(*                                                                         *)
(* One relayed session.  Requests and responses are numbered as they are    *)
(* sent, so entry i of a stream is request or response i until CloseEntry   *)
(* ends it.  A read that Redis has blocked is answered by the XADD of the   *)
(* next entry, so that what it is told cannot be deleted any more; a read   *)
(* still to be sent, or waiting for the one connection that all blocking    *)
(* reads of a node share, has no such hold on the entries.                  *)
(***************************************************************************)
EXTENDS Naturals, Sequences

CONSTANTS
    MaxRequests,    \* requests the client sends, at most
    MaxResponses,   \* responses the session sends, at most
    CloseEntry      \* the kind=close sentinel

ASSUME RelayAssumption ==
    /\ MaxRequests \in Nat
    /\ MaxResponses \in Nat
    /\ CloseEntry \notin Nat

VARIABLES
    clientPc,   \* run_relay_client
    inStream,   \* the entries of relay_in
    outStream,  \* the entries of relay_out
    hostPc,     \* run_relay_consumer, then run_signal_session and its reader
    anchored,   \* RelayIoReader.last_id is an entry's id, not "$"
    lastId,     \* that id
    reply,      \* the answer to the XREAD of relay_in under way
    pending,    \* RelayIoReader.pending
    handled,    \* requests returned by next_request, in order
    writer,     \* the writer task of run_signal_session
    responses,  \* responses it has written
    outPc,      \* the out consumer
    outLast,    \* its last_id
    outReply,   \* the answer to its XREAD
    told        \* what the client got: responses, and the Close frame

clientVars == <<outPc, outLast, outReply, told>>
readerVars == <<anchored, lastId, pending, handled>>
relayVars == <<clientPc, inStream, outStream, hostPc, readerVars, reply,
               writer, responses, clientVars>>

RelayInit ==
    /\ clientPc = "new"
    /\ inStream = <<>>
    /\ outStream = <<>>
    /\ hostPc = "none"
    /\ anchored = FALSE
    /\ lastId = 0
    /\ reply = <<>>
    /\ pending = <<>>
    /\ handled = <<>>
    /\ writer = "none"
    /\ responses = 0
    /\ outPc = "none"
    /\ outLast = 0
    /\ outReply = <<>>
    /\ told = <<>>

HasClose(entries) == \E i \in 1 .. Len(entries) : entries[i] = CloseEntry
Requests(entries) == SelectSeq(entries, LAMBDA x : x # CloseEntry)

\* XADD to relay_in and to relay_out, waking the read that is blocked there.
AddIn(entry) ==
    /\ inStream' = Append(inStream, entry)
    /\ IF hostPc = "blocked"
       THEN hostPc' = "answered" /\ reply' = <<entry>>
       ELSE UNCHANGED <<hostPc, reply>>

AddOut(entry) ==
    /\ outStream' = Append(outStream, entry)
    /\ IF outPc = "blocked"
       THEN outPc' = "answered" /\ outReply' = <<entry>>
       ELSE UNCHANGED <<outPc, outReply>>

-----------------------------------------------------------------------------
(* run_relay_client *)

\* "Tell node B to start the session", and spawn the out consumer.
StartRelay ==
    /\ clientPc = "new"
    /\ clientPc' = "pumping"
    /\ hostPc' = "told"
    /\ outPc' = "reading"
    /\ UNCHANGED <<inStream, outStream, readerVars, reply, writer,
                   responses, outLast, outReply, told>>

\* ... or the XADD fails, and the client is left without an answer.
StartFails ==
    /\ clientPc = "new"
    /\ clientPc' = "gone"
    /\ UNCHANGED <<inStream, outStream, hostPc, readerVars, reply, writer,
                   responses, clientVars>>

ForwardRequest ==
    /\ clientPc = "pumping"
    /\ Len(inStream) < MaxRequests
    /\ AddIn(Len(inStream) + 1)
    /\ UNCHANGED <<clientPc, outStream, readerVars, writer, responses, clientVars>>

\* The client is gone, silent or told to close: the pump ends.
SendClose ==
    /\ clientPc = "pumping"
    /\ clientPc' = "closed"
    /\ AddIn(CloseEntry)
    /\ UNCHANGED <<outStream, readerVars, writer, responses, clientVars>>

AbortOut ==
    /\ clientPc = "closed"
    /\ clientPc' = "sleeping"
    /\ outPc' = "over"
    /\ UNCHANGED <<inStream, outStream, hostPc, readerVars, reply, writer,
                   responses, outLast, outReply, told>>

\* "Give node B a moment to read the close before we delete the streams."
DeleteStreams ==
    /\ clientPc = "sleeping"
    /\ clientPc' = "gone"
    /\ outStream' = <<>>
    /\ UNCHANGED <<inStream, hostPc, readerVars, reply, writer, responses, clientVars>>

\* The out consumer's XREAD reaches Redis.
OutRead ==
    /\ outPc = "reading"
    /\ IF outLast < Len(outStream)
       THEN /\ outPc' = "answered"
            /\ outReply' = SubSeq(outStream, outLast + 1, Len(outStream))
       ELSE outPc' = "blocked" /\ UNCHANGED outReply
    /\ UNCHANGED <<clientPc, inStream, outStream, hostPc, readerVars, reply,
                   writer, responses, outLast, told>>

\* Mutant: a read that brings nothing ends the consumer.
OutStopsOnTimeout ==
    /\ outPc = "blocked"
    /\ outPc' = "over"
    /\ UNCHANGED <<clientPc, inStream, outStream, hostPc, readerVars, reply,
                   writer, responses, outLast, outReply, told>>

\* ... and times out or fails: "if let Ok(Some(..))" leaves both to the loop.
OutReadAgain ==
    /\ outPc = "blocked"
    /\ outPc' = "reading"
    /\ UNCHANGED <<clientPc, inStream, outStream, hostPc, readerVars, reply,
                   writer, responses, outLast, outReply, told>>

\* The responses go to the client, up to a close, which ends the consumer.
OutDeliver ==
    /\ outPc = "answered"
    /\ outLast' = outLast + Len(outReply)
    /\ outReply' = <<>>
    /\ IF HasClose(outReply)
       THEN /\ told' = told \o SubSeq(outReply, 1,
                          CHOOSE i \in 1 .. Len(outReply) :
                              /\ outReply[i] = CloseEntry
                              /\ \A j \in 1 .. i - 1 : outReply[j] # CloseEntry)
            /\ outPc' = "over"
       ELSE told' = told \o outReply /\ outPc' = "reading"
    /\ UNCHANGED <<clientPc, inStream, outStream, hostPc, readerVars, reply,
                   writer, responses>>

\* ... or the client's connection is broken: the consumer ends at the first
\* response it cannot send.
OutSendFails ==
    /\ outPc = "answered"
    /\ outPc' = "broken"
    /\ outReply' = <<>>
    /\ \E n \in 1 .. Len(outReply) :
          /\ ~HasClose(SubSeq(outReply, 1, n))
          /\ told' = told \o SubSeq(outReply, 1, n - 1)
    /\ UNCHANGED <<clientPc, inStream, outStream, hostPc, readerVars, reply,
                   writer, responses, outLast>>

-----------------------------------------------------------------------------
(* run_relay_consumer, run_remote_session, run_signal_session *)

\* A start entry is read: the session begins.  Its token is refused, the join
\* fails, or the writer task is spawned and the session is set up.
StartSession ==
    /\ hostPc = "told"
    /\ \/ hostPc' = "closing" /\ UNCHANGED writer
       \/ hostPc' = "over" /\ UNCHANGED writer
       \/ hostPc' = "busy" /\ writer' = "open"
    /\ UNCHANGED <<clientPc, inStream, outStream, readerVars, reply,
                   responses, clientVars>>

\* RelayIoWriter.send: the join response, then what the room tells this
\* participant, as long as its signal sink stands.
SendResponse ==
    /\ writer = "open"
    /\ responses < MaxResponses
    /\ responses' = responses + 1
    /\ AddOut(responses + 1)
    /\ UNCHANGED <<clientPc, inStream, hostPc, readerVars, reply, writer,
                   outLast, told>>

\* The participant ends (removed, replaced, or its grace period is over).
EndParticipant ==
    /\ writer = "open"
    /\ writer' = "done"
    /\ UNCHANGED <<clientPc, inStream, outStream, hostPc, readerVars, reply,
                   responses, clientVars>>

\* After a request the session ends if its participant is Disconnected.
SessionEnds ==
    /\ hostPc = "busy"
    /\ writer = "done"
    /\ hostPc' = "closing"
    /\ UNCHANGED <<clientPc, inStream, outStream, readerVars, reply, writer,
                   responses, clientVars>>

\* io.close(), or the close that an invalid token is answered with.
CloseOut ==
    /\ hostPc = "closing"
    /\ hostPc' = "over"
    /\ AddOut(CloseEntry)
    /\ UNCHANGED <<clientPc, inStream, readerVars, reply, writer,
                   responses, outLast, told>>

-----------------------------------------------------------------------------
(* RelayIoReader.next_request *)

\* One is left from the last batch.
PopPending ==
    /\ hostPc = "busy"
    /\ pending # <<>>
    /\ pending' = Tail(pending)
    /\ handled' = Append(handled, Head(pending))
    /\ UNCHANGED <<clientPc, inStream, outStream, hostPc, anchored, lastId, reply,
                   writer, responses, clientVars>>

\* Redis executes XREAD from an id: it answers at once, or blocks.
ReadFrom(id) ==
    /\ hostPc = "busy"
    /\ pending = <<>>
    /\ IF clientPc # "gone" /\ id < Len(inStream)
       THEN /\ hostPc' = "answered"
            /\ reply' = SubSeq(inStream, id + 1, Len(inStream))
       ELSE hostPc' = "blocked" /\ UNCHANGED reply
    /\ UNCHANGED <<clientPc, inStream, outStream, readerVars, writer, responses,
                   clientVars>>

\* Mutant: every XREAD reads from "$".
XreadFromEnd == ReadFrom(Len(inStream))

\* "$" is the end of the stream at this moment.
Xread == ReadFrom(IF anchored THEN lastId ELSE Len(inStream))

\* The entries of the answer.  A close among them ends the session at once.
XreadReturns ==
    /\ hostPc = "answered"
    /\ anchored' = TRUE
    /\ lastId' = IF HasClose(reply) THEN Len(inStream) ELSE reply[Len(reply)]
    /\ reply' = <<>>
    /\ IF HasClose(reply)
       THEN /\ hostPc' = "closing"
            /\ pending' = Requests(reply)
            /\ UNCHANGED handled
       ELSE /\ hostPc' = "busy"
            /\ pending' = Tail(reply)
            /\ handled' = Append(handled, Head(reply))
    /\ UNCHANGED <<clientPc, inStream, outStream, writer, responses, clientVars>>

\* The block time is over with no entry: the loop calls XREAD again.
XreadTimesOut ==
    /\ hostPc = "blocked"
    /\ hostPc' = "busy"
    /\ UNCHANGED <<clientPc, inStream, outStream, readerVars, reply, writer,
                   responses, clientVars>>

\* An error of XREAD ends the session.
XreadFails ==
    /\ hostPc \in {"blocked", "answered"}
    /\ hostPc' = "closing"
    /\ reply' = <<>>
    /\ UNCHANGED <<clientPc, inStream, outStream, readerVars, writer, responses,
                   clientVars>>

-----------------------------------------------------------------------------

NextRequest == PopPending \/ Xread \/ XreadReturns \/ XreadTimesOut
OutConsumer == OutRead \/ OutReadAgain \/ OutDeliver

RelayNext ==
    \/ StartRelay
    \/ StartFails
    \/ ForwardRequest
    \/ SendClose
    \/ AbortOut
    \/ DeleteStreams
    \/ OutConsumer
    \/ OutSendFails
    \/ StartSession
    \/ SendResponse
    \/ EndParticipant
    \/ SessionEnds
    \/ CloseOut
    \/ NextRequest
    \/ XreadFails

RelaySpec == RelayInit /\ [][RelayNext]_relayVars

\* The tasks are scheduled and Redis answers.  The client may go on for ever,
\* but it answers a Close frame with its own, and the read of a connection that
\* is broken fails or times out; when it ends, its node gets to delete the
\* streams.
RelayFairness ==
    /\ WF_relayVars(NextRequest)
    /\ WF_relayVars(OutConsumer)
    /\ WF_relayVars(SessionEnds \/ CloseOut)
    /\ WF_relayVars((HasClose(told) \/ outPc = "broken") /\ SendClose)
    /\ WF_relayVars(AbortOut \/ DeleteStreams)

RelayFairSpec == RelaySpec /\ RelayFairness

-----------------------------------------------------------------------------
(* Properties *)

\* The state has its types, and no reader is ahead of its stream.
RelayTypeOK ==
    /\ clientPc \in {"new", "pumping", "closed", "sleeping", "gone"}
    /\ inStream \in Seq(1 .. MaxRequests \cup {CloseEntry})
    /\ outStream \in Seq(1 .. MaxResponses \cup {CloseEntry})
    /\ hostPc \in {"none", "told", "busy", "blocked", "answered", "closing", "over"}
    /\ anchored \in BOOLEAN
    /\ lastId \in 0 .. Len(inStream)
    /\ pending \in Seq(1 .. MaxRequests)
    /\ handled \in Seq(1 .. MaxRequests)
    /\ writer \in {"none", "open", "done"}
    /\ outPc \in {"none", "reading", "blocked", "answered", "broken", "over"}
    /\ told \in Seq(1 .. MaxResponses \cup {CloseEntry})

\* Once the reader has read an entry it misses none: what it handled and what
\* it holds is an unbroken run of the client's requests, in order and without
\* repetition, up to last_id.
NoGap ==
    anchored /\ hostPc \in {"busy", "blocked", "answered"} =>
        \E k \in 1 .. Len(inStream) :
            handled \o pending = SubSeq(inStream, k, lastId)

\* The client gets the responses in the order in which the session sent them,
\* from the join response on and without a gap, until the Close frame.
ToldInOrder ==
    \A i \in 1 .. Len(told) : told[i] \in {i, CloseEntry}

\* Both directions get through while the client is there: a session that has
\* read one request reads every later one, unless it ends; the client gets the
\* responses in the order they were sent, all of them from the join response on,
\* and its connection ends when the session has closed it.
RelayDelivers ==
    /\ []ToldInOrder
    /\ \A n \in 1 .. MaxRequests :
          anchored /\ Len(inStream) >= n /\ clientPc = "pumping" ~>
              \/ lastId >= n
              \/ hostPc \in {"closing", "over"}
              \/ clientPc # "pumping"
    /\ \A n \in 1 .. MaxResponses :
          responses >= n ~> \/ Len(told) >= n
                       \/ HasClose(told)
                       \/ clientPc # "pumping"
    /\ HasClose(outStream) ~> clientPc # "pumping"

\* The test relay_io_round_trips_over_memory_bus: a request the client's node
\* writes before the reader's first read is returned by next_request (the code
\* does not keep this: the first read is from "$").
NothingMissed ==
    anchored /\ hostPc = "busy" =>
        handled \o pending = SubSeq(inStream, 1, lastId)

\* RelayIoReader "Ends (returns `None`) on a `kind=close` sentinel": when the
\* client is gone the session on the hosting node ends (the code does not keep
\* this either: the close may be deleted before it is read).
RelayEnds ==
    clientPc = "gone" ~> hostPc = "over"

\* Once the client's node has deleted the streams they stay deleted (nor this: a
\* late response creates relay_out anew).
StreamsDeleted ==
    clientPc = "gone" => outStream = <<>>

=============================================================================
