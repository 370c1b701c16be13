# Verification of livekit-rs-voice

TLA+ models of the concurrent core of the server and of its recorder, and of
the algorithms at its edges, TLC runs that check them on small instances, and
TLAPS proofs, for every instance, of every safety property that the runs find to
hold. Paths below are relative to `src/crates/`; `PROJECT.json` maps every
definition that models code to its lines.

1. [The system](#1-the-system)
2. [Modules and code](#2-modules-and-code)
3. [Runs](#3-runs)
4. [Fairness](#4-fairness)
5. [Proofs](#5-proofs)
6. [What the code does not keep](#6-what-the-code-does-not-keep)
7. [Assumptions and abstractions](#7-assumptions-and-abstractions)
8. [Not modelled](#8-not-modelled)
9. [Plan](#9-plan)

## 1. The system

A voice-only LiveKit server in Rust. Clients hold a signaling websocket and two
WebRTC peer connections to the node that hosts their room. Nodes share Redis:
a registry of rooms, streams that relay signaling from the node a client
reached to the node that hosts its room, the hashes of the persistent store,
and the PubSub channels of psrpc, the RPC protocol to the recorder
(`lk-egress`) and to an external SIP container. Agent workers hold websockets
of their own. Everything runs on a multi-threaded tokio runtime: tasks
interleave at every await and at every lock or atomic access.

| part | code | state | operations | what is hard about it |
|---|---|---|---|---|
| psrpc | `lk-psrpc/src/lib.rs` | client: routing table, grant flag, two channels per request; server: `pending` with expiries; bus: streams per subscriber | request, bid (claim), grant, run, respond, time out, purge | several bidders; messages lost or published twice; a grant that races the caller's timer |
| rooms | `lk-server/src/{room,server,services,signal}.rs` | registry by name, `participants`, `ever_joined`, `empty_since`, `closed`, `on_close` | create, join, remove, time out, delete, close | two joins of one identity; join against close; a successor room of the same name; two teardowns of one participant |
| signal sessions | `lk-server/src/{signal,participant}.rs` | `resume_gen`, sink, `disconnected` of a participant; one grace task per ended session | join, resume, end, grace, teardown | old session's end, new session's resume and either grace task race |
| participant info | `lk-server/src/{participant,core,track,room,signal,services,media}.rs` | fields under a lock each, version counter, channels of the others | metadata, permission, attribute and track changes, serialization, broadcast, snapshot of a joiner or resumer | overlapping serializations; snapshot against broadcast; bounded channels |
| media subscriptions | `lk-server/src/{media,signal}.rs` | senders and maps of a subscriber, `needs_negotiation`, `answer_pending`, `negotiating` | publish, subscribe, unsubscribe, offer, answer, resume, teardown | a track published while a subscriber joins; changes while an offer is outstanding |
| cluster registry | `lk-server/src/{cluster,http}.rs` | Redis hash room -> node, heartbeat keys | route (read, liveness, claim), relay, join, release, heartbeat, crash | racing claims; two-command releases; late heartbeats |
| signaling relay | `lk-server/src/cluster.rs` | two Redis streams, the cursor and batch of each reader | start, append, blocking read, time out, close from either side, delete | entries before, between and after reads; a close that meets the deletion of the streams |
| agents | `lk-server/src/{agent,services,signal,server}.rs` | dispatches, `Room.agents`, workers and their responder slot, tracked jobs | create and delete a dispatch, launch, ask, answer, assign, track, terminate | a dispatch between two look-ups; one slot per worker; late answers |
| recordings | `lk-egress/src/{server,client,io}.rs`, `lk-server/src/{services_sip,ioservice}.rs` | places, infos and stop channels of the recorder; stored status; `ended` per node | start, admit, register, connect, record, stop, upload, report | reports lost, late, or handled by another node; a stop at any moment |
| SIP | `lk-server/src/{services_sip,ioservice,redis_store}.rs` | hashes of trunks and rules | create, update, delete; match and evaluate an inbound call; make and transfer an outbound call | writes between the reads of one call; order of a hash |
| mix of a recording | `lk-egress/src/recorder.rs` | a queue and a decoder per track | push, prune, drain, finish | tracks that pause, fail to decode or send at different speeds |
| storage of a recording | `lk-egress/src/{server,upload}.rs` | configuration, local files, objects | resolve the destination, upload, delete, report | many sources of one destination; a failure between two steps |
| loss statistics | `lk-server/src/media.rs` | sequence high-water mark, counters, last report | observe a packet, report | late and repeated packets, wrap-around, counters that cannot go down |
| active speakers | `lk-server/src/{audio_level,server,media}.rs` | window and flag per track, announced set | observe a packet, expire, broadcast | the ticker beside the forwarding loops; tracks that stop |
| times as text | `lk-proto/src/wkt_serde.rs` | none | format, parse, calendar | leap years, signs, precision, zones |
| TURN user names | `lk-server/src/turn.rs` | none (bit positions of a loop) | encode, decode | digits of five and of six bits |
| webhooks | `lk-server/src/webhook.rs` | one retry task per URL and event | hand over, post, retry | which events, and when they are handed over |

How the parts interact: `http` routes a connection through the **cluster
registry** and starts a **signal session** here or a **relay** to the other
node. A session joins a **room**, which announces **participant info** and sets
up **media subscriptions**; creating a room and joining it launch **agents**.
The loop that forwards a published track feeds its **loss statistics** and its
**active speaker** detector.
**Recordings** and **SIP** are asked for over the API, carried by **psrpc**, and
come back as participants that join like any other; what a recorder hears it
**mixes** and **stores**. The store is shared by all nodes.

## 2. Modules and code

One module per component; `MC*` modules instantiate them for TLC, `*Proofs`
modules extend them with theorems.

**`Rpc`, `Psrpc`** (`lk-psrpc`). `Rpc` is the abstract promise of a remote
call: a call that was made may be run once by some server, may return a
response after it ran, or an error at any time. `Psrpc` is the claim protocol:
`RequestSingle` publishes and enters the select loop, `Dispatch` is the
client's stream task, `TakeResponse`/`IgnoreClaim`/`GrantClaim`/`Timeout` are
the branches of the select, `ServerRequest`, `ServerGrant`, `Expire` and
`HandlerDone` are the server loop and its spawned handler. `Settings` are the
circumstances a behaviour may be about: which calls are made, which servers are
subscribed, and how many copies of a published message a subscriber may get.

**`RoomLifecycle`** (`room.rs`, `server.rs`, `services.rs`, `signal.rs`). The
Room objects of one name on one node. A join is the frame `joinPc` (`EnterRoom`,
`FindDuplicate`, `ReadFirstJoin`, `CheckClosed`, `CheckFull`,
`InsertParticipant`, `MarkJoined`, `StartRoom`, `Announce`): one step per lock or
atomic access that others observe. `endPc` is a call of `end_participant`,
`closePc` a call of `Room.close` from the timeout ticker or from DeleteRoom,
`createPc` a CreateRoom.

**`SignalSession`** (`signal.rs`). One participant, the session that joined and
those that resume it. `FindParticipant`, `CheckResumable`, `Resume`,
`SetSignalSink` are `run_session_with_io`; `EndSession` leaves a grace task
(`Wake`) or, if the participant is gone, nothing.

**`ParticipantInfo`** (`participant.rs` and every handler that changes what
others see). `ReadField` and `Stamp` are `to_proto`: one lock after the other
and the version last. `Broadcast` lists the participants, `SendUpdate` is the
`try_send` into the bounded channel of the observer. `BuildJoinResponse`,
`FilterHidden`, `Resume`, `SetSignalSink` are the snapshot an observer starts
from.

**`Negotiation`, `Subscriptions`** (`media.rs`). `Negotiation` is
`request_negotiation` and `subscribe_negotiation` with their three flags;
`Subscriptions` extends it with the three callers that add a subscription, the
two that remove it, and the teardown of the subscriber. Calls of the WebRTC library
may fail: `refused` records the tracks whose `setup_subscriber` or `add_track` did,
`failed` that an offer could not be made or an offer or answer was lost or refused.

**`Cluster`** (`cluster.rs`, `http.rs`). One room name. Each Redis command of
`route_room` and `release_room` is one step, the `HSETNX` that leaves the entry of a
dead owner alone and the answer after the last round included. `Disturbances`
selects what may go wrong, and `disturbed` records that something did.

**`Relay`** (`cluster.rs`). One relayed session, both ways. `clientPc` is
`run_relay_client` (`StartRelay`, `ForwardRequest`, `SendClose`, `AbortOut`,
`DeleteStreams`) and `outPc` the out consumer it spawned (`OutRead`,
`OutReadAgain`, `OutDeliver`, `OutSendFails`); `hostPc` is the session on the
hosting node with its `RelayIoReader` (`PopPending`, `Xread` from `$` and then
from its last id, `XreadReturns`, `XreadTimesOut`, `XreadFails`), `writer` its
writer task. A read that Redis has blocked is answered by the XADD it waits for,
as in Redis; a read that has not reached Redis sees what is there then.

**`Speakers`** (`audio_level.rs`, `server.rs`, `media.rs`). A detector per
participant: `ObservePacket` is `observe`, and the rounds of
`broadcast_speakers` (`BeginRound`, `CheckStale`, `ResetActive`, `ReadActive`,
`EndRound`) run beside it, one step per lock or atomic access. `Tick` is time:
a track that is sent has one packet per tick.

**`RtpStats`** (`media.rs`). `ForwardPacket` is one round of the forwarding
loop: `Observe` with its four branches, and `RecordQuality` every
`ReportEvery` packets. A packet is its position in the publisher's stream, of
which the code sees the remainder; `jumped` records that a packet was half the
number space or more from the newest one.

**`Mixer`** (`recorder.rs`). `Packet` is one round of `run_recording` (decode,
push, prune, drain), `DecodeFails` the round that ends at the decoder.

**`Upload`** (`lk-egress/src/{server,upload}.rs`). `DestinationOf`, `Resolve`,
`ConfDefault`, `StorageKey` are `rec_spec` and what it calls; `StartJob` to
`ReportComplete` are `run_one`, one step per await. A target has a provider, the
level that named it (`owner`: output, request or section of the configuration),
a role and keys. A key is the sequence of its segments: `ObjectPath` is what
`Path::from` makes of it, under which the object is put, `LocationOf` what
`object_url` reports. An upload whose answer is lost has stored the object and
fails. `Asked` is a separate definition of where a recording was asked to go, by
the order of precedence that the protocol documents.

**`WktSerde`** (`wkt_serde.rs`). The conversions as operators; a text is the
record of its numeric fields. The state is a day that walks through the
calendar by the rule of leap years, which the conversions are compared with, and
a value to write and read back.

**`Base62`** (`turn.rs`). `b62_encode` and `b62_decode`, one digit per step,
with the bit arithmetic of the code.

**`AgentDispatch`** (`agent.rs`, `services.rs`, `signal.rs`, `server.rs`). A job
is its dispatch or join, its room and the code that launched it; `jobPc` is the
task of `dispatch_job`, `availability` the worker's responder slot.

**`Egress`** (`lk-egress`, `services_sip.rs`, `ioservice.rs`). `startPc` and
`stopPc` are the API requests, `handlerPc` and `stopHandler` the recorder's psrpc
handlers, `jobPc` the recording task, `stream` who still holds a sender of the
room's audio (`Connect`, `FirstOffer`, `Disconnected`, `TracksEnd`: the signalling
loop, and from the first offer on the callback of the peer connection and its track
readers), `report` the reports to the nodes. The psrpc calls between them have the semantics of `Rpc`: handled at most once,
perhaps late, perhaps never; `EgressProofs!CallsAreRpc` proves that they do.

**`SipMatch`, `SipService`** (`ioservice.rs`, `services_sip.rs`,
`redis_store.rs`). `SipMatch` has the two matching loops round by round over the
sequence in which the hash is read (`TrunkRounds`, `RuleRounds`), and their
loop-free reference definitions. `SipService` has the API's loads and stores, the
container's questions about an inbound call, and an outbound call from the request
to the transfer. The numbers that a rule is matched with (`calling`, `called`) are
those of the request, which need not be those of the `call` it carries and the
trunk is matched with.

## 3. Runs

The passing runs explore their instance completely, `egress` up to the
constraint `SecondIsStarting`: its liveness property is about behaviours in which
the second recording is not yet spawned. Deadlock is not checked: in each
model every client may be done, which the system may be too; that nothing gets
stuck is stated by the properties named under liveness.

| run | instance | shows |
|---|---|---|
| `psrpc` | 1 request, 2 servers, 0..2 copies of every message, time-out at any point; and 2 requests, 1 server, nothing lost | `AtMostOnce`: of all bidders at most one runs the handler, once. `RpcSpec`: `Psrpc` implements `Rpc`, with `called` mapped to the requests that left `idle`. `CallReturns`: where nothing is lost a call returns without its timer unless it expired on the server |
| `room` | 2 Room objects, a user and an agent of one identity, a remover, a CreateRoom, a DeleteRoom, the ticker | `UniqueIdentity`, `RegistryExact` (the registry and `room_total` follow the objects, although `on_close` removes by name), `CloseCompletes` (the body of close runs once and a closed room is on its way out of the registry), `LeaveCompletes` (who is disconnected is being removed; who is gone is reported) |
| `tasks` | three parts that share no state, one per behaviour (below) | `NeverOrphaned`, `OrphanRemoved`; `NoGap`, `RelayDelivers`; `SpeakerAnnounced`, `SpeakerDropped` |
| `services` | two services, one per behaviour (below) | `NoDispatchMissed`, `TokenAgentOnce`, `OneJobPerYes`; `PinProtects`, `PinIsEnough`, `MatchIsReference`, `OutboundIsOneCall` |
| `egress` | 2 recordings (the second until it is spawned), capacity 1, 2 nodes, reports lost or late | `PlacesAccounted` (which recordings hold a place, those of a failed `register_topic` included; a stop is answered with the info), `EndedOnce`, `StartedReported`, `StopsRecording` (once connected, a stop or the end of the audio ends the recording) |
| `subscriptions` | 1 track, 1 subscriber, three callers, failing calls of the WebRTC library | `NoTrackMissed` (of tracks not refused), `OneOfferAtATime`, `OffersCatchUp` (where no offer failed) |
| `info` | the session reader and one other handler at a time, 1 observer, 4 handlers or resumes, channel of 1 | `CurrentValueTold`, `DepartureTold`, `LatestIsCurrent` |
| `parts` | six parts that share no state, one per behaviour (below) | `SingleHostUndisturbed`; `LossIsReal`, `TotalsAddUp`; `NothingLeaks`; `RecordingKept`, `StoredWhereAsked`; `CalendarIsGregorian`, `TextsKept`; `UserNameKept` |
| `session_grace` | 2 sessions | *violated*: `OlderGraceSkips`, see section 6 |
| `mixer_duration` | 2 tracks | *violated*: `DurationIsTime`, see section 6 |
| `dead_owner` | 3 nodes, 3 clients, crashes only | *violated*: `SingleHost`, see section 6 |
| `request_storage` | 1 recording | *violated*: `RequestStorageUsed`, see section 6 |

`tasks`, `services` and `parts` choose one part at the start and leave the others
at rest, so that their state space is the sum of those of the parts, not the
product. `tasks` has the parts with liveness properties and no symmetry.

Of `tasks`:

- *session*, 3 sessions, a remover, a close. `NeverOrphaned`, `OrphanRemoved`: a
  participant without a session has something on its way to remove it, and is
  removed unless resumed.
- *relay*, 3 requests and 3 responses. `NoGap`: from its first entry on the
  reader returns an unbroken run of requests. `RelayDelivers`: it goes on to
  return them; the client gets all responses, in order; when the session closes,
  the connection ends.
- *speakers*, 2 participants, windows of 3 ticks. `SpeakerAnnounced`,
  `SpeakerDropped`: who goes on talking is announced for good, who stops, pauses
  or leaves is dropped for good, whatever the phase of ticker and windows.

Of `services`:

- *agents*, 1 room, 1 dispatch, 2 joins naming the agent, 1 worker.
  `NoDispatchMissed`: CreateDispatch and the creation of the room do not miss each
  other. `TokenAgentOnce`: of several joins one launches the agent. `OneJobPerYes`:
  no worker gets more jobs than it accepted.
- *SIP*, 2 trunks and 2 rules out of 4 and 7 configurations, one API call, one call
  in (3 kinds) or out (4 requests). `MatchIsReference`: in every order of the hash
  the loops compute their reference definitions; rules that tie are for one room,
  of one kind and alike in asking for a PIN. `PinProtects`, `PinIsEnough`: the PIN
  is needed, and enough unless something was written. `OutboundIsOneCall`: a call is
  made from one version of its trunk.

Of `parts`:

- *cluster*, 2 nodes, 2 clients, 2 rounds, all six disturbances.
  `SingleHostUndisturbed`: claims that race never split a room, and a crash does
  not as long as the heartbeat of the dead node has not lapsed.
- *statistics*, 8 sequence numbers, 6 packets in any order out of 10 positions.
  `LossIsReal`: until the stream jumps, never more packets are reported lost than
  did not arrive. `TotalsAddUp`: the counters of Prometheus, fed with differences,
  never count a number twice although the loss goes down when packets come late.
- *mixer*, 2 tracks, packets of half, one and one and a half frames.
  `NothingLeaks`: no queue keeps a frame, no pruned track keeps anything, unless it
  did not decode.
- *upload*, 2 recordings, each with any of 19 requests under any of 6
  configurations. `RecordingKept`: a recording that ended is never without a copy,
  unless another was given its object. `StoredWhereAsked`: it goes to the first
  target named for it, by the output, then the configuration, or is refused because
  this recorder cannot use that one, and is complete only when it is there.
- *times as text*, 11 years around the exceptions of the calendar and 108 values
  around the changes of form. `CalendarIsGregorian`, `TextsKept`.
- *base62*, 3572 names of two and three bytes. `UserNameKept`: what is
  encoded is decoded, and the buffer of the decoder is never too short.

The type invariants (`TypeOK`, `RelayTypeOK`, ...) are stated in the modules.
Those of psrpc, rooms, sessions, participant info, subscriptions, cluster, agents,
recordings and SIP are proved, those of the statistics and the mixer are part of a
proof; `RelayTypeOK` holds when it is added to the configuration.

Why the bounds are enough. The races are between two parties over one object:
two joins of an identity, two claimants of a room, two offers, two bidders, an
update and a read. Each instance has both parties, one object, and a successor
where the code looks things up by name (two Room objects). A third session is
there because the grace task of the first may meet the resume of the third.
`MaxTries` is 2 where the code has 8: the loop body has no memory of earlier
rounds but the count, so two rounds reach both the first and the last one.
`MaxRequests` of `Relay` is 3: one entry before the first read or two in one
batch, and one between two reads or after. `SeqMod` is 8 and positions go from
-2 to 7, so that the number wraps, packets come before the first one and the stream
may become longer than the number space and jump. An outbound SIP call starts with
no dispatch rules stored, as it reads none.
`Interval` of `Speakers` is 3 ticks, so that a round may fall on every phase of
a window, and 3 changes are enough to talk, pause and talk again. `Frame` is 4,
which leaves half a frame over; silence is pruned after 2 of 4 units of time.
`Capacity` of a signal channel is 1: a full channel is then one message away.
`MaxOffers` is 0: offer ids are not
compared by anything else than `OfferIdsIncrease`, so that they need not be
counted. Symmetry is used for Room objects, nodes with joins, and joins, in
runs without liveness properties only. `dead_owner` has a third node, as one is
dead and two must split the room.

Every property of every passing run comes with a mutant: a definition of the
model changed the way a plausible slip in the code would change it (a dropped
guard, a test taken out of a lock, a swapped order), under which TLC finds that
property violated. They are the operators marked `Mutant:`.

## 4. Fairness

Fairness is weak and only on what the runtime schedules by itself: a spawned
tokio task that can go on does so.

- `Psrpc`: the client's stream task, the branches of its select, the server
  loop, the handler. Not on the caller's decision to call, nor on `Timeout`:
  `CallReturns` is about calls that do not need it.
- `SignalSession`: a resumed session sets its sink, a session of a disconnected
  participant ends (the next request breaks
  the loop, and without one the ping timeout does), a grace task wakes, a teardown
  and a close go on. Not on the loss of a connection or a resume: these are the
  client's.
- `Relay`: `NextRequest` (the session loop calls it again), the out consumer, the
  end of a session, the deletion of the streams after the close, and the end of
  the pump once the client was sent a Close frame (it answers with its own) or its
  connection is broken (the read fails, or times out after `PING_TIMEOUT_SECS`).
  Not on a request, a response or the loss of the client.
- `Speakers`: time, the forwarding loops and the background task. Not on what the
  participants do.
- `Egress`: the steps of the recording task that wait for nothing but a report,
  which has a timeout (`Proceed`). Not on requests and reports, not on `Connect`,
  whose wait for the JoinResponse has no timer, not on `Upload`, whose request to
  STS has none, and not on the room or the WebRTC library (`RoomClient`).
- `Subscriptions`: the tasks of the server, and the client's answer to an offer
  it received; an offer that cannot be made, and a lost or refused offer or answer,
  set `failed`, and `OffersCatchUp` is about the runs without.

The other modules have safety properties only.

## 5. Proofs

All theorems hold for every value of the constants that satisfies the named
`ASSUME`s; those only say that the "no such thing" values are none, that sets of
tasks are disjoint, that bounds are natural numbers, and what shape the inputs
have (trunks and rules in `SipService`, updates and permissions in
`ParticipantInfo`, names as strings of bytes in `Base62`).

| theorem | statement | argument |
|---|---|---|
| `ProtocolProofs!TypeCorrect` | `[]TypeOK` | a grace task exists only for a session that is over; no session has a later generation than the participant |
| `ProtocolProofs!NobodyOrphaned` | `[]NeverOrphaned` | `IInv` adds `DisconnectedIsLeaving`: a session that ends finds its participant disconnected and leaves no grace task, so that whoever disconnected it must still be on its way to remove it. Otherwise the grace task starts with the current generation, and only a resume, which makes a session live, changes that |
| `ClusterProofs!TypeCorrect` | `[]TypeOK` | |
| `ClusterProofs!ClaimsNeverSplit` | `[]SingleHostUndisturbed` | `RegistryDecides`: while undisturbed, whoever hosts or is about to host agrees with the entry. `ClaimRoom` alone writes it, and only where there is none |
| `ClusterProofs!RelayHasNoGap` | `[]NoGap` | `ReaderInv`: entry i of the stream is request i until a close ends it (`InOrder`), a reply that waits for the reader is the run of entries behind `last_id` (`ReplyIsNext`), a read that Redis has blocked has seen the whole stream (`BlockedAtEnd`), and what was handled and is pending are the requests up to `last_id` (`RunSoFar`) |
| `ClusterProofs!ResponsesInOrder` | `[]ToldInOrder`, the safety part of `RelayDelivers` | `OutInv`: entry i of `relay_out` is response i up to the first close, after which the writer may go on (`Numbered`); the client was told the entries up to `last_id`, none of them a close, and the answer to an XREAD is the run behind it (`ToldUpToLast`); the consumer is over before the streams are deleted (`OutFirst`) |
| `RoomProofs!TypeCorrect` | `[](TypeOK /\ InsertedFirst)` | the types of the removers' and closers' targets need `InsertedFirst`: nobody is in a map, disconnected or in a snapshot before it was inserted |
| `RoomProofs!IdentitiesUnique` | `[]UniqueIdentity` | the lock of `Room.join` spans look-up and insert |
| `RoomProofs!RegistryAlwaysExact` | `[]RegistryExact` | inductive as it stands: a room is registered together with its `on_close`, which is taken once, and whoever took it unregisters the room in the same step of the registry |
| `RoomProofs!ClosesOnce` | `[]CloseCompletes` | `ClosedIsClosing`: the swap of `closed` lets one call through, which stays on its way until the registry has forgotten the room |
| `RoomProofs!LeavesComplete` | `[]LeaveCompletes` | `DisconnectedIsLeaving` is inductive with the above; `LeaveIsReported` is not, since it speaks of announced participants only, and is strengthened to `GoneIsReported`, about all that were inserted |
| `AgentProofs!TypeCorrect` | `[]TypeOK` | |
| `AgentProofs!DispatchesLaunched` | `[]NoDispatchMissed` | `StoredFirst`: CreateDispatch stores before it looks for the room and the room is registered before it lists the dispatches, so one of the two sees the other |
| `AgentProofs!TokenAgentsOnce` | `[]TokenAgentOnce` | `OneAdder`: the lock of `Room.agents` tells one join that the agent is new |
| `AgentProofs!JobsMatchYes` | `[]OneJobPerYes` | `YesInv`: a job is launched once (`LaunchedOnce`), a worker is asked about a job that was picked for it and answers once (`RequestsKnow`), and the jobs a worker got are finite and no more than its yeses (`Paired`). An answer goes to whichever request waits: each one adds one yes and at most one job |
| `PsrpcProofs!AtMostOnceAlways` | `[]AtMostOnce` | the grants of a request name one server (`OneGrantee`), which is the one that runs it (`RunnerIsGrantee`); none exists before the client has granted (`GrantedOnce`); and on one server no copy of the request comes behind a copy of its grant (`RequestBeforeGrant`), so that the server that took the request out of `pending` never puts it back (`RunnerIsDone`) |
| `PsrpcProofs!ClaimFlowRefines` | `RpcSpec` | each step is a call, a run, a return or a stutter of `Rpc`; that a response is only returned after a run needs `Answered`: a response in any queue belongs to a request that ran |
| `PsrpcProofs!TypeCorrect` | `[]TypeOK` | with the types of the server side from the invariant of `AtMostOnceAlways`; a call has a result exactly when its future completed, since every `return` and `?` of `request_single` is a `Finish` |
| `InfoProofs!CurrentValuesTold` | `[]CurrentValueTold` | `InSight`: a value that must be told is in a snapshot still to be taken or to be sent, in what a handler has read and will still tell, or was told. A handler that writes a field serializes afterwards; one that has read an older value is followed by the one that wrote the newer |
| `InfoProofs!DeparturesTold` | `[]DepartureTold` | the same for the state of a participant that left: `end_participant` marks it before it serializes it, so that no later reader sees it otherwise |
| `InfoProofs!LatestAlwaysCurrent` | `[]LatestIsCurrent` | `Alone`: where no two tasks overlapped, what a task has read is current and versions are told in the order in which they rise |
| `InfoProofs!InfoTypeCorrect` | `[]TypeOK` | with the shape of tasks and snapshots from `InfoShape`: what is sent is a whole info, and a channel holds no more than its capacity |
| `InfoProofs!UserNamesKept` | `[]UserNameKept` | `Base62Inv`: the positions at which the encoder took its digits, a function from digits to bits (`Rounds`), are those at which the decoder finds itself, one after the other (`Between`): it has written the end of the name (`EndWritten`) and holds the bits of the byte before it that it has read |
| `MediaProofs!LossAlwaysAddsUp` | `[]LossAddsUp` | each branch of `observe` adds at least as much to `expected` as to received and lost together, and what it adds to `lost` was skipped; with it `loss_percent` and `out_of_order_percent` stay within 100 |
| `MediaProofs!TotalsAlwaysAddUp` | `[]TotalsAddUp` | a report adds `lost - reported` when that is positive, which the skipped numbers since the last report cover; it needs `LossAddsUp` and that no report runs ahead of the statistics |
| `MediaProofs!LossAlwaysReal` | `[]LossIsReal` | `HighWater`: `max_seq` is the remainder of the highest position that arrived and `lost` is at most the number of missing positions. Positions less than half the number space apart differ by what `wrapping_sub` says (`Distances`); a gap adds its positions to the missing ones, a late packet takes one away. Once `jumped` is set nothing is claimed |
| `MediaProofs!OffersTakeTurns` | `[]OneOfferAtATime` | `OfferInv`: an offer or an answer on the wire is one that is waited for, and whoever holds the negotiation found none |
| `MediaProofs!TracksNeverMissed` | `[]NoTrackMissed` | `Accounted`: a track with media is yet to be listed by the joining session, in its list, in a call of `add_subscription`, refused, or subscribed to. It rests on when a track is listed (`TrackListed`), when the subscriber is in the room (`InRoomUntilGone`), and what a call in progress knows (`CallsKnow`) |
| `MediaProofs!SubscriptionsTypeCorrect` | `[]TypeOK`, of which the last conjunct says that the maps of a subscriber name senders of its peer connection | `MapInv`: each caller adds a sender for a track once (`OnceAdded`), which is in the maps after it was made and leaves them for good (`InMapsOnce`), so that the one that `remove_subscription` detaches is not the one in the maps (`MapsInStep`) |
| `EgressProofs!TypeCorrect` | `[]TypeOK` | |
| `EgressProofs!PlacesKept` | `[]PlacesAccounted` | `FramesInStep`: how far the StartEgress handler, the StopEgress handler and the recording task can be apart |
| `EgressProofs!EndsOnce` | `[]EndedOnce` | `ReportsInStep`: a report was sent only by the frame that is past it, so the frame sends one terminal report; `egress_ended` was handed over only for one that was handled |
| `EgressProofs!StartsReported` | `[]StartedReported` | `StoredByCreate`: until the recorder has replied, only CreateEgress stores the egress, and it hands `egress_started` over when it does |
| `EgressProofs!CallsAreRpc` | `StartCalls!Spec`, `StopCalls!Spec`, `ReportCalls!Spec`: the three kinds of calls of `Egress` each refine `Rpc`, which `Psrpc` implements | the call, run and result of `Rpc` are read off the frames of caller and handler; `FramesInStep` and `ReportsInStep` give that nothing is called twice and no reply used without a run |
| `EgressProofs!RecordingsKept` | `[]RecordingKept` | `UploadInv`: the file is there until the upload is (`FilesUntilStored`), and an object holds a recording whose destination and key name it (`ObjectsPlaced`), so that only one with the same object replaces it |
| `EgressProofs!StoredAsAsked` | `[]StoredWhereAsked` | with `SpecsResolved`: the spec of a recording is what its request resolves to. `Asked` lists the targets in the documented order and takes the first that is set: that `DestinationOf`, section by section, comes to the same one, and refuses only what cannot be used, is shown by cases on what is set |
| `EgressProofs!MixerNeverLeaks` | `[]NothingLeaks` | the drain takes whole frames as long as the longest queue holds one; the longest of finitely many queues exists, and after it none holds a frame |
| `ProtocolProofs!CalendarGregorian` | `[]CalendarIsGregorian` | the quotients of the calendar are replaced by their bounds, which makes the arithmetic linear: `YearFromDay` finds the year of a day of an era, `DateOfDay` its month, and `OneDayOn` shows that the day number of tomorrow is one more, month end, leap day and year end included |
| `ProtocolProofs!NothingLostInText` | `[]TextsKept` | a fraction is a multiple of the unit its digits stand for; `DayKept` inverts the calendar, and the time of day is the remainder |
| `ProtocolProofs!MatchesAreReference` | `[]MatchIsReference` | by induction over the rounds of each loop: after i rounds `match_trunk` holds the trunk, the default or the conflict of the first i trunks (`TrunkFound`), and `match_dispatch_rule` a best one of the first i rules (`RuleFound`); `HashesKnown`: whatever is stored or loaded is a trunk or a rule. The order in which the hash is read is arbitrary. That rules which tie agree on room, kind and PIN follows from the order on rules |
| `ProtocolProofs!SipTypeCorrect` | `[]SipTypeOK` | what an API call has loaded goes back under the id it was loaded from (`LoadedKnown`, `OwnIds`) |
| `ProtocolProofs!PinsProtect` | `[]PinProtects` | with `HashesKnown` and `PinKnown` (`no_pin` is sent without a PIN, and only calls that came are evaluated): the PIN is looked at by the filter and again by the evaluation of the rule, so that what was written in between cannot let in a caller with another PIN |
| `ProtocolProofs!PinsAreEnough` | `[]PinIsEnough` | `EnoughKnown`: as long as nothing was written, the trunk of the second evaluation is that of the first, and the rule that asked still applies with its PIN; so that the loop, which takes a best of the rules that apply, finds one |
| `ProtocolProofs!OutboundCallsAreOne` | `[]OutboundIsOneCall` | `OutboundKnown`: what is sent to the container was built from one trunk and for one call id, and whoever joins for it, or is transferred, carries that id |

Each proof of an invariant has one step per action of `Next`. The inductive
invariants were checked by TLC on the instances of the runs before they were
proved.

Induction. The library's induction theorems are out of the provers' reach, but
that a non-empty set of numbers has a least element is not (`WFMin` takes a set):
the lemmas `Induction` of `ProtocolProofs` and `LeastNumber` of `ClusterProofs`
state induction for a set of rounds or positions, and the matching loops, the
first close in a reply and the largest queue of the mixer rest on them.

Only model-checked, and why:

- liveness (`CallReturns`, `OrphanRemoved`, `StopsRecording`, `OffersCatchUp`,
  `SpeakerAnnounced`, `SpeakerDropped`, and of `RelayDelivers` all but the order
  of the responses): fairness and `ENABLED` are beyond the prover;
- `RelayTypeOK`: it rests on what `SelectSeq` returns for every sequence, which
  the prover does not know. (The theorems about `Relay` have the types they need
  in their invariants.)

## 6. What the code does not keep

A property is stated here as the code's own comments, docs or tests have it,
where the model shows that it does not hold. Four have a run:

- `OlderGraceSkips` (run `session_grace`). `participant.rs:53-55`: "the
  teardown grace task for an older session skips when a newer session resumed".
  The generation is read when the old session ends, not when it began: a client
  that reconnects before the server noticed the loss of the old connection is
  ended by the old session's grace task although it resumed.
- `DurationIsTime` (run `mixer_duration`). `recorder.rs:134`: "mix whatever is
  available in all tracks"; `lk-egress/tests/recording.rs:441`: "a duration close
  to the recorded window". The drain runs after every packet, on the longest
  queue: the packet of one track becomes a frame before the packet of the other
  track for the same 20 ms is there, and that one becomes a frame of its own.
  With N tracks sent at once the file, and `FileInfo.duration`, are about N times
  too long.
- `SingleHost` (run `dead_owner`). `cluster.rs:5`: "each room is hosted on exactly
  one node"; `cluster.rs:454-455`: the room is claimed "when unowned (or when its
  previous owner is dead)". `HSETNX` never replaces the entry of the dead owner, so
  that every round of `route_room` fails, and after the last one every node that is
  asked answers Local and hosts the room, although the code after the loop is there
  not to end in "silently splitting the room across nodes". The test
  `dead_owner_is_reclaimed` asks one node.
- `RequestStorageUsed` (run `request_storage`). `protos/livekit_egress.proto:68`:
  "Request-level storage default", and line 193: "Per-output storage override (falls
  back to request, then server)". `rec_spec` reads the storage of the output and
  falls back to the configuration; that of the request is never read.

The following are definitions of the modules that TLC refutes; the hazards in
`PROJECT.json` say at which line and how. They are kept, without a run, as the
statement to check once the code changes.

| module | definitions |
|---|---|
| `Psrpc` | `OnlyInFlightPending` (a call that times out leaves its routing entry) |
| `RoomLifecycle` | `CapacityRespected`, `ClosedRoomRejects` (tests before the lock), `TeardownOnce`, `RoomFinishedOnce` (two callers report), `RoomStartedFirst`, `EmptyRoomIsTimed` (`empty_since` cleared after the insert) |
| `SignalSession` | `CloseTellsClient` (the sink is cleared before the Leave is sent) |
| `Cluster` | `SingleHost` (also after a close, a late heartbeat or an unrouted create), `ReleasesOwnEntry` (read and delete are two commands) |
| `Relay` | `NothingMissed` (entries before the first XREAD from `$`), `RelayEnds` (the streams are deleted before the reader got the close entry), `StreamsDeleted` (a late response creates the stream anew) |
| `Upload` | `NoOverwrite` (two recordings with one object path; `PutMode::Overwrite`), `LocationNamesObject` (`object_url` keeps the empty segments of a key that `Path::from` drops) |
| `AgentDispatch` | `DeclinedNotAssigned`, `SlotIsPending` (answers are not matched with jobs), `TokenAgentLaunched` (the join that recorded the agent is refused), `DispatchOnce`, `RoomJobsTerminated` |
| `Egress` | `CapacityRespected`, `PlaceReturned`, `ConnectionReleased` (the signalling loop does not look at the receiver), `StopsConnecting` (no timer on the JoinResponse), `TerminalStays` |
| `Negotiation`, `Subscriptions` | `OfferIdsIncrease` (the first two ids are 1), `OneSenderPerTrack`, `ReleasedForGood`, `UnpublishedIsReleased`, `ResumeIsOffered` |
| `ParticipantInfo` | `VersionsOrderUpdates`, `VersionsFresh` (the version is taken after the fields), `NoGhost`, `GoneStaysGone`, `HiddenUntold`, `MuteTold` |
| `SipService` | `AnswersEveryCall` (hiding an empty number), `EncryptionCarried` (`upgrade_media` returns None without a media config), `FailedIsNotDialled` (a request that timed out is still dialled), `AddressRequired` (asked on create, not on update), `HiddenNumberOmitted` (`protos/livekit_sip.proto:796`: "a random value for identity will be used"; the code uses `sip_` and the number) |

## 7. Assumptions and abstractions

- Redis commands are atomic, and each is a step. They fail in `Cluster` and
  `Relay`; elsewhere they succeed. In `Relay` the XADDs of requests, responses and
  closes succeed, and the deletion takes both streams at once. A join that is
  refused, and a start entry that is not written, leave the client without an
  answer, as in the code.
- `Speakers`: a participant publishes one track, and its packets come at the pace
  of time. The properties are about the set the room announces: a joiner is not
  told the current set before it changes, and `send_update` drops what a full
  channel does not take. (`protos/livekit_rtc.proto:91` has speakers that stopped
  in the message; the code sends the list of those that are active.)
- `RtpStats`: `LossIsReal` is about streams until they jump by half the number space.
  A second copy of a late packet is taken off the loss as well, so the loss can be
  too small.
- `Mixer`: samples are counted, and a track has no more audio than time passed. A
  track that did not decode and then goes silent keeps its decoder until the
  recording ends, as in the code; `NothingLeaks` excepts it.
- `Upload`: a target stands for a bucket and its credentials. A request's S3 target
  with keys of its own and no role is used with the role of the configuration, as in
  the code. The segments of a key are told apart only as far as `Path::from` does.
- `WktSerde`: the text is well-formed; widths of integers do not matter for the
  years a Timestamp may hold.
- psrpc: each subscriber reads one stream in order. If a PUBLISH is retried, the
  first attempt takes effect, if at all, before the retry. Channel names and
  encodings are left out; a reconnecting subscriber is the choice of 0 copies.
- Time is abstract: any timer that runs may fire at any moment.
- `Egress`: the store succeeds. A recording ends when it is stopped or the last
  sender of its stream is dropped; audio and files are outside. `StopsRecording`
  counts an upload that waits for its storage for ever as an end that is not the
  recorder's. `SecondIsStarting` bounds the second recording.
- `Subscriptions`: SDP is the set of senders it describes; ICE and RTP are the
  library's, and so is whether its calls fail. The client answers the offer it got.
- `ParticipantInfo`: metadata stands for name and metadata, one key for the
  attributes, one track for the tracks. The properties are about an
  observer that no info was dropped for since its snapshot began (`missed`: the
  channel was full, or `set_signal_sink` had not run), and about fields whose
  changes a broadcast follows (`silent` records a change of the tracks that none
  does). The publisher connection exists only after an offer, whose handler has
  marked the participant joined: it becomes active from there.
- SIP: a number is whom it denotes and how it is written, an address mask what
  it covers, the fields of an outbound trunk that are copied one by one are
  `settings`. Lists are sets where no code looks at their order. Trunk ids come
  from one generator, so that the inbound and the outbound hash are one function.
  Dialling and PIN entry are the container's, modelled from how the code uses it.
- `AgentDispatch`: load and job type decide nothing in the code; a worker session
  registers once.

## 8. Not modelled

- The codecs and file headers of recordings (`audio.rs`, `wav.rs`, `mp3.rs`), the
  signed request of `sts.rs`, `redact.rs`: sequential transformations of bytes.
- Token checks, configuration, metrics and HTTP plumbing: no protocol state.
- The TURN server and its passwords: a library and a hash.
- The JSON mapping of `Any` and `Empty`, and the generated protobuf types.
- ICE, DTLS, publisher negotiation and RTP itself: the WebRTC library.
- The delivery of a webhook: a task per URL and event that posts one body up to
  five times (`webhook.rs:92` says "1 initial attempt + 5 retries") and shares
  nothing with the others.
- Room metadata and data packets: one broadcast each, without state to keep.
- The command line tools: clients of the server.

`PROJECT.json` has the reason for each under `components`.

## 9. Plan

What would add most next:

1. `Relay` composed with `Cluster`: a routed client reaches the session it was
   routed to.
2. Several participants in `ParticipantInfo` and two subscribers in
   `Subscriptions`.
3. An abstract specification of the room, as `Rpc` is of psrpc, that
   `RoomLifecycle` implements.
