------------------------------- MODULE Mixer -------------------------------
(***************************************************************************)
(* run_recording and its Mixer (recorder.rs): the decoded packets of all    *)
(* tracks of a room come in over one channel, wait in a queue per track,    *)
(* and leave as mixed frames of a fixed length.                             *)
(*                                                                         *)
(* Samples are counted, not mixed.  Time is counted in frames, so a track   *)
(* produces Frame samples per unit of time.                                 *)
(***************************************************************************)
EXTENDS Integers, FiniteSets, FiniteSetsExt

CONSTANTS
    Tracks,          \* the stream ids of the room's tracks
    Frame,           \* FRAME_SAMPLES
    PacketSizes,     \* samples an Opus packet can decode to
    SilentTimeout,   \* SILENT_TRACK_TIMEOUT
    MaxElapsed       \* bound: duration of a behaviour

ASSUME MixerAssumption ==
    /\ IsFiniteSet(Tracks)
    /\ Frame \in Nat \ {0}
    /\ PacketSizes \subseteq Nat
    /\ SilentTimeout \in Nat
    /\ MaxElapsed \in Nat

VARIABLES
    recording,    \* run_recording is in its loop
    elapsed,      \* time since the recording began
    tracks,       \* the keys of Mixer.tracks and Mixer.last_packet
    queue,        \* queue[t]: samples in Mixer.tracks[t], 0 without an entry
    lastPacket,   \* Mixer.last_packet
    decoders,     \* the keys of `decoders`
    frames,       \* frames written
    sent,         \* history: samples of each track that were decoded
    failed        \* history: tracks whose latest packet did not decode

mixerVars == <<recording, elapsed, tracks, queue, lastPacket, decoders, frames,
               sent, failed>>

MixerInit ==
    /\ recording = TRUE
    /\ elapsed = 0
    /\ tracks = {}
    /\ queue = [t \in Tracks |-> 0]
    /\ lastPacket = [t \in Tracks |-> 0]
    /\ decoders = {}
    /\ frames = 0
    /\ sent = [t \in Tracks |-> 0]
    /\ failed = {}

-----------------------------------------------------------------------------
(* The Mixer *)

\* prune_stale: the tracks without a packet for SILENT_TRACK_TIMEOUT.
Stale(keys, last) == {t \in keys : elapsed - last[t] > SilentTimeout}

\* Mutant: the shortest queue, so that every track is complete.
AvailableInAll(keys, q) == Min({q[t] : t \in keys})

\* Mixer.available: the longest queue.
Available(keys, q) == Max({q[t] : t \in keys})

\* Mixer.read_frame, n times: a track that has too few samples is silent.
ReadFrames(q, n) ==
    [t \in Tracks |-> IF q[t] > n * Frame THEN q[t] - n * Frame ELSE 0]

PruneDecoders(t, stale) == decoders' = (decoders \cup {t}) \ stale

-----------------------------------------------------------------------------
(* run_recording *)

Elapse ==
    /\ recording
    /\ elapsed < MaxElapsed
    /\ elapsed' = elapsed + 1
    /\ UNCHANGED <<recording, tracks, queue, lastPacket, decoders, frames, sent,
                   failed>>

\* A packet of n samples of t.  A track has no more audio than time has passed.
Packet(t, n) ==
    /\ recording
    /\ sent[t] + n <= elapsed * Frame
    /\ LET keys == tracks \cup {t}
           last == [lastPacket EXCEPT ![t] = elapsed]
           stale == Stale(keys, last)
           full == [queue EXCEPT ![t] = @ + n]
           kept == [u \in Tracks |-> IF u \in stale THEN 0 ELSE full[u]]
           drained == Available(keys \ stale, kept) \div Frame
       IN /\ tracks' = keys \ stale
          /\ lastPacket' = last
          /\ PruneDecoders(t, stale)
          /\ queue' = ReadFrames(kept, drained)
          /\ frames' = frames + drained
    /\ sent' = [sent EXCEPT ![t] = @ + n]
    /\ failed' = failed \ {t}
    /\ UNCHANGED <<recording, elapsed>>

\* A packet of t does not decode: its decoder exists, nothing else happens.
DecodeFails(t) ==
    /\ recording
    /\ decoders' = decoders \cup {t}
    /\ failed' = failed \cup {t}
    /\ UNCHANGED <<recording, elapsed, tracks, queue, lastPacket, frames, sent>>

\* The stop signal or the end of the stream: what is left of a frame in the
\* queues is not written.
StopMixing ==
    /\ recording
    /\ recording' = FALSE
    /\ UNCHANGED <<elapsed, tracks, queue, lastPacket, decoders, frames, sent,
                   failed>>

MixerNext ==
    \/ Elapse
    \/ \E t \in Tracks : DecodeFails(t) \/ \E n \in PacketSizes : Packet(t, n)
    \/ StopMixing

MixerSpec == MixerInit /\ [][MixerNext]_mixerVars

-----------------------------------------------------------------------------
(* Properties *)

MixerTypeOK ==
    /\ recording \in BOOLEAN
    /\ elapsed \in Nat
    /\ tracks \in SUBSET Tracks
    /\ queue \in [Tracks -> Nat]
    /\ lastPacket \in [Tracks -> Nat]
    /\ decoders \in SUBSET Tracks
    /\ frames \in Nat
    /\ sent \in [Tracks -> Nat]
    /\ failed \in SUBSET Tracks

\* "a stalled/DTX track must not keep other tracks' queues growing
\* unboundedly", "a silent track can neither stall the mix nor leak decoder/queue
\* memory": whatever the tracks send, no queue holds a full frame once a packet
\* was handled, a track that was pruned holds nothing, and a decoder without a
\* queue belongs to a track whose packets do not decode.
NothingLeaks ==
    /\ \A t \in Tracks : queue[t] < Frame /\ (t \notin tracks => queue[t] = 0)
    /\ tracks \subseteq decoders
    /\ decoders \ tracks \subseteq failed

\* "mix whatever is available in all tracks", "a duration close to the recorded
\* window": FileInfo.duration, 20 ms for each frame written, is at most a frame
\* longer than the recording took.
DurationIsTime == frames <= elapsed + 1

=============================================================================
