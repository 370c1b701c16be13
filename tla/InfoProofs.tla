----------------------------- MODULE InfoProofs -----------------------------
(***************************************************************************)
(* What an observer is told of a participant (ParticipantInfo), for any      *)
(* number of handlers, any updates and any capacity of the channel.          *)
(*                                                                         *)
(* The invariant follows a value from where a handler writes it to where     *)
(* the observer has it.  InSight: whatever must be told is read by a task    *)
(* that is still going to tell it, or was told.  Alone: where no two         *)
(* handlers overlapped, what a task has read is the current value, and       *)
(* versions rise in the order in which they are told.  Every step of a       *)
(* handler keeps both (Kept), one lemma per operation, and so does every     *)
(* step of the observer.                                                     *)
(*                                                                         *)
(* The last part is about the user name that the client of a participant     *)
(* gives to the TURN server (Base62), for byte strings of any length: the    *)
(* decoder finds itself, digit by digit, at the position of the encoder.     *)
(***************************************************************************)
EXTENDS ParticipantInfo, Base62, TLAPS

-----------------------------------------------------------------------------
(* What the observer is told *)

\* Where a handler is before it serializes, and from then until it has told.
Before == {"idle", "over", "metadata", "permission", "attributes", "muting", "ending"}
Telling == {"to_proto", "remove", "broadcast", "send"}
Stamped == {"remove", "broadcast", "send"}

\* Where the observer is.
Watching == {"out", "entered", "filter", "to_proto", "sink", "connected", "dropped"}

\* The values that each field may have.
Values == [attributes |-> Attributes \cup {None}, permission |-> Permission,
           state |-> Joining .. Disconnected, tracks |-> {"none", "on", "muted"},
           metadata |-> Metadata \cup {None}]

\* What a to_proto has read so far.
Partial(seen) ==
    DOMAIN seen \subseteq Fields /\ \A f \in DOMAIN seen : seen[f] \in Values[f]

\* What is known of a handler at each stage.
HandlerKnown(t) ==
    /\ DOMAIN task[t] = {"stage", "op", "arg", "changed", "seen"}
    /\ task[t].stage \in Before \cup Telling \cup {"reply"}
    /\ task[t].op # "list"
    /\ task[t].changed \in BOOLEAN
    /\ task[t].stage \in Before => task[t].seen = <<>>
    /\ task[t].stage = "to_proto" => Partial(task[t].seen)
    /\ task[t].stage \in Stamped => task[t].seen \in Info
    /\ task[t].stage = "permission" => t # Reader
    /\ task[t].stage = "remove" => task[t].op = "end"
    /\ task[t].op = "join" =>
          t = Reader /\ task[t].stage \in {"to_proto", "broadcast", "send"}
    /\ task[t].op = "end" /\ task[t].stage \in Telling => field.state = Disconnected
    /\ task[t].stage \in {"metadata", "permission", "attributes"} =>
          task[t].op = "update" /\ task[t].arg \in Updates
    /\ task[t].stage = "muting" => task[t].op = "mute" /\ task[t].arg \in {"on", "muted"}

\* What is known of the observer: its channel is open while it is connected,
\* and it has got nothing otherwise.
ObserverKnown ==
    /\ DOMAIN task[Observer] = {"stage", "op", "arg", "changed", "seen"}
    /\ task[Observer].stage \in Watching
    /\ task[Observer].op = "list"
    /\ task[Observer].stage \in {"out", "entered", "filter", "dropped"} =>
          task[Observer].seen = <<>>
    /\ task[Observer].stage = "to_proto" => Partial(task[Observer].seen)
    /\ task[Observer].stage \in {"sink", "connected"} =>
          task[Observer].seen = <<>> \/ task[Observer].seen \in Info
    /\ sink = "open" <=> task[Observer].stage = "connected"
    /\ task[Observer].stage # "connected" => queue = <<>> /\ got = {}
    /\ queue \in Seq(Info)
    /\ got \in SUBSET Info

\* The participant: it is Disconnected before it leaves the room.
FieldKnown ==
    /\ field \in [attributes : Attributes \cup {None}, permission : Permission,
                  state : Joining .. Disconnected, tracks : {"none", "on", "muted"},
                  metadata : Metadata \cup {None}]
    /\ version \in Nat
    /\ present \in BOOLEAN
    /\ ~present => field.state = Disconnected

\* Tasks, observer and participant together.
InfoShape ==
    /\ DOMAIN task = Tasks
    /\ \A t \in Handlers : HandlerKnown(t)
    /\ ObserverKnown
    /\ FieldKnown

\* A handler that is on its way to tell the observer of the participant.
WillTell(t) ==
    \/ task[t].stage = "permission" /\ task[t].changed
    \/ task[t].stage = "attributes" /\ (t = Reader \/ task[t].changed)
    \/ /\ task[t].stage \in Telling
       /\ "permission" \in DOMAIN task[t].seen => ~task[t].seen.permission.hidden

\* What t has read of f, if it has, is the value of f.
Current(t, f) == f \in DOMAIN task[t].seen => task[t].seen[f] = field[f]

\* The observer will be shown the value of f: by a snapshot that is still to be
\* taken or has not read another value, or by what it was told since.
WillShow(f) ==
    \/ task[Observer].stage \in {"out", "entered", "filter", "dropped"}
    \/ task[Observer].stage = "to_proto" /\ Current(Observer, f)
    \/ task[Observer].stage = "sink" /\ f \in DOMAIN task[Observer].seen
                                     /\ Current(Observer, f)
    \/ task[Observer].stage = "connected" /\ \E i \in Told : i[f] = field[f]
    \/ ~present /\ task[Observer].stage \in {"sink", "connected"}
               /\ task[Observer].seen = <<>>

\* Every value that must be told is on its way or was told.  (That of a
\* participant that left is its state.)
InSight ==
    ~missed /\ ~field.permission.hidden =>
        \A f \in Announced :
            \/ ~present /\ f # "state"
            \/ WillShow(f)
            \/ \E t \in Handlers : WillTell(t) /\ Current(t, f)

\* One handler, or the snapshot, is at work, and what it has read is current.
OneAtATime ==
    /\ \A t \in Handlers, u \in Tasks :
          t # u /\ Working(t) /\ Working(u) => u = Observer /\ task[u].stage = "entered"
    /\ \A t \in Tasks, f \in Announced :
          task[t].stage \in Telling \cup {"sink"} => Current(t, f)

\* A version is above all that were told before it.  The first is taken by the
\* join, which nobody is told of.
VersionsRise ==
    /\ version = 0 => task[Reader].stage = "to_proto" /\ task[Reader].op = "join"
    /\ task[Reader].op = "join" => task[Observer].stage \in {"out", "entered"}
    /\ \A i \in Told : i.version < version
    /\ \A t \in Handlers :
          task[t].stage \in Stamped /\ task[t].op # "join" =>
              /\ task[t].seen.version < version
              /\ \A i \in Told : i.version < task[t].seen.version
    /\ task[Observer].stage = "sink" /\ task[Observer].seen # <<>> =>
          task[Observer].seen.version < version

\* The latest that was told is current, or somebody is about to tell more.
LatestKnown ==
    ~missed /\ ~field.permission.hidden =>
        \/ task[Observer].stage # "connected"
        \/ \E t \in Handlers : WillTell(t)
        \/ \A i \in Told :
              (\A j \in Told : i.version >= j.version) =>
                  \A f \in Announced : i[f] = field[f]

\* Where no two handlers overlapped.
Alone == ~overlap => OneAtATime /\ VersionsRise /\ LatestKnown

\* The inductive invariant.
InfoInv == InfoShape /\ InSight /\ Alone

\* What every step of handler t does to the tasks.
Moved(t) == DOMAIN task' = Tasks /\ \A u \in Tasks \ {t} : task'[u] = task[u]

\* What a step of handler t that sends nothing does to what the observer is told:
\* t will tell everything, or it changes nothing that must be told.
TellsOn(t) ==
    /\ UNCHANGED observerVars
    /\ present' => present
    /\ ~overlap' => ~overlap /\ (Working(t) \/ \A u \in Tasks \ {t} : ~Working(u))
    /\ \/ WillTell(t)' /\ task'[t].seen = <<>>
       \/ /\ field'.permission = field.permission
          /\ \A f \in Announced' :
                /\ f \in Announced
                /\ field'[f] = field[f]
                /\ Current(t, f) => Current(t, f)'
          /\ task'[t].stage \in Telling => task[t].stage \in Telling
          /\ ~field.permission.hidden /\ WillTell(t) =>
                WillTell(t)' \/ task[Observer].stage = "out"

\* What a step of handler t other than Stamp does to the versions.
VersionsOn(t) ==
    /\ version' \in Nat /\ version <= version'
    /\ task[t].stage = "to_proto" =>
          task'[t].stage = "to_proto" /\ task'[t].op = task[t].op
    /\ task'[t].stage \in Stamped =>
          /\ task[t].stage \in Stamped
          /\ task'[t].seen = task[t].seen
          /\ task'[t].op = task[t].op
    /\ task'[t].op = "join" => task[t].op = "join"

\* What a step of handler t keeps.
StillKnown(t) ==
    /\ Moved(t)
    /\ HandlerKnown(t)'
    /\ FieldKnown'
    /\ field.state = Disconnected => field'.state = Disconnected

\* What a step of handler t that takes no version for an info keeps.
Kept(t) == StillKnown(t) /\ TellsOn(t) /\ VersionsOn(t)

-----------------------------------------------------------------------------

\* The fields that to_proto reads.
LEMMA FieldNames == Fields = {"attributes", "permission", "state", "tracks", "metadata"}
  BY DEF Fields, ToProtoOrder

\* The handlers are the reader and the others; the observer is none of them.
LEMMA TaskNames ==
    /\ Reader \in Handlers /\ Others \subseteq Handlers /\ Reader \notin Others
    /\ Handlers \subseteq Tasks /\ Observer \in Tasks
    /\ Observer \notin Handlers /\ Tasks = Handlers \cup {Observer}
  BY Zenon, InfoAssumption DEF Tasks, Handlers

\* to_proto adds a field to what it has read.
LEMMA SeenGrows ==
    ASSUME NEW s, NEW f, NEW v
    PROVE  /\ DOMAIN With(s, f, v) = DOMAIN s \cup {f}
           /\ With(s, f, v)[f] = v
           /\ \A g \in DOMAIN s : g # f => With(s, f, v)[g] = s[g]
  BY Zenon DEF With

\* A field of the participant has the type of the field.
LEMMA FieldTyped ==
    ASSUME FieldKnown, NEW f \in Fields
    PROVE  field[f] \in Values[f]
  <1>1. /\ field.attributes \in Values.attributes
        /\ field.permission \in Values.permission
        /\ field.state \in Values.state
        /\ field.tracks \in Values.tracks
        /\ field.metadata \in Values.metadata
    BY Zenon DEF FieldKnown, Values
  <1>2. QED
    BY Zenon, <1>1, FieldNames

\* What to_proto has read stays typed when it reads a field of that type.
LEMMA PartialGrows ==
    ASSUME NEW s, Partial(s), NEW f \in Fields, NEW v \in Values[f]
    PROVE  Partial(With(s, f, v))
  <1>1. DOMAIN With(s, f, v) \subseteq Fields
    BY Zenon DEF Partial, With
  <1>2. ASSUME NEW g \in DOMAIN With(s, f, v)
        PROVE  With(s, f, v)[g] \in Values[g]
    BY Zenon, <1>2 DEF Partial, With
  <1>3. QED
    BY Zenon, <1>1, <1>2 DEF Partial

\* to_proto starts with nothing read.
LEMMA PartialEmpty == Partial(<<>>) /\ DOMAIN <<>> = {}
  BY DEF Partial

\* With all fields and the version it is an info.
LEMMA WholeInfo ==
    ASSUME NEW s, Partial(s), Fields \subseteq DOMAIN s, NEW n \in Nat
    PROVE  /\ With(s, "version", n) \in Info
           /\ With(s, "version", n).version = n
           /\ \A f \in Fields : With(s, "version", n)[f] = s[f]
  <1> DEFINE w == With(s, "version", n)
  <1>1. /\ w = [g \in DOMAIN s \cup {"version"} |-> w[g]]
        /\ w.version = n
        /\ \A g \in DOMAIN s : g # "version" => w[g] = s[g]
    BY Zenon DEF With
  <1>2. DOMAIN s = {"attributes", "permission", "state", "tracks", "metadata"}
    BY Zenon, FieldNames DEF Partial
  <1>3. \A f \in Fields : w[f] = s[f] /\ s[f] \in Values[f]
    BY Zenon, <1>1, <1>2, FieldNames DEF Partial
  <1> HIDE DEF w
  <1>4. /\ w.attributes \in Attributes \cup {None} /\ w.permission \in Permission
        /\ w.state \in Joining .. Disconnected /\ w.tracks \in {"none", "on", "muted"}
        /\ w.metadata \in Metadata \cup {None}
    BY Zenon, <1>3, FieldNames DEF Values
  <1>5. w \in Info
    BY Zenon, <1>1, <1>2, <1>4 DEF Info
  <1>6. QED
    BY Zenon, <1>1, <1>3, <1>5 DEF w

\* An info has every field.
LEMMA InfoHasFields ==
    ASSUME NEW i \in Info
    PROVE  /\ Fields \subseteq DOMAIN i /\ i # <<>> /\ i.version \in Nat
           /\ \A f \in Fields : i[f] \in Values[f]
  BY FieldNames DEF Info, Values

\* The fields have their names, and those that must be told are among them.
LEMMA FieldDomain ==
    /\ FieldKnown => DOMAIN field = Fields
    /\ Announced \subseteq Fields /\ Announced' \subseteq Fields
  BY Zenon, FieldNames DEF FieldKnown, Announced

-----------------------------------------------------------------------------
(* How a task moves *)

Parts == {"stage", "op", "arg", "changed", "seen"}

\* A task goes on to its next stage with what it has.
LEMMA GotoMoves ==
    ASSUME DOMAIN task = Tasks, NEW t \in Tasks, DOMAIN task[t] = Parts,
           NEW s, Goto(t, s)
    PROVE  /\ Moved(t)
           /\ DOMAIN task'[t] = Parts
           /\ task'[t].stage = s
           /\ task'[t].op = task[t].op
           /\ task'[t].arg = task[t].arg
           /\ task'[t].changed = task[t].changed
           /\ task'[t].seen = task[t].seen
  BY Zenon DEF Goto, Moved, Parts

\* A handler that returns is idle, or over, and has read nothing.
LEMMA ReturnMoves ==
    ASSUME DOMAIN task = Tasks, NEW t \in Tasks, Return(t)
    PROVE  /\ Moved(t)
           /\ DOMAIN task'[t] = Parts
           /\ task'[t].stage \in {"idle", "over"}
           /\ task'[t].op = "none"
           /\ task'[t].changed = FALSE
           /\ task'[t].seen = <<>>
  BY Zenon DEF Return, Moved, Parts, Task, Idle

\* A handler starts from idle, and marks an overlap if another one is at work.
LEMMA StartMoves ==
    ASSUME DOMAIN task = Tasks, NEW t \in Tasks, NEW s, NEW op, NEW arg,
           Start(t, s, op, arg)
    PROVE  /\ Moved(t)
           /\ task[t].stage = "idle"
           /\ DOMAIN task'[t] = Parts
           /\ task'[t].stage = s
           /\ task'[t].op = op
           /\ task'[t].arg = arg
           /\ task'[t].changed = FALSE
           /\ task'[t].seen = <<>>
           /\ UNCHANGED <<version, present, observerVars>>
           /\ ~overlap' => ~overlap /\ \A u \in Tasks \ {t} : ~Working(u)
  BY Zenon DEF Start, Begin, Moved, Parts, Task

-----------------------------------------------------------------------------
(* The handlers, one by one *)

\* A handler that begins: it is to tell what it did, or did nothing to tell.
LEMMA StartKeeps ==
    ASSUME InfoShape, NEW t \in Handlers, NEW s, NEW op, NEW arg,
           Start(t, s, op, arg), op \notin {"list", "join"},
           FieldKnown', field.state = Disconnected => field'.state = Disconnected,
           \/ s = "to_proto" /\ op # "end"
           \/ /\ s \in {"idle", "over", "metadata", "muting", "ending"}
              /\ field'.permission = field.permission
              /\ \A f \in Announced' : f \in Announced /\ field'[f] = field[f],
           s = "metadata" => op = "update" /\ arg \in Updates,
           s = "muting" => op = "mute" /\ arg \in {"on", "muted"}
    PROVE  Kept(t)
  <1>1. t \in Tasks /\ DOMAIN task = Tasks
    BY Zenon, TaskNames DEF InfoShape
  <1>2. /\ Moved(t)
        /\ task[t].stage = "idle"
        /\ DOMAIN task'[t] = Parts
        /\ task'[t].stage = s
        /\ task'[t].op = op
        /\ task'[t].arg = arg
        /\ task'[t].changed = FALSE
        /\ task'[t].seen = <<>>
        /\ UNCHANGED <<version, present, observerVars>>
        /\ ~overlap' => ~overlap /\ \A u \in Tasks \ {t} : ~Working(u)
    BY Zenon, <1>1, StartMoves
  <1>3. HandlerKnown(t)'
    BY Zenon, <1>2, PartialEmpty DEF HandlerKnown, Before, Telling, Stamped, Parts
  <1>4. VersionsOn(t)
    BY <1>2 DEF VersionsOn, Stamped, InfoShape, FieldKnown
  <1>5. CASE s = "to_proto"
    <2>1. WillTell(t)'
      BY Zenon, <1>2, <1>5, PartialEmpty DEF WillTell, Telling
    <2>2. TellsOn(t)
      BY Zenon, <1>2, <2>1 DEF TellsOn
    <2>3. QED
      BY Zenon, <1>2, <1>3, <1>4, <2>2 DEF Kept, StillKnown
  <1>6. CASE s # "to_proto"
    <2>1. ~WillTell(t) /\ s \notin Telling
      BY Zenon, <1>2, <1>6 DEF WillTell, Telling
    <2>2. \A f \in Announced' : Current(t, f)'
      BY Zenon, <1>2, PartialEmpty DEF Current
    <2>3. TellsOn(t)
      BY Zenon, <1>2, <1>6, <2>1, <2>2 DEF TellsOn
    <2>4. QED
      BY Zenon, <1>2, <1>3, <1>4, <2>3 DEF Kept, StillKnown
  <1>7. QED
    BY Zenon, <1>5, <1>6

\* The requests that only begin.
LEMMA RequestKeeps ==
    ASSUME InfoShape, NEW t \in Handlers,
           \/ \E u \in Updates : UpdateParticipant(t, u)
           \/ t = Reader /\ \E u \in Updates : HandleUpdateMetadata(u)
           \/ t = Reader /\ \E to \in {"on", "muted"} : HandleMute(to)
           \/ EndParticipant(t)
    PROVE  Kept(t)
  <1>1. UNCHANGED <<field, silent, version, present>>
    BY Zenon DEF UpdateParticipant, HandleUpdateMetadata, HandleMute, EndParticipant, Start
  <1>2. FieldKnown' /\ Announced' = Announced
    BY Zenon, <1>1 DEF InfoShape, FieldKnown, Announced
  <1>3. ReaderDone \in {"idle", "over"}
    BY Zenon DEF ReaderDone
  <1>4. \E s \in {"idle", "over", "metadata", "muting", "ending"},
           op \in {"none", "update", "mute", "end"},
           arg \in Updates \cup {"on", "muted", None} :
             /\ Start(t, s, op, arg)
             /\ s = "metadata" => op = "update" /\ arg \in Updates
             /\ s = "muting" => op = "mute" /\ arg \in {"on", "muted"}
    BY Zenon, <1>3 DEF UpdateParticipant, HandleUpdateMetadata, HandleMute, EndParticipant
  <1>5. QED
    BY Zenon, <1>1, <1>2, <1>4, StartKeeps

\* handle_add_track and handle_offer tell nobody: a new track is silent, and a
\* state of joined is not announced.
LEMMA QuietStartKeeps ==
    ASSUME InfoShape,
           HandleOffer \/ \E m \in BOOLEAN : HandleAddTrack(m)
    PROVE  Kept(Reader)
  <1>1. ReaderDone \in {"idle", "over"}
    BY Zenon DEF ReaderDone
  <1>2. Start(Reader, ReaderDone, "none", None) /\ UNCHANGED <<version, present>>
    BY Zenon DEF HandleOffer, HandleAddTrack, Start
  <1>3. FieldKnown /\ DOMAIN field = Fields
    BY Zenon, FieldDomain DEF InfoShape
  <1>4. FieldKnown' /\ (field.state = Disconnected => field'.state = Disconnected)
    BY <1>2, <1>3 DEF HandleOffer, HandleAddTrack, FieldKnown, set_state, Joining, Joined,
                      Active, Disconnected
  <1>5. /\ field'.permission = field.permission
        /\ \A f \in Announced' : f \in Announced /\ field'[f] = field[f]
    <2>1. CASE HandleOffer
      BY Zenon, <1>3, <2>1, FieldNames DEF HandleOffer, FieldKnown, Announced, set_state, Joining,
                                    Joined, Active, Disconnected
    <2>2. CASE \E m \in BOOLEAN : HandleAddTrack(m)
      BY <1>3, <2>2, FieldNames DEF HandleAddTrack, Announced
    <2>3. QED
      BY Zenon, <2>1, <2>2
  <1>6. QED
    BY Zenon, <1>1, <1>2, <1>4, <1>5, StartKeeps, TaskNames

\* MutePublishedTrack writes the flag before set_track_muted looks at it: what it
\* changed is silent.
LEMMA MuteStartKeeps ==
    ASSUME InfoShape, NEW t \in Others, NEW to \in {"on", "muted"},
           MutePublishedTrack(t, to)
    PROVE  Kept(t)
  <1>1. Start(t, "muting", "mute", to) /\ UNCHANGED <<version, present>>
    BY Zenon DEF MutePublishedTrack, Start
  <1>2. FieldKnown /\ DOMAIN field = Fields
    BY Zenon, FieldDomain DEF InfoShape
  <1>3. FieldKnown' /\ (field.state = Disconnected => field'.state = Disconnected)
    BY Zenon, <1>1, <1>2 DEF MutePublishedTrack, FieldKnown
  <1>4. /\ field'.permission = field.permission
        /\ \A f \in Announced' : f \in Announced /\ field'[f] = field[f]
    BY Zenon, <1>2, FieldNames DEF MutePublishedTrack, FieldKnown, Announced
  <1>5. QED
    BY <1>1, <1>3, <1>4, StartKeeps, TaskNames

\* The callbacks of the media plane tell of what they did.
LEMMA CallbackKeeps ==
    ASSUME InfoShape, NEW t \in Others,
           OnIceConnected(t) \/ OnTrackPublished(t) \/ OnTrackUnpublished(t)
    PROVE  Kept(t)
  <1>1. Start(t, "to_proto", "tell", None) /\ UNCHANGED <<version, present>>
    BY Zenon DEF OnIceConnected, OnTrackPublished, OnTrackUnpublished, Start
  <1>2. FieldKnown' /\ (field.state = Disconnected => field'.state = Disconnected)
    BY <1>1 DEF OnIceConnected, OnTrackPublished, OnTrackUnpublished, InfoShape,
                FieldKnown, set_state, Joining, Joined, Active, Disconnected
  <1>3. QED
    BY <1>1, <1>2, StartKeeps, TaskNames

\* update_metadata, update_permission and set_attributes: whoever changed
\* something goes on to serialize.
LEMMA UpdateKeeps ==
    ASSUME InfoShape, NEW t \in Handlers,
           UpdateMetadata(t) \/ UpdatePermission(t) \/ SetAttributes(t)
    PROVE  Kept(t)
  <1>1. /\ t \in Tasks /\ DOMAIN task = Tasks /\ HandlerKnown(t) /\ DOMAIN task[t] = Parts
        /\ FieldKnown /\ DOMAIN field = Fields
    BY Zenon, TaskNames, FieldDomain DEF InfoShape, HandlerKnown, Parts
  <1>2. /\ task[t].stage \in {"metadata", "permission", "attributes"}
        /\ task[t].stage = "permission" => t # Reader
        /\ task[t].seen = <<>> /\ task[t].changed \in BOOLEAN
        /\ task[t].op = "update" /\ task[t].arg \in Update /\ task[t].arg \in Updates
        /\ UNCHANGED <<version, present, observerVars, historyVars>>
    BY Zenon, <1>1, InfoAssumption
    DEF UpdateMetadata, UpdatePermission, SetAttributes, HandlerKnown, Before
  <1>3. /\ FieldKnown'
        /\ field'.state = field.state
    BY Zenon, <1>1, <1>2, FieldNames
    DEF UpdateMetadata, UpdatePermission, SetAttributes, FieldKnown, Updated, Update, Remove
  <1>a. ASSUME UpdateMetadata(t)
        PROVE  /\ Moved(t)
               /\ DOMAIN task'[t] = Parts
               /\ task'[t].seen = <<>>
               /\ task'[t].changed \in BOOLEAN
               /\ \/ task'[t].stage \in {"idle", "over"} /\ task'[t].op = "none"
                  \/ /\ task'[t].op = "update" /\ task'[t].arg \in Updates
                     /\ \/ task'[t].stage \in {"to_proto", "reply", "attributes"}
                        \/ task'[t].stage = "permission" /\ t # Reader
               /\ \/ WillTell(t)'
                  \/ ~WillTell(t) /\ task'[t].stage \notin Telling /\ field' = field
    <2> DEFINE new == Updated(field.metadata, task[t].arg.metadata)
    <2>1. field' = [field EXCEPT !.metadata = new]
      BY Zenon, <1>a DEF UpdateMetadata
    <2>2. \/ new = field.metadata /\ Return(t)
          \/ \E s \in {"attributes", "permission"} :
                /\ s = "permission" => t # Reader
                /\ s = "attributes" => t = Reader
                /\ task' = [task EXCEPT ![t].stage = s, ![t].changed = (new # field.metadata)]
      BY Zenon, <1>a DEF UpdateMetadata
    <2> HIDE DEF new
    <2>3. new = field.metadata => field' = field
      BY Zenon, <1>1, <2>1 DEF FieldKnown
    <2>4. ~WillTell(t)
      BY Zenon, <1>a DEF UpdateMetadata, WillTell, Telling
    <2>5. CASE Return(t)
      <3>1. new = field.metadata
        BY Zenon, <2>2, <2>5, <1>1, ReturnMoves DEF Parts
      <3>2. QED
        BY Zenon, <1>1, <2>3, <2>4, <2>5, <3>1, ReturnMoves DEF Telling
    <2>6. CASE ~Return(t)
      <3>1. PICK s \in {"attributes", "permission"} :
                /\ s = "permission" => t # Reader
                /\ s = "attributes" => t = Reader
                /\ task' = [task EXCEPT ![t].stage = s, ![t].changed = (new # field.metadata)]
        BY Zenon, <2>2, <2>6
      <3>2. /\ Moved(t) /\ DOMAIN task'[t] = Parts /\ task'[t].stage = s
            /\ task'[t].op = "update" /\ task'[t].arg \in Updates
            /\ task'[t].changed = (new # field.metadata) /\ task'[t].seen = <<>>
        BY Zenon, <1>1, <1>2, <3>1 DEF Moved, Parts
      <3>3. WillTell(t)' \/ new = field.metadata
        BY Zenon, <3>1, <3>2 DEF WillTell
      <3>4. QED
        BY Zenon, <2>3, <2>4, <3>1, <3>2, <3>3 DEF Telling
    <2>7. QED
      BY Zenon, <2>5, <2>6
  <1>b. ASSUME UpdatePermission(t)
        PROVE  /\ Moved(t)
               /\ DOMAIN task'[t] = Parts
               /\ task'[t].seen = <<>>
               /\ task'[t].changed \in BOOLEAN
               /\ \/ task'[t].stage \in {"idle", "over"} /\ task'[t].op = "none"
                  \/ /\ task'[t].op = "update" /\ task'[t].arg \in Updates
                     /\ \/ task'[t].stage \in {"to_proto", "reply", "attributes"}
                        \/ task'[t].stage = "permission" /\ t # Reader
               /\ \/ WillTell(t)'
                  \/ ~WillTell(t) /\ task'[t].stage \notin Telling /\ field' = field
    <2> DEFINE new == Updated(field.permission, task[t].arg.permission)
    <2>1. /\ field' = [field EXCEPT !.permission = new]
          /\ task' = [task EXCEPT ![t].stage = "attributes",
                                  ![t].changed = task[t].changed \/ new # field.permission]
      BY Zenon, <1>1, <1>b DEF UpdatePermission, Parts
    <2> HIDE DEF new
    <2>2. new = field.permission => field' = field
      BY Zenon, <1>1, <2>1 DEF FieldKnown
    <2>3. /\ Moved(t) /\ DOMAIN task'[t] = Parts /\ task'[t].stage = "attributes"
          /\ task'[t].op = "update" /\ task'[t].arg \in Updates
          /\ task'[t].changed = (task[t].changed \/ new # field.permission)
          /\ task'[t].seen = <<>>
      BY Zenon, <1>1, <1>2, <2>1 DEF Moved, Parts
    <2>4. task[t].stage = "permission"
      BY Zenon, <1>b DEF UpdatePermission
    <2>5. WillTell(t)' \/ (~task[t].changed /\ new = field.permission)
      BY Zenon, <2>3 DEF WillTell
    <2>6. ~task[t].changed => ~WillTell(t)
      BY Zenon, <2>4 DEF WillTell, Telling
    <2>7. QED
      BY Zenon, <2>2, <2>3, <2>5, <2>6 DEF Telling
  <1>c. ASSUME SetAttributes(t)
        PROVE  /\ Moved(t)
               /\ DOMAIN task'[t] = Parts
               /\ task'[t].seen = <<>>
               /\ task'[t].changed \in BOOLEAN
               /\ \/ task'[t].stage \in {"idle", "over"} /\ task'[t].op = "none"
                  \/ /\ task'[t].op = "update" /\ task'[t].arg \in Updates
                     /\ \/ task'[t].stage \in {"to_proto", "reply", "attributes"}
                        \/ task'[t].stage = "permission" /\ t # Reader
               /\ \/ WillTell(t)'
                  \/ ~WillTell(t) /\ task'[t].stage \notin Telling /\ field' = field
    <2> DEFINE a == task[t].arg.attributes
               new == IF a = Remove THEN None ELSE Updated(field.attributes, a)
    <2>1. /\ field' = [field EXCEPT !.attributes = new]
          /\ Goto(t, IF t = Reader \/ (task[t].changed \/ new # field.attributes)
                       THEN "to_proto" ELSE "reply")
      BY Zenon, <1>c DEF SetAttributes
    <2> HIDE DEF new
    <2>2. new = field.attributes => field' = field
      BY Zenon, <1>1, <2>1 DEF FieldKnown
    <2>3. /\ Moved(t) /\ DOMAIN task'[t] = Parts
          /\ task'[t].stage = IF t = Reader \/ (task[t].changed \/ new # field.attributes)
                                THEN "to_proto" ELSE "reply"
          /\ task'[t].op = "update" /\ task'[t].arg \in Updates
          /\ task'[t].changed = task[t].changed /\ task'[t].seen = <<>>
      BY Zenon, <1>1, <1>2, <2>1, GotoMoves
    <2>4. task[t].stage = "attributes"
      BY Zenon, <1>c DEF SetAttributes
    <2>5. task'[t].stage = "to_proto" => WillTell(t)'
      BY Zenon, <2>3, PartialEmpty DEF WillTell, Telling
    <2>6. task'[t].stage # "to_proto" => ~WillTell(t) /\ new = field.attributes
      BY Zenon, <2>3, <2>4 DEF WillTell, Telling
    <2>7. QED
      BY Zenon, <1>2, <2>2, <2>3, <2>5, <2>6 DEF Telling
  <1>4. /\ Moved(t)
        /\ DOMAIN task'[t] = Parts
        /\ task'[t].seen = <<>>
        /\ task'[t].changed \in BOOLEAN
        /\ \/ task'[t].stage \in {"idle", "over"} /\ task'[t].op = "none"
           \/ /\ task'[t].op = "update" /\ task'[t].arg \in Updates
              /\ \/ task'[t].stage \in {"to_proto", "reply", "attributes"}
                 \/ task'[t].stage = "permission" /\ t # Reader
    BY Zenon, <1>a, <1>b, <1>c
  <1>7. \/ WillTell(t)'
        \/ ~WillTell(t) /\ task'[t].stage \notin Telling /\ field' = field
    BY Zenon, <1>a, <1>b, <1>c
  <1>5. HandlerKnown(t)'
    BY Zenon, <1>4, PartialEmpty DEF HandlerKnown, Before, Telling, Stamped, Parts
  <1>6. VersionsOn(t)
    BY <1>1, <1>2, <1>4 DEF VersionsOn, Stamped, FieldKnown
  <1>8. Working(t)
    BY Zenon, <1>2 DEF Working
  <1>9. field' = field => Announced' = Announced
    BY Zenon, <1>2 DEF Announced, historyVars
  <1>10. TellsOn(t)
    BY Zenon, <1>2, <1>4, <1>7, <1>8, <1>9, PartialEmpty DEF TellsOn, Current, historyVars
  <1>11. QED
    BY Zenon, <1>3, <1>4, <1>5, <1>6, <1>10 DEF Kept, StillKnown

\* set_track_muted tells of what it changed; a track that is gone or already so
\* is left alone.
LEMMA MuteKeeps ==
    ASSUME InfoShape, NEW t \in Handlers, SetTrackMuted(t)
    PROVE  Kept(t)
  <1>1. /\ t \in Tasks /\ DOMAIN task = Tasks /\ HandlerKnown(t) /\ DOMAIN task[t] = Parts
        /\ FieldKnown /\ DOMAIN field = Fields
    BY Zenon, TaskNames, FieldDomain DEF InfoShape, HandlerKnown, Parts
  <1>2. /\ task[t].stage = "muting" /\ task[t].arg \in {"on", "muted"}
        /\ task[t].seen = <<>> /\ task[t].changed \in BOOLEAN
        /\ task[t].op = "mute"
        /\ UNCHANGED <<version, present, observerVars, overlap>>
    BY Zenon, <1>1 DEF SetTrackMuted, HandlerKnown, Before
  <1>3. FieldKnown' /\ field'.state = field.state
    BY <1>1, <1>2 DEF SetTrackMuted, FieldKnown
  <1>4. ~WillTell(t) /\ Working(t)
    BY Zenon, <1>2 DEF WillTell, Telling, Working
  <1>5. /\ Moved(t)
        /\ DOMAIN task'[t] = Parts
        /\ task'[t].seen = <<>>
        /\ task'[t].changed \in BOOLEAN
        /\ \/ task'[t].stage \in {"idle", "over"} /\ task'[t].op = "none"
              /\ UNCHANGED <<field, silent>>
           \/ task'[t].stage = "to_proto" /\ task'[t].op = "mute"
    BY Zenon, <1>1, <1>2, ReturnMoves, GotoMoves DEF SetTrackMuted
  <1>6. HandlerKnown(t)'
    BY Zenon, <1>5, PartialEmpty DEF HandlerKnown, Before, Telling, Stamped, Parts
  <1>7. VersionsOn(t)
    BY <1>1, <1>2, <1>5 DEF VersionsOn, Stamped, FieldKnown
  <1>8. TellsOn(t)
    <2>1. CASE task'[t].stage = "to_proto"
      BY Zenon, <1>2, <1>4, <1>5, <2>1, PartialEmpty DEF TellsOn, WillTell, Telling
    <2>2. CASE task'[t].stage # "to_proto"
      <3>1. Announced' = Announced /\ task'[t].stage \notin Telling
        BY <1>5, <2>2 DEF Announced, Telling
      <3>2. QED
        BY Zenon, <1>2, <1>4, <1>5, <2>2, <3>1, PartialEmpty DEF TellsOn, Current
    <2>3. QED
      BY Zenon, <2>1, <2>2
  <1>9. QED
    BY Zenon, <1>3, <1>5, <1>6, <1>7, <1>8 DEF Kept, StillKnown

\* A step that leaves what was to be told, and whoever tells it, alone.
LEMMA SameAnnounced ==
    ASSUME UNCHANGED <<field, silent>>
    PROVE  Announced' = Announced
  BY Zenon DEF Announced

\* end_participant marks the participant and will tell; it takes it out of the
\* room only then.
LEMMA EndKeeps ==
    ASSUME InfoShape, NEW t \in Handlers, Disconnect(t) \/ RemoveParticipant(t)
    PROVE  Kept(t)
  <1>1. /\ t \in Tasks /\ DOMAIN task = Tasks /\ HandlerKnown(t) /\ DOMAIN task[t] = Parts
        /\ FieldKnown
    BY Zenon, TaskNames DEF InfoShape, HandlerKnown, Parts
  <1>2. UNCHANGED <<version, observerVars, historyVars>>
    BY Zenon DEF Disconnect, RemoveParticipant
  <1>3. CASE Disconnect(t)
    <2>1. FieldKnown' /\ field'.state = Disconnected
      BY <1>1, <1>3 DEF Disconnect, FieldKnown, set_state, Joining, Disconnected
    <2>2. /\ Moved(t) /\ DOMAIN task'[t] = Parts /\ task'[t].stage = "to_proto"
          /\ task'[t].op = task[t].op /\ task'[t].changed = task[t].changed
          /\ task'[t].seen = task[t].seen
      BY Zenon, <1>1, <1>3, GotoMoves DEF Disconnect
    <2>3. task[t].stage = "ending" /\ task[t].seen = <<>> /\ present' = present
      BY Zenon, <1>1, <1>3 DEF Disconnect, HandlerKnown, Before
    <2>4. HandlerKnown(t)'
      BY Zenon, <1>1, <2>1, <2>2, <2>3, PartialEmpty
      DEF HandlerKnown, Before, Telling, Stamped, Parts
    <2>5. WillTell(t)' /\ Working(t)
      BY Zenon, <2>2, <2>3, PartialEmpty DEF WillTell, Telling, Working
    <2>6. TellsOn(t)
      BY Zenon, <1>2, <2>2, <2>3, <2>5 DEF TellsOn, historyVars
    <2>7. VersionsOn(t)
      BY <1>1, <1>2, <2>2, <2>3 DEF VersionsOn, Stamped, FieldKnown
    <2>8. QED
      BY Zenon, <2>1, <2>2, <2>4, <2>6, <2>7 DEF Kept, StillKnown
  <1>4. CASE RemoveParticipant(t)
    <2>1. /\ task[t].stage = "remove" /\ task[t].op = "end" /\ field.state = Disconnected
          /\ task[t].seen \in Info /\ field' = field /\ present' = FALSE
      BY Zenon, <1>1, <1>4 DEF RemoveParticipant, HandlerKnown, Stamped, Telling
    <2>2. /\ Moved(t) /\ DOMAIN task'[t] = Parts /\ task'[t].stage = "broadcast"
          /\ task'[t].op = task[t].op /\ task'[t].changed = task[t].changed
          /\ task'[t].seen = task[t].seen
      BY Zenon, <1>1, <1>4, GotoMoves DEF RemoveParticipant
    <2>3. FieldKnown'
      BY Zenon, <1>1, <1>2, <2>1 DEF FieldKnown
    <2>4. HandlerKnown(t)'
      BY Zenon, <1>1, <2>1, <2>2 DEF HandlerKnown, Before, Telling, Stamped, Parts
    <2>5. Announced' = Announced
      BY Zenon, <1>2, <2>1, SameAnnounced DEF historyVars
    <2>6. Working(t) /\ (WillTell(t) => WillTell(t)') /\ task[t].stage \in Telling
      BY Zenon, <2>1, <2>2 DEF WillTell, Telling, Working
    <2>7. TellsOn(t)
      BY Zenon, <1>2, <2>1, <2>2, <2>5, <2>6 DEF TellsOn, Current, historyVars
    <2>8. VersionsOn(t)
      BY <1>1, <1>2, <2>1, <2>2 DEF VersionsOn, Stamped, FieldKnown
    <2>9. QED
      BY Zenon, <2>1, <2>2, <2>3, <2>4, <2>7, <2>8 DEF Kept, StillKnown
  <1>5. QED
    BY Zenon, <1>3, <1>4

\* The response of UpdateParticipant takes a version and tells nobody else.
LEMMA ReplyKeeps ==
    ASSUME InfoShape, NEW t \in Handlers, Reply(t)
    PROVE  Kept(t)
  <1>1. /\ t \in Tasks /\ DOMAIN task = Tasks /\ FieldKnown
        /\ task[t].stage = "reply" /\ version' = version + 1
        /\ UNCHANGED <<field, present, observerVars, historyVars>>
    BY Zenon, TaskNames DEF InfoShape, Reply
  <1>2. /\ Moved(t) /\ DOMAIN task'[t] = Parts /\ task'[t].stage \in {"idle", "over"}
        /\ task'[t].op = "none" /\ task'[t].changed = FALSE /\ task'[t].seen = <<>>
    BY Zenon, <1>1, ReturnMoves DEF Reply
  <1>3. FieldKnown' /\ Announced' = Announced
    BY <1>1, SameAnnounced DEF FieldKnown, historyVars
  <1>4. HandlerKnown(t)'
    BY Zenon, <1>2, PartialEmpty DEF HandlerKnown, Before, Telling, Stamped, Parts
  <1>5. Working(t) /\ ~WillTell(t) /\ task'[t].stage \notin Telling
    BY Zenon, <1>1, <1>2 DEF WillTell, Telling, Working
  <1>6. TellsOn(t)
    BY Zenon, <1>1, <1>2, <1>3, <1>5, PartialEmpty DEF TellsOn, Current, historyVars
  <1>7. VersionsOn(t)
    BY <1>1, <1>2, <1>3 DEF VersionsOn, Stamped, FieldKnown
  <1>8. QED
    BY Zenon, <1>1, <1>2, <1>3, <1>4, <1>6, <1>7 DEF Kept, StillKnown

-----------------------------------------------------------------------------
(* Serialization *)

\* to_proto reads a field of the participant.
LEMMA ReadFieldMoves ==
    ASSUME InfoShape, NEW t \in Tasks, DOMAIN task[t] = Parts, Partial(task[t].seen),
           ReadField(t)
    PROVE  /\ UNCHANGED <<participantVars, observerVars, historyVars>>
           /\ task[t].stage = "to_proto" /\ task'[t].stage = "to_proto"
           /\ Moved(t) /\ DOMAIN task'[t] = Parts
           /\ task'[t].op = task[t].op /\ task'[t].changed = task[t].changed
           /\ Partial(task'[t].seen)
           /\ \A f \in Fields : Current(t, f) => Current(t, f)'
           /\ "permission" \in DOMAIN task'[t].seen =>
                 \/ "permission" \in DOMAIN task[t].seen
                    /\ task'[t].seen.permission = task[t].seen.permission
                 \/ task'[t].seen.permission = field.permission
  <1>1. DOMAIN task = Tasks /\ FieldKnown
    BY Zenon DEF InfoShape
  <1>2. PICK k \in 1 .. 5 : task' = [task EXCEPT ![t].seen =
                                        With(task[t].seen, ToProtoOrder[k], field[ToProtoOrder[k]])]
    BY Zenon, <1>1 DEF ReadField, Unread, ToProtoOrder, Parts
  <1> DEFINE f == ToProtoOrder[k]
  <1>3. f \in Fields /\ field[f] \in Values[f]
    BY Zenon, FieldTyped, <1>1 DEF Fields, ToProtoOrder
  <1> HIDE DEF f
  <1>4. /\ Moved(t) /\ DOMAIN task'[t] = Parts /\ task'[t].stage = task[t].stage
        /\ task'[t].op = task[t].op /\ task'[t].changed = task[t].changed
        /\ task'[t].seen = With(task[t].seen, f, field[f])
    BY Zenon, <1>1, <1>2 DEF Moved, Parts, f
  <1>5. Partial(task'[t].seen)
    BY Zenon, <1>3, <1>4, PartialGrows
  <1>6. /\ DOMAIN task'[t].seen = DOMAIN task[t].seen \cup {f}
        /\ task'[t].seen[f] = field[f]
        /\ \A g \in DOMAIN task[t].seen : g # f => task'[t].seen[g] = task[t].seen[g]
    BY Zenon, <1>4 DEF With
  <1>7. UNCHANGED <<participantVars, observerVars, historyVars>> /\ task[t].stage = "to_proto"
    BY Zenon DEF ReadField
  <1>8. \A g \in Fields : Current(t, g) => Current(t, g)'
    BY Zenon, <1>6, <1>7 DEF Current, participantVars
  <1>9. QED
    BY Zenon, <1>4, <1>5, <1>6, <1>7, <1>8

\* to_proto is done: an info with the values it read.
LEMMA StampMoves ==
    ASSUME InfoShape, NEW t \in Tasks, DOMAIN task[t] = Parts, Partial(task[t].seen),
           Stamp(t)
    PROVE  /\ UNCHANGED <<field, present, observerVars, historyVars>>
           /\ version' = version + 1
           /\ task[t].stage = "to_proto"
           /\ task'[t].stage = CASE task[t].op = "end" -> "remove"
                                 [] task[t].op = "list" -> "sink"
                                 [] OTHER -> "broadcast"
           /\ Moved(t) /\ DOMAIN task'[t] = Parts
           /\ task'[t].op = task[t].op /\ task'[t].changed = task[t].changed
           /\ task'[t].seen \in Info
           /\ task'[t].seen.version = NextVersion
           /\ DOMAIN task[t].seen = Fields
           /\ \A f \in Fields : task'[t].seen[f] = task[t].seen[f]
  <1>1. DOMAIN task = Tasks /\ FieldKnown
    BY Zenon DEF InfoShape
  <1>2. /\ UNCHANGED <<field, present, observerVars, historyVars>>
        /\ version' = version + 1
        /\ task[t].stage = "to_proto"
        /\ Unread(t) = {}
    BY Zenon DEF Stamp
  <1>3. task' = [task EXCEPT
          ![t].seen = With(task[t].seen, "version", NextVersion),
          ![t].stage = CASE task[t].op = "end" -> "remove"
                         [] task[t].op = "list" -> "sink"
                         [] OTHER -> "broadcast"]
    BY Zenon, <1>1 DEF Stamp, Parts
  <1>4. /\ Moved(t) /\ DOMAIN task'[t] = Parts
        /\ task'[t].op = task[t].op /\ task'[t].changed = task[t].changed
        /\ task'[t].stage = CASE task[t].op = "end" -> "remove"
                              [] task[t].op = "list" -> "sink"
                              [] OTHER -> "broadcast"
        /\ task'[t].seen = With(task[t].seen, "version", NextVersion)
    BY Zenon, <1>1, <1>3 DEF Moved, Parts
  <1>5. Fields \subseteq DOMAIN task[t].seen
    BY Zenon, <1>2 DEF Unread, Fields
  <1>6. NextVersion \in Nat
    BY Zenon, <1>1 DEF NextVersion, FieldKnown
  <1>7. /\ task'[t].seen \in Info
        /\ task'[t].seen.version = NextVersion
        /\ \A f \in Fields : task'[t].seen[f] = task[t].seen[f]
    BY <1>4, <1>5, <1>6, WholeInfo
  <1>8. DOMAIN task[t].seen = Fields
    BY Zenon, <1>5 DEF Partial
  <1>9. QED
    BY Zenon, <1>2, <1>4, <1>7, <1>8

\* What to_proto reads is current for as long as it was.
LEMMA ReadKeeps ==
    ASSUME InfoShape, NEW t \in Handlers, ReadField(t)
    PROVE  Kept(t)
  <1>1. /\ t \in Tasks /\ HandlerKnown(t) /\ DOMAIN task[t] = Parts /\ FieldKnown
    BY Zenon, TaskNames DEF InfoShape, HandlerKnown, Parts
  <1>2. task[t].stage = "to_proto" /\ Partial(task[t].seen)
    BY Zenon, <1>1 DEF ReadField, HandlerKnown
  <1>3. /\ UNCHANGED <<participantVars, observerVars, historyVars>>
        /\ task'[t].stage = "to_proto"
        /\ Moved(t) /\ DOMAIN task'[t] = Parts
        /\ task'[t].op = task[t].op /\ task'[t].changed = task[t].changed
        /\ Partial(task'[t].seen)
        /\ \A f \in Fields : Current(t, f) => Current(t, f)'
        /\ "permission" \in DOMAIN task'[t].seen =>
              \/ "permission" \in DOMAIN task[t].seen
                 /\ task'[t].seen.permission = task[t].seen.permission
              \/ task'[t].seen.permission = field.permission
    BY Zenon, <1>1, <1>2, ReadFieldMoves
  <1>4. UNCHANGED <<field, version, present, silent, overlap>>
    BY Zenon, <1>3 DEF participantVars, historyVars
  <1>5. FieldKnown' /\ Announced' = Announced
    BY Zenon, <1>1, <1>4, SameAnnounced DEF FieldKnown
  <1>6. HandlerKnown(t)'
    BY Zenon, <1>1, <1>2, <1>3, <1>4 DEF HandlerKnown, Before, Telling, Stamped, Parts
  <1>7. Working(t) /\ (~field.permission.hidden /\ WillTell(t) => WillTell(t)')
    BY Zenon, <1>2, <1>3 DEF WillTell, Telling, Working
  <1>8. TellsOn(t)
    BY Zenon, <1>2, <1>3, <1>4, <1>5, <1>7, FieldDomain DEF TellsOn, Telling
  <1>9. VersionsOn(t)
    BY <1>1, <1>2, <1>3, <1>4 DEF VersionsOn, Stamped, FieldKnown
  <1>10. QED
    BY Zenon, <1>3, <1>4, <1>5, <1>6, <1>8, <1>9 DEF Kept, StillKnown

\* The version changes none of the values.
LEMMA StampKeeps ==
    ASSUME InfoShape, NEW t \in Handlers, Stamp(t)
    PROVE  /\ StillKnown(t) /\ TellsOn(t)
           /\ task[t].stage = "to_proto" /\ version' = version + 1
           /\ task'[t].op = task[t].op
           /\ task'[t].seen.version = NextVersion
  <1>1. /\ t \in Tasks /\ HandlerKnown(t) /\ DOMAIN task[t] = Parts /\ FieldKnown
    BY Zenon, TaskNames DEF InfoShape, HandlerKnown, Parts
  <1>2. task[t].stage = "to_proto" /\ Partial(task[t].seen) /\ task[t].op # "list"
    BY Zenon, <1>1 DEF Stamp, HandlerKnown
  <1>3. /\ UNCHANGED <<field, present, observerVars, historyVars>>
        /\ version' = version + 1
        /\ Moved(t) /\ DOMAIN task'[t] = Parts
        /\ task'[t].stage = CASE task[t].op = "end" -> "remove"
                              [] task[t].op = "list" -> "sink"
                              [] OTHER -> "broadcast"
        /\ task'[t].op = task[t].op /\ task'[t].changed = task[t].changed
        /\ task'[t].seen \in Info
        /\ task'[t].seen.version = NextVersion
        /\ DOMAIN task[t].seen = Fields
        /\ \A f \in Fields : task'[t].seen[f] = task[t].seen[f]
    BY Zenon, <1>1, <1>2, StampMoves
  <1>4. /\ task'[t].stage \in {"remove", "broadcast"}
        /\ task[t].op = "end" <=> task'[t].stage = "remove"
    BY Zenon, <1>2, <1>3
  <1>5. UNCHANGED <<silent, overlap>>
    BY Zenon, <1>3 DEF historyVars
  <1>6. FieldKnown' /\ Announced' = Announced
    BY <1>1, <1>3, <1>5, SameAnnounced DEF FieldKnown
  <1>7. HandlerKnown(t)'
    BY Zenon, <1>1, <1>2, <1>3, <1>4 DEF HandlerKnown, Before, Telling, Stamped, Parts
  <1>8. Working(t) /\ (WillTell(t) => WillTell(t)')
    BY Zenon, <1>2, <1>3, <1>4, FieldNames DEF WillTell, Telling, Working
  <1>9. \A f \in Announced : Current(t, f) => Current(t, f)'
    BY Zenon, <1>3, FieldDomain DEF Current
  <1>10. TellsOn(t)
    BY Zenon, <1>2, <1>3, <1>5, <1>6, <1>8, <1>9 DEF TellsOn, Telling
  <1>11. QED
    BY Zenon, <1>2, <1>3, <1>6, <1>7, <1>10 DEF StillKnown

\* What follows a broadcast tells nobody.
LEMMA AfterMoves ==
    ASSUME InfoShape, NEW t \in Handlers, task[t].stage \in {"broadcast", "send"},
           AfterBroadcast(t), UNCHANGED participantVars
    PROVE  /\ StillKnown(t)
           /\ task'[t].stage \in {"idle", "over", "reply"}
           /\ task'[t].op # "join"
  <1>1. /\ t \in Tasks /\ DOMAIN task = Tasks /\ HandlerKnown(t)
        /\ DOMAIN task[t] = Parts /\ FieldKnown
    BY Zenon, TaskNames DEF InfoShape, HandlerKnown, Parts
  <1>2. FieldKnown' /\ field' = field
    BY Zenon, <1>1 DEF FieldKnown, participantVars
  <1>3. CASE Return(t)
    <2>1. /\ Moved(t) /\ DOMAIN task'[t] = Parts /\ task'[t].stage \in {"idle", "over"}
          /\ task'[t].op = "none" /\ task'[t].changed = FALSE /\ task'[t].seen = <<>>
      BY Zenon, <1>1, <1>3, ReturnMoves
    <2>2. HandlerKnown(t)'
      BY Zenon, <2>1, PartialEmpty DEF HandlerKnown, Before, Telling, Stamped, Parts
    <2>3. QED
      BY Zenon, <1>2, <2>1, <2>2 DEF StillKnown
  <1>4. CASE task[t].op = "update" /\ Goto(t, "reply")
    <2>1. /\ Moved(t) /\ DOMAIN task'[t] = Parts /\ task'[t].stage = "reply"
          /\ task'[t].op = task[t].op /\ task'[t].changed = task[t].changed
      BY Zenon, <1>1, <1>4, GotoMoves
    <2>2. HandlerKnown(t)'
      BY Zenon, <1>1, <1>4, <2>1 DEF HandlerKnown, Before, Telling, Stamped, Parts
    <2>3. QED
      BY Zenon, <1>2, <1>4, <2>1, <2>2 DEF StillKnown
  <1>5. QED
    BY Zenon, <1>3, <1>4 DEF AfterBroadcast

\* broadcast_participant_update leaves the observer out when it is not in the
\* room, where a snapshot awaits it, or when the info says hidden.
LEMMA BroadcastKeeps ==
    ASSUME InfoShape, NEW t \in Handlers, Broadcast(t)
    PROVE  Kept(t)
  <1>1. /\ t \in Tasks /\ DOMAIN task = Tasks /\ HandlerKnown(t)
        /\ DOMAIN task[t] = Parts /\ FieldKnown
    BY Zenon, TaskNames DEF InfoShape, HandlerKnown, Parts
  <1>2. /\ task[t].stage = "broadcast" /\ task[t].seen \in Info
        /\ UNCHANGED <<participantVars, observerVars, historyVars>>
    BY Zenon, <1>1 DEF Broadcast, HandlerKnown, Stamped
  <1>3. UNCHANGED <<field, version, present, silent, overlap>>
    BY Zenon, <1>2 DEF participantVars, historyVars
  <1>4. Announced' = Announced /\ Working(t) /\ task[t].stage \in Telling /\ FieldKnown'
    BY Zenon, <1>1, <1>2, <1>3, SameAnnounced DEF Working, Telling, FieldKnown
  <1>5. CASE Goto(t, "send")
    <2>1. /\ Moved(t) /\ DOMAIN task'[t] = Parts /\ task'[t].stage = "send"
          /\ task'[t].op = task[t].op /\ task'[t].changed = task[t].changed
          /\ task'[t].seen = task[t].seen
      BY Zenon, <1>1, <1>5, GotoMoves
    <2>2. HandlerKnown(t)'
      BY Zenon, <1>1, <1>2, <1>3, <2>1 DEF HandlerKnown, Before, Telling, Stamped, Parts
    <2>3. WillTell(t) => WillTell(t)'
      BY Zenon, <1>2, <2>1 DEF WillTell, Telling
    <2>4. TellsOn(t)
      BY Zenon, <1>2, <1>3, <1>4, <2>1, <2>3 DEF TellsOn, Current
    <2>5. VersionsOn(t)
      BY <1>1, <1>2, <1>3, <2>1 DEF VersionsOn, Stamped, FieldKnown
    <2>6. QED
      BY Zenon, <1>3, <1>4, <2>1, <2>2, <2>4, <2>5 DEF Kept, StillKnown
  <1>6. CASE ~Goto(t, "send")
    <2>1. /\ AfterBroadcast(t)
          /\ task[Observer].stage = "out" \/ task[t].seen.permission.hidden
      BY Zenon, <1>6 DEF Broadcast
    <2>2. /\ StillKnown(t) /\ task'[t].stage \in {"idle", "over", "reply"}
          /\ task'[t].op # "join"
      BY Zenon, <1>2, <2>1, AfterMoves
    <2>3. task[Observer].stage = "out" \/ ~WillTell(t)
      BY Zenon, <1>2, <2>1, InfoHasFields, FieldNames DEF WillTell
    <2>4. task'[t].stage \notin Telling /\ task'[t].stage \notin Stamped
      BY Zenon, <2>2 DEF Telling, Stamped
    <2>5. task'[t].seen = <<>> \/ task'[t].seen = task[t].seen
      BY Zenon, <1>1, <2>1, ReturnMoves, GotoMoves DEF AfterBroadcast
    <2>6. TellsOn(t)
      BY Zenon, <1>2, <1>3, <1>4, <2>3, <2>4, <2>5, PartialEmpty DEF TellsOn, Current
    <2>7. VersionsOn(t)
      BY <1>1, <1>2, <1>3, <2>2, <2>4 DEF VersionsOn, FieldKnown
    <2>8. QED
      BY Zenon, <2>2, <2>6, <2>7 DEF Kept
  <1>7. QED
    BY Zenon, <1>5, <1>6

-----------------------------------------------------------------------------
(* The invariant is kept *)

\* A handler's step leaves the others and the observer as they are.
LEMMA ShapeKept ==
    ASSUME InfoShape, NEW t \in Handlers, StillKnown(t),
           ObserverKnown => ObserverKnown'
    PROVE  InfoShape'
  <1>1. ASSUME NEW u \in Handlers, u # t PROVE HandlerKnown(u)'
    <2>1. task'[u] = task[u] /\ HandlerKnown(u)
      BY Zenon, <1>1, TaskNames DEF InfoShape, StillKnown, Moved
    <2>2. QED
      BY Zenon, <2>1 DEF HandlerKnown, StillKnown
  <1>2. QED
    BY Zenon, <1>1 DEF InfoShape, StillKnown, Moved

\* A step that leaves the observer and its channel alone leaves what it was told.
LEMMA ObserverKept ==
    ASSUME task'[Observer] = task[Observer], UNCHANGED observerVars, ObserverKnown
    PROVE  ObserverKnown' /\ Told' = Told
  BY Zenon DEF ObserverKnown, observerVars, Told

\* Whoever is not t goes on as before.
LEMMA OthersTell ==
    ASSUME NEW t, NEW u \in Tasks, u # t, Moved(t), WillTell(u)
    PROVE  WillTell(u)'
  BY Zenon DEF Moved, WillTell

\* What another task has read of a field that did not change stays current.
LEMMA OthersCurrent ==
    ASSUME NEW t, NEW u \in Tasks, u # t, Moved(t), NEW f, field'[f] = field[f],
           Current(u, f)
    PROVE  Current(u, f)'
  BY Zenon DEF Moved, Current

\* Another task is at work as it was.
LEMMA OthersWork ==
    ASSUME NEW t, NEW u \in Tasks, u # t, Moved(t)
    PROVE  Working(u)' <=> Working(u)
  BY Zenon DEF Moved, Working

\* A handler that sends nothing keeps what must be told in sight.
LEMMA InSightKept ==
    ASSUME InfoShape, InSight, NEW t \in Handlers, StillKnown(t), TellsOn(t)
    PROVE  InSight'
  <1>1. /\ t \in Tasks /\ Moved(t) /\ task'[Observer] = task[Observer]
        /\ UNCHANGED observerVars /\ ObserverKnown
    BY Zenon, TaskNames DEF StillKnown, Moved, TellsOn, InfoShape
  <1>2. Told' = Told /\ missed' = missed
    BY Zenon, <1>1, ObserverKept DEF observerVars
  <1>3. SUFFICES ASSUME ~missed', ~field'.permission.hidden, NEW f \in Announced'
                 PROVE  \/ ~present' /\ f # "state"
                        \/ WillShow(f)'
                        \/ \E u \in Handlers : WillTell(u)' /\ Current(u, f)'
    BY Zenon DEF InSight
  <1>4. CASE WillTell(t)' /\ task'[t].seen = <<>>
    BY Zenon, <1>4, PartialEmpty DEF Current
  <1>5. CASE ~(WillTell(t)' /\ task'[t].seen = <<>>)
    <2>1. /\ field'.permission = field.permission
          /\ f \in Announced /\ field'[f] = field[f]
          /\ Current(t, f) => Current(t, f)'
          /\ ~field.permission.hidden /\ WillTell(t) =>
                WillTell(t)' \/ task[Observer].stage = "out"
          /\ present' => present
      BY Zenon, <1>5 DEF TellsOn
    <2>2. \/ ~present /\ f # "state"
          \/ WillShow(f)
          \/ \E u \in Handlers : WillTell(u) /\ Current(u, f)
      BY Zenon, <1>2, <1>3, <2>1 DEF InSight
    <2>3. CASE ~present /\ f # "state"
      BY Zenon, <2>1, <2>3, <1>1 DEF StillKnown, FieldKnown, InfoShape
    <2>4. CASE WillShow(f)
      <3>1. Current(Observer, f) => Current(Observer, f)'
        BY Zenon, <1>1, <2>1 DEF Current
      <3>2. ~present => ~present'
        BY Zenon, <2>1 DEF StillKnown, FieldKnown, InfoShape
      <3>3. WillShow(f)'
        BY Zenon, <1>1, <1>2, <2>1, <2>4, <3>1, <3>2 DEF WillShow
      <3>4. QED
        BY Zenon, <3>3
    <2>5. CASE \E u \in Handlers : WillTell(u) /\ Current(u, f)
      <3>1. PICK u \in Handlers : WillTell(u) /\ Current(u, f)
        BY Zenon, <2>5
      <3>2. CASE u = t
        BY Zenon, <1>1, <1>2, <1>3, <2>1, <3>1, <3>2 DEF WillShow
      <3>3. CASE u # t
        BY Zenon, <1>1, <2>1, <3>1, <3>3, OthersTell, OthersCurrent, TaskNames
      <3>4. QED
        BY Zenon, <3>2, <3>3
    <2>6. QED
      BY Zenon, <2>2, <2>3, <2>4, <2>5
  <1>6. QED
    BY Zenon, <1>4, <1>5

\* Only one at work: the others are idle, or about to join.
LEMMA OthersRest ==
    ASSUME OneAtATime, NEW t \in Handlers,
           Working(t) \/ \A u \in Tasks \ {t} : ~Working(u),
           NEW u \in Tasks, u # t
    PROVE  /\ Working(u) => u = Observer /\ task[u].stage = "entered"
           /\ task[u].stage \notin Telling \cup {"sink", "filter"}
  BY Zenon DEF OneAtATime, Working, Telling

\* A handler that sends nothing stays alone, and what it has read current.
LEMMA OneAtATimeKept ==
    ASSUME InfoShape, OneAtATime, NEW t \in Handlers, StillKnown(t), TellsOn(t), ~overlap'
    PROVE  OneAtATime'
  <1>1. /\ t \in Tasks /\ Moved(t)
        /\ Working(t) \/ \A u \in Tasks \ {t} : ~Working(u)
    BY Zenon, TaskNames DEF StillKnown, TellsOn
  <1>2. ASSUME NEW u \in Tasks, u # t, Working(u)'
        PROVE  Working(t) /\ u = Observer /\ task'[u].stage = "entered"
    <2>1. Working(u) /\ task'[u] = task[u]
      BY Zenon, <1>1, <1>2, OthersWork DEF Moved
    <2>2. QED
      BY Zenon, <1>1, <1>2, <2>1, OthersRest
  <1>3. ASSUME NEW u \in Handlers, NEW w \in Tasks, u # w, Working(u)', Working(w)'
        PROVE  w = Observer /\ task'[w].stage = "entered"
    BY Zenon, <1>2, <1>3, TaskNames
  <1>4. ASSUME NEW u \in Tasks, NEW f \in Announced', task'[u].stage \in Telling \cup {"sink"}
        PROVE  Current(u, f)'
    <2>1. CASE u # t
      <3>1. task[u].stage \notin Telling \cup {"sink"} /\ task'[u] = task[u]
        BY Zenon, <1>1, <2>1, OthersRest DEF Moved
      <3>2. QED
        BY Zenon, <1>4, <3>1
    <2>2. CASE u = t
      <3>1. task'[t].stage \in Telling
        BY Zenon, <1>4, <2>2 DEF StillKnown, HandlerKnown, Before, Telling
      <3>2. CASE task'[t].seen = <<>>
        BY Zenon, <2>2, <3>2, PartialEmpty DEF Current
      <3>3. CASE task'[t].seen # <<>>
        <4>1. /\ f \in Announced /\ Current(t, f) => Current(t, f)'
              /\ task[t].stage \in Telling
          BY Zenon, <3>1, <3>3 DEF TellsOn
        <4>2. QED
          BY Zenon, <1>1, <2>2, <4>1, <3>3, <3>1 DEF OneAtATime, TellsOn
      <3>4. QED
        BY Zenon, <3>2, <3>3
    <2>3. QED
      BY Zenon, <2>1, <2>2
  <1>5. QED
    BY Zenon, <1>3, <1>4 DEF OneAtATime

\* A handler that sends nothing leaves the latest that was told as it was.
LEMMA LatestKept ==
    ASSUME InfoShape, LatestKnown, NEW t \in Handlers, StillKnown(t), TellsOn(t)
    PROVE  LatestKnown'
  <1>1. /\ t \in Tasks /\ Moved(t) /\ task'[Observer] = task[Observer]
        /\ UNCHANGED observerVars /\ ObserverKnown
    BY Zenon, TaskNames DEF StillKnown, Moved, TellsOn, InfoShape
  <1>2. Told' = Told /\ missed' = missed
    BY Zenon, <1>1, ObserverKept DEF observerVars
  <1>3. CASE WillTell(t)' /\ task'[t].seen = <<>>
    BY Zenon, <1>3 DEF LatestKnown
  <1>4. CASE ~(WillTell(t)' /\ task'[t].seen = <<>>)
    <2>1. /\ field'.permission = field.permission
          /\ \A f \in Announced' : f \in Announced /\ field'[f] = field[f]
          /\ ~field.permission.hidden /\ WillTell(t) =>
                WillTell(t)' \/ task[Observer].stage = "out"
      BY Zenon, <1>4 DEF TellsOn
    <2>2. SUFFICES ASSUME ~missed', ~field'.permission.hidden,
                          task'[Observer].stage = "connected",
                          \A u \in Handlers : ~WillTell(u)',
                          NEW i \in Told', \A j \in Told' : i.version >= j.version,
                          NEW f \in Announced'
                   PROVE  i[f] = field'[f]
      BY Zenon DEF LatestKnown
    <2>3. \A u \in Handlers : ~WillTell(u)
      BY Zenon, <1>1, <2>1, <2>2, OthersTell, TaskNames
    <2>4. i[f] = field[f]
      BY Zenon, <1>1, <1>2, <2>1, <2>2, <2>3 DEF LatestKnown
    <2>5. QED
      BY Zenon, <2>1, <2>4
  <1>5. QED
    BY Zenon, <1>3, <1>4

\* The versions, when t took none for an info.
LEMMA VersionsKept ==
    ASSUME InfoShape, VersionsRise, NEW t \in Handlers, StillKnown(t), TellsOn(t),
           VersionsOn(t)
    PROVE  VersionsRise'
  <1>1. /\ t \in Tasks /\ Moved(t) /\ task'[Observer] = task[Observer]
        /\ UNCHANGED observerVars /\ ObserverKnown /\ Reader \in Tasks
    BY Zenon, TaskNames DEF StillKnown, Moved, TellsOn, InfoShape
  <1>2. Told' = Told
    BY Zenon, <1>1, ObserverKept
  <1>3. version \in Nat /\ version' \in Nat /\ version <= version'
    BY Zenon DEF InfoShape, FieldKnown, VersionsOn
  <1>4. version' = 0 => task'[Reader].stage = "to_proto" /\ task'[Reader].op = "join"
    BY <1>1, <1>3 DEF VersionsRise, VersionsOn, Moved
  <1>5. task'[Reader].op = "join" => task'[Observer].stage \in {"out", "entered"}
    BY Zenon, <1>1 DEF VersionsRise, VersionsOn, Moved
  <1>6. \A i \in Told' : i.version < version'
    <2>1. \A i \in Told : i \in Info /\ i.version \in Nat
      BY <1>1, InfoHasFields DEF Told, ObserverKnown
    <2>2. QED
      BY <1>2, <1>3, <2>1 DEF VersionsRise
  <1>7. ASSUME NEW u \in Handlers, task'[u].stage \in Stamped, task'[u].op # "join"
        PROVE  /\ task'[u].seen.version < version'
               /\ \A i \in Told' : i.version < task'[u].seen.version
    <2>1. /\ task[u].stage \in Stamped /\ task'[u].seen = task[u].seen
          /\ task[u].op # "join"
      BY Zenon, <1>1, <1>7, TaskNames DEF Moved, VersionsOn
    <2>2. task[u].seen.version \in Nat
      BY Zenon, <2>1, InfoHasFields DEF InfoShape, HandlerKnown
    <2>3. QED
      BY <1>2, <1>3, <2>1, <2>2 DEF VersionsRise
  <1>8. task'[Observer].stage = "sink" /\ task'[Observer].seen # <<>> =>
            task'[Observer].seen.version < version'
    <2>1. task[Observer].stage = "sink" /\ task[Observer].seen # <<>> =>
              task[Observer].seen.version \in Nat
      BY Zenon, <1>1, InfoHasFields DEF ObserverKnown
    <2>2. QED
      BY <1>1, <1>3, <2>1 DEF VersionsRise
  <1>9. QED
    BY Zenon, <1>4, <1>5, <1>6, <1>7, <1>8 DEF VersionsRise

\* A version that was just taken is above all that were told.
LEMMA StampVersions ==
    ASSUME InfoShape, OneAtATime, VersionsRise, NEW t \in Handlers, Stamp(t)
    PROVE  VersionsRise'
  <1>1. /\ t \in Tasks /\ StillKnown(t) /\ TellsOn(t) /\ Moved(t)
        /\ task[t].stage = "to_proto" /\ version' = version + 1
        /\ task'[t].op = task[t].op
        /\ task'[t].seen.version = NextVersion
    BY Zenon, StampKeeps, TaskNames DEF StillKnown
  <1>2. /\ task'[Observer] = task[Observer] /\ ObserverKnown /\ Reader \in Tasks
        /\ UNCHANGED observerVars
    BY Zenon, <1>1, TaskNames DEF Moved, TellsOn, InfoShape
  <1>3. Told' = Told
    BY Zenon, <1>2, ObserverKept
  <1>4. version \in Nat /\ \A i \in Told : i.version \in Nat
    BY <1>2, InfoHasFields DEF InfoShape, FieldKnown, Told, ObserverKnown
  <1>5. task'[t].op # "join" => version # 0
    <2>1. Working(t)
      BY Zenon, <1>1 DEF Working
    <2>2. t # Reader => ~Working(Reader)
      BY Zenon, <2>1, TaskNames DEF OneAtATime
    <2>3. QED
      BY Zenon, <1>1, <2>2 DEF VersionsRise, Working
  <1>6. ASSUME NEW u \in Handlers, task'[u].stage \in Stamped, task'[u].op # "join"
        PROVE  /\ task'[u].seen.version < version'
               /\ \A i \in Told' : i.version < task'[u].seen.version
    <2>1. CASE u = t
      BY <1>1, <1>3, <1>4, <1>5, <1>6, <2>1 DEF NextVersion, VersionsRise
    <2>2. CASE u # t
      <3>1. task'[u] = task[u]
        BY Zenon, <1>1, <2>2, TaskNames DEF Moved
      <3>2. task[u].seen.version \in Nat
        BY Zenon, <1>6, <3>1, InfoHasFields DEF InfoShape, HandlerKnown
      <3>3. QED
        BY <1>1, <1>3, <1>4, <1>6, <3>1, <3>2 DEF VersionsRise
    <2>3. QED
      BY Zenon, <2>1, <2>2
  <1>7. task'[Reader].op = "join" => task'[Observer].stage \in {"out", "entered"}
    BY Zenon, <1>1, <1>2 DEF VersionsRise, Moved
  <1>8. \A i \in Told' : i.version < version'
    BY <1>1, <1>3, <1>4 DEF VersionsRise
  <1>9. task'[Observer].stage = "sink" /\ task'[Observer].seen # <<>> =>
            task'[Observer].seen.version < version'
    <2>1. task[Observer].stage = "sink" /\ task[Observer].seen # <<>> =>
              task[Observer].seen.version \in Nat
      BY Zenon, <1>2, InfoHasFields DEF ObserverKnown
    <2>2. QED
      BY <1>1, <1>2, <1>4, <2>1 DEF VersionsRise
  <1>10. version' # 0
    BY <1>1, <1>4
  <1>11. QED
    BY Zenon, <1>6, <1>7, <1>8, <1>9, <1>10 DEF VersionsRise

\* A handler's step that sends nothing keeps the invariant.
LEMMA HandlerSafe ==
    ASSUME InfoInv, NEW t \in Handlers, Kept(t) \/ Stamp(t)
    PROVE  InfoInv'
  <1>1. InfoShape /\ StillKnown(t) /\ TellsOn(t) /\ (~overlap' => ~overlap)
    BY Zenon, StampKeeps DEF InfoInv, Kept, TellsOn
  <1>2. ObserverKnown => ObserverKnown'
    BY Zenon, <1>1, ObserverKept, TaskNames DEF StillKnown, Moved, TellsOn
  <1>3. InfoShape'
    BY Zenon, <1>1, <1>2, ShapeKept
  <1>4. InSight'
    BY Zenon, <1>1, InSightKept DEF InfoInv
  <1>5. ASSUME ~overlap' PROVE OneAtATime' /\ VersionsRise' /\ LatestKnown'
    <2>1. OneAtATime /\ VersionsRise /\ LatestKnown
      BY Zenon, <1>1, <1>5 DEF InfoInv, Alone
    <2>2. OneAtATime' /\ LatestKnown'
      BY Zenon, <1>1, <1>5, <2>1, OneAtATimeKept, LatestKept
    <2>3. VersionsRise'
      BY Zenon, <1>1, <2>1, VersionsKept, StampVersions DEF Kept
    <2>4. QED
      BY Zenon, <2>2, <2>3
  <1>6. QED
    BY Zenon, <1>3, <1>4, <1>5 DEF InfoInv, Alone

-----------------------------------------------------------------------------
(* What arrives in the sink *)

\* An info is sent: it was told from now on.
LEMMA AppendTold ==
    ASSUME NEW i \in Info, queue \in Seq(Info), queue' = Append(queue, i), got' = got
    PROVE  queue' \in Seq(Info) /\ Told' = Told \cup {i}
  <1>1. /\ queue' \in Seq(Info) /\ Len(queue') = Len(queue) + 1 /\ Len(queue) \in Nat
        /\ queue'[Len(queue) + 1] = i
        /\ \A k \in 1 .. Len(queue) : queue'[k] = queue[k]
    OBVIOUS
  <1>2. {queue'[k] : k \in 1 .. Len(queue')} = {queue[k] : k \in 1 .. Len(queue)} \cup {i}
    <2>1. \A k \in 1 .. Len(queue') : k \in 1 .. Len(queue) \/ k = Len(queue) + 1
      BY <1>1
    <2>2. 1 .. Len(queue) \subseteq 1 .. Len(queue') /\ Len(queue) + 1 \in 1 .. Len(queue')
      BY <1>1
    <2>3. QED
      BY Zenon, <1>1, <2>1, <2>2
  <1>3. QED
    BY Zenon, <1>1, <1>2 DEF Told

\* The writer delivers one: it was told before.
LEMMA TailTold ==
    ASSUME queue \in Seq(Info), queue # <<>>, queue' = Tail(queue),
           got' = got \cup {Head(queue)}
    PROVE  queue' \in Seq(Info) /\ Head(queue) \in Info /\ Told' = Told
  <1>1. /\ queue' \in Seq(Info) /\ Len(queue) \in Nat /\ Len(queue) >= 1
        /\ Len(queue') = Len(queue) - 1 /\ Head(queue) = queue[1] /\ Head(queue) \in Info
        /\ \A k \in 1 .. Len(queue') : queue'[k] = queue[k + 1]
    OBVIOUS
  <1>2. ASSUME NEW i PROVE i \in Told' <=> i \in Told
    <2>1. ASSUME i \in Told' PROVE i \in Told
      <3>1. CASE \E k \in 1 .. Len(queue') : i = queue'[k]
        <4>1. PICK k \in 1 .. Len(queue') : i = queue'[k]
          BY Zenon, <3>1
        <4>2. k + 1 \in 1 .. Len(queue) /\ i = queue[k + 1]
          BY <1>1, <4>1
        <4>3. QED
          BY Zenon, <4>2 DEF Told
      <3>2. CASE i \in got \/ i = queue[1]
        BY <1>1, <3>2 DEF Told
      <3>3. QED
        BY Zenon, <1>1, <2>1, <3>1, <3>2 DEF Told
    <2>2. ASSUME i \in Told PROVE i \in Told'
      <3>1. CASE i \in got
        BY Zenon, <3>1 DEF Told
      <3>2. CASE \E k \in 1 .. Len(queue) : i = queue[k]
        <4>1. PICK k \in 1 .. Len(queue) : i = queue[k]
          BY Zenon, <3>2
        <4>2. CASE k = 1
          BY Zenon, <1>1, <4>1, <4>2 DEF Told
        <4>3. CASE k # 1
          <5>1. k - 1 \in 1 .. Len(queue') /\ queue'[k - 1] = i
            BY <1>1, <4>1, <4>3
          <5>2. QED
            BY Zenon, <5>1 DEF Told
        <4>4. QED
          BY Zenon, <4>2, <4>3
      <3>3. QED
        BY Zenon, <2>2, <3>1, <3>2 DEF Told
    <2>3. QED
      BY Zenon, <2>1, <2>2
  <1>3. QED
    BY Zenon, <1>1, <1>2

\* send_update: the info is in the channel, or it was dropped.
LEMMA SendSafe ==
    ASSUME InfoInv, NEW t \in Handlers, SendUpdate(t)
    PROVE  InfoInv'
  <1> DEFINE i == task[t].seen
  <1>1. /\ t \in Tasks /\ DOMAIN task = Tasks /\ HandlerKnown(t) /\ FieldKnown
        /\ InfoShape /\ ObserverKnown
    BY Zenon, TaskNames DEF InfoShape, InfoInv
  <1>2. /\ task[t].stage = "send" /\ i \in Info
        /\ AfterBroadcast(t) /\ UNCHANGED <<participantVars, sink, got, historyVars>>
    BY Zenon, <1>1 DEF SendUpdate, HandlerKnown, Stamped
  <1>3. UNCHANGED <<field, version, present, silent, overlap>>
    BY Zenon, <1>2 DEF participantVars, historyVars
  <1>4. /\ StillKnown(t) /\ Moved(t) /\ task'[t].stage \in {"idle", "over", "reply"}
        /\ task'[t].op # "join"
    BY Zenon, <1>1, <1>2, AfterMoves DEF StillKnown
  <1>5. task'[Observer] = task[Observer] /\ Announced' = Announced
    BY Zenon, <1>3, <1>4, TaskNames, SameAnnounced DEF Moved
  <1>6. \/ /\ sink = "open" /\ queue' = Append(queue, i) /\ missed' = missed
        \/ missed' = TRUE /\ queue' = queue
    BY Zenon DEF SendUpdate
  <1> HIDE DEF i
  <1>7. /\ queue' \in Seq(Info)
        /\ \/ Told' = Told \cup {i} /\ task[Observer].stage = "connected" /\ missed' = missed
           \/ Told' = Told /\ missed' = TRUE
    <2>1. CASE sink = "open" /\ queue' = Append(queue, i) /\ missed' = missed
      BY Zenon, <1>1, <1>2, <2>1, AppendTold DEF ObserverKnown
    <2>2. CASE missed' = TRUE /\ queue' = queue
      BY Zenon, <1>1, <1>2, <2>2 DEF ObserverKnown, Told
    <2>3. QED
      BY Zenon, <1>6, <2>1, <2>2
  <1>8. InfoShape'
    <2>1. ObserverKnown'
      BY Zenon, <1>1, <1>2, <1>5, <1>6, <1>7 DEF ObserverKnown
    <2>2. QED
      BY Zenon, <1>1, <1>4, <2>1, ShapeKept
  <1>9. i.version \in Nat /\ Fields \subseteq DOMAIN i
    BY Zenon, <1>2, InfoHasFields
  <1>10. InSight'
    <2>1. SUFFICES ASSUME ~missed', ~field'.permission.hidden, NEW f \in Announced'
                   PROVE  \/ ~present' /\ f # "state"
                          \/ WillShow(f)'
                          \/ \E u \in Handlers : WillTell(u)' /\ Current(u, f)'
      BY Zenon DEF InSight
    <2>2. /\ Told' = Told \cup {i} /\ task[Observer].stage = "connected" /\ ~missed
          /\ f \in Announced /\ f \in Fields
      BY <1>5, <1>7, <2>1, FieldDomain
    <2>3. \/ ~present /\ f # "state"
          \/ WillShow(f)
          \/ \E u \in Handlers : WillTell(u) /\ Current(u, f)
      BY Zenon, <1>3, <2>1, <2>2 DEF InSight, InfoInv
    <2>4. CASE WillShow(f)
      BY Zenon, <1>3, <1>5, <2>2, <2>4 DEF WillShow
    <2>5. CASE \E u \in Handlers : WillTell(u) /\ Current(u, f)
      <3>1. PICK u \in Handlers : WillTell(u) /\ Current(u, f)
        BY Zenon, <2>5
      <3>2. CASE u = t
        <4>1. i[f] = field'[f]
          BY Zenon, <1>3, <1>9, <2>2, <3>1, <3>2 DEF Current, i
        <4>2. QED
          BY Zenon, <1>5, <2>2, <4>1 DEF WillShow
      <3>3. CASE u # t
        BY Zenon, <1>3, <1>4, <3>1, <3>3, OthersTell, OthersCurrent, TaskNames
      <3>4. QED
        BY Zenon, <3>2, <3>3
    <2>6. QED
      BY Zenon, <1>3, <2>3, <2>4, <2>5
  <1>11. ASSUME ~overlap' PROVE OneAtATime' /\ VersionsRise' /\ LatestKnown'
    <2>1. OneAtATime /\ VersionsRise /\ LatestKnown
      BY Zenon, <1>3, <1>11 DEF InfoInv, Alone
    <2>2. Working(t)
      BY Zenon, <1>2 DEF Working
    <2>3. \A u \in Tasks \ {t} : /\ task'[u] = task[u]
                                 /\ Working(u) => u = Observer /\ task[u].stage = "entered"
                                 /\ task[u].stage \notin Telling \cup {"sink", "filter"}
      BY Zenon, <1>4, <2>1, <2>2, OthersRest DEF Moved
    <2>4. task'[t].stage \notin Telling \cup {"sink"}
      BY Zenon, <1>4 DEF Telling
    <2>5. OneAtATime'
      <3>1. ASSUME NEW u \in Handlers, NEW w \in Tasks, u # w, Working(u)', Working(w)'
            PROVE  w = Observer /\ task'[w].stage = "entered"
        BY Zenon, <2>3, <3>1, TaskNames DEF Working
      <3>2. ASSUME NEW u \in Tasks, NEW f \in Announced',
                   task'[u].stage \in Telling \cup {"sink"}
            PROVE  Current(u, f)'
        BY Zenon, <2>3, <2>4, <3>2
      <3>3. QED
        BY Zenon, <3>1, <3>2 DEF OneAtATime
    <2>6. task[Observer].stage = "connected" => task[t].op # "join"
      BY Zenon, <1>1, <2>1 DEF VersionsRise, HandlerKnown
    <2>7. task[Observer].stage = "connected" =>
              i.version < version /\ \A j \in Told : j.version < i.version
      BY Zenon, <1>2, <2>1, <2>6 DEF VersionsRise, Stamped, i
    <2>8. VersionsRise'
      <3>1. \A j \in Told' : j.version < version'
        BY Zenon, <1>3, <1>7, <2>1, <2>7 DEF VersionsRise
      <3>2. \A u \in Handlers : task'[u].stage \notin Stamped
        BY Zenon, <2>3, <2>4, TaskNames DEF Stamped, Telling
      <3>3. task'[Reader].op = "join" => task'[Reader] = task[Reader]
        BY Zenon, <1>4, <2>3, TaskNames
      <3>4. version' = 0 => task'[Reader].stage = "to_proto" /\ task'[Reader].op = "join"
        BY Zenon, <1>2, <1>3, <2>1, <2>3, TaskNames DEF VersionsRise
      <3>5. QED
        BY Zenon, <1>3, <1>5, <2>1, <3>1, <3>2, <3>3, <3>4 DEF VersionsRise
    <2>9. LatestKnown'
      <3>1. SUFFICES ASSUME ~missed', NEW j \in Told',
                            \A k \in Told' : j.version >= k.version,
                            NEW f \in Announced'
                     PROVE  j[f] = field'[f]
        BY Zenon DEF LatestKnown
      <3>2. Told' = Told \cup {i} /\ task[Observer].stage = "connected"
        BY Zenon, <1>7, <3>1
      <3>3. j = i
        <4>1. j.version >= i.version
          BY Zenon, <3>1, <3>2
        <4>2. \A k \in Told : k.version \in Nat
          BY <1>1, InfoHasFields DEF Told, ObserverKnown
        <4>3. QED
          BY <1>9, <2>7, <3>1, <3>2, <4>1, <4>2
      <3>4. Current(t, f)
        BY Zenon, <1>1, <1>2, <1>5, <2>1, <3>1 DEF OneAtATime, Telling
      <3>5. QED
        BY Zenon, <1>3, <1>9, <3>1, <3>3, <3>4, FieldDomain DEF Current, i
    <2>10. QED
      BY Zenon, <2>5, <2>8, <2>9
  <1>12. QED
    BY Zenon, <1>8, <1>10, <1>11 DEF InfoInv, Alone

-----------------------------------------------------------------------------
(* The observer's own steps *)

\* The observer moves: the handlers are as they were.
LEMMA HandlersKept ==
    ASSUME InfoShape, Moved(Observer), UNCHANGED <<field, present>>, version' \in Nat
    PROVE  /\ FieldKnown' /\ \A t \in Handlers : task'[t] = task[t] /\ HandlerKnown(t)'
           /\ ObserverKnown' => InfoShape'
           /\ \A t \in Handlers : WillTell(t)' = WillTell(t) /\ Working(t)' = Working(t)
           /\ \A t \in Handlers, f \in Fields : Current(t, f)' = Current(t, f)
  <1>1. \A t \in Handlers : task'[t] = task[t]
    BY Zenon, TaskNames DEF Moved
  <1>2. FieldKnown'
    BY Zenon DEF InfoShape, FieldKnown
  <1>3. ASSUME NEW t \in Handlers
        PROVE  /\ HandlerKnown(t)' /\ WillTell(t)' = WillTell(t) /\ Working(t)' = Working(t)
               /\ \A f \in Fields : Current(t, f)' = Current(t, f)
    BY <1>1 DEF InfoShape, HandlerKnown, WillTell, Working, Current
  <1>4. QED
    BY Zenon, <1>1, <1>2, <1>3 DEF InfoShape, Moved

\* What is told is on its way, when what the snapshot was to show still is.
LEMMA ObserverInSight ==
    ASSUME InfoInv, Moved(Observer), UNCHANGED <<field, present, silent>>, version' \in Nat,
           \/ missed' = missed /\ \A f \in Announced : WillShow(f) => WillShow(f)'
           \/ \A f \in Announced : WillShow(f)'
           \/ field.permission.hidden
    PROVE  InSight'
  <1>1. /\ \A t \in Handlers : WillTell(t)' = WillTell(t)
        /\ \A t \in Handlers, f \in Fields : Current(t, f)' = Current(t, f)
        /\ Announced' = Announced /\ Announced \subseteq Fields
    BY Zenon, HandlersKept, SameAnnounced, FieldDomain DEF InfoInv
  <1>2. CASE field.permission.hidden
    BY Zenon, <1>2 DEF InSight
  <1>3. CASE \A f \in Announced : WillShow(f)'
    BY Zenon, <1>1, <1>3 DEF InSight
  <1>4. CASE missed' = missed /\ \A f \in Announced : WillShow(f) => WillShow(f)'
    BY Zenon, <1>1, <1>4 DEF InSight, InfoInv
  <1>5. QED
    BY Zenon, <1>2, <1>3, <1>4

\* A step of the observer: it works alone from its snapshot on.
LEMMA ObserverOneAtATime ==
    ASSUME InfoShape, OneAtATime, Moved(Observer), UNCHANGED <<field, present, silent>>,
           version' \in Nat, ObserverKnown',
           \/ task'[Observer].stage \in {"entered", "connected", "dropped"}
           \/ \A t \in Handlers : ~Working(t),
           task'[Observer].stage \in {"to_proto", "sink"} =>
               \A f \in Announced : Current(Observer, f)'
    PROVE  OneAtATime'
  <1>1. /\ \A t \in Handlers : task'[t] = task[t] /\ Working(t)' = Working(t)
        /\ \A t \in Handlers, f \in Fields : Current(t, f)' = Current(t, f)
        /\ Announced' = Announced /\ Announced \subseteq Fields
    BY Zenon, HandlersKept, SameAnnounced, FieldDomain
  <1>2. ASSUME NEW t \in Handlers, NEW u \in Tasks, t # u, Working(t)', Working(u)'
        PROVE  u = Observer /\ task'[u].stage = "entered"
    <2>1. CASE u \in Handlers
      BY Zenon, <1>1, <1>2, <2>1, TaskNames DEF OneAtATime
    <2>2. CASE u = Observer
      BY Zenon, <1>1, <1>2, <2>2 DEF Working
    <2>3. QED
      BY Zenon, <2>1, <2>2, TaskNames
  <1>3. ASSUME NEW t \in Tasks, NEW f \in Announced', task'[t].stage \in Telling \cup {"sink"}
        PROVE  Current(t, f)'
    <2>1. CASE t \in Handlers
      BY Zenon, <1>1, <1>3, <2>1 DEF OneAtATime
    <2>2. CASE t = Observer
      <3>1. task'[t].stage \in {"to_proto", "sink"}
        BY Zenon, <1>3, <2>2 DEF Telling, ObserverKnown, Watching
      <3>2. QED
        BY Zenon, <1>1, <1>3, <2>2, <3>1
    <2>3. QED
      BY Zenon, <2>1, <2>2, TaskNames
  <1>4. QED
    BY Zenon, <1>2, <1>3 DEF OneAtATime

\* A step of the observer: its snapshot takes a version above all.
LEMMA ObserverVersions ==
    ASSUME InfoShape, VersionsRise, Moved(Observer),
           version' \in {version, version + 1},
           \/ task'[Observer].stage \in {"out", "entered"}
           \/ task[Observer].stage \notin {"out", "entered"}
           \/ task[Reader].op # "join",
           \A i \in Told' : i.version \in Nat /\ i.version < version',
           Told' \subseteq Told \/ \A t \in Handlers : task[t].stage \notin Stamped,
           task'[Observer].stage = "sink" /\ task'[Observer].seen # <<>> =>
               task'[Observer].seen.version < version'
    PROVE  VersionsRise'
  <1>1. version \in Nat /\ \A t \in Handlers : task'[t] = task[t]
    BY Zenon, TaskNames DEF InfoShape, FieldKnown, Moved
  <1>2. /\ version' = 0 => task'[Reader].stage = "to_proto" /\ task'[Reader].op = "join"
        /\ task'[Reader].op = "join" => task'[Observer].stage \in {"out", "entered"}
    BY <1>1, TaskNames DEF VersionsRise
  <1>3. ASSUME NEW t \in Handlers, task'[t].stage \in Stamped, task'[t].op # "join"
        PROVE  /\ task'[t].seen.version < version'
               /\ \A i \in Told' : i.version < task'[t].seen.version
    <2>1. task[t].stage \in Stamped /\ task[t].op # "join" /\ task[t].seen \in Info
      BY Zenon, <1>1, <1>3 DEF InfoShape, HandlerKnown
    <2>2. task[t].seen.version \in Nat
      BY Zenon, <2>1, InfoHasFields
    <2>3. QED
      BY <1>1, <2>1, <2>2 DEF VersionsRise
  <1>4. QED
    BY Zenon, <1>2, <1>3 DEF VersionsRise

\* While the snapshot is taken nobody else works, and the join is over.
LEMMA SnapshotAlone ==
    ASSUME InfoShape, OneAtATime, VersionsRise,
           task[Observer].stage \in {"filter", "to_proto", "sink"}
    PROVE  /\ \A t \in Handlers : ~Working(t) /\ task[t].stage \notin Stamped
           /\ version # 0
  <1>1. Working(Observer) /\ task[Observer].stage # "entered"
    BY Zenon DEF Working
  <1>2. \A t \in Handlers : ~Working(t)
    BY Zenon, <1>1, TaskNames DEF OneAtATime
  <1>3. QED
    BY Zenon, <1>2, TaskNames DEF VersionsRise, Working, Stamped

\* The snapshot reads a field.
LEMMA SnapshotReads ==
    ASSUME InfoInv, ReadField(Observer)
    PROVE  InfoInv'
  <1>1. /\ InfoShape /\ ObserverKnown /\ DOMAIN task[Observer] = Parts
        /\ task[Observer].stage = "to_proto" /\ Partial(task[Observer].seen)
        /\ version \in Nat
    BY Zenon DEF InfoInv, InfoShape, ObserverKnown, Parts, ReadField, FieldKnown
  <1>2. /\ UNCHANGED <<participantVars, observerVars, historyVars>>
        /\ task'[Observer].stage = "to_proto"
        /\ Moved(Observer) /\ DOMAIN task'[Observer] = Parts
        /\ task'[Observer].op = task[Observer].op
        /\ Partial(task'[Observer].seen)
        /\ \A f \in Fields : Current(Observer, f) => Current(Observer, f)'
    BY Zenon, <1>1, ReadFieldMoves, TaskNames
  <1>3. /\ UNCHANGED <<field, version, present, silent, overlap>>
        /\ UNCHANGED <<sink, queue, got, missed>> /\ Told' = Told
    BY Zenon, <1>2 DEF participantVars, historyVars, observerVars, Told
  <1>4. ObserverKnown'
    BY Zenon, <1>1, <1>2, <1>3 DEF ObserverKnown, Watching, Parts
  <1>5. InfoShape'
    BY Zenon, <1>1, <1>2, <1>3, <1>4, HandlersKept
  <1>6. \A f \in Announced : WillShow(f) => WillShow(f)'
    BY Zenon, <1>1, <1>2, FieldDomain DEF WillShow
  <1>7. InSight'
    BY Zenon, <1>1, <1>2, <1>3, <1>6, ObserverInSight
  <1>8. ASSUME ~overlap' PROVE OneAtATime' /\ VersionsRise' /\ LatestKnown'
    <2>1. OneAtATime /\ VersionsRise
      BY Zenon, <1>3, <1>8 DEF InfoInv, Alone
    <2>2. \A t \in Handlers : ~Working(t)
      BY Zenon, <1>1, <2>1, SnapshotAlone
    <2>3. \A f \in Announced : Current(Observer, f)'
      BY Zenon, <1>1, <1>2, <2>1, FieldDomain, TaskNames DEF OneAtATime, Telling
    <2>4. OneAtATime'
      BY Zenon, <1>1, <1>2, <1>3, <1>4, <2>1, <2>2, <2>3, ObserverOneAtATime
    <2>5. \A i \in Told' : i.version \in Nat /\ i.version < version'
      BY <1>1, <1>3, <2>1, InfoHasFields DEF VersionsRise, Told, ObserverKnown
    <2>6. VersionsRise'
      BY Zenon, <1>1, <1>2, <1>3, <2>1, <2>5, ObserverVersions
    <2>7. QED
      BY Zenon, <1>2, <2>4, <2>6 DEF LatestKnown
  <1>9. QED
    BY Zenon, <1>5, <1>7, <1>8 DEF InfoInv, Alone

\* The snapshot takes its version.
LEMMA SnapshotStamps ==
    ASSUME InfoInv, Stamp(Observer)
    PROVE  InfoInv'
  <1>1. /\ InfoShape /\ ObserverKnown /\ DOMAIN task[Observer] = Parts
        /\ task[Observer].stage = "to_proto" /\ Partial(task[Observer].seen)
        /\ version \in Nat /\ task[Observer].op = "list"
    BY Zenon DEF InfoInv, InfoShape, ObserverKnown, Parts, Stamp, FieldKnown
  <1>2. /\ UNCHANGED <<field, present, observerVars, historyVars>>
        /\ version' = version + 1
        /\ task'[Observer].stage = "sink"
        /\ Moved(Observer) /\ DOMAIN task'[Observer] = Parts
        /\ task'[Observer].op = task[Observer].op
        /\ task'[Observer].seen \in Info
        /\ task'[Observer].seen.version = NextVersion
        /\ DOMAIN task[Observer].seen = Fields
        /\ \A f \in Fields : task'[Observer].seen[f] = task[Observer].seen[f]
    BY Zenon, <1>1, StampMoves, TaskNames
  <1>3. /\ UNCHANGED <<silent, overlap>>
        /\ UNCHANGED <<sink, queue, got, missed>> /\ Told' = Told
    BY Zenon, <1>2 DEF historyVars, observerVars, Told
  <1>4. ObserverKnown'
    BY Zenon, <1>1, <1>2, <1>3 DEF ObserverKnown, Watching, Parts
  <1>5. InfoShape' /\ version' \in Nat
    BY <1>1, <1>2, <1>3, <1>4, HandlersKept
  <1>6. \A f \in Announced : /\ f \in DOMAIN task'[Observer].seen
                             /\ Current(Observer, f) => Current(Observer, f)'
    BY Zenon, <1>2, FieldDomain, InfoHasFields DEF Current
  <1>7. \A f \in Announced : WillShow(f) => WillShow(f)'
    BY Zenon, <1>1, <1>2, <1>6 DEF WillShow
  <1>8. InSight'
    BY Zenon, <1>2, <1>3, <1>5, <1>7, ObserverInSight
  <1>9. ASSUME ~overlap' PROVE OneAtATime' /\ VersionsRise' /\ LatestKnown'
    <2>1. OneAtATime /\ VersionsRise
      BY Zenon, <1>3, <1>9 DEF InfoInv, Alone
    <2>2. version # 0 /\ \A t \in Handlers : ~Working(t)
      BY Zenon, <1>1, <2>1, SnapshotAlone
    <2>3. \A f \in Announced : Current(Observer, f)'
      BY Zenon, <1>1, <1>6, <2>1, TaskNames DEF OneAtATime, Telling
    <2>4. OneAtATime'
      BY Zenon, <1>1, <1>2, <1>3, <1>4, <1>5, <2>1, <2>2, <2>3, ObserverOneAtATime
    <2>5. \A i \in Told' : i.version \in Nat /\ i.version < version'
      BY <1>1, <1>2, <1>3, <2>1, InfoHasFields DEF VersionsRise, Told, ObserverKnown
    <2>6. task'[Observer].seen.version < version'
      BY <1>1, <1>2, <2>2 DEF NextVersion
    <2>7. VersionsRise'
      BY Zenon, <1>1, <1>2, <1>3, <2>1, <2>5, <2>6, ObserverVersions
    <2>8. QED
      BY Zenon, <1>2, <2>4, <2>7 DEF LatestKnown
  <1>10. QED
    BY Zenon, <1>5, <1>8, <1>9 DEF InfoInv, Alone

\* The observer enters the room, and leaves out who is hidden.
LEMMA EnterSafe ==
    ASSUME InfoInv, Enter \/ FilterHidden
    PROVE  InfoInv'
  <1>1. /\ InfoShape /\ ObserverKnown /\ DOMAIN task[Observer] = Parts
        /\ DOMAIN task = Tasks /\ version \in Nat
        /\ task[Observer].stage \in {"out", "filter"} /\ task[Observer].seen = <<>>
    BY Zenon DEF InfoInv, InfoShape, ObserverKnown, Parts, Enter, FilterHidden, FieldKnown
  <1>2. /\ UNCHANGED <<field, version, present, silent, overlap>>
        /\ UNCHANGED <<sink, queue, got, missed>> /\ Told' = Told
    BY Zenon DEF Enter, FilterHidden, participantVars, historyVars, observerVars, Told
  <1>3. /\ Moved(Observer) /\ DOMAIN task'[Observer] = Parts
        /\ task'[Observer].seen = <<>> /\ task'[Observer].op = task[Observer].op
        /\ \/ task[Observer].stage = "out" /\ task'[Observer].stage = "entered"
           \/ /\ task[Observer].stage = "filter"
              /\ \/ task'[Observer].stage = "to_proto"
                 \/ task'[Observer].stage = "sink" /\ field.permission.hidden
    BY Zenon, <1>1, GotoMoves, TaskNames DEF Enter, FilterHidden
  <1>4. ObserverKnown'
    BY Zenon, <1>1, <1>2, <1>3, PartialEmpty DEF ObserverKnown, Watching, Parts
  <1>5. InfoShape'
    BY Zenon, <1>1, <1>2, <1>3, <1>4, HandlersKept
  <1>6. \A f \in Announced : Current(Observer, f)'
    BY Zenon, <1>3, PartialEmpty DEF Current
  <1>7. field.permission.hidden \/ \A f \in Announced : WillShow(f)'
    BY Zenon, <1>3, <1>6 DEF WillShow
  <1>8. InSight'
    BY Zenon, <1>1, <1>2, <1>3, <1>7, ObserverInSight
  <1>9. ASSUME ~overlap' PROVE OneAtATime' /\ VersionsRise' /\ LatestKnown'
    <2>1. OneAtATime /\ VersionsRise
      BY Zenon, <1>2, <1>9 DEF InfoInv, Alone
    <2>2. \/ task'[Observer].stage \in {"entered", "connected", "dropped"}
          \/ \A t \in Handlers : ~Working(t)
      BY Zenon, <1>1, <1>3, <2>1, SnapshotAlone
    <2>3. OneAtATime'
      BY Zenon, <1>1, <1>2, <1>3, <1>4, <1>6, <2>1, <2>2, ObserverOneAtATime
    <2>4. \A i \in Told' : i.version \in Nat /\ i.version < version'
      BY <1>1, <1>2, <2>1, InfoHasFields DEF VersionsRise, Told, ObserverKnown
    <2>5. VersionsRise'
      BY Zenon, <1>1, <1>2, <1>3, <2>1, <2>4, ObserverVersions
    <2>6. QED
      BY Zenon, <1>3, <2>3, <2>5 DEF LatestKnown
  <1>10. QED
    BY Zenon, <1>5, <1>8, <1>9 DEF InfoInv, Alone

\* A snapshot begins: what it is to show counts from here on.
LEMMA ListSafe ==
    ASSUME InfoInv, BuildJoinResponse \/ Resume
    PROVE  InfoInv'
  <1>1. /\ InfoShape /\ ObserverKnown /\ DOMAIN task[Observer] = Parts
        /\ DOMAIN task = Tasks /\ version \in Nat
        /\ task[Observer].stage \in {"entered", "dropped"}
    BY Zenon DEF InfoInv, InfoShape, ObserverKnown, Parts, BuildJoinResponse, Resume,
           FieldKnown
  <1>2. PICK s \in {"filter", "to_proto"} : List(s)
    BY Zenon DEF BuildJoinResponse, Resume
  <1>3. /\ UNCHANGED <<field, version, present, silent>>
        /\ UNCHANGED <<sink, queue>> /\ got' = {} /\ missed' = FALSE
        /\ queue = <<>> /\ Told' = {}
        /\ ~overlap' => ~overlap /\ \A u \in Tasks \ {Observer} : ~Working(u)
    <2>1. /\ UNCHANGED <<field, version, present, silent>>
          /\ UNCHANGED <<sink, queue>> /\ got' = {} /\ missed' = FALSE
          /\ queue = <<>>
      BY Zenon, <1>1, <1>2 DEF List, participantVars, ObserverKnown
    <2>2. Told' = {}
      BY <2>1 DEF Told
    <2>3. ~overlap' => ~overlap /\ \A u \in Tasks \ {Observer} : ~Working(u)
      BY Zenon, <1>2 DEF List, Begin
    <2>4. QED
      BY Zenon, <2>1, <2>2, <2>3
  <1>4. /\ Moved(Observer) /\ DOMAIN task'[Observer] = Parts
        /\ task'[Observer].seen = <<>> /\ task'[Observer].op = "list"
        /\ task'[Observer].stage = IF present THEN s ELSE "sink"
    BY Zenon, <1>1, <1>2, TaskNames DEF List, Moved, Task, Parts
  <1>5. ObserverKnown'
    BY Zenon, <1>1, <1>2, <1>3, <1>4, PartialEmpty DEF ObserverKnown, Watching, Parts
  <1>6. InfoShape'
    BY Zenon, <1>1, <1>3, <1>4, <1>5, HandlersKept
  <1>7. \A f \in Announced : Current(Observer, f)'
    BY Zenon, <1>4, PartialEmpty DEF Current
  <1>8. \A f \in Announced : WillShow(f)'
    BY Zenon, <1>2, <1>3, <1>4, <1>7 DEF WillShow
  <1>9. InSight'
    BY Zenon, <1>1, <1>3, <1>4, <1>8, ObserverInSight
  <1>10. ASSUME ~overlap' PROVE OneAtATime' /\ VersionsRise' /\ LatestKnown'
    <2>1. OneAtATime /\ VersionsRise
      BY Zenon, <1>3, <1>10 DEF InfoInv, Alone
    <2>2. \A t \in Handlers : ~Working(t)
      BY Zenon, <1>3, <1>10, TaskNames
    <2>3. OneAtATime'
      BY Zenon, <1>1, <1>3, <1>4, <1>5, <1>7, <2>1, <2>2, ObserverOneAtATime
    <2>4. task[Reader].op # "join"
      BY Zenon, <1>1, <2>2, TaskNames DEF InfoShape, HandlerKnown, Working
    <2>5. VersionsRise'
      BY Zenon, <1>1, <1>3, <1>4, <2>1, <2>4, ObserverVersions
    <2>6. QED
      BY Zenon, <1>2, <1>4, <2>3, <2>5 DEF LatestKnown
  <1>11. QED
    BY Zenon, <1>6, <1>9, <1>10 DEF InfoInv, Alone

\* The session starts with the snapshot.
LEMMA SessionSafe ==
    ASSUME InfoInv, SetSignalSink
    PROVE  InfoInv'
  <1> DEFINE i == task[Observer].seen
  <1>1. /\ InfoShape /\ ObserverKnown /\ DOMAIN task[Observer] = Parts
        /\ DOMAIN task = Tasks /\ version \in Nat
        /\ task[Observer].stage = "sink" /\ (i = <<>> \/ i \in Info)
    BY Zenon DEF InfoInv, InfoShape, ObserverKnown, Parts, SetSignalSink, FieldKnown
  <1>2. /\ UNCHANGED <<field, version, present, silent, overlap>>
        /\ missed' = missed /\ sink' = "open" /\ queue' = <<>> /\ got' = {i} \ {<<>>}
    BY Zenon DEF SetSignalSink, participantVars, historyVars
  <1>3. /\ Moved(Observer) /\ DOMAIN task'[Observer] = Parts
        /\ task'[Observer].seen = i /\ task'[Observer].op = task[Observer].op
        /\ task'[Observer].stage = "connected"
    BY Zenon, <1>1, GotoMoves, TaskNames DEF SetSignalSink
  <1> HIDE DEF i
  <1>4. Told' = {i} \ {<<>>}
    BY <1>2 DEF Told
  <1>5. ObserverKnown'
    BY Zenon, <1>1, <1>2, <1>3 DEF ObserverKnown, Watching, Parts
  <1>6. InfoShape'
    BY Zenon, <1>1, <1>2, <1>3, <1>5, HandlersKept
  <1>7. ASSUME NEW f \in Announced, WillShow(f) PROVE WillShow(f)'
    <2>1. CASE ~present /\ i = <<>>
      BY Zenon, <1>2, <1>3, <2>1 DEF WillShow
    <2>2. CASE f \in DOMAIN i /\ Current(Observer, f)
      <3>1. i \in Told' /\ i[f] = field'[f]
        BY Zenon, <1>2, <1>4, <2>2, PartialEmpty DEF Current, i
      <3>2. QED
        BY Zenon, <1>3, <3>1 DEF WillShow
    <2>3. QED
      BY Zenon, <1>1, <1>7, <2>1, <2>2 DEF WillShow, i
  <1>8. InSight'
    BY Zenon, <1>1, <1>2, <1>3, <1>7, ObserverInSight
  <1>9. ASSUME ~overlap' PROVE OneAtATime' /\ VersionsRise' /\ LatestKnown'
    <2>1. OneAtATime /\ VersionsRise
      BY Zenon, <1>2, <1>9 DEF InfoInv, Alone
    <2>2. \A t \in Handlers : ~Working(t) /\ task[t].stage \notin Stamped
      BY Zenon, <1>1, <2>1, SnapshotAlone
    <2>3. OneAtATime'
      BY Zenon, <1>1, <1>2, <1>3, <1>5, <2>1, <2>2, ObserverOneAtATime
    <2>4. \A j \in Told' : j.version \in Nat /\ j.version < version'
      BY Zenon, <1>1, <1>2, <1>4, <2>1, InfoHasFields DEF VersionsRise, i
    <2>5. VersionsRise'
      BY Zenon, <1>1, <1>2, <1>3, <2>1, <2>2, <2>4, ObserverVersions
    <2>6. \A j \in Told', f \in Announced' : j[f] = field'[f]
      <3>1. ASSUME NEW j \in Told', NEW f \in Announced' PROVE j[f] = field'[f]
        <4>1. j = i /\ i \in Info /\ f \in Announced /\ f \in Fields
          BY Zenon, <1>1, <1>2, <1>4, SameAnnounced, FieldDomain
        <4>2. Current(Observer, f) /\ f \in DOMAIN i
          BY Zenon, <1>1, <2>1, <4>1, TaskNames, InfoHasFields DEF OneAtATime
        <4>3. QED
          BY Zenon, <1>2, <4>1, <4>2 DEF Current, i
      <3>2. QED
        BY Zenon, <3>1
    <2>7. QED
      BY Zenon, <2>3, <2>5, <2>6 DEF LatestKnown
  <1>10. QED
    BY Zenon, <1>6, <1>8, <1>9 DEF InfoInv, Alone

\* The writer delivers what was told already.
LEMMA DeliverSafe ==
    ASSUME InfoInv, Deliver
    PROVE  InfoInv'
  <1>1. InfoShape /\ ObserverKnown /\ version \in Nat /\ Moved(Observer)
    BY Zenon DEF InfoInv, InfoShape, FieldKnown, Deliver, Moved
  <1>2. /\ UNCHANGED <<field, version, present, silent, overlap, task, sink, missed>>
        /\ task[Observer].stage = "connected"
        /\ queue' = Tail(queue) /\ queue # <<>> /\ got' = got \cup {Head(queue)}
    BY Zenon DEF Deliver, participantVars, historyVars
  <1>3. queue' \in Seq(Info) /\ Head(queue) \in Info /\ Told' = Told
    BY Zenon, <1>1, <1>2, TailTold DEF ObserverKnown
  <1>4. ObserverKnown'
    BY Zenon, <1>1, <1>2, <1>3 DEF ObserverKnown
  <1>5. InfoShape'
    BY Zenon, <1>1, <1>2, <1>4, HandlersKept
  <1>6. \A f \in Announced : WillShow(f) => WillShow(f)'
    BY Zenon, <1>2, <1>3 DEF WillShow
  <1>7. InSight'
    BY Zenon, <1>1, <1>2, <1>6, ObserverInSight
  <1>8. ASSUME ~overlap' PROVE OneAtATime' /\ VersionsRise' /\ LatestKnown'
    <2>1. OneAtATime /\ VersionsRise /\ LatestKnown
      BY Zenon, <1>2, <1>8 DEF InfoInv, Alone
    <2>2. OneAtATime'
      BY Zenon, <1>1, <1>2, <1>4, <2>1, ObserverOneAtATime
    <2>3. \A i \in Told' : i.version \in Nat /\ i.version < version'
      BY <1>1, <1>2, <1>3, <2>1, InfoHasFields DEF VersionsRise, Told, ObserverKnown
    <2>4. VersionsRise'
      BY Zenon, <1>1, <1>2, <1>3, <2>1, <2>3, ObserverVersions
    <2>5. Announced' = Announced /\ \A t \in Handlers : WillTell(t)' = WillTell(t)
      BY Zenon, <1>1, <1>2, SameAnnounced, HandlersKept
    <2>6. LatestKnown'
      BY Zenon, <1>2, <1>3, <2>1, <2>5 DEF LatestKnown
    <2>7. QED
      BY Zenon, <2>2, <2>4, <2>6
  <1>9. QED
    BY Zenon, <1>5, <1>7, <1>8 DEF InfoInv, Alone

\* The connection is lost; the observer is to resume.
LEMMA LossSafe ==
    ASSUME InfoInv, LoseConnection
    PROVE  InfoInv'
  <1>1. /\ InfoShape /\ ObserverKnown /\ version \in Nat /\ DOMAIN task = Tasks
        /\ task[Observer].stage = "connected"
    BY Zenon DEF InfoInv, InfoShape, FieldKnown, LoseConnection
  <1>2. /\ UNCHANGED <<field, version, present, silent, overlap>>
        /\ sink' = "dead" /\ queue' = <<>> /\ got' = {}
    BY Zenon DEF LoseConnection, participantVars, historyVars
  <1>3. /\ Moved(Observer) /\ DOMAIN task'[Observer] = Parts
        /\ task'[Observer].seen = <<>> /\ task'[Observer].op = "list"
        /\ task'[Observer].stage = "dropped"
    BY Zenon, <1>1, TaskNames DEF LoseConnection, Moved, Task, Parts
  <1>4. Told' = {}
    BY <1>2 DEF Told
  <1>5. ObserverKnown'
    BY <1>2, <1>3 DEF ObserverKnown, Watching, Parts
  <1>6. InfoShape'
    BY Zenon, <1>1, <1>2, <1>3, <1>5, HandlersKept
  <1>7. \A f \in Announced : WillShow(f)'
    BY Zenon, <1>3 DEF WillShow
  <1>8. InSight'
    BY Zenon, <1>1, <1>2, <1>3, <1>7, ObserverInSight
  <1>9. ASSUME ~overlap' PROVE OneAtATime' /\ VersionsRise' /\ LatestKnown'
    <2>1. OneAtATime /\ VersionsRise
      BY Zenon, <1>2, <1>9 DEF InfoInv, Alone
    <2>2. OneAtATime'
      BY Zenon, <1>1, <1>2, <1>3, <1>5, <2>1, ObserverOneAtATime
    <2>3. VersionsRise'
      BY Zenon, <1>1, <1>2, <1>3, <1>4, <2>1, ObserverVersions
    <2>4. QED
      BY Zenon, <1>3, <2>2, <2>3 DEF LatestKnown
  <1>10. QED
    BY Zenon, <1>6, <1>8, <1>9 DEF InfoInv, Alone

-----------------------------------------------------------------------------

\* The participant joins, and nobody was told anything.
LEMMA InfoInitSafe == Init => InfoInv
  <1> SUFFICES ASSUME Init PROVE InfoInv
    OBVIOUS
  <1>1. /\ version = 0 /\ present = TRUE /\ sink = "none" /\ queue = <<>> /\ got = {}
        /\ missed = FALSE /\ silent = FALSE
    BY Zenon DEF Init
  <1>2. /\ DOMAIN task = Tasks
        /\ task[Reader] = Task("to_proto", "join", None)
        /\ task[Observer] = Task("out", "list", None)
        /\ \A t \in Others : task[t] = Idle
    BY Zenon, TaskNames, InfoAssumption DEF Init
  <1>3. FieldKnown /\ field.state = Joining
    BY <1>1, InfoAssumption DEF Init, FieldKnown, Joining, Disconnected
  <1>4. HandlerKnown(Reader)
    BY <1>2, PartialEmpty DEF HandlerKnown, Task, Before, Telling, Stamped
  <1>5. ASSUME NEW t \in Others PROVE HandlerKnown(t)
    <2>1. /\ DOMAIN task[t] = Parts /\ task[t].stage = "idle" /\ task[t].op = "none"
          /\ task[t].changed = FALSE /\ task[t].seen = <<>>
      BY <1>2, <1>5 DEF Task, Idle, Parts
    <2>2. QED
      BY Zenon, <2>1 DEF HandlerKnown, Before, Telling, Stamped, Parts
  <1>6. ObserverKnown
    BY <1>1, <1>2 DEF ObserverKnown, Task, Watching
  <1>7. InfoShape
    BY Zenon, <1>2, <1>3, <1>4, <1>5, <1>6 DEF InfoShape, Handlers
  <1>8. InSight
    BY <1>2 DEF InSight, WillShow, Task
  <1>9. Told = {}
    BY <1>1 DEF Told
  <1>10. \A t \in Tasks : task[t].seen = <<>> /\ (Working(t) => t = Reader)
    BY <1>2 DEF Task, Idle, Working, Tasks, Handlers
  <1>11. OneAtATime
    BY Zenon, <1>10, PartialEmpty, TaskNames DEF OneAtATime, Current
  <1>12. VersionsRise
    <2>1. \A t \in Handlers : task[t].stage \notin Stamped
      BY <1>2 DEF Task, Idle, Handlers, Stamped
    <2>2. QED
      BY <1>2, <1>9, <2>1 DEF VersionsRise, Task
  <1>13. LatestKnown
    BY <1>2 DEF LatestKnown, Task
  <1>14. QED
    BY Zenon, <1>7, <1>8, <1>11, <1>12, <1>13 DEF InfoInv, Alone

\* Every step of a handler and of the observer keeps the invariant.
LEMMA InfoNextSafe == InfoInv /\ [Next]_vars => InfoInv'
  <1> SUFFICES ASSUME InfoInv, [Next]_vars PROVE InfoInv'
    OBVIOUS
  <1>1. InfoShape
    BY Zenon DEF InfoInv
  <1>2. ASSUME NEW t \in Tasks, ReadField(t) \/ Stamp(t) PROVE InfoInv'
    <2>1. CASE t \in Handlers
      BY Zenon, <1>1, <1>2, <2>1, ReadKeeps, HandlerSafe
    <2>2. CASE t = Observer
      BY Zenon, <1>2, <2>2, SnapshotReads, SnapshotStamps
    <2>3. QED
      BY Zenon, <2>1, <2>2, TaskNames
  <1>3. ASSUME NEW t \in Handlers, HandlerStep(t) PROVE InfoInv'
    <2>1. CASE SendUpdate(t)
      BY Zenon, <2>1, SendSafe
    <2>2. CASE ~SendUpdate(t)
      <3>1. Kept(t)
        BY Zenon, <1>1, <1>3, <2>2, UpdateKeeps, MuteKeeps, EndKeeps, BroadcastKeeps, ReplyKeeps
        DEF HandlerStep
      <3>2. QED
        BY Zenon, <3>1, HandlerSafe
    <2>3. QED
      BY Zenon, <2>1, <2>2
  <1>4. CASE ReaderStarts
    <2>1. Kept(Reader)
      BY Zenon, <1>1, <1>4, RequestKeeps, QuietStartKeeps, TaskNames DEF ReaderStarts
    <2>2. QED
      BY Zenon, <2>1, HandlerSafe, TaskNames
  <1>5. ASSUME NEW t \in Others, OtherStarts(t) PROVE InfoInv'
    <2>1. Kept(t)
      BY Zenon, <1>1, <1>5, RequestKeeps, MuteStartKeeps, CallbackKeeps, TaskNames DEF OtherStarts
    <2>2. QED
      BY Zenon, <2>1, HandlerSafe, TaskNames
  <1>6. CASE ObserverStep
    BY Zenon, <1>6, EnterSafe, ListSafe, SessionSafe, DeliverSafe, LossSafe DEF ObserverStep
  <1>7. CASE UNCHANGED vars
    <2>1. UNCHANGED <<field, version, present, task, sink, queue, got, missed, silent, overlap>>
      BY Zenon, <1>7 DEF vars, participantVars, observerVars, historyVars
    <2>2. Announced' = Announced /\ Told' = Told
      BY Zenon, <2>1 DEF Announced, Told
    <2>3. InfoShape'
      BY <1>1, <2>1 DEF InfoShape, HandlerKnown, ObserverKnown, FieldKnown
    <2>4. InSight'
      BY <2>1, <2>2 DEF InfoInv, InSight, WillShow, WillTell, Current
    <2>5. Alone'
      BY <2>1, <2>2 DEF InfoInv, Alone, OneAtATime, VersionsRise, LatestKnown, WillTell,
                        Current, Working
    <2>6. QED
      BY Zenon, <2>3, <2>4, <2>5 DEF InfoInv
  <1>8. QED
    BY Zenon, <1>2, <1>3, <1>4, <1>5, <1>6, <1>7 DEF Next

\* The invariant holds throughout.
LEMMA InfoAlwaysSafe == Spec => []InfoInv
  BY InfoInitSafe, InfoNextSafe, PTL DEF Spec

-----------------------------------------------------------------------------
(* The types of the rest *)

\* The operations, the channel and what is remembered.
RestTypes ==
    /\ \A t \in Tasks : task[t].op \in Ops /\ task[t].changed \in BOOLEAN
    /\ sink \in {"none", "open", "dead"}
    /\ Len(queue) <= Capacity
    /\ missed \in BOOLEAN
    /\ silent \in BOOLEAN
    /\ overlap \in BOOLEAN
    /\ requests \in 0 .. MaxRequests

\* A task goes on with its operation, or has another one.
Employed(t) ==
    /\ Moved(t)
    /\ task'[t].op = task[t].op \/ task'[t].op \in Ops
    /\ task'[t].changed \in {task[t].changed, TRUE, FALSE}

LEMMA EmployedTyped ==
    ASSUME RestTypes, NEW t \in Tasks, Employed(t)
    PROVE  \A u \in Tasks : task'[u].op \in Ops /\ task'[u].changed \in BOOLEAN
  BY Zenon DEF RestTypes, Employed, Moved

\* Begin counts the handler, up to the bound.
LEMMA BeginCounts ==
    ASSUME RestTypes, NEW t \in Tasks, Begin(t)
    PROVE  requests' \in 0 .. MaxRequests /\ overlap' \in BOOLEAN
  <1>1. requests' \in 0 .. MaxRequests
    BY InfoAssumption DEF RestTypes, Begin
  <1>2. overlap' \in BOOLEAN
    BY Zenon DEF Begin
  <1>3. QED
    BY Zenon, <1>1, <1>2

\* The steps of a task that has begun leave the history alone, but for silent.
LEMMA ReadRest ==
    ASSUME InfoShape, RestTypes, NEW t \in Tasks, ReadField(t) \/ Stamp(t)
    PROVE  RestTypes'
  <1>1. UNCHANGED <<observerVars, historyVars>>
    BY Zenon DEF ReadField, Stamp
  <1>2. DOMAIN task = Tasks /\ DOMAIN task[t] = Parts
    BY Zenon, TaskNames DEF InfoShape, HandlerKnown, ObserverKnown, Parts
  <1>3. Employed(t)
    <2>1. CASE ReadField(t)
      BY ZenonT(30), <1>2, <2>1 DEF ReadField, Employed, Moved, Parts
    <2>2. CASE Stamp(t)
      BY Zenon, <1>2, <2>2 DEF Stamp, Employed, Moved, Parts
    <2>3. QED
      BY Zenon, <2>1, <2>2
  <1>4. QED
    BY Zenon, <1>1, <1>3, EmployedTyped DEF RestTypes, observerVars, historyVars

\* A handler that begins has an operation.
LEMMA StartRest ==
    ASSUME InfoShape, RestTypes, NEW t \in Handlers, NEW s, NEW op \in Ops, NEW arg,
           Start(t, s, op, arg), silent' \in BOOLEAN
    PROVE  RestTypes'
  <1>1. t \in Tasks /\ DOMAIN task = Tasks
    BY Zenon, TaskNames DEF InfoShape
  <1>2. Employed(t) /\ UNCHANGED observerVars
    <2>1. /\ Moved(t) /\ task'[t].op = op /\ task'[t].changed = FALSE
          /\ UNCHANGED observerVars
      BY Zenon, <1>1, StartMoves
    <2>2. QED
      BY Zenon, <2>1 DEF Employed
  <1>3. requests' \in 0 .. MaxRequests /\ overlap' \in BOOLEAN
    BY Zenon, <1>1, BeginCounts DEF Start
  <1>4. QED
    BY Zenon, <1>1, <1>2, <1>3, EmployedTyped DEF RestTypes, observerVars

LEMMA StartsRest ==
    ASSUME InfoShape, RestTypes, ReaderStarts \/ \E t \in Others : OtherStarts(t)
    PROVE  RestTypes'
  <1>1. silent' \in BOOLEAN
    BY Zenon DEF RestTypes, ReaderStarts, OtherStarts, HandleUpdateMetadata, HandleAddTrack,
                 HandleOffer, HandleMute, EndParticipant, UpdateParticipant, MutePublishedTrack,
                 OnIceConnected, OnTrackPublished, OnTrackUnpublished
  <1>2. {"none", "update", "mute", "end", "tell"} \subseteq Ops
    BY Zenon DEF Ops
  <1>3. CASE ReaderStarts
    <2>1. \E s, arg : \E op \in {"none", "update", "mute", "end", "tell"} :
             Start(Reader, s, op, arg)
      BY Zenon, <1>3 DEF ReaderStarts, HandleUpdateMetadata, HandleAddTrack, HandleOffer,
                         HandleMute, EndParticipant
    <2>2. QED
      BY Zenon, <1>1, <1>2, <2>1, StartRest, TaskNames
  <1>4. ASSUME NEW t \in Others, OtherStarts(t) PROVE RestTypes'
    <2>1. \E s, arg : \E op \in {"none", "update", "mute", "end", "tell"} :
             Start(t, s, op, arg)
      BY Zenon, <1>4 DEF OtherStarts, UpdateParticipant, MutePublishedTrack, OnIceConnected,
                         OnTrackPublished, OnTrackUnpublished, EndParticipant
    <2>2. QED
      BY Zenon, <1>1, <1>2, <2>1, StartRest, TaskNames
  <1>5. QED
    BY Zenon, <1>3, <1>4

\* send_update puts no more than the capacity in the channel.
LEMMA HandlerRest ==
    ASSUME InfoShape, RestTypes, NEW t \in Handlers, HandlerStep(t)
    PROVE  RestTypes'
  <1>1. t \in Tasks /\ DOMAIN task = Tasks /\ DOMAIN task[t] = Parts
    BY Zenon, TaskNames DEF InfoShape, HandlerKnown, Parts
  <1>2. Employed(t)
    <2>1. CASE Return(t)
      BY Zenon, <1>1, <2>1, ReturnMoves DEF Employed, Ops
    <2>2. CASE \E s : Goto(t, s)
      BY Zenon, <1>1, <2>2, GotoMoves DEF Employed
    <2>3. CASE UpdateMetadata(t)
      <3>1. \/ Return(t)
            \/ \E s : \E d \in BOOLEAN :
                  task' = [task EXCEPT ![t].stage = s, ![t].changed = d]
        BY Zenon, <2>3 DEF UpdateMetadata
      <3>2. ASSUME NEW s, NEW d \in BOOLEAN,
                   task' = [task EXCEPT ![t].stage = s, ![t].changed = d]
            PROVE  Employed(t)
        BY Zenon, <1>1, <3>2 DEF Employed, Moved, Parts
      <3>3. QED
        BY Zenon, <2>1, <3>1, <3>2
    <2>4. CASE UpdatePermission(t)
      <3>1. task[t].changed \in BOOLEAN
        BY Zenon, <1>1 DEF RestTypes
      <3>2. QED
        BY Zenon, <1>1, <2>4, <3>1 DEF UpdatePermission, Employed, Moved, Parts
    <2>5. QED
      BY Zenon, <2>1, <2>2, <2>3, <2>4
         DEF HandlerStep, SetAttributes, SetTrackMuted, Disconnect, RemoveParticipant,
             Broadcast, AfterBroadcast, SendUpdate, Reply
  <1>3. UNCHANGED <<sink, overlap, requests>>
    BY Zenon DEF HandlerStep, UpdateMetadata, UpdatePermission, SetAttributes, SetTrackMuted,
                 Disconnect, RemoveParticipant, Broadcast, SendUpdate, Reply, observerVars,
                 historyVars
  <1>4. missed' \in BOOLEAN /\ silent' \in BOOLEAN
    BY Zenon DEF HandlerStep, UpdateMetadata, UpdatePermission, SetAttributes, SetTrackMuted,
                 Disconnect, RemoveParticipant, Broadcast, SendUpdate, Reply, observerVars,
                 historyVars, RestTypes
  <1>5. Len(queue') <= Capacity
    <2>1. \/ UNCHANGED queue
          \/ Len(queue) < Capacity /\ queue' = Append(queue, task[t].seen)
      BY Zenon DEF HandlerStep, UpdateMetadata, UpdatePermission, SetAttributes, SetTrackMuted,
                   Disconnect, RemoveParticipant, Broadcast, SendUpdate, Reply, observerVars
    <2>2. CASE UNCHANGED queue
      BY Zenon, <2>2 DEF RestTypes
    <2>3. CASE Len(queue) < Capacity /\ queue' = Append(queue, task[t].seen)
      <3>1. queue \in Seq(Info)
        BY Zenon DEF InfoShape, ObserverKnown
      <3>2. Len(queue') = Len(queue) + 1 /\ Len(queue) \in Nat
        BY <2>3, <3>1
      <3>3. QED
        BY <2>3, <3>2, InfoAssumption
    <2>4. QED
      BY Zenon, <2>1, <2>2, <2>3
  <1>6. QED
    BY Zenon, <1>1, <1>2, <1>3, <1>4, <1>5, EmployedTyped DEF RestTypes

\* The observer's channel begins empty, and its writer takes from it.
LEMMA ObserverRest ==
    ASSUME InfoShape, RestTypes, ObserverStep
    PROVE  RestTypes'
  <1>1. Observer \in Tasks /\ DOMAIN task = Tasks /\ DOMAIN task[Observer] = Parts
    BY Zenon, TaskNames DEF InfoShape, ObserverKnown, Parts
  <1>2. \A t \in Tasks : task'[t].op \in Ops /\ task'[t].changed \in BOOLEAN
    <2>1. CASE UNCHANGED task
      BY Zenon, <2>1 DEF RestTypes
    <2>2. CASE \E s : Goto(Observer, s)
      BY Zenon, <1>1, <2>2, GotoMoves, EmployedTyped DEF Employed
    <2>3. CASE \E s : task' = [task EXCEPT ![Observer] = Task(s, "list", None)]
      <3>1. Employed(Observer)
        <4>1. PICK s : task' = [task EXCEPT ![Observer] = Task(s, "list", None)]
          BY Zenon, <2>3
        <4>2. /\ Moved(Observer)
              /\ task'[Observer].op = "list" /\ task'[Observer].changed = FALSE
          BY Zenon, <1>1, <4>1 DEF Moved, Task
        <4>3. QED
          BY Zenon, <4>2 DEF Employed, Ops
      <3>2. QED
        BY Zenon, <1>1, <3>1, EmployedTyped
    <2>4. QED
      BY Zenon, <2>1, <2>2, <2>3
         DEF ObserverStep, Enter, BuildJoinResponse, List, FilterHidden, Resume, SetSignalSink,
             Deliver, LoseConnection
  <1>3. requests' \in 0 .. MaxRequests /\ overlap' \in BOOLEAN
    <2>1. UNCHANGED <<overlap, requests>> \/ Begin(Observer)
      BY Zenon DEF ObserverStep, Enter, BuildJoinResponse, List, FilterHidden, Resume,
                   SetSignalSink, Deliver, LoseConnection, historyVars
    <2>2. QED
      BY Zenon, <1>1, <2>1, BeginCounts DEF RestTypes
  <1>4. sink' \in {"none", "open", "dead"} /\ missed' \in BOOLEAN /\ silent' \in BOOLEAN
    BY Zenon DEF ObserverStep, Enter, BuildJoinResponse, List, FilterHidden, Resume,
                 SetSignalSink, Deliver, LoseConnection, observerVars, historyVars, RestTypes
  <1>5. Len(queue') <= Capacity
    <2>1. \/ UNCHANGED queue
          \/ queue' = <<>>
          \/ queue # <<>> /\ queue' = Tail(queue)
      BY Zenon DEF ObserverStep, Enter, BuildJoinResponse, List, FilterHidden, Resume,
                   SetSignalSink, Deliver, LoseConnection, observerVars
    <2>2. queue \in Seq(Info) /\ Len(queue) <= Capacity
      BY Zenon DEF InfoShape, ObserverKnown, RestTypes
    <2>3. CASE queue # <<>> /\ queue' = Tail(queue)
      BY <2>2, <2>3, InfoAssumption
    <2>4. CASE queue' = <<>>
      BY <2>4, InfoAssumption
    <2>5. QED
      BY Zenon, <2>1, <2>2, <2>3, <2>4
  <1>6. QED
    BY Zenon, <1>2, <1>3, <1>4, <1>5 DEF RestTypes

\* What is sent is a whole info, with every field and a version, and no channel
\* holds more than SIGNAL_CHANNEL_CAPACITY of them, whatever handlers overlap.
THEOREM InfoTypeCorrect == Spec => []TypeOK
  <1>1. Init => RestTypes
    <2> SUFFICES ASSUME Init PROVE RestTypes
      OBVIOUS
    <2>1. \A t \in Tasks : task[t].op \in Ops /\ task[t].changed \in BOOLEAN
      BY Zenon DEF Init, Task, Idle, Ops
    <2>2. Len(queue) <= Capacity /\ requests \in 0 .. MaxRequests
      BY InfoAssumption DEF Init
    <2>3. QED
      BY Zenon, <2>1, <2>2 DEF Init, RestTypes
  <1>2. InfoInv /\ RestTypes /\ [Next]_vars => RestTypes'
    <2> SUFFICES ASSUME InfoInv, RestTypes, [Next]_vars PROVE RestTypes'
      OBVIOUS
    <2>1. InfoShape
      BY Zenon DEF InfoInv
    <2>2. CASE UNCHANGED vars
      BY Zenon, <2>2 DEF RestTypes, vars, observerVars, historyVars
    <2>3. CASE Next
      BY Zenon, <2>1, <2>3, ReadRest, StartsRest, HandlerRest, ObserverRest DEF Next
    <2>4. QED
      BY Zenon, <2>2, <2>3
  <1>3. InfoInv /\ RestTypes => TypeOK
    <2> SUFFICES ASSUME InfoInv, RestTypes PROVE TypeOK
      OBVIOUS
    <2>1. ASSUME NEW t \in Tasks
          PROVE  /\ task[t].stage \in Stages
                 /\ task[t].stage \in {"broadcast", "send", "remove"} => task[t].seen \in Info
      <3>1. CASE t \in Handlers
        <4>1. HandlerKnown(t)
          BY Zenon, <3>1 DEF InfoInv, InfoShape
        <4>2. QED
          BY Zenon, <4>1 DEF HandlerKnown, Stages, Before, Telling, Stamped
      <3>2. CASE t = Observer
        <4>1. task[Observer].stage \in Watching
          BY Zenon DEF InfoInv, InfoShape, ObserverKnown
        <4>2. Watching \subseteq Stages /\ Watching \cap {"broadcast", "send", "remove"} = {}
          BY DEF Watching, Stages
        <4>3. QED
          BY Zenon, <3>2, <4>1, <4>2
      <3>3. QED
        BY Zenon, <3>1, <3>2, TaskNames
    <2>2. QED
      BY Zenon, <2>1 DEF InfoInv, InfoShape, ObserverKnown, FieldKnown, RestTypes, TypeOK
  <1>4. QED
    BY <1>1, <1>2, <1>3, InfoAlwaysSafe, PTL DEF Spec

-----------------------------------------------------------------------------
(* What the observer has *)

\* Who is settled has nobody left to tell.
LEMMA SettledShown ==
    ASSUME InfoInv, Settled, NEW f \in Announced
    PROVE  \/ ~present /\ f # "state"
           \/ ~present /\ task[Observer].seen = <<>>
           \/ \E i \in Told : i[f] = field[f]
  <1>1. \A t \in Handlers : ~WillTell(t)
    BY Zenon, TaskNames DEF Settled, Working, WillTell, Telling
  <1>2. task[Observer].stage = "connected" /\ ~missed /\ ~field.permission.hidden
    BY Zenon DEF Settled
  <1>3. QED
    BY Zenon, <1>1, <1>2 DEF InfoInv, InSight, WillShow

\* Each handler writes, then serializes, then lists the room, and a joiner enters
\* the room before its snapshot: for any number of handlers, any updates and any
\* capacity of the channel, once all are done an observer whose channel dropped
\* nothing has been told the current value of every field that is announced.
THEOREM CurrentValuesTold == Spec => []CurrentValueTold
  <1>1. InfoInv => CurrentValueTold
    BY Zenon, SettledShown DEF CurrentValueTold
  <1>2. QED
    BY <1>1, InfoAlwaysSafe, PTL

\* end_participant marks the participant disconnected before it serializes and
\* takes it out of the room before it broadcasts: an observer whose snapshot
\* shows the participant is told that it left.
THEOREM DeparturesTold == Spec => []DepartureTold
  <1>1. ASSUME InfoInv PROVE DepartureTold
    <2>1. ~present => field.state = Disconnected /\ "state" \in Announced
      BY <1>1, FieldNames DEF InfoInv, InfoShape, FieldKnown, Announced, Disconnected, Joined
    <2>2. QED
      BY Zenon, <1>1, <2>1, SettledShown DEF DepartureTold
  <1>2. QED
    BY <1>1, InfoAlwaysSafe, PTL

\* VersionCounter orders what one task at a time sends: the info with the highest
\* version is the current one.
THEOREM LatestAlwaysCurrent == Spec => []LatestIsCurrent
  <1>1. ASSUME InfoInv PROVE LatestIsCurrent
    <2>1. Settled => \A t \in Handlers : ~WillTell(t)
      BY Zenon, TaskNames DEF Settled, Working, WillTell, Telling
    <2>2. QED
      BY Zenon, <1>1, <2>1 DEF InfoInv, Alone, LatestKnown, LatestIsCurrent, Settled
  <1>2. QED
    BY <1>1, InfoAlwaysSafe, PTL

-----------------------------------------------------------------------------
(* TURN user names *)

\* The powers of two that the shifts need.
LEMMA Powers ==
    /\ 2^0 = 1 /\ 2^1 = 2 /\ 2^2 = 4 /\ 2^3 = 8 /\ 2^4 = 16
    /\ 2^5 = 32 /\ 2^6 = 64 /\ 2^7 = 128 /\ 2^8 = 256
  OBVIOUS

\* The byte and the shift that a position stands for.
LEMMA SixBitsAt ==
    ASSUME src \in Seq(Byte), NEW i \in 1 .. Len(src), NEW k \in 0 .. 7
    PROVE  SixBits(8 * i - k) = ((src[i] \div 2^k)
               + (IF k > 2 /\ i > 1 THEN src[i - 1] * 2^(8 - k) ELSE 0)) % 64
<1> DEFINE p == 8 * i - k
<1>1. i \in Int /\ k \in Int /\ Len(src) \in Nat
  OBVIOUS
<1>2. CASE k = 0
  <2>1. p % 8 = 0 /\ p \div 8 = i
    BY <1>1, <1>2
  <2> HIDE DEF p
  <2> QED
    BY <1>2, <2>1 DEF SixBits
<1>3. CASE k # 0
  <2>1. p % 8 = 8 - k /\ p \div 8 = i - 1
    BY <1>1, <1>3
  <2>2. 8 - (8 - k) = k /\ (i - 1) + 1 = i /\ (8 - k < 6 <=> k > 2) /\ 8 - k # 0
    BY <1>1
  <2> HIDE DEF p
  <2>3. SixBits(p) = ((src[i] \div 2^k)
               + (IF k > 2 /\ i > 1 THEN src[i - 1] * 2^(8 - k) ELSE 0)) % 64
    BY Zenon, <2>1, <2>2 DEF SixBits
  <2> QED
    BY <2>3 DEF p
<1> QED
  BY <1>2, <1>3

\* The digit of s bits that begins with the bit k of u, counted from its end, and
\* ends in the bits high of the byte before it.
Taken(u, high, k, s) == (((u \div 2^k) + high) % 64) % 2^s

High(v, k) == IF k > 2 THEN v * 2^(8 - k) ELSE 0

\* The five or six bits of a digit.
LEMMA DigitTaken ==
    ASSUME NEW b \in 0 .. 63, NEW s \in {5, 6}
    PROVE  (IF s = 5 THEN b % 32 ELSE b) = b % 2^s
<1>1. CASE s = 5
  BY <1>1, Powers
<1>2. CASE s = 6
  BY <1>2, Powers
<1> QED
  BY <1>1, <1>2

\* A round that completes a byte: k bits of the byte u were read before, and the
\* s bits of the digit are the rest of u and the end of the byte before it, v.
Completes(u, v, k, s) ==
    LET all == (u % 2^k) + Taken(u, High(v, k), k, s) * 2^k
    IN  all % 256 = u /\ all \div 256 = v % 2^(k + s - 8)

\* Every such round is one.
LEMMA ByteCompleted ==
    ASSUME NEW u \in 0 .. 255, NEW v \in 0 .. 255, NEW k \in 0 .. 7, NEW s \in {5, 6},
           k + s >= 8
    PROVE  Completes(u, v, k, s)
<1> USE DEF Completes, Taken, High
<1>1. CASE k = 2 /\ s = 6
  BY <1>1, Powers
<1>2. CASE k = 3 /\ s = 5
  BY <1>2, Powers
<1>3. CASE k = 3 /\ s = 6
  BY <1>3, Powers
<1>4. CASE k = 4 /\ s = 5
  BY <1>4, Powers
<1>5. CASE k = 4 /\ s = 6
  BY <1>5, Powers
<1>6. CASE k = 5 /\ s = 5
  BY <1>6, Powers
<1>7. CASE k = 5 /\ s = 6
  BY <1>7, Powers
<1>8. CASE k = 6 /\ s = 5
  BY <1>8, Powers
<1>9. CASE k = 6 /\ s = 6
  BY <1>9, Powers
<1>10. CASE k = 7 /\ s = 5
  BY <1>10, Powers
<1>11. CASE k = 7 /\ s = 6
  BY <1>11, Powers
<1> QED
  BY <1>1, <1>2, <1>3, <1>4, <1>5, <1>6, <1>7, <1>8, <1>9, <1>10, <1>11

\* A round that does not.
LEMMA ByteContinued ==
    ASSUME NEW u \in 0 .. 255, NEW k \in 0 .. 7, NEW s \in {5, 6}, k + s < 8
    PROVE  (u % 2^k) + Taken(u, 0, k, s) * 2^k = u % 2^(k + s)
<1> USE DEF Taken
<1>1. CASE k = 0 /\ s = 5
  BY <1>1, Powers
<1>2. CASE k = 0 /\ s = 6
  BY <1>2, Powers
<1>3. CASE k = 1 /\ s = 5
  BY <1>3, Powers
<1>4. CASE k = 1 /\ s = 6
  BY <1>4, Powers
<1>5. CASE k = 2 /\ s = 5
  BY <1>5, Powers
<1> QED
  BY <1>1, <1>2, <1>3, <1>4, <1>5

\* What bit_len computes.
LEMMA BitLenOf ==
    ASSUME NEW x \in 0 .. 63
    PROVE  /\ BitLen(x) \in 0 .. 6
           /\ BitLen(x) = 6 => x >= 32
           /\ BitLen(x) = 5 => x >= 16
           /\ BitLen(x) = 4 => x >= 8
           /\ BitLen(x) = 3 => x >= 4
           /\ BitLen(x) = 2 => x >= 2
<1> DEFINE Fits(n) == x < 2^n /\ (n = 0 \/ x >= 2^(n - 1))
<1>1. Fits(0) \/ Fits(1) \/ Fits(2) \/ Fits(3) \/ Fits(4) \/ Fits(5) \/ Fits(6)
  BY Powers
<1>2. /\ Fits(6) => x >= 32
      /\ Fits(5) => x >= 16
      /\ Fits(4) => x >= 8
      /\ Fits(3) => x >= 4
      /\ Fits(2) => x >= 2
  BY Powers
<1>3. BitLen(x) = CHOOSE n \in 0 .. 6 : Fits(n)
  BY Zenon DEF BitLen
<1> HIDE DEF Fits
<1>4. \E n \in 0 .. 6 : Fits(n)
  BY <1>1
<1>5. BitLen(x) \in 0 .. 6 /\ Fits(BitLen(x))
  BY Zenon, <1>3, <1>4
<1> QED
  BY Zenon, <1>2, <1>5

\* The last round: the digit is what is left of the first byte, u, and counts for no
\* more bits than there are.
LEMMA ByteLast ==
    ASSUME NEW u \in 0 .. 255, NEW k \in 2 .. 7, NEW x, x = (u \div 2^k) % 64
    PROVE  /\ (u % 2^k) + x * 2^k = u
           /\ BitLen(x) \in 0 .. 8 - k
<1>1. x \in 0 .. 63 /\ x < 2^(8 - k) /\ (u % 2^k) + x * 2^k = u
  <2>1. CASE k = 2
    BY <2>1, Powers
  <2>2. CASE k = 3
    BY <2>2, Powers
  <2>3. CASE k = 4
    BY <2>3, Powers
  <2>4. CASE k = 5
    BY <2>4, Powers
  <2>5. CASE k = 6
    BY <2>5, Powers
  <2>6. CASE k = 7
    BY <2>6, Powers
  <2> QED
    BY <2>1, <2>2, <2>3, <2>4, <2>5, <2>6
<1> DEFINE n == BitLen(x)
<1>2. /\ n \in 0 .. 6
      /\ n = 6 => x >= 32
      /\ n = 5 => x >= 16
      /\ n = 4 => x >= 8
      /\ n = 3 => x >= 4
      /\ n = 2 => x >= 2
  BY Zenon, <1>1, BitLenOf
<1> HIDE DEF n
<1>3. n <= 8 - k
  <2>1. CASE k = 2
    BY <1>2, <2>1
  <2>2. CASE k = 3
    BY <1>1, <1>2, <2>2, Powers
  <2>3. CASE k = 4
    BY <1>1, <1>2, <2>3, Powers
  <2>4. CASE k = 5
    BY <1>1, <1>2, <2>4, Powers
  <2>5. CASE k = 6
    BY <1>1, <1>2, <2>5, Powers
  <2>6. CASE k = 7
    BY <1>1, <1>2, <2>6, Powers
  <2> QED
    BY <2>1, <2>2, <2>3, <2>4, <2>5, <2>6
<1>4. n \in 0 .. 8 - k
  BY <1>2, <1>3
<1> QED
  BY Zenon, <1>1, <1>4 DEF n

\* The decoder counts the bits of a digit that is not the last one as the encoder
\* did, and the last digit is all that was left.
LEMMA SizeFound ==
    ASSUME NEW b \in 0 .. 63, NEW p \in Int, p > 0, p < 6 => b < 32
    PROVE  /\ Size(b, p) \in {5, 6}
           /\ p - Size(b, p) > 0 =>
                 /\ Size(b, p) = IF Compact(Digit(b)) THEN 5 ELSE 6
                 /\ Digit(b) = IF Size(b, p) = 5 THEN b % 32 ELSE b
           /\ p - Size(b, p) <= 0 => p <= 6 /\ Digit(b) = b
<1> DEFINE s == Size(b, p)
           x == Digit(b)
<1>1. Compact(b % 32) <=> Compact(b)
  BY DEF Compact
<1>2. Compact(x) <=> Compact(b)
  BY Zenon, <1>1 DEF Digit
<1>3. CASE ~Compact(b)
  <2>1. s = 6 /\ x = b /\ ~Compact(x)
    BY Zenon, <1>2, <1>3 DEF Size, Digit
  <2> HIDE DEF s, x
  <2>2. s # 5 /\ (p - s <= 0 => p <= 6)
    BY <2>1
  <2> QED
    BY Zenon, <2>1, <2>2 DEF s, x
<1>4. CASE Compact(b) /\ (p > 6 \/ b > 31)
  <2>1. s = 5 /\ x = b % 32 /\ Compact(x)
    BY Zenon, <1>2, <1>4 DEF Size, Digit
  <2>2. p > 5
    BY <1>4
  <2> HIDE DEF s, x
  <2>3. s = 5 /\ ~(p - s <= 0)
    BY <2>1, <2>2
  <2> QED
    BY Zenon, <2>1, <2>3 DEF s, x
<1>5. CASE Compact(b) /\ p <= 6 /\ b <= 31
  <2>1. ~(p > 6 \/ b > 31) /\ b % 32 = b
    BY <1>5
  <2>2. s = 6 /\ x = b % 32
    BY Zenon, <1>5, <2>1 DEF Size, Digit
  <2> HIDE DEF s, x
  <2>3. s = 6 /\ ~(p - s > 0)
    BY <1>5, <2>2
  <2> QED
    BY Zenon, <1>5, <2>1, <2>2, <2>3 DEF s, x
<1>6. (p <= 6 /\ b <= 31) \/ p > 6 \/ b > 31
  OBVIOUS
<1> QED
  BY Zenon, <1>3, <1>4, <1>5, <1>6

-----------------------------------------------------------------------------

\* The position f[j] of the encoder after its j-th round, for every round.
Rounds ==
    {f \in [0 .. Len(digits) -> Int] :
        /\ f[0] = 8 * Len(src)
        /\ \A j \in 1 .. Len(digits) :
              /\ f[j - 1] > 0
              /\ digits[j] = Digit(SixBits(f[j - 1]))
              /\ f[j] = f[j - 1] - Size(SixBits(f[j - 1]), f[j - 1])}

\* The decoder has written the last bytes of src.
EndWritten ==
    /\ dst \in Seq(Byte) /\ Len(dst) <= Len(src)
    /\ \A m \in 1 .. Len(dst) : dst[m] = src[Len(src) - Len(dst) + m]

\* Between two rounds the decoder is where the encoder was, at p, and holds the bits
\* of the byte before the ones written that end there.
Between(p) ==
    LET i == Len(src) - Len(dst)
    IN  /\ i > 0
        /\ bits \in 0 .. 7
        /\ p = 8 * i - bits
        /\ acc = src[i] % 2^bits

\* After the last round the first byte is written or all there is in acc.
AllRead ==
    \/ bits = 0 /\ Len(dst) = Len(src)
    \/ bits \in 1 .. 7 /\ Len(dst) + 1 = Len(src) /\ acc = src[1]

Encoding ==
    /\ pos \in Int /\ pos <= 8 * Len(src)
    /\ 6 * Len(digits) >= 8 * Len(src) - pos
    /\ \E f \in Rounds : f[Len(digits)] = pos
    /\ at = 0 /\ bits = 0 /\ acc = 0 /\ idx = 0 /\ dst = <<>>

Decoding ==
    /\ 6 * Len(digits) >= 8 * Len(src)
    /\ EndWritten
    /\ idx = ((Len(digits) * 6) \div 8) + 1 - Len(dst)
    /\ at \in 0 .. Len(digits)
    /\ \E f \in Rounds :
          /\ f[Len(digits)] <= 0
          /\ IF at < Len(digits) THEN Between(f[at]) ELSE AllRead

\* The inductive invariant.
Base62Inv ==
    /\ src \in Seq(Byte) /\ digits \in Seq(Int)
    /\ codec \in {"encode", "decode", "done"}
    /\ codec = "encode" => Encoding
    /\ codec = "decode" => Decoding
    /\ codec = "done" => idx >= 0 /\ dst = src

\* Six bits of two bytes.
LEMMA BitsOfTwo ==
    ASSUME NEW u \in 0 .. 255, NEW v \in 0 .. 255, NEW k \in 0 .. 7
    PROVE  ((u \div 2^k) + v * 2^(8 - k)) % 64 \in 0 .. 63
<1>1. CASE k = 0
  BY <1>1, Powers
<1>2. CASE k = 1
  BY <1>2, Powers
<1>3. CASE k = 2
  BY <1>3, Powers
<1>4. CASE k = 3
  BY <1>4, Powers
<1>5. CASE k = 4
  BY <1>5, Powers
<1>6. CASE k = 5
  BY <1>6, Powers
<1>7. CASE k = 6
  BY <1>7, Powers
<1>8. CASE k = 7
  BY <1>8, Powers
<1> QED
  BY <1>1, <1>2, <1>3, <1>4, <1>5, <1>6, <1>7, <1>8

\* Six bits of one byte.
LEMMA BitsOfOne ==
    ASSUME NEW u \in 0 .. 255, NEW k \in 0 .. 7
    PROVE  /\ ((u \div 2^k) + 0) % 64 \in 0 .. 63
           /\ ((u \div 2^k) + 0) % 64 = (u \div 2^k) % 64
           /\ k > 2 => ((u \div 2^k) + 0) % 64 < 32
<1>1. CASE k = 0
  BY <1>1, Powers
<1>2. CASE k = 1
  BY <1>2, Powers
<1>3. CASE k = 2
  BY <1>3, Powers
<1>4. CASE k = 3
  BY <1>4, Powers
<1>5. CASE k = 4
  BY <1>5, Powers
<1>6. CASE k = 5
  BY <1>6, Powers
<1>7. CASE k = 6
  BY <1>7, Powers
<1>8. CASE k = 7
  BY <1>8, Powers
<1> QED
  BY <1>1, <1>2, <1>3, <1>4, <1>5, <1>6, <1>7, <1>8

\* Six bits, and no more than there are at the start of src.
LEMMA SixBitsRange ==
    ASSUME src \in Seq(Byte), NEW i \in 1 .. Len(src), NEW k \in 0 .. 7
    PROVE  /\ SixBits(8 * i - k) \in 0 .. 63
           /\ 8 * i - k < 6 => SixBits(8 * i - k) < 32
<1>1. src[i] \in 0 .. 255 /\ (i > 1 => src[i - 1] \in 0 .. 255)
  <2>1. src \in [1 .. Len(src) -> Byte] /\ Len(src) \in Nat
    OBVIOUS
  <2>2. i > 1 => i - 1 \in 1 .. Len(src)
    BY <2>1
  <2> QED
    BY Zenon, <2>1, <2>2 DEF Byte
<1>2. 8 * i - k < 6 => k > 2 /\ ~(i > 1)
  OBVIOUS
<1>3. CASE k > 2 /\ i > 1
  <2>1. SixBits(8 * i - k) = ((src[i] \div 2^k) + src[i - 1] * 2^(8 - k)) % 64
    BY Zenon, <1>3, SixBitsAt
  <2> QED
    BY ZenonT(30), <1>1, <1>2, <1>3, <2>1, BitsOfTwo
<1>4. CASE ~(k > 2 /\ i > 1)
  <2>1. SixBits(8 * i - k) = ((src[i] \div 2^k) + 0) % 64
    BY Zenon, <1>4, SixBitsAt
  <2> QED
    BY ZenonT(30), <1>1, <1>2, <2>1, BitsOfOne
<1> QED
  BY Zenon, <1>3, <1>4

\* The bits of a round that are left for the next byte.
LEMMA BitsCarried ==
    ASSUME NEW k \in 0 .. 7, NEW s \in {5, 6}, k + s >= 8
    PROVE  ~(k + s < 8) /\ (k + s) % 8 = k + s - 8 /\ k + s - 8 \in 0 .. 7
  OBVIOUS

\* The last byte may be complete.
LEMMA BitsComplete ==
    ASSUME NEW u \in Byte, NEW k \in 2 .. 7, NEW n \in 0 .. 8 - k, k + n >= 8
    PROVE  ~(k + n < 8) /\ (k + n) % 8 = 0 /\ u % 256 = u
<1>1. k + n = 8 /\ u \in 0 .. 255
  BY DEF Byte
<1> QED
  BY <1>1

\* The bytes of src.
LEMMA ByteOfSource ==
    ASSUME src \in Seq(Byte), NEW i \in 1 .. Len(src)
    PROVE  src[i] \in Byte
  OBVIOUS

\* A byte has no bits below the first one, and none above the eighth.
LEMMA ByteFits ==
    ASSUME NEW u \in Byte
    PROVE  u % 2^0 = 0 /\ u % 256 = u
  BY Powers DEF Byte

\* When as many bytes are written as src has, they are those of src.
LEMMA WholeWritten ==
    ASSUME NEW s \in Seq(Byte), NEW d \in Seq(Byte), Len(d) = Len(s),
           \A m \in 1 .. Len(d) : d[m] = s[Len(s) - Len(d) + m]
    PROVE  d = s
<1>1. Len(s) \in Nat
  OBVIOUS
<1>2. \A m \in 1 .. Len(s) : Len(s) - Len(d) + m = m
  BY <1>1
<1>3. \A m \in 1 .. Len(s) : d[m] = s[m]
  BY Zenon, <1>2
<1> QED
  BY <1>1, <1>3

\* Writing the byte before the ones written.
LEMMA BytePrepended ==
    ASSUME src \in Seq(Byte), EndWritten, Len(dst) < Len(src),
           dst' = <<src[Len(src) - Len(dst)]>> \o dst, src' = src
    PROVE  EndWritten' /\ Len(dst') = Len(dst) + 1
<1> DEFINE L == Len(src)
           w == Len(dst)
           u == src[L - w]
<1>1. /\ dst \in Seq(Byte) /\ w \in Nat /\ L \in Nat /\ w < L
      /\ \A m \in 1 .. w : dst[m] = src[L - w + m]
  BY DEF EndWritten
<1>2. u \in Byte
  BY <1>1
<1> HIDE DEF u
<1>3. /\ dst' \in Seq(Byte) /\ Len(dst') = w + 1
      /\ dst'[1] = u /\ \A m \in 2 .. w + 1 : dst'[m] = dst[m - 1]
  <2>1. dst' = <<u>> \o dst
    BY Zenon DEF u
  <2> QED
    BY <1>1, <1>2, <2>1
<1>4. ASSUME NEW m \in 1 .. w + 1 PROVE dst'[m] = src[L - (w + 1) + m]
  <2>1. CASE m = 1
    <3>1. L - (w + 1) + m = L - w
      BY <1>1, <2>1
    <3> QED
      BY Zenon, <1>3, <2>1, <3>1 DEF u
  <2>2. CASE m # 1
    <3>1. m - 1 \in 1 .. w /\ m \in 2 .. w + 1 /\ L - w + (m - 1) = L - (w + 1) + m
      BY <1>1, <2>2
    <3>2. dst[m - 1] = src[L - w + (m - 1)]
      BY Zenon, <1>1, <3>1
    <3>3. dst'[m] = dst[m - 1]
      BY Zenon, <1>3, <3>1
    <3> QED
      BY Zenon, <3>1, <3>2, <3>3
  <2> QED
    BY Zenon, <2>1, <2>2
<1>5. w + 1 <= L
  BY <1>1
<1> QED
  BY Zenon, <1>3, <1>4, <1>5 DEF EndWritten

\* What a round of the decoder starts from.
LEMMA RoundBegins ==
    ASSUME src \in Seq(Byte), digits \in Seq(Int),
           at \in 0 .. Len(digits), at < Len(digits), EndWritten,
           NEW f \in Rounds, Between(f[at])
    PROVE  LET i == Len(src) - Len(dst)
               p == f[at]
               b == SixBits(p)
           IN  /\ i \in 1 .. Len(src) /\ bits \in 0 .. 7 /\ p = 8 * i - bits
               /\ acc = src[i] % 2^bits
               /\ digits[at + 1] = Digit(b) /\ f[at + 1] = p - Size(b, p)
               /\ p \in Int /\ p > 0
               /\ b \in 0 .. 63 /\ (p < 6 => b < 32)
               /\ at + 1 < Len(digits) => f[at + 1] > 0
<1> DEFINE i == Len(src) - Len(dst)
           p == f[at]
           b == SixBits(p)
<1>1. Len(src) \in Nat /\ Len(dst) \in Nat /\ Len(digits) \in Nat /\ at \in Nat
  BY DEF EndWritten
<1>2. i > 0 /\ bits \in 0 .. 7 /\ p = 8 * i - bits /\ acc = src[i] % 2^bits
  BY Zenon DEF Between
<1>3. i \in 1 .. Len(src) /\ bits \in Int
  BY <1>1, <1>2
<1>4. at + 1 \in 1 .. Len(digits) /\ (at + 1) - 1 = at
      /\ (at + 1 < Len(digits) => at + 2 \in 1 .. Len(digits) /\ (at + 2) - 1 = at + 1)
  BY <1>1
<1>5. /\ p > 0 /\ digits[at + 1] = Digit(b) /\ f[at + 1] = p - Size(b, p)
      /\ at + 1 < Len(digits) => f[at + 1] > 0
  BY Zenon, <1>4 DEF Rounds
<1>6. SixBits(8 * i - bits) \in 0 .. 63
      /\ (8 * i - bits < 6 => SixBits(8 * i - bits) < 32)
  BY Zenon, <1>2, <1>3, SixBitsRange
<1>7. b \in 0 .. 63 /\ (p < 6 => b < 32)
  BY Zenon, <1>2, <1>6
<1>8. p \in Int
  BY <1>2, <1>3
<1> QED
  BY Zenon, <1>2, <1>3, <1>5, <1>7, <1>8

\* A round of the decoder that is not the last one ends where the encoder's did.
LEMMA InnerRound ==
    ASSUME src \in Seq(Byte), digits \in Seq(Int),
           at \in 0 .. Len(digits), at + 1 < Len(digits), EndWritten,
           NEW f \in Rounds, Between(f[at]), DecodeDigit,
           idx \in Int, NEW q, q = f[at + 1]
    PROVE  /\ EndWritten' /\ Between(q)'
           /\ idx' = idx - (Len(dst') - Len(dst))
<1> DEFINE i == Len(src) - Len(dst)
           p == f[at]
           b == SixBits(p)
           s == Size(b, p)
           x == digits[at + 1]
           u == src[i]
           v == src[i - 1]
           k == bits
           all == acc + x * 2^k
<1>1. at < Len(digits) /\ ~(at + 1 = Len(digits)) /\ Len(dst) \in Nat /\ Len(src) \in Nat
  BY DEF EndWritten
<1>2. /\ i \in 1 .. Len(src) /\ k \in 0 .. 7 /\ p = 8 * i - k /\ acc = u % 2^k
      /\ x = Digit(b) /\ f[at + 1] = p - s /\ p \in Int /\ p > 0
      /\ b \in 0 .. 63 /\ (p < 6 => b < 32) /\ f[at + 1] > 0
  BY Zenon, <1>1, RoundBegins
<1>3. s \in {5, 6} /\ p - s > 0
      /\ s = (IF Compact(x) THEN 5 ELSE 6) /\ x = IF s = 5 THEN b % 32 ELSE b
  BY Zenon, <1>2, SizeFound
<1>4. b = ((u \div 2^k) + (IF k > 2 /\ i > 1 THEN v * 2^(8 - k) ELSE 0)) % 64
  BY Zenon, <1>2, SixBitsAt
<1>5. x = b % 2^s
  BY Zenon, <1>2, <1>3, DigitTaken
<1>6. src' = src /\ digits' = digits
      /\ \/ /\ k + s >= 8
            /\ idx' = idx - 1 /\ dst' = <<all % 256>> \o dst
            /\ bits' = (k + s) % 8 /\ acc' = all \div 256
         \/ k + s < 8 /\ bits' = k + s /\ acc' = all /\ UNCHANGED <<idx, dst>>
  BY Zenon, <1>1, <1>3 DEF DecodeDigit, DigitBits
<1>7. u \in Byte /\ (i > 1 => v \in Byte)
  BY <1>2
<1> HIDE DEF i, p, b, s, x, u, v, all
<1>8. CASE k + s >= 8
  <2>1. i > 1
    BY <1>2, <1>3, <1>8
  <2>2. x = Taken(u, High(v, k), k, s)
    BY Zenon, <1>4, <1>5, <2>1 DEF Taken, High
  <2>3. all % 256 = u /\ all \div 256 = v % 2^(k + s - 8)
    <3>1. all = (u % 2^k) + Taken(u, High(v, k), k, s) * 2^k
      BY Zenon, <1>2, <2>2 DEF all
    <3>2. u \in 0 .. 255 /\ v \in 0 .. 255 /\ k \in 0 .. 7 /\ s \in {5, 6}
      BY Zenon, <1>2, <1>3, <1>7, <2>1 DEF Byte
    <3>3. Completes(u, v, k, s)
      BY Zenon, <1>8, <3>2, ByteCompleted
    <3> QED
      BY Zenon, <3>1, <3>3 DEF Completes
  <2>4. ~(k + s < 8) /\ (k + s) % 8 = k + s - 8 /\ k + s - 8 \in 0 .. 7
    BY Zenon, <1>2, <1>3, <1>8, BitsCarried
  <2>5. idx' = idx - 1 /\ dst' = <<u>> \o dst /\ bits' = k + s - 8
        /\ acc' = v % 2^(k + s - 8)
    BY Zenon, <1>6, <2>3, <2>4
  <2>6. Len(dst) < Len(src)
    BY <1>1, <1>2 DEF i
  <2>7. EndWritten' /\ Len(dst') = Len(dst) + 1
    BY Zenon, <1>6, <2>5, <2>6, BytePrepended DEF u, i
  <2>8. Len(src) - (Len(dst) + 1) = i - 1 /\ i - 1 > 0
        /\ p - s = 8 * (i - 1) - (k + s - 8) /\ idx - 1 = idx - ((Len(dst) + 1) - Len(dst))
    BY <1>1, <1>2, <1>3, <2>1 DEF i
  <2>9. Between(q)'
    BY Zenon, <1>2, <1>6, <2>4, <2>5, <2>7, <2>8 DEF Between, v
  <2> QED
    BY Zenon, <2>5, <2>7, <2>8, <2>9
<1>9. CASE k + s < 8
  <2>1. ~(k > 2 /\ i > 1) /\ ~(k + s >= 8) /\ k + s \in 0 .. 7
    BY <1>2, <1>3, <1>9
  <2>2. x = Taken(u, 0, k, s)
    BY Zenon, <1>4, <1>5, <2>1 DEF Taken
  <2>3. all = u % 2^(k + s)
    <3>1. all = (u % 2^k) + Taken(u, 0, k, s) * 2^k
      BY Zenon, <1>2, <2>2 DEF all
    <3>2. u \in 0 .. 255 /\ k \in 0 .. 7 /\ s \in {5, 6}
      BY Zenon, <1>2, <1>3, <1>7 DEF Byte
    <3> QED
      BY Zenon, <1>9, <3>1, <3>2, ByteContinued
  <2>4. bits' = k + s /\ acc' = u % 2^(k + s) /\ dst' = dst /\ idx' = idx
    BY Zenon, <1>6, <2>1, <2>3
  <2>5. p - s = 8 * i - (k + s) /\ i > 0
    BY <1>2, <1>3
  <2>6. Between(q)'
    BY Zenon, <1>2, <1>6, <2>1, <2>4, <2>5 DEF Between, i, u
  <2>7. EndWritten'
    BY Zenon, <1>6, <2>4 DEF EndWritten
  <2>8. idx' = idx - (Len(dst') - Len(dst))
    BY <1>1, <2>4
  <2> QED
    BY Zenon, <2>6, <2>7, <2>8
<1>10. k + s >= 8 \/ k + s < 8
  BY <1>2, <1>3
<1> QED
  BY Zenon, <1>8, <1>9, <1>10

\* The last round of the decoder leaves nothing unread.
LEMMA LastRound ==
    ASSUME src \in Seq(Byte), digits \in Seq(Int),
           at \in 0 .. Len(digits), at + 1 = Len(digits), EndWritten,
           NEW f \in Rounds, Between(f[at]), f[Len(digits)] <= 0, DecodeDigit, idx \in Int
    PROVE  /\ EndWritten' /\ AllRead'
           /\ idx' = idx - (Len(dst') - Len(dst))
<1> DEFINE i == Len(src) - Len(dst)
           p == f[at]
           b == SixBits(p)
           s == Size(b, p)
           x == digits[at + 1]
           u == src[i]
           k == bits
           n == BitLen(x)
           all == acc + x * 2^k
<1>1. at < Len(digits) /\ Len(dst) \in Nat /\ Len(src) \in Nat
  BY DEF EndWritten
<1>2. /\ i \in 1 .. Len(src) /\ k \in 0 .. 7 /\ p = 8 * i - k /\ acc = u % 2^k
      /\ x = Digit(b) /\ f[at + 1] = p - s /\ p \in Int /\ p > 0
      /\ b \in 0 .. 63 /\ (p < 6 => b < 32)
  BY Zenon, <1>1, RoundBegins
<1>3. p - s <= 0
  BY Zenon, <1>2
<1>4. p <= 6 /\ x = b
  BY Zenon, <1>2, <1>3, SizeFound
<1>5. b = ((u \div 2^k) + (IF k > 2 /\ i > 1 THEN src[i - 1] * 2^(8 - k) ELSE 0)) % 64
  BY Zenon, <1>2, SixBitsAt
<1>6. src' = src /\ digits' = digits
      /\ \/ /\ k + n >= 8
            /\ idx' = idx - 1 /\ dst' = <<all % 256>> \o dst
            /\ bits' = (k + n) % 8 /\ acc' = all \div 256
         \/ k + n < 8 /\ bits' = k + n /\ acc' = all /\ UNCHANGED <<idx, dst>>
  BY Zenon DEF DecodeDigit, DigitBits
<1>7. u \in Byte
  BY <1>2
<1> HIDE DEF p, b, s, x, u, n, all
<1>8. i = 1 /\ k \in 2 .. 7
  BY <1>2, <1>4
<1>9. all = u /\ n \in 0 .. 8 - k
  <2>1. ~(k > 2 /\ i > 1)
    BY <1>8
  <2>2. x = ((u \div 2^k) + 0) % 64
    BY Zenon, <1>4, <1>5, <2>1
  <2>3. u \in 0 .. 255
    BY Zenon, <1>7 DEF Byte
  <2>4. x = (u \div 2^k) % 64
    BY Zenon, <1>2, <2>2, <2>3, BitsOfOne
  <2>5. (u % 2^k) + x * 2^k = u /\ BitLen(x) \in 0 .. 8 - k
    BY Zenon, <1>8, <2>3, <2>4, ByteLast
  <2> QED
    BY Zenon, <1>2, <2>5 DEF all, n
<1>10. u = src[1] /\ Len(dst) + 1 = Len(src) /\ Len(dst) < Len(src)
  BY <1>1, <1>8 DEF u
<1>11. CASE k + n >= 8
  <2>1. ~(k + n < 8) /\ (k + n) % 8 = 0 /\ u % 256 = u
    BY Zenon, <1>7, <1>8, <1>9, <1>11, BitsComplete
  <2>2. idx' = idx - 1 /\ dst' = <<u>> \o dst /\ bits' = 0
    BY Zenon, <1>6, <1>9, <2>1
  <2>3. EndWritten' /\ Len(dst') = Len(dst) + 1
    BY Zenon, <1>6, <1>10, <2>2, BytePrepended DEF u
  <2>4. AllRead'
    BY Zenon, <1>6, <1>10, <2>2, <2>3 DEF AllRead
  <2>5. idx' = idx - (Len(dst') - Len(dst))
    BY <1>1, <2>2, <2>3
  <2> QED
    BY Zenon, <2>3, <2>4, <2>5
<1>12. CASE k + n < 8
  <2>1. ~(k + n >= 8) /\ k + n \in 1 .. 7
    BY <1>8, <1>9, <1>12
  <2>2. bits' = k + n /\ acc' = u /\ dst' = dst /\ idx' = idx
    BY Zenon, <1>6, <1>9, <2>1
  <2>3. EndWritten'
    BY Zenon, <1>6, <2>2 DEF EndWritten
  <2>4. AllRead'
    BY Zenon, <1>6, <1>10, <2>1, <2>2 DEF AllRead
  <2>5. idx' = idx - (Len(dst') - Len(dst))
    BY <1>1, <2>2
  <2> QED
    BY Zenon, <2>3, <2>4, <2>5
<1>13. k + n >= 8 \/ k + n < 8
  BY <1>8, <1>9
<1> QED
  BY Zenon, <1>11, <1>12, <1>13

\* A position is in some byte.
LEMMA PositionSplit ==
    ASSUME NEW n \in Nat, NEW p \in Int, 0 < p, p <= 8 * n
    PROVE  \E i \in 1 .. n, k \in 0 .. 7 : p = 8 * i - k
<1> DEFINE i == ((p + 7) \div 8)
           k == 8 * i - p
<1>1. i \in 1 .. n /\ k \in 0 .. 7 /\ p = 8 * i - k
  OBVIOUS
<1> QED
  BY Zenon, <1>1

\* A round of the encoder is recorded.
LEMMA EncodeStep ==
    ASSUME Base62Inv, EncodeDigit
    PROVE  Base62Inv'
<1> DEFINE b == SixBits(pos)
           s == Size(b, pos)
           n == Len(digits)
<1>1. /\ src \in Seq(Byte) /\ digits \in Seq(Int) /\ Encoding /\ codec = "encode"
      /\ pos > 0 /\ digits' = Append(digits, Digit(b)) /\ pos' = pos - s
      /\ UNCHANGED <<src, codec, at, bits, acc, idx, dst>>
  BY Zenon DEF Base62Inv, EncodeDigit
<1>2. pos \in Int /\ 6 * n >= 8 * Len(src) - pos /\ n \in Nat /\ Len(src) \in Nat
  BY <1>1 DEF Encoding
<1>3. PICK f \in Rounds : f[n] = pos
  BY Zenon, <1>1 DEF Encoding
<1>4. pos <= 8 * Len(src)
  BY Zenon, <1>1 DEF Base62Inv, Encoding
<1>5. b \in Int
  <2>1. PICK i \in 1 .. Len(src), k \in 0 .. 7 : pos = 8 * i - k
    BY <1>1, <1>2, <1>4, PositionSplit
  <2>2. SixBits(8 * i - k) \in 0 .. 63
    BY Zenon, <1>1, SixBitsRange
  <2>3. b \in 0 .. 63
    BY Zenon, <2>1, <2>2
  <2> HIDE DEF b
  <2> QED
    BY <2>3
<1>6. s \in {5, 6} /\ Digit(b) \in Int
  <2> HIDE DEF b
  <2> QED
    BY <1>5 DEF Size, Digit
<1> HIDE DEF b, s
<1>7. digits' \in Seq(Int) /\ Len(digits') = n + 1 /\ digits'[n + 1] = Digit(b)
      /\ \A j \in 1 .. n : digits'[j] = digits[j]
  BY <1>1, <1>6
<1> DEFINE g == [j \in 0 .. n + 1 |-> IF j = n + 1 THEN pos' ELSE f[j]]
<1>8. g \in Rounds'
  <2>1. /\ f \in [0 .. n -> Int] /\ f[0] = 8 * Len(src)
        /\ \A j \in 1 .. n :
              /\ f[j - 1] > 0
              /\ digits[j] = Digit(SixBits(f[j - 1]))
              /\ f[j] = f[j - 1] - Size(SixBits(f[j - 1]), f[j - 1])
    BY Zenon DEF Rounds
  <2>2. /\ \A j \in 0 .. n : j \in 0 .. n + 1 /\ j # n + 1
        /\ \A j \in 1 .. n : j \in 0 .. n /\ j - 1 \in 0 .. n
        /\ \A j \in 0 .. n + 1 : j # n + 1 => j \in 0 .. n
        /\ \A j \in 1 .. n + 1 : j # n + 1 => j \in 1 .. n
        /\ n + 1 \in 0 .. n + 1 /\ (n + 1) - 1 = n /\ n \in 0 .. n /\ 0 \in 0 .. n
    BY <1>2
  <2>3. g[n + 1] = pos' /\ \A j \in 0 .. n : g[j] = f[j]
    BY Zenon, <2>2
  <2>4. pos' \in Int
    BY <1>1, <1>2, <1>6
  <2>5. g \in [0 .. n + 1 -> Int]
    BY Zenon, <2>1, <2>2, <2>4
  <2> HIDE DEF g
  <2>6. \A p : SixBits(p)' = SixBits(p)
    BY Zenon, <1>1 DEF SixBits
  <2>7. ASSUME NEW j \in 1 .. n + 1
        PROVE  /\ g[j - 1] > 0
               /\ digits'[j] = Digit(SixBits(g[j - 1]))
               /\ g[j] = g[j - 1] - Size(SixBits(g[j - 1]), g[j - 1])
    <3>1. CASE j = n + 1
      BY Zenon, <1>1, <1>3, <1>7, <2>2, <2>3, <3>1 DEF b, s
    <3>2. CASE j # n + 1
      BY Zenon, <1>7, <2>1, <2>2, <2>3, <3>2
    <3> QED
      BY Zenon, <3>1, <3>2
  <2>8. g[0] = 8 * Len(src)
    BY Zenon, <2>1, <2>2, <2>3
  <2> QED
    BY Zenon, <1>1, <1>7, <2>5, <2>6, <2>7, <2>8 DEF Rounds
<1>9. g[n + 1] = pos'
  BY <1>2
<1>10. pos' \in Int /\ pos' <= 8 * Len(src) /\ 6 * (n + 1) >= 8 * Len(src) - pos'
  BY <1>1, <1>2, <1>4, <1>6
<1> HIDE DEF g
<1>11. Encoding'
  BY Zenon, <1>1, <1>7, <1>8, <1>9, <1>10 DEF Encoding
<1> QED
  BY Zenon, <1>1, <1>7, <1>11 DEF Base62Inv

\* The decoder leaves the rounds of the encoder as they were.
LEMMA RoundsKept ==
    ASSUME UNCHANGED <<src, digits>>, NEW f \in Rounds
    PROVE  f \in Rounds'
<1>1. \A p : SixBits(p)' = SixBits(p)
  BY Zenon DEF SixBits
<1>2. /\ f \in [0 .. Len(digits) -> Int] /\ f[0] = 8 * Len(src)
      /\ \A j \in 1 .. Len(digits) :
            /\ f[j - 1] > 0
            /\ digits[j] = Digit(SixBits(f[j - 1]))
            /\ f[j] = f[j - 1] - Size(SixBits(f[j - 1]), f[j - 1])
  BY Zenon DEF Rounds
<1> QED
  BY Zenon, <1>1, <1>2 DEF Rounds

\* The decoder starts where the encoder started.
LEMMA BeginStep ==
    ASSUME Base62Inv, BeginDecode
    PROVE  Base62Inv'
<1> DEFINE n == Len(digits)
           L == Len(src)
<1>1. /\ src \in Seq(Byte) /\ digits \in Seq(Int) /\ Encoding
      /\ pos <= 0 /\ codec' = "decode" /\ idx' = ((n * 6) \div 8) + 1
      /\ UNCHANGED <<src, pos, digits, at, bits, acc, dst>>
  BY Zenon DEF Base62Inv, BeginDecode
<1>2. /\ pos \in Int /\ 6 * n >= 8 * L - pos /\ n \in Nat /\ L \in Nat
      /\ at = 0 /\ bits = 0 /\ acc = 0 /\ dst = <<>> /\ Len(dst) = 0
  BY <1>1 DEF Encoding
<1>3. PICK f \in Rounds : f[n] = pos
  BY Zenon, <1>1 DEF Encoding
<1>4. f[0] = 8 * L /\ (0 < n => 1 \in 1 .. n /\ 1 - 1 = 0)
  BY <1>2 DEF Rounds
<1>5. 0 < n => f[0] > 0
  BY Zenon, <1>4 DEF Rounds
<1>6. IF at < n THEN Between(f[at]) ELSE AllRead
  <2>1. CASE 0 < n
    <3>1. L > 0 /\ L - 0 = L /\ 8 * L = 8 * L - 0 /\ 0 \in 0 .. 7
      BY <1>2, <1>4, <1>5, <2>1
    <3>2. L \in 1 .. L
      BY <1>2, <3>1
    <3>3. src[L] \in Byte
      BY Zenon, <1>1, <3>2, ByteOfSource
    <3>4. src[L] % 2^0 = 0
      BY Zenon, <3>3, ByteFits
    <3> QED
      BY Zenon, <1>2, <1>4, <2>1, <3>1, <3>4 DEF Between
  <2>2. CASE ~(0 < n)
    <3>1. n = 0
      BY <1>2, <2>2
    <3>2. L = 0
      BY <1>1, <1>2, <1>3, <1>4, <3>1
    <3> QED
      BY Zenon, <1>2, <2>2, <3>2 DEF AllRead
  <2> QED
    BY Zenon, <2>1, <2>2
<1>7. EndWritten
  BY <1>2 DEF EndWritten
<1>8. 6 * n >= 8 * L /\ at \in 0 .. n /\ ((n * 6) \div 8) + 1 = ((n * 6) \div 8) + 1 - Len(dst)
  BY <1>1, <1>2
<1>9. f[n] <= 0
  BY Zenon, <1>1, <1>3
<1>10. Decoding'
  BY Zenon, <1>1, <1>6, <1>7, <1>8, <1>9
     DEF Decoding, EndWritten, Rounds, SixBits, Between, AllRead
<1> QED
  BY Zenon, <1>1, <1>10 DEF Base62Inv

\* Every round of the decoder keeps in step with the encoder.
LEMMA DecodeStep ==
    ASSUME Base62Inv, DecodeDigit
    PROVE  Base62Inv'
<1> DEFINE n == Len(digits)
<1>1. /\ src \in Seq(Byte) /\ digits \in Seq(Int) /\ Decoding /\ codec = "decode"
      /\ at < n /\ at' = at + 1 /\ UNCHANGED <<src, codec, digits>>
  BY Zenon DEF Base62Inv, DecodeDigit
<1>2. /\ EndWritten /\ idx = ((n * 6) \div 8) + 1 - Len(dst) /\ at \in 0 .. n
      /\ 6 * n >= 8 * Len(src)
  BY Zenon, <1>1 DEF Decoding
<1>3. PICK f \in Rounds : f[n] <= 0 /\ Between(f[at])
  BY Zenon, <1>1 DEF Decoding
<1>4. n \in Nat /\ at \in Nat /\ Len(dst) \in Nat /\ idx \in Int
  BY <1>1, <1>2 DEF EndWritten
<1>5. at + 1 \in 0 .. n /\ (at + 1 < n \/ (at + 1 = n /\ ~(at + 1 < n)))
  BY <1>1, <1>4
<1>6. /\ EndWritten' /\ idx' = idx - (Len(dst') - Len(dst))
      /\ \A q : q = f[at + 1] => IF at + 1 < n THEN Between(q)' ELSE AllRead'
  <2>1. CASE at + 1 < n
    BY Zenon, <1>1, <1>2, <1>3, <1>4, <2>1, InnerRound
  <2>2. CASE at + 1 = n /\ ~(at + 1 < n)
    BY Zenon, <1>1, <1>2, <1>3, <1>4, <2>2, LastRound
  <2> QED
    BY Zenon, <1>5, <2>1, <2>2
<1>7. Len(dst') \in Nat
  BY <1>6 DEF EndWritten
<1>8. idx' = ((n * 6) \div 8) + 1 - Len(dst')
  BY <1>2, <1>4, <1>6, <1>7
<1>9. f \in Rounds'
  BY Zenon, <1>1, RoundsKept
<1>10. PICK q : q = f[at + 1]
  OBVIOUS
<1>11. (IF at < n THEN Between(f[at]) ELSE AllRead)'
  <2>1. f[at'] = q /\ (at' < n' <=> at + 1 < n)
    BY Zenon, <1>1, <1>10
  <2> QED
    BY Zenon, <1>6, <1>10, <2>1 DEF Between
<1>12. Decoding'
  BY Zenon, <1>1, <1>2, <1>3, <1>5, <1>6, <1>8, <1>9, <1>11 DEF Decoding
<1> QED
  BY Zenon, <1>1, <1>12 DEF Base62Inv

\* What is left over is the first byte, and there is room for it.
LEMMA EndStep ==
    ASSUME Base62Inv, EndDecode
    PROVE  Base62Inv'
<1> DEFINE L == Len(src)
           w == Len(dst)
<1>1. /\ src \in Seq(Byte) /\ digits \in Seq(Int) /\ Decoding /\ codec' = "done"
      /\ at = Len(digits) /\ UNCHANGED <<src, digits>>
      /\ \/ bits > 0 /\ idx' = idx - 1 /\ dst' = <<acc % 256>> \o dst
         \/ bits = 0 /\ UNCHANGED <<idx, dst>>
  BY Zenon DEF Base62Inv, EndDecode
<1>2. Len(digits) \in Nat /\ L \in Nat /\ ~(at < Len(digits))
  BY <1>1
<1>3. /\ EndWritten /\ idx = ((Len(digits) * 6) \div 8) + 1 - w
      /\ 6 * Len(digits) >= 8 * L /\ AllRead
  BY Zenon, <1>1, <1>2 DEF Decoding
<1>4. w \in Nat /\ w <= L
  BY <1>3 DEF EndWritten
<1>5. idx > 0 /\ idx \in Int
  BY <1>2, <1>3, <1>4
<1>6. CASE bits = 0 /\ w = L
  <2>1. dst' = dst /\ idx' = idx /\ src' = src
    BY <1>1, <1>6
  <2>2. dst = src
    BY Zenon, <1>1, <1>3, <1>6, WholeWritten DEF EndWritten
  <2>3. idx >= 0
    BY <1>5
  <2> QED
    BY Zenon, <1>1, <2>1, <2>2, <2>3 DEF Base62Inv
<1>7. CASE bits \in 1 .. 7 /\ w + 1 = L /\ acc = src[1]
  <2>1. bits # 0 /\ L - w = 1 /\ w < L /\ 1 \in 1 .. L
    BY <1>2, <1>4, <1>7
  <2>2. src[1] \in Byte
    BY Zenon, <1>1, <2>1, ByteOfSource
  <2>3. acc % 256 = src[1]
    BY Zenon, <1>7, <2>2, ByteFits
  <2>4. idx' = idx - 1 /\ dst' = <<src[L - w]>> \o dst /\ src' = src
    BY Zenon, <1>1, <2>1, <2>3
  <2>5. EndWritten' /\ Len(dst') = w + 1
    BY Zenon, <1>1, <1>3, <2>1, <2>4, BytePrepended
  <2>6. dst' = src'
    <3>1. src' \in Seq(Byte) /\ Len(dst') = Len(src')
      BY Zenon, <1>1, <1>7, <2>4, <2>5
    <3> QED
      BY Zenon, <2>5, <3>1, WholeWritten DEF EndWritten
  <2>7. idx' >= 0
    BY <1>5, <2>4
  <2> QED
    BY Zenon, <1>1, <2>6, <2>7 DEF Base62Inv
<1> QED
  BY Zenon, <1>3, <1>6, <1>7 DEF AllRead

\* The TURN server reads from a user name what ice_servers wrote into it, whatever
\* the API key, the participant id and the expiry are: the decoder finds how many
\* bits every digit stands for, and dst_len is enough.
THEOREM UserNamesKept == Base62Spec => []UserNameKept
<1>1. Base62Init => Base62Inv
  <2> SUFFICES ASSUME Base62Init PROVE Base62Inv
    OBVIOUS
  <2> DEFINE f == [j \in 0 .. 0 |-> 8 * Len(src)]
  <2>1. src \in Seq(Byte) /\ digits \in Seq(Int) /\ Len(digits) = 0 /\ Len(src) \in Nat
    BY SourcesAssumption DEF Base62Init
  <2>2. pos = 8 * Len(src) /\ pos \in Int /\ pos <= 8 * Len(src)
        /\ 6 * 0 >= 8 * Len(src) - pos
    BY <2>1 DEF Base62Init
  <2>3. f \in Rounds /\ f[0] = pos
    <3>1. 0 \in 0 .. 0 /\ \A j \in 1 .. 0 : FALSE
      OBVIOUS
    <3> QED
      BY Zenon, <2>1, <2>2, <3>1 DEF Rounds
  <2> HIDE DEF f
  <2>4. Encoding
    BY Zenon, <2>1, <2>2, <2>3 DEF Base62Init, Encoding
  <2> QED
    BY Zenon, <2>1, <2>4 DEF Base62Init, Base62Inv
<1>2. Base62Inv /\ [Base62Next]_base62Vars => Base62Inv'
  <2> SUFFICES ASSUME Base62Inv, [Base62Next]_base62Vars PROVE Base62Inv'
    OBVIOUS
  <2>1. CASE EncodeDigit
    BY Zenon, <2>1, EncodeStep
  <2>2. CASE BeginDecode
    BY Zenon, <2>2, BeginStep
  <2>3. CASE DecodeDigit
    BY Zenon, <2>3, DecodeStep
  <2>4. CASE EndDecode
    BY Zenon, <2>4, EndStep
  <2>5. CASE UNCHANGED base62Vars
    <3>1. UNCHANGED <<src, codec, pos, digits, at, bits, acc, idx, dst>>
      BY Zenon, <2>5 DEF base62Vars
    <3>2. \A f \in Rounds : f \in Rounds'
      BY Zenon, <3>1, RoundsKept
    <3>3. Encoding => Encoding'
      BY Zenon, <3>1, <3>2 DEF Encoding
    <3>4. Decoding => Decoding'
      BY Zenon, <3>1, <3>2 DEF Decoding, EndWritten, Between, AllRead
    <3> QED
      BY Zenon, <3>1, <3>3, <3>4 DEF Base62Inv
  <2> QED
    BY Zenon, <2>1, <2>2, <2>3, <2>4, <2>5 DEF Base62Next
<1>3. Base62Inv => UserNameKept
  <2> SUFFICES ASSUME Base62Inv PROVE UserNameKept
    OBVIOUS
  <2>1. CASE codec = "encode"
    <3>1. idx = 0
      BY Zenon, <2>1 DEF Base62Inv, Encoding
    <3> QED
      BY <2>1, <3>1 DEF UserNameKept
  <2>2. CASE codec = "decode"
    <3>1. /\ EndWritten /\ idx = ((Len(digits) * 6) \div 8) + 1 - Len(dst)
          /\ 6 * Len(digits) >= 8 * Len(src) /\ src \in Seq(Byte) /\ digits \in Seq(Int)
      BY Zenon, <2>2 DEF Base62Inv, Decoding
    <3>2. Len(dst) \in Nat /\ Len(dst) <= Len(src) /\ Len(src) \in Nat /\ Len(digits) \in Nat
      BY <3>1 DEF EndWritten
    <3>3. idx >= 0
      BY <3>1, <3>2
    <3> QED
      BY <2>2, <3>3 DEF UserNameKept
  <2>3. CASE codec = "done"
    BY Zenon, <2>3 DEF Base62Inv, UserNameKept
  <2> QED
    BY Zenon, <2>1, <2>2, <2>3 DEF Base62Inv
<1> QED
  BY <1>1, <1>2, <1>3, PTL DEF Base62Spec

=============================================================================
