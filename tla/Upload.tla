------------------------------- MODULE Upload -------------------------------
(***************************************************************************)
(* Where a recording goes: rec_spec resolves the destination of a           *)
(* StartEgress request (lk-egress server.rs), and the end of run_one        *)
(* uploads the finished file there (upload.rs) and deletes it.              *)
(*                                                                         *)
(* A target stands for a provider with its bucket and credentials.  A path  *)
(* is its parts between dots, and "/" stands for an empty segment of it, as *)
(* before a leading slash; a store keeps the egress whose audio an object   *)
(* holds.                                                                   *)
(***************************************************************************)
EXTENDS Naturals, Sequences

CONSTANTS
    Recordings,   \* egress ids
    EgressReqs,   \* requests that StartEgress may get
    Confs,        \* EgressConfigs a recorder may have
    NoValue       \* an Option that is None

\* An S3Upload, GCPUpload, ... of an output or of the request, or the s3, gcp, azure,
\* alioss section of the configuration: "owner" says which.  "role" and "keys" tell
\* whether it sets assume_role_arn and access_key itself.  Only S3 targets and the GCP
\* targets of a request have a proxy field.
Targets == {t \in [provider : {"s3", "gcp", "azure", "alioss"}, proxy : BOOLEAN,
                   owner : {"output", "request", "section"},
                   role : {NoValue, "own"}, keys : {NoValue, "own"}] :
               t.proxy => t.provider = "s3"
                             \/ (t.provider = "gcp" /\ t.owner # "section")}

\* An EncodedFileOutput or DirectFileOutput, or an Output of a v2 request, with the
\* target it names.
Outputs == [target : Targets \cup {NoValue}, path : Seq(STRING), mp3 : BOOLEAN]

\* "storage" is the target that a v2 request names for all of its outputs.
ASSUME UploadAssumption ==
    /\ \A c \in Confs :
          /\ {c.s3, c.gcp, c.azure, c.alioss} \subseteq Targets \cup {NoValue}
          /\ c.role \in {NoValue, "conf"}
    /\ \A r \in EgressReqs :
          /\ r.output \in Outputs \cup {NoValue}
          /\ r.file_outputs \in Seq(Outputs)
          /\ r.storage \in Targets \cup {NoValue}

Local == [provider |-> "local"]
Unsupported == [provider |-> "unsupported"]

VARIABLES
    conf,       \* EgressConfig
    reqOf,      \* reqOf[e]: the request of e
    jobOf,      \* jobOf[e]: where the job of e is
    spec,       \* spec[e]: its RecSpec
    files,      \* the local files in output_dir, by egress
    objects,    \* the object stores: <<target, path>> to egress
    outcome     \* outcome[e]: the final status

uploadVars == <<conf, reqOf, jobOf, spec, files, objects, outcome>>

UploadInit ==
    /\ conf \in Confs
    /\ reqOf \in [Recordings -> EgressReqs]
    /\ jobOf = [e \in Recordings |-> "none"]
    /\ spec = [e \in Recordings |-> NoValue]
    /\ files = {}
    /\ objects = <<>>
    /\ outcome = [e \in Recordings |-> "none"]

-----------------------------------------------------------------------------
(* rec_spec *)

\* s3_destination, gcp_destination, azure_destination and the AliOSS arms, for
\* a target of the request or a section of the configuration.  An S3 target
\* takes the role of the configuration when it names none, and then its keys
\* when it has none.
Resolve(target) ==
    LET role == IF target.role = NoValue THEN conf.role ELSE target.role
    IN IF target.proxy \/ target.provider = "alioss" THEN Unsupported
       ELSE IF target.provider # "s3" THEN target
       ELSE [target EXCEPT !.role = role,
                           !.keys = IF role # NoValue /\ @ = NoValue
                                    THEN "conf" ELSE @]

\* Mutant: a configured section that is rejected falls through to the next.
ConfSkipsUnsupported ==
    LET sections == <<conf.s3, conf.gcp, conf.azure>>
        set == {i \in 1 .. 3 : sections[i] # NoValue /\ ~sections[i].proxy}
    IN IF set = {} THEN Local
       ELSE Resolve(sections[CHOOSE i \in set : \A j \in set : i <= j])

\* conf_default: the first section that is set decides.
ConfDefault ==
    LET sections == <<conf.s3, conf.gcp, conf.azure, conf.alioss>>
        set == {i \in 1 .. 4 : sections[i] # NoValue}
    IN IF set = {} THEN Local
       ELSE Resolve(sections[CHOOSE i \in set : \A j \in set : i <= j])

FirstOf(outputs) == IF outputs = <<>> THEN NoValue ELSE Head(outputs)

\* The file output that counts, by the kind of the request.  (The output of a
\* room or track composite may be a stream: then file_outputs are looked at.  Of a
\* v2 request, kind "egress", they are its outputs.)
FileOf(req) ==
    IF req.kind = "composite"
    THEN IF req.output # NoValue THEN req.output ELSE FirstOf(req.file_outputs)
    ELSE IF req.kind = "track" THEN req.output
    ELSE FirstOf(req.file_outputs)

\* encoded_spec, direct_destination, storage_destination.  The storage of a v2
\* request is not looked at.
DestinationOf(file) ==
    IF file = NoValue \/ file.target = NoValue THEN ConfDefault
    ELSE Resolve(file.target)

\* storage_key: the filepath, with the extension, or the egress id.
StorageKey(path, e, ext) ==
    IF path = <<>> THEN <<e, ext>>
    ELSE IF path[Len(path)] = ext /\ Len(path) > 1 THEN path
    ELSE Append(path, ext)

\* Track egress and requests without a file are WAV.
Extension(req) ==
    IF req.kind # "track" /\ FileOf(req) # NoValue /\ FileOf(req).mp3
    THEN "mp3" ELSE "wav"

PathOf(req) == IF FileOf(req) = NoValue THEN <<>> ELSE FileOf(req).path

-----------------------------------------------------------------------------
(* A recording *)

\* StartEgress: a destination that is not supported is refused.
StartJob(e) ==
    /\ jobOf[e] = "none"
    /\ LET req == reqOf[e]
           dest == DestinationOf(FileOf(req))
       IN \/ /\ req.kind = "web" \/ dest = Unsupported
             /\ jobOf' = [jobOf EXCEPT ![e] = "refused"]
             /\ UNCHANGED spec
          \/ /\ req.kind # "web" /\ dest # Unsupported
             /\ jobOf' = [jobOf EXCEPT ![e] = "recording"]
             /\ spec' = [spec EXCEPT ![e] =
                   [dest |-> dest,
                    key |-> StorageKey(PathOf(req), e, Extension(req))]]
    /\ UNCHANGED <<conf, reqOf, files, objects, outcome>>

\* The recorder cannot join, or run_recording returns an error.
RunFails(e) ==
    /\ jobOf[e] = "recording"
    /\ jobOf' = [jobOf EXCEPT ![e] = "failed"]
    /\ outcome' = [outcome EXCEPT ![e] = "FAILED"]
    /\ UNCHANGED <<conf, reqOf, spec, files, objects>>

\* run_recording ends, and has written the file.
FinishRecording(e) ==
    /\ jobOf[e] = "recording"
    /\ jobOf' = [jobOf EXCEPT ![e] = "recorded"]
    /\ files' = files \cup {e}
    /\ UNCHANGED <<conf, reqOf, spec, objects, outcome>>

\* ... or without a packet: an MP3 encoder that got nothing has written nothing.
FinishSilent(e) ==
    /\ jobOf[e] = "recording"
    /\ Extension(reqOf[e]) = "mp3"
    /\ jobOf' = [jobOf EXCEPT ![e] = "silent"]
    /\ UNCHANGED <<conf, reqOf, spec, files, objects, outcome>>

\* Path::from drops the empty segments of a key.
ObjectPath(key) == SelectSeq(key, LAMBDA part : part # "/")

\* The object: the bucket of its target, and its path.
PlaceOf(e) == <<spec[e].dest.provider, spec[e].dest.owner, ObjectPath(spec[e].key)>>

\* FileInfo.location is made of the key as it is.
LocationOf(e) == <<spec[e].dest.provider, spec[e].dest.owner, spec[e].key>>

\* put_opts with PutMode::Overwrite.
Put(e) == objects' = [o \in DOMAIN objects \cup {PlaceOf(e)} |->
                         IF o = PlaceOf(e) THEN e ELSE objects[o]]

\* upload: a recording that is not to stay local is put.
UploadFile(e) ==
    /\ jobOf[e] = "recorded"
    /\ e \in files
    /\ jobOf' = [jobOf EXCEPT ![e] = "uploaded"]
    /\ IF spec[e].dest = Local THEN UNCHANGED objects ELSE Put(e)
    /\ UNCHANGED <<conf, reqOf, spec, files, outcome>>

\* Mutant: the file goes whether it was uploaded or not.
FailAndRemove(e) ==
    /\ jobOf[e] = "recorded"
    /\ jobOf' = [jobOf EXCEPT ![e] = "done"]
    /\ outcome' = [outcome EXCEPT ![e] = "FAILED"]
    /\ files' = files \ {e}
    /\ UNCHANGED <<conf, reqOf, spec, objects>>

\* There is no file, it cannot be read, the credentials, the role or the store refuse
\* it, or the store took it and its answer is lost: EGRESS_FAILED, and the file stays.
UploadFails(e) ==
    /\ jobOf[e] \in {"recorded", "silent"}
    /\ jobOf' = [jobOf EXCEPT ![e] = IF @ = "silent" THEN "failed" ELSE "done"]
    /\ outcome' = [outcome EXCEPT ![e] = "FAILED"]
    /\ \/ UNCHANGED objects
       \/ jobOf[e] = "recorded" /\ spec[e].dest # Local /\ Put(e)
    /\ UNCHANGED <<conf, reqOf, spec, files>>

\* "Uploaded recordings don't need to stay on local disk."
RemoveLocal(e) ==
    /\ jobOf[e] = "uploaded"
    /\ jobOf' = [jobOf EXCEPT ![e] = "reporting"]
    /\ files' = IF spec[e].dest = Local THEN files ELSE files \ {e}
    /\ UNCHANGED <<conf, reqOf, spec, objects, outcome>>

ReportComplete(e) ==
    /\ jobOf[e] = "reporting"
    /\ jobOf' = [jobOf EXCEPT ![e] = "done"]
    /\ outcome' = [outcome EXCEPT ![e] = "COMPLETE"]
    /\ UNCHANGED <<conf, reqOf, spec, files, objects>>

UploadNext ==
    \E e \in Recordings :
        \/ StartJob(e)
        \/ RunFails(e)
        \/ FinishRecording(e)
        \/ FinishSilent(e)
        \/ UploadFile(e)
        \/ UploadFails(e)
        \/ RemoveLocal(e)
        \/ ReportComplete(e)

UploadSpec == UploadInit /\ [][UploadNext]_uploadVars

-----------------------------------------------------------------------------
(* Properties *)

Started(e) == jobOf[e] \notin {"none", "refused"}

\* Two recordings that were given one place.
Collide(e, f) ==
    /\ e # f
    /\ Started(e) /\ Started(f)
    /\ spec[e].dest # Local /\ spec[f].dest # Local
    /\ PlaceOf(e) = PlaceOf(f)

\* From the end of the recording on its audio exists, on the disk of the
\* recorder or in the object of its key, through failed uploads and the deletion
\* of the file; only a recording that was given the same place can take it away.
RecordingKept ==
    \A e \in Recordings :
        jobOf[e] \in {"recorded", "uploaded", "reporting", "done"} =>
            \/ e \in files
            \/ /\ PlaceOf(e) \in DOMAIN objects
               /\ \/ objects[PlaceOf(e)] = e
                  \/ \E f \in Recordings : Collide(e, f)

\* What was asked for: the target of the output, which "falls back to request, then
\* server"; of the server's sections the first that is set.
Asked(req) ==
    LET file == FileOf(req)
        candidates == <<IF file = NoValue THEN NoValue ELSE file.target, req.storage,
                        conf.s3, conf.gcp, conf.azure, conf.alioss>>
        set == {i \in 1 .. 6 : candidates[i] # NoValue}
    IN IF set = {} THEN Local
       ELSE candidates[CHOOSE i \in set : \A j \in set : i <= j]

\* The target is left to the storage of the request.
LeftToRequest(req) ==
    req.storage # NoValue /\ (FileOf(req) = NoValue \/ FileOf(req).target = NoValue)

\* The destination of e is what was asked for, with the role and the keys named there.
GoesTo(e, asked) ==
    /\ spec[e].dest.provider = asked.provider
    /\ asked # Local =>
          /\ spec[e].dest.owner = asked.owner
          /\ asked.role \in {NoValue, spec[e].dest.role}
          /\ asked.keys \in {NoValue, spec[e].dest.keys}

\* An upload that cannot be done is neither redirected nor reported as done.  Unless
\* the target is left to the storage of the request, which rec_spec does not read (see
\* RequestStorageUsed), a recording goes to the first target named for it, or is
\* refused because this recorder cannot use that one (a proxy, AliOSS), although
\* another section is set or the disk would do.  In every case it is on record as
\* complete only when it is at its destination, and an object holds what was meant
\* for that place.
StoredWhereAsked ==
    /\ \A e \in Recordings :
          LET asked == Asked(reqOf[e])
          IN /\ ~LeftToRequest(reqOf[e]) =>
                   /\ jobOf[e] = "refused" =>
                         \/ reqOf[e].kind = "web"
                         \/ asked.provider = "alioss"
                         \/ asked # Local /\ asked.proxy
                   /\ Started(e) => GoesTo(e, asked) /\ (asked # Local => ~asked.proxy)
             /\ outcome[e] = "COMPLETE" =>
                   IF spec[e].dest = Local THEN e \in files
                   ELSE PlaceOf(e) \in DOMAIN objects
    /\ \A o \in DOMAIN objects : PlaceOf(objects[o]) = o

-----------------------------------------------------------------------------
(* What the documentation says and the code does not keep *)

\* "Per-output storage override (falls back to request, then server)": rec_spec falls
\* back to the server at once.
RequestStorageUsed == \A e \in Recordings : Started(e) => GoesTo(e, Asked(reqOf[e]))

\* The location that is reported names the object: not if the filepath has a leading
\* slash.
LocationNamesObject ==
    \A e \in Recordings :
        outcome[e] = "COMPLETE" /\ spec[e].dest # Local => LocationOf(e) \in DOMAIN objects

\* No recording takes another one's place (the code does not keep this).
NoOverwrite == \A e, f \in Recordings : ~Collide(e, f)

=============================================================================
