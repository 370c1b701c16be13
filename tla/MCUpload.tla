------------------------------ MODULE MCUpload ------------------------------
(* Requests and configurations of Upload: a target of each kind and on each  *)
(* level, the forms of a path, both formats.                                 *)
EXTENDS Upload

Target(p, x, r, k) ==
    [provider |-> p, proxy |-> x, owner |-> "output", role |-> r, keys |-> k]
Section(p, x) ==
    [provider |-> p, proxy |-> x, owner |-> "section", role |-> NoValue,
     keys |-> IF p = "s3" THEN NoValue ELSE "own"]
Output(t, path, mp3) == [target |-> t, path |-> path, mp3 |-> mp3]
Request(kind, output, outputs) ==
    [kind |-> kind, output |-> output, file_outputs |-> outputs, storage |-> NoValue]

OwnS3 == Target("s3", FALSE, NoValue, "own")

MCEgressReqs ==
    {Request("composite", Output(t, <<"x">>, FALSE), <<>>) :
        t \in {OwnS3, Target("s3", FALSE, "own", NoValue),
               Target("s3", TRUE, NoValue, "own"),
               Target("gcp", TRUE, NoValue, "own"),
               Target("alioss", FALSE, NoValue, "own"), NoValue}}
    \cup {Request("composite", Output(OwnS3, p, m), <<>>) :
             p \in {<<>>, <<"x">>, <<"/", "x", "wav">>}, m \in BOOLEAN}
    \cup {Request("track", o, <<Output(OwnS3, <<"x">>, FALSE)>>) :
             o \in {NoValue, Output(Target("gcp", FALSE, NoValue, "own"),
                                    <<"x">>, TRUE)}}
    \cup {Request("composite", NoValue, <<Output(OwnS3, <<"x">>, FALSE)>>),
          Request("participant", NoValue, <<Output(NoValue, <<>>, TRUE)>>),
          Request("participant", NoValue, <<>>),
          Request("web", NoValue, <<>>)}
    \cup {[Request("egress", NoValue, <<Output(t, <<"x">>, FALSE)>>)
              EXCEPT !.storage = [OwnS3 EXCEPT !.owner = "request"]] :
             t \in {NoValue, Target("gcp", FALSE, NoValue, "own")}}

MCConfs ==
    {[s3 |-> s, gcp |-> g, azure |-> a, alioss |-> o, role |-> r] :
        <<s, g, a, o, r>> \in
            {<<NoValue, NoValue, NoValue, NoValue, NoValue>>,
             <<NoValue, NoValue, NoValue, Section("alioss", FALSE), NoValue>>,
             <<NoValue, NoValue, Section("azure", FALSE),
               Section("alioss", FALSE), NoValue>>,
             <<NoValue, Section("gcp", FALSE), Section("azure", FALSE), NoValue,
               NoValue>>,
             <<Section("s3", TRUE), Section("gcp", FALSE), NoValue, NoValue,
               "conf">>,
             <<Section("s3", FALSE), Section("gcp", FALSE), NoValue, NoValue,
               "conf">>}}
=============================================================================
