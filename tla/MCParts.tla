------------------------------ MODULE MCParts ------------------------------
(***************************************************************************)
(* Parts of the system that share no state with another module, checked     *)
(* side by side for what they must never do: a behaviour is one of Cluster, *)
(* RtpStats, Mixer, Upload, WktSerde or Base62, chosen at the start, while  *)
(* the others rest.                                                         *)
(***************************************************************************)
EXTENDS MCCluster, MCUpload, RtpStats, Mixer, WktSerde, Base62

VARIABLE part

partsVars == <<part, vars, statsVars, mixerVars, uploadVars, wktVars, base62Vars>>

-----------------------------------------------------------------------------
(* The instances *)

\* With 8 sequence numbers the stream wraps around, is longer than the number
\* space and can jump.
MCPositions == -2 .. 7

\* The values where a text changes its form.  The walk through the years where
\* the calendar has its exceptions needs no values, so they stay in one year.
MCValues ==
    {[seconds |-> s, nanos |-> n, offset |-> o] :
        s \in {-86401, -1, 0, 1, 951782399, 951782400},
        n \in {-500000000, -1, 0, 1, 1000, 999999999},
        o \in {0, 19800, -3600}}
MCZero == [seconds |-> 0, nanos |-> 0, offset |-> 0]

\* All strings of two bytes that begin with some bytes, and some of three.
MCSources ==
    {<<a, b>> : a \in {0, 1, 15, 30, 31, 62, 63, 127, 128, 240, 255},
                b \in 0 .. 255}
    \cup {<<a, b, c>> : a \in {1, 31, 63, 65, 127, 248, 255},
                        b \in {0, 30, 31, 62, 63, 120, 124, 248, 255},
                        c \in {0, 15, 30, 31, 62, 63, 64, 94, 95, 158, 190, 255}}

-----------------------------------------------------------------------------
(* At rest *)

UploadRest ==
    /\ conf = [s3 |-> NoValue, gcp |-> NoValue, azure |-> NoValue, alioss |-> NoValue,
               role |-> NoValue]
    /\ reqOf = [e \in Recordings |-> Request("web", NoValue, <<>>)]
    /\ jobOf = [e \in Recordings |-> "none"]
    /\ spec = [e \in Recordings |-> NoValue]
    /\ files = {}
    /\ objects = <<>>
    /\ outcome = [e \in Recordings |-> "none"]
WktRest ==
    /\ dayNumber = 0
    /\ date = NewYear(1970)
    /\ value = MCZero
Base62Rest ==
    /\ src = <<>>
    /\ codec = "off"
    /\ pos = 0 /\ digits = <<>>
    /\ at = 0 /\ bits = 0 /\ acc = 0 /\ idx = 0 /\ dst = <<>>

\* At rest a cluster has its clients at no node, so that the nodes stay
\* interchangeable.
ClusterRest ==
    /\ owner = NoNode
    /\ alive = Nodes
    /\ up = Nodes
    /\ hosted = {}
    /\ node = [t \in Tasks |-> NoNode]
    /\ routePc = [j \in Joins |-> "idle"]
    /\ seen = [j \in Joins |-> NoNode]
    /\ tries = [j \in Joins |-> 0]
    /\ releasePc = [t \in Tasks |-> "idle"]
    /\ disturbed = FALSE

PartsInit ==
    /\ part \in {"cluster", "stats", "mixer", "upload", "wkt", "base62"}
    /\ StatsInit /\ MixerInit
    /\ IF part = "cluster" THEN Init ELSE ClusterRest
    /\ IF part = "upload" THEN UploadInit ELSE UploadRest
    /\ IF part = "wkt"
       THEN WktInit /\ (value # MCZero => date.year = 2400)
       ELSE WktRest
    /\ IF part = "base62" THEN Base62Init ELSE Base62Rest

PartsNext ==
    /\ \/ /\ part = "cluster" /\ Next
          /\ UNCHANGED <<statsVars, mixerVars, uploadVars, wktVars, base62Vars>>
       \/ /\ part = "stats" /\ StatsNext
          /\ UNCHANGED <<vars, mixerVars, uploadVars, wktVars, base62Vars>>
       \/ /\ part = "mixer" /\ MixerNext
          /\ UNCHANGED <<vars, statsVars, uploadVars, wktVars, base62Vars>>
       \/ /\ part = "upload" /\ UploadNext
          /\ UNCHANGED <<vars, statsVars, mixerVars, wktVars, base62Vars>>
       \/ /\ part = "wkt" /\ WktNext
          /\ UNCHANGED <<vars, statsVars, mixerVars, uploadVars, base62Vars>>
       \/ /\ part = "base62" /\ Base62Next
          /\ UNCHANGED <<vars, statsVars, mixerVars, uploadVars, wktVars>>
    /\ UNCHANGED part

PartsSpec == PartsInit /\ [][PartsNext]_partsVars

=============================================================================
