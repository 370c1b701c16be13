\* The joining session, two reconnects and another caller of end_participant; a
\* relay with three messages each way; two participants who speak or do not.
CONSTANTS
    Sessions = {s1, s2, s3}
    First = s1
    Removers = {e1}
    NoSession = NoSession
    MaxRequests = 3
    MaxResponses = 3
    CloseEntry = CloseEntry
    Speakers = {a, b}
    Interval = 3
    SmoothIntervals = 2
    MinPercentile = 40
    MaxChanges = 3
SPECIFICATION TasksSpec
INVARIANTS
    NeverOrphaned
    NoGap
PROPERTIES
    OrphanRemoved
    RelayDelivers
    SpeakerAnnounced
    SpeakerDropped
CHECK_DEADLOCK FALSE
