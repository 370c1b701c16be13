\* Two nodes, two clients and everything that can go wrong in a cluster; sequence
\* numbers of three bits; two tracks; two recordings.
CONSTANTS
    Nodes = {A, B}
    Joins = {j1, j2}
    MaxTries = 2
    Disturbances = {"stop", "stall", "bus", "close", "reject", "create"}
    NoNode = NoNode
    SeqMod = 8
    ReportEvery = 2
    Positions <- MCPositions
    MaxPackets = 6
    NoSeq = NoSeq
    Tracks = {a, b}
    Frame = 4
    PacketSizes = {2, 4, 6}
    SilentTimeout = 2
    MaxElapsed = 4
    Recordings = {"e1", "e2"}
    EgressReqs <- MCEgressReqs
    Confs <- MCConfs
    NoValue = NoValue
    Years = {1600, 1601, 1602, 1603, 1699, 1700, 1899, 1900, 1999, 2000, 2400}
    Values <- MCValues
    Sources <- MCSources
SPECIFICATION PartsSpec
INVARIANTS
    SingleHostUndisturbed
    LossIsReal
    TotalsAddUp
    NothingLeaks
    RecordingKept
    StoredWhereAsked
    CalendarIsGregorian
    TextsKept
    UserNameKept
SYMMETRY Interchangeable
CHECK_DEADLOCK FALSE
