CONSTANTS
    e1 = e1
    e2 = e2
    n1 = n1
    n2 = n2
    Egresses = {e1, e2}
    Stopped = {e1}
    Nodes = {n1, n2}
    Capacity = 1
    Second = e2
CONSTRAINT SecondIsStarting
SPECIFICATION FairSpec
INVARIANTS PlacesAccounted EndedOnce StartedReported
PROPERTY StopsRecording
CHECK_DEADLOCK FALSE
