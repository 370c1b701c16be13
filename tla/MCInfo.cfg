\* One RoomService request or media callback at a time beside the session
\* reader, and one observer.
CONSTANTS
    Reader = reader
    Others = {other}
    Observer = observer
    Updates <- SmallUpdates
    Grants <- OnlyVisible
    Metadata = {"m"}
    Attributes = {"a"}
    None = None
    Capacity = 1
    MaxRequests = 4
SPECIFICATION Spec
INVARIANTS
    CurrentValueTold
    DepartureTold
    LatestIsCurrent
CHECK_DEADLOCK FALSE
