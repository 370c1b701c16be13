\* A user and an agent that took the user's identity, two Room objects, one
\* remover, one CreateRoom, one DeleteRoom and the timeout ticker.
CONSTANTS
    p1 = p1  p2 = p2  alice = alice
    Rooms = {R1, R2}
    Sids = {p1, p2}
    Identity <- TwoSessions
    Dependents = {p2}
    Removers = {e1}
    Creators = {c1}
    Deleters = {d1}
    Ticker = ticker
    MaxParticipants = 0
    EmptyTimeout = 300
    DepartureTimeout = 20
    NoRoom = NoRoom
    NoSid = NoSid
SPECIFICATION Spec
INVARIANTS
    UniqueIdentity
    RegistryExact
    CloseCompletes
    LeaveCompletes
SYMMETRY SameRooms
CHECK_DEADLOCK FALSE
