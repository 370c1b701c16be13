\* The joining session and one reconnect.
CONSTANTS
    Sessions = {s1, s2}
    First = s1
    Removers = {}
    NoSession = NoSession
SPECIFICATION Spec
PROPERTY OlderGraceSkips
CHECK_DEADLOCK FALSE
