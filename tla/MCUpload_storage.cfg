CONSTANTS
    Recordings = {"e1"}
    EgressReqs <- MCEgressReqs
    Confs <- MCConfs
    NoValue = NoValue
SPECIFICATION UploadSpec
INVARIANT RequestStorageUsed
CHECK_DEADLOCK FALSE
