\* One room, one dispatch, two joins whose tokens name the agent, one worker; two
\* trunks, two rules, one request of the SIP API and one call.
CONSTANTS
    Rooms = {R1}
    Dispatches = {d1}
    Joins = {j1, j2}
    Workers = {w1}
    NoRoom = NoRoom
    NoJob = NoJob
    NoWorker = NoWorker
    None = None
    Err = Err
    t1 = t1
    t2 = t2
    TrunkIds = {t1, t2}
    RuleIds = {r1, r2}
    Admins = {a1}
    TrunkConfigs <- MCTrunkConfigs
    RuleConfigs <- MCRuleConfigs
    TrunkUpdates <- MCTrunkUpdates
    RuleUpdates <- MCRuleUpdates
    Calls <- MCCalls
    Pins <- MCPins
    OutboundUpdates <- MCOutboundUpdates
    Requests <- MCRequests
    TwilioHosts = {"twilio"}
    NewCall = NewCall
SPECIFICATION ServicesSpec
INVARIANTS
    NoDispatchMissed
    TokenAgentOnce
    OneJobPerYes
    PinProtects
    MatchIsReference
    PinIsEnough
    OutboundIsOneCall
SYMMETRY Interchangeable
CHECK_DEADLOCK FALSE
