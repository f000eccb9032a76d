CONSTANTS
    Hosts = {h1, h2}
    Calls = {c1, c2, c3}
    None = None
    MaxRestarts = 1
    GatewayHosts = {g1}
    Bindings = {b1}
    Sockets = {s1, s2, s3}
    Invocations = {i1}
    MaxSequence = 1
    GatewayRestarts = 0
    Conversations = {v1}
    Turns = {t1, t2}
    MaxEvents = 1
    MaxSessions = 2
SPECIFICATION RecoverySpec
INVARIANTS
    RegistryTypeOK
    OneActiveHost
    AnswersAreDurable
PROPERTIES
    ImplementsRegistryContract
    RelayRecovers
\* The bounded calls, sockets and turns are used up in the end.
CHECK_DEADLOCK FALSE
