\* Two calls of one binding while two sockets replace one another.
SPECIFICATION Spec
CONSTANTS
    Hosts = {h1}
    LocalHosts = {}
    Bindings = {b1}
    Sockets = {s1, s2}
    Invocations = {i1, i2}
    None = None
    MaxSequence = 2
    MaxRestarts = 1
SYMMETRY Symmetry
INVARIANTS
    TypeOK
    OneInFlightPerBinding
    PendingHasSocket
    StreamWellFormed
    FailedMeansNotSent
PROPERTIES
    SettledOnce
    ImplementsContract
\* The bounded sockets and invocations are used up in the end.
CHECK_DEADLOCK FALSE
