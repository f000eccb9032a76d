\* One call while three sockets of a remote and a local Host come and go.
SPECIFICATION Spec
CONSTANTS
    Hosts = {h1, h2}
    LocalHosts = {h2}
    Bindings = {b1}
    Sockets = {s1, s2, s3}
    Invocations = {i1}
    None = None
    MaxSequence = 2
    MaxRestarts = 1
SYMMETRY Symmetry
INVARIANTS
    GenerationFencesSocket
    CancelReachesExecutor
PROPERTIES
    OnlyExecutorHeard
\* The bounded sockets and invocations are used up in the end.
CHECK_DEADLOCK FALSE
