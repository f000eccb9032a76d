SPECIFICATION FairSpec
CONSTANTS
    Hosts = {h1}
    LocalHosts = {h1}
    Bindings = {b1}
    Sockets = {s1, s2}
    Invocations = {i1}
    None = None
    MaxSequence = 1
    MaxRestarts = 0
PROPERTY LostConnectionSettles
\* The bounded sockets and invocations are used up in the end.
CHECK_DEADLOCK FALSE
