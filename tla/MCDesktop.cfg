CONSTANTS
    Ports = {p1, p2}
    Configured = {b1}
    NoPort = NoPort
    Turns = {t1}
    Ensures = {e1}
    Processes = {q1}
    None = None
    MalformedLimit = 0
    BufferMax = 1
    Children = {k1, k2, k3}
    NoChild = NoChild
    MaxRestarts = 2
    Keys = {f1, f2, f3}
    NoKey = NoKey
SPECIFICATION DesktopSpec
INVARIANTS
    HostLinkAccounted
    ProviderAccounted
    ServicesAccounted
PROPERTIES
    OneOutcome
    DesktopSettles
\* The bounded calls, restarts and processes are used up in the end.
CHECK_DEADLOCK FALSE
