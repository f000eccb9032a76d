CONSTANTS
    MaxConnections = 4
    MaxReconnectAttempts = 2
    Greeting = TRUE
    MaxSockets = 3
    MaxAttempts = 2
    MaxTimers = 1
    MaxStarts = 2
    MaxMessages = 2
    MaxBuffers = 3
    MaxCaptures = 2
    MaxPairs = 3
    Null = Null
SPECIFICATION Spec
INVARIANTS
    CallAccounted
    PairingAccounted
PROPERTIES
    CallsResolve
\* The bounded connections are used up in the end.
CHECK_DEADLOCK FALSE
