CONSTANTS
    MaxConnections = 3
    MaxReconnectAttempts = 1
    Greeting = FALSE
SPECIFICATION Spec
INVARIANT MutedIsUnheard
\* The bounded connections are used up in the end.
CHECK_DEADLOCK FALSE
