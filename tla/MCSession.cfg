CONSTANTS
    Configs = {k1, k2}
    Tools = {x1}
    NoAdapter = NoAdapter
    MaxTurns = 2
    Calls = {c1, c2}
    MaxAdapters = 2
    Sessions = {s1, s2}
SPECIFICATION Spec
INVARIANTS
    AdaptersAccounted
    CaptureAccounted
    ToolsAccounted
PROPERTIES
    SessionSettles
\* The bounded configurations, turns and calls are used up in the end.
CHECK_DEADLOCK FALSE
