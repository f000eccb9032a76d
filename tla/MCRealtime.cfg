CONSTANTS
    Calls = {c1, c2}
    Sockets = {s1}
    NoSocket = NoSocket
    MaxAttempts = 2
    MaxPendingControl = 1
    Contents = {"end", "input"}
    MaxItems = 2
    MaxEvents = 2
    Attempts = {1, 2}
    BatchSize = 2
    MaxFragments = 4
    MaxFrames = 4
    MaxChunk = 2
    MaxCommits = 2
    Loudest = 1
    Calibration = 2
    Endpoint = 1
    PreRoll = 1
    Onset = 2
SPECIFICATION Spec
INVARIANTS
    LastWordIsTrue
    ResultReachesModel
PROPERTIES
    SpeechInOrder
    RotationEnds
\* The bounded fragments, items and frames are used up in the end.
CHECK_DEADLOCK FALSE
