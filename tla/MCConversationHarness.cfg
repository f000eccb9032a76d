SPECIFICATION Spec
CONSTANTS
    c1 = c1
    b1 = b1
    Conversations = {c1}
    Bindings = {b1}
    Turns = {t1, t2, t3}
    None = None
    BindingOf <- OneBinding
    MaxEvents = 1
    MaxSessions = 2
SYMMETRY Symmetry
INVARIANTS
    TypeOK
    TurnsAccounted
    ClientHearsOutcome
    MappedOnce
PROPERTIES
    EndedStaysSilent
\* The bounded turns are used up in the end.
CHECK_DEADLOCK FALSE
