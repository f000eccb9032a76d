SPECIFICATION Spec
CONSTANTS
    c1 = c1
    b1 = b1
    Conversations = {c1}
    Bindings = {b1}
    Turns = {t1, t2, t3}
    None = None
    BindingOf <- OneBinding
    MaxEvents = 1
    MaxSessions = 1
PROPERTIES
    SerialOrder
\* The bounded turns are used up in the end.
CHECK_DEADLOCK FALSE
