CONSTANTS
    Clients = {c1, c2}
    Threads = {t1}
    Closer = Closer
    NoClient = NoClient
SPECIFICATION Spec
INVARIANTS
    OneClientActive
CHECK_DEADLOCK FALSE
