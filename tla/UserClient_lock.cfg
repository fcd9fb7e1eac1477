CONSTANTS
    Clients = {c1, c2}
    Threads = {t1, t2}
    Closer = Closer
    NoClient = NoClient
SPECIFICATION Spec
SYMMETRY Symmetry
INVARIANTS
    TypeOK
    LockHasOwner
    ProviderHasOwner
    NullUseNeedsOverlap
\* After a panic nothing happens any more, nor to a terminated provider that a
\* connection that is gone has left open.
CHECK_DEADLOCK FALSE
