SPECIFICATION Spec
CONSTANTS
    Workers = {w1, w2}
    Clients = {c1}
    Timer = timer
    Closers = {main, other}
    QueueCap = 2
INVARIANTS
    TypeOK
    NoTaskAfterClose
PROPERTIES
    CloseReturns
