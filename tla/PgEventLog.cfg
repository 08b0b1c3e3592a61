SPECIFICATION Spec
CONSTANTS
    Runs = {r1, r2}
    Payloads = {a, b}
    Sessions = {s1, s2}
    NoSession = NoSession
    MaxEvents = 2
INVARIANTS
    TypeOK
    NoGaps
    Serialized
    NoLeakedLock
    AckedIsDurable
PROPERTIES
    AppendOnly
    MirrorsInMemory
    AppendReturns
