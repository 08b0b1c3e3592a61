SPECIFICATION Spec
CONSTANTS
    Steps = {"pause", "work"}
    NoStep = "none"
    Initial = "pause"
    Kind <- PauseKind
    NextStep <- PauseNext
    OnError <- NoSteps
    MaxAttempts <- WorkAttempts
    RetryDelay <- WorkBackoff
    DelayOf <- PauseDelay
    People = {}
    Nobody = "nobody"
    Chain <- NoChain
    SLAs <- NoSLAs
    AttemptCap = 2
    Workers = {w1, w2}
    Clients = {c1}
    Timer = timer
    QueueCap = 12
    SweepBound = 2
    Calls = {}
    MaxTime = 2
    FaultKinds = {"crash"}
    MaxFaults = 1
PROPERTIES
    RunEnds
    DelayFires
    PendingIsPickedUp
CHECK_DEADLOCK FALSE
