SPECIFICATION Spec
CONSTANTS
    Steps = {"pause", "alert"}
    NoStep = "none"
    Initial = "pause"
    Kind <- PauseKind
    NextStep <- NoSteps
    OnError <- NoSteps
    MaxAttempts <- Zero
    RetryDelay <- Zero
    DelayOf <- PauseDelay
    People = {}
    Nobody = "nobody"
    Chain <- NoChain
    SLAs <- AlertSLA
    AttemptCap = 1
    Workers = {w1}
    Clients = {c1}
    Timer = timer
    QueueCap = 12
    SweepBound = 1
    Calls = {}
    MaxTime = 1
    FaultKinds = {"dberror"}
    MaxFaults = 1
PROPERTIES
    FollowsWorkflow
    OverdueIsFlagged
    DelayFires
    PendingIsPickedUp
CHECK_DEADLOCK FALSE
