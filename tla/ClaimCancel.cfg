SPECIFICATION Spec
CONSTANTS
    Steps = {"work"}
    NoStep = "none"
    Initial = "work"
    Kind <- AllTasks
    NextStep <- NoSteps
    OnError <- NoSteps
    MaxAttempts <- Zero
    RetryDelay <- Zero
    DelayOf <- Zero
    People = {}
    Nobody = "nobody"
    Chain <- NoChain
    SLAs <- NoSLAs
    AttemptCap = 1
    Workers = {w1}
    Clients = {c1}
    Timer = timer
    QueueCap = 12
    SweepBound = 2
    Calls = {"Cancel"}
    MaxTime = 0
    FaultKinds = {}
    MaxFaults = 0
PROPERTIES
    CancelTerminates
CHECK_DEADLOCK FALSE
