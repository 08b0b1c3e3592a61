SPECIFICATION Spec
CONSTANTS
    Steps = {"review"}
    NoStep = "none"
    Initial = "review"
    Kind <- ReviewKind
    NextStep <- NoSteps
    OnError <- NoSteps
    MaxAttempts <- Zero
    RetryDelay <- Zero
    DelayOf <- Zero
    People = {"ann", "staff", "boss"}
    Nobody = "nobody"
    Chain <- ReviewChain
    SLAs <- NoSLAs
    AttemptCap = 1
    Workers = {w1}
    Clients = {c1, c2}
    Timer = timer
    QueueCap = 12
    SweepBound = 2
    Calls = {"Approve"}
    MaxTime = 0
    FaultKinds = {}
    MaxFaults = 0
INVARIANTS
    AllLinksGranted
CHECK_DEADLOCK FALSE
