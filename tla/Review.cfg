SPECIFICATION Spec
CONSTANTS
    Steps = {"review", "publish"}
    NoStep = "none"
    Initial = "review"
    Kind <- ReviewKind
    NextStep <- ReviewNext
    OnError <- NoSteps
    MaxAttempts <- Zero
    RetryDelay <- Zero
    DelayOf <- Zero
    People = {"ann", "staff", "boss"}
    Nobody = "nobody"
    Chain <- ReviewChain
    SLAs <- NoSLAs
    AttemptCap = 1
    Workers = {w1}
    Clients = {c1}
    Timer = timer
    QueueCap = 12
    SweepBound = 2
    Calls = {"Approve", "Reject", "Cancel", "Recover"}
    MaxTime = 0
    FaultKinds = {"crash", "disconnect", "dberror"}
    MaxFaults = 1
INVARIANTS
    NeverStranded
    AllLinksGranted
    GrantedByApprover
    DecidedByApprover
PROPERTIES
    FollowsWorkflow
    GrantIsActedUpon
CHECK_DEADLOCK FALSE
