SPECIFICATION Spec
CONSTANTS
    Steps = {"work", "clean"}
    NoStep = "none"
    Initial = "work"
    Kind <- AllTasks
    NextStep <- NoSteps
    OnError <- TasksOnError
    MaxAttempts <- WorkAttempts
    RetryDelay <- Zero
    DelayOf <- Zero
    People = {}
    Nobody = "nobody"
    Chain <- NoChain
    SLAs <- NoSLAs
    AttemptCap = 2
    Workers = {w1, w2}
    Clients = {c1}
    Timer = timer
    QueueCap = 12
    SweepBound = 2
    Calls = {}
    MaxTime = 0
    FaultKinds = {}
    MaxFaults = 0
INVARIANTS
    TypeOK
    NeverStranded
    NoOrphanedStep
    RetriesExhausted
PROPERTIES
    FollowsWorkflow
    EndedStaysEnded
SYMMETRY WorkerSymmetry
CHECK_DEADLOCK FALSE
