SPECIFICATION Spec
CONSTANTS
    Empty = Empty
    Malformed = Malformed
    Unparsable = Unparsable
    NotNumeric = NotNumeric
    Directories <- Repository
    Runs = {r1, r2}
    Background = {sweep, worker}
    Requests = {request}
    NoLoad = NoLoad
    MaxStarts = 3
CHECK_DEADLOCK FALSE
INVARIANTS
    TypeOK
    DefinitionsUsable
    RunsResolvable
    StoreIsDeployed
    LatestIsHighest
