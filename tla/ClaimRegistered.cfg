SPECIFICATION Spec
CONSTANTS
    Empty = Empty
    Malformed = Malformed
    Unparsable = Unparsable
    NotNumeric = NotNumeric
    Directories <- Repository
    Runs = {r1}
    Background = {sweep, worker}
    Requests = {request}
    NoLoad = NoLoad
    MaxStarts = 2
CHECK_DEADLOCK FALSE
INVARIANTS
    RegisteredIsAvailable
